--------------------------- MODULE LearningProofs ---------------------------
(***************************************************************************)
(* The components of Learning, for any learners, lessons, handlers,        *)
(* sweeps and reports, whatever their interleaving: notices are sent once  *)
(* and reviews climb, what is observed in a sitting is forgotten only with *)
(* its page, badges that are earned are held and streaks count days, an    *)
(* outcome that was told stands, retries keep to the policy, peers grade   *)
(* on enough reviews, and every variable has its type.  Each part has its  *)
(* own inductive invariant.                                                *)
(***************************************************************************)
EXTENDS Learning, FiniteSetTheorems, SequenceTheorems, WellFoundedInduction, TLAPS

----------------------------------------------------------------------------
(* Reminders: types.                                                       *)

Pcs == {"idle", "claim", "compose", "release", "deliver", "advance"}
Sweepings == [pc : Pcs, key : R!Keys, due : SUBSET Reviews,
              index : [Reviews -> 0..R!Rungs]]
Items == [completed : 0..MaxDay, index : 0..R!Rungs, done : BOOLEAN]

LEMMA RungsPositive == R!Rungs \in Nat \ {0}
BY RemindersAssumption DEF R!Rungs

\* A rung that is left is below the last, in a row as in what a sweep read.
Climbable ==
  /\ \A r \in Reviews : ~item[r].done => item[r].index < R!Rungs
  /\ \A s \in Sweeps : \A r \in sweep[s].due : sweep[s].index[r] < R!Rungs

NoticesTyped == R!TypeOK /\ Climbable

LEMMA NoticesTypedInit == R!Init => NoticesTyped
<1> SUFFICES ASSUME R!Init PROVE NoticesTyped
  OBVIOUS
<1>1. R!Rungs \in Nat \ {0} /\ MaxDay \in Nat \ {0} /\ MaxFails \in Nat
  BY RungsPositive, BoundsAssumption, AttemptsAssumption
<1>2. item \in [Reviews -> Items] /\ Climbable
  BY <1>1 DEF R!Init, R!NoItem, R!Idle, Items, Climbable
<1>3. sweep \in [Sweeps -> Sweepings]
  BY <1>1, RemindersAssumption DEF R!Init, R!Idle, Sweepings, Pcs, R!Keys
<1>4. QED
  BY <1>1, <1>2, <1>3 DEF R!Init, NoticesTyped, R!TypeOK, Items, Sweepings, Pcs

LEMMA IdleSweep == R!Idle \in Sweepings /\ R!Idle.due = {} /\ R!Idle.pc = "idle"
BY RungsPositive, RemindersAssumption, BoundsAssumption
   DEF R!Idle, Sweepings, Pcs, R!Keys

\* A sweep goes on to another step.
LEMMA SweepingMoves ==
  ASSUME NEW w \in Sweepings, NEW pc \in Pcs
  PROVE  /\ [w EXCEPT !.pc = pc] \in Sweepings
         /\ [w EXCEPT !.pc = pc].pc = pc /\ [w EXCEPT !.pc = pc].key = w.key
         /\ [w EXCEPT !.pc = pc].due = w.due
         /\ [w EXCEPT !.pc = pc].index = w.index
BY DEF Sweepings

LEMMA DateOfNotice ==
  ASSUME NoticesTyped, NEW kind \in Kinds, R!Coming(kind)
  PROVE  R!DateOf(kind) \in 0..MaxDay
<1>1. today \in 1..MaxDay /\ MaxDay \in Nat
  BY BoundsAssumption DEF NoticesTyped, R!TypeOK
<1>2. today - (today % Week) \in 0..MaxDay
  <2>1. today % Week \in 0..(Week - 1)
    BY <1>1, RemindersAssumption
  <2>2. today % Week <= today
    <3>1. CASE today < Week
      BY <1>1, <3>1, RemindersAssumption
    <3>2. CASE today >= Week
      BY <1>1, <2>1, <3>2, RemindersAssumption
    <3>3. QED
      BY <1>1, <3>1, <3>2, RemindersAssumption
  <2>3. QED
    BY <1>1, <2>1, <2>2, RemindersAssumption
<1>3. kind = "kickoff" => Starts \in 0..MaxDay
  BY <1>1, RemindersAssumption DEF R!Coming
<1>4. QED
  BY <1>1, <1>2, <1>3 DEF R!DateOf

\* What a sweep starts with.
LEMMA StartReads ==
  ASSUME NoticesTyped, NEW s \in Sweeps, NEW kind \in Kinds, R!Start(s, kind)
  PROVE  \E due \in SUBSET Reviews :
           LET w == [pc |-> "claim", key |-> <<kind, R!DateOf(kind)>>, due |-> due,
                     index |-> [r \in Reviews |-> item[r].index]]
           IN  /\ sweep' = [sweep EXCEPT ![s] = w]
               /\ w \in Sweepings
               /\ due # {} => kind = "digest"
               /\ \A r \in due : ~item[r].done
<1>1. R!Coming(kind)
  BY DEF R!Start
<1>2. PICK due \in IF kind = "digest" THEN R!Picks(R!Due) ELSE {{}} :
        sweep' = [sweep EXCEPT ![s] =
          [pc |-> "claim", key |-> <<kind, R!DateOf(kind)>>, due |-> due,
           index |-> [r \in Reviews |-> item[r].index]]]
  BY DEF R!Start
<1>3. /\ due \in SUBSET Reviews
      /\ due # {} => kind = "digest"
      /\ \A r \in due : ~item[r].done
  BY <1>2 DEF R!Picks, R!Due
<1>4. <<kind, R!DateOf(kind)>> \in R!Keys
  BY <1>1, DateOfNotice DEF R!Keys
<1>5. [r \in Reviews |-> item[r].index] \in [Reviews -> 0..R!Rungs]
  BY DEF NoticesTyped, R!TypeOK
<1>6. [pc |-> "claim", key |-> <<kind, R!DateOf(kind)>>, due |-> due,
       index |-> [r \in Reviews |-> item[r].index]] \in Sweepings
  BY <1>3, <1>4, <1>5 DEF Sweepings, Pcs
<1>7. QED
  BY <1>2, <1>3, <1>6

\* What a sweep does to itself.
LEMMA SweepMoves ==
  ASSUME NoticesTyped, NEW s \in Sweeps, NEW w \in Sweepings,
         \A r \in w.due : w.index[r] < R!Rungs,
         sweep' = [sweep EXCEPT ![s] = w]
  PROVE  /\ sweep' \in [Sweeps -> Sweepings] /\ sweep'[s] = w
         /\ \A t \in Sweeps : t # s => sweep'[t] = sweep[t]
         /\ \A t \in Sweeps : \A r \in sweep'[t].due :
              sweep'[t].index[r] < R!Rungs
<1>1. sweep \in [Sweeps -> Sweepings]
  BY DEF NoticesTyped, R!TypeOK, Sweepings, Pcs
<1>2. /\ sweep' \in [Sweeps -> Sweepings] /\ sweep'[s] = w
      /\ \A t \in Sweeps : t # s => sweep'[t] = sweep[t]
  BY <1>1
<1>3. ASSUME NEW t \in Sweeps, NEW r \in sweep'[t].due
      PROVE  sweep'[t].index[r] < R!Rungs
  <2>1. CASE t = s
    BY <1>2, <1>3, <2>1
  <2>2. CASE t # s
    BY <1>2, <1>3, <2>2 DEF NoticesTyped, Climbable
  <2>3. QED
    BY <2>1, <2>2
<1>4. QED
  BY <1>2, <1>3

LEMMA ItemsStayTyped ==
  ASSUME NoticesTyped, item' = item,
         sweep' \in [Sweeps -> Sweepings],
         \A t \in Sweeps : \A r \in sweep'[t].due :
           sweep'[t].index[r] < R!Rungs,
         claimed' \subseteq R!Keys, today' = today,
         delivered' \in [R!Keys -> 0..2], composed' \in [R!Keys -> 0..2],
         named' \in [Reviews -> Nat], fails' \in 0..MaxFails
  PROVE  NoticesTyped'
BY DEF NoticesTyped, R!TypeOK, Climbable, Sweepings, Pcs, R!Keys, R!Rungs

----------------------------------------------------------------------------
(* Reminders: the row that is claimed is a token.  One sweep at a time works *)
(* on a notice, from its claim on; what it has not sent, nobody has; and the *)
(* claim is given back only by a sweep whose notice was never composed.      *)

Working == {"compose", "release", "deliver", "advance"}

Claims(w, cl, de, co, fl) ==
  /\ w.pc \in Working => w.key \in cl
  /\ w.pc \in {"compose", "release"} => w.key[1] = "coach" /\ co[w.key] = 0
  /\ w.pc \in {"compose", "release", "deliver"} => de[w.key] = 0
  /\ w.pc = "release" => fl > 0

Alone ==
  \A s, t \in Sweeps :
    s # t /\ sweep[s].pc \in Working /\ sweep[t].pc \in Working
      => sweep[s].key # sweep[t].key

\* Sent, or a sweep is at it.
Tended(k) ==
  \/ delivered[k] = 1
  \/ \E s \in Sweeps : sweep[s].pc \in {"compose", "deliver"} /\ sweep[s].key = k

Sent ==
  \A k \in R!Keys :
    /\ delivered[k] <= 1 /\ composed[k] <= 1
    /\ k \notin claimed => delivered[k] = 0 /\ composed[k] = 0
    /\ k \in claimed /\ fails = 0 => Tended(k)

NoticesInv ==
  /\ \A s \in Sweeps : Claims(sweep[s], claimed, delivered, composed, fails)
  /\ Alone
  /\ Sent

\* A sweep that works on no notice, or on one that was claimed just now.
LEMMA AloneKept ==
  ASSUME Alone, NEW s \in Sweeps,
         \A t \in Sweeps : t # s => sweep'[t] = sweep[t],
         sweep'[s].pc \in Working =>
           \/ sweep[s].pc \in Working /\ sweep'[s].key = sweep[s].key
           \/ \A t \in Sweeps : sweep[t].pc \in Working
                                  => sweep[t].key # sweep'[s].key
  PROVE  Alone'
BY DEF Alone

LEMMA NoticesStart ==
  ASSUME NoticesTyped, NoticesInv,
         NEW s \in Sweeps, NEW kind \in Kinds, R!Start(s, kind)
  PROVE  NoticesTyped' /\ NoticesInv'
<1>1. PICK due \in SUBSET Reviews :
        LET w == [pc |-> "claim", key |-> <<kind, R!DateOf(kind)>>, due |-> due,
                  index |-> [r \in Reviews |-> item[r].index]]
        IN  /\ sweep' = [sweep EXCEPT ![s] = w]
            /\ w \in Sweepings
            /\ due # {} => kind = "digest"
            /\ \A r \in due : ~item[r].done
  BY StartReads
<1> DEFINE w == [pc |-> "claim", key |-> <<kind, R!DateOf(kind)>>, due |-> due,
                 index |-> [r \in Reviews |-> item[r].index]]
<1>2. /\ w.pc = "claim" /\ w \in Sweepings /\ sweep' = [sweep EXCEPT ![s] = w]
      /\ \A r \in w.due : w.index[r] < R!Rungs
  BY <1>1 DEF NoticesTyped, Climbable
<1>3. /\ UNCHANGED <<item, claimed, today, delivered, composed, named, fails>>
      /\ sweep[s].pc = "idle"
  BY DEF R!Start, R!At, R!rowVars, R!historyVars
<1> HIDE DEF w
<1>4. /\ sweep' \in [Sweeps -> Sweepings] /\ sweep'[s] = w
      /\ \A t \in Sweeps : t # s => sweep'[t] = sweep[t]
      /\ \A t \in Sweeps : \A r \in sweep'[t].due :
           sweep'[t].index[r] < R!Rungs
  BY <1>2, SweepMoves
<1>5. NoticesTyped'
  BY <1>3, <1>4, ItemsStayTyped DEF NoticesTyped, R!TypeOK
<1>6. \A t \in Sweeps : Claims(sweep'[t], claimed', delivered', composed', fails')
  BY <1>2, <1>3, <1>4 DEF NoticesInv, Claims, Working
<1>7. Alone'
  BY <1>2, <1>4, AloneKept DEF NoticesInv, Working
<1>8. Sent'
  BY <1>3, <1>4 DEF NoticesInv, Sent, Tended, R!Keys
<1>9. QED
  BY <1>5, <1>6, <1>7, <1>8 DEF NoticesInv

LEMMA NoticesClaim ==
  ASSUME NoticesTyped, NoticesInv, NEW s \in Sweeps, R!Claim(s)
  PROVE  NoticesTyped' /\ NoticesInv'
<1> DEFINE k == sweep[s].key
<1>1. /\ UNCHANGED <<item, today, delivered, composed, named, fails>>
      /\ sweep[s].pc = "claim" /\ sweep[s] \in Sweepings
      /\ \A r \in sweep[s].due : sweep[s].index[r] < R!Rungs
      /\ k \in R!Keys
  BY DEF R!Claim, R!At, R!historyVars, NoticesTyped, R!TypeOK, Sweepings, Pcs,
         Climbable
<1>2. PICK w \in Sweepings :
        /\ sweep' = [sweep EXCEPT ![s] = w]
        /\ \A r \in w.due : w.index[r] < R!Rungs
        /\ \/ w.pc = "idle" /\ claimed' = claimed
           \/ /\ k \notin claimed /\ claimed' = claimed \cup {k} /\ w.key = k
              /\ w.pc = IF k[1] = "coach" THEN "compose" ELSE "deliver"
  <2>1. CASE R!Taken(s)
    <3>1. sweep' = [sweep EXCEPT ![s] = R!Idle] /\ claimed' = claimed
      BY <2>1 DEF R!Claim, R!Done
    <3>2. QED
      BY <3>1, IdleSweep
  <2>2. CASE ~R!Taken(s)
    <3> DEFINE pc == IF k[1] = "coach" THEN "compose" ELSE "deliver"
    <3>1. /\ sweep' = [sweep EXCEPT ![s] = [sweep[s] EXCEPT !.pc = pc]]
          /\ k \notin claimed /\ claimed' = claimed \cup {k}
      BY <2>2 DEF R!Claim, R!Goto, R!Taken
    <3>2. pc \in Pcs
      BY DEF Pcs
    <3> HIDE DEF pc
    <3>3. /\ [sweep[s] EXCEPT !.pc = pc] \in Sweepings
          /\ [sweep[s] EXCEPT !.pc = pc].pc = pc
          /\ [sweep[s] EXCEPT !.pc = pc].key = k
          /\ [sweep[s] EXCEPT !.pc = pc].due = sweep[s].due
          /\ [sweep[s] EXCEPT !.pc = pc].index = sweep[s].index
      BY <1>1, <3>2, SweepingMoves
    <3>4. QED
      BY <1>1, <3>1, <3>3 DEF pc
  <2>3. QED
    BY <2>1, <2>2
<1> HIDE DEF k
<1>3. /\ sweep' \in [Sweeps -> Sweepings] /\ sweep'[s] = w
      /\ \A t \in Sweeps : t # s => sweep'[t] = sweep[t]
      /\ \A t \in Sweeps : \A r \in sweep'[t].due :
           sweep'[t].index[r] < R!Rungs
  BY <1>2, SweepMoves
<1>4. NoticesTyped'
  <2>1. claimed' \subseteq R!Keys
    BY <1>1, <1>2 DEF NoticesTyped, R!TypeOK
  <2>2. QED
    BY <1>1, <1>3, <2>1, ItemsStayTyped DEF NoticesTyped, R!TypeOK
<1>5. \A t \in Sweeps : Claims(sweep'[t], claimed', delivered', composed', fails')
  <2>1. \A t \in Sweeps : t # s =>
          Claims(sweep'[t], claimed', delivered', composed', fails')
    BY <1>1, <1>2, <1>3 DEF NoticesInv, Claims
  <2>2. k \notin claimed => delivered[k] = 0 /\ composed[k] = 0
    BY <1>1 DEF NoticesInv, Sent
  <2>3. Claims(w, claimed', delivered', composed', fails')
    BY <1>1, <1>2, <2>2 DEF Claims, Working
  <2>4. QED
    BY <1>3, <2>1, <2>3
<1>6. Alone'
  <2>1. ASSUME w.pc \in Working
        PROVE  \A t \in Sweeps : sweep[t].pc \in Working => sweep[t].key # w.key
    BY <1>2, <2>1 DEF NoticesInv, Claims, Working
  <2>2. QED
    BY <1>3, <2>1, AloneKept DEF NoticesInv
<1>7. Sent'
  <2>1. ASSUME NEW j \in R!Keys, j \in claimed', fails' = 0 PROVE Tended(j)'
    <3>1. CASE j \in claimed
      BY <1>1, <1>3, <2>1, <3>1 DEF NoticesInv, Sent, Tended
    <3>2. CASE j \notin claimed
      BY <1>2, <1>3, <2>1, <3>2 DEF Tended
    <3>3. QED
      BY <3>1, <3>2
  <2>2. QED
    BY <1>1, <1>2, <2>1 DEF NoticesInv, Sent, R!Keys
<1>8. QED
  BY <1>4, <1>5, <1>6, <1>7 DEF NoticesInv

\* A history that counts one more.
LEMMA CountedOnce ==
  ASSUME NEW h \in [R!Keys -> 0..2], NEW k \in R!Keys, h[k] = 0
  PROVE  /\ R!Counted(h, k) \in [R!Keys -> 0..2]
         /\ R!Counted(h, k)[k] = 1
         /\ \A j \in R!Keys : j # k => R!Counted(h, k)[j] = h[j]
BY DEF R!Counted

\* What is known of a sweep on its way.
LEMMA SweepRead ==
  ASSUME NoticesTyped, NEW s \in Sweeps
  PROVE  /\ sweep[s] \in Sweepings /\ sweep[s].key \in R!Keys
         /\ \A r \in sweep[s].due : sweep[s].index[r] < R!Rungs
         /\ sweep \in [Sweeps -> Sweepings]
BY DEF NoticesTyped, R!TypeOK, Sweepings, Pcs, Climbable

LEMMA NoticesCompose ==
  ASSUME NoticesTyped, NoticesInv, NEW s \in Sweeps, R!Compose(s)
  PROVE  NoticesTyped' /\ NoticesInv'
<1> DEFINE k == sweep[s].key
           w == [sweep[s] EXCEPT !.pc = "deliver"]
<1>1. /\ UNCHANGED <<item, claimed, today, delivered, named, fails>>
      /\ composed' = R!Counted(composed, k)
      /\ sweep[s].pc = "compose"
      /\ sweep' = [sweep EXCEPT ![s] = w]
      /\ k \in R!Keys
  BY SweepRead DEF R!Compose, R!At, R!Goto, R!rowVars
<1>2. /\ w \in Sweepings /\ w.pc = "deliver" /\ w.key = k
      /\ \A r \in w.due : w.index[r] < R!Rungs
  BY SweepRead, SweepingMoves DEF Pcs
<1>3. k \in claimed /\ delivered[k] = 0 /\ composed[k] = 0
  BY <1>1 DEF NoticesInv, Claims, Working
<1> HIDE DEF w, k
<1>4. /\ sweep' \in [Sweeps -> Sweepings] /\ sweep'[s] = w
      /\ \A t \in Sweeps : t # s => sweep'[t] = sweep[t]
      /\ \A t \in Sweeps : \A r \in sweep'[t].due :
           sweep'[t].index[r] < R!Rungs
  BY <1>1, <1>2, SweepMoves
<1>5. /\ composed' \in [R!Keys -> 0..2] /\ composed'[k] = 1
      /\ \A j \in R!Keys : j # k => composed'[j] = composed[j]
  BY <1>1, <1>3, CountedOnce DEF NoticesTyped, R!TypeOK
<1>6. NoticesTyped'
  BY <1>1, <1>4, <1>5, ItemsStayTyped DEF NoticesTyped, R!TypeOK
<1>7. \A t \in Sweeps : Claims(sweep'[t], claimed', delivered', composed', fails')
  <2>1. ASSUME NEW t \in Sweeps, t # s
        PROVE  Claims(sweep'[t], claimed', delivered', composed', fails')
    <3>1. Claims(sweep[t], claimed, delivered, composed, fails)
      BY DEF NoticesInv
    <3>2. sweep[t].pc \in Working => sweep[t].key # k
      BY <1>1, <2>1 DEF NoticesInv, Alone, Working, k
    <3>3. sweep[t].key \in R!Keys
      BY SweepRead
    <3>4. QED
      BY <1>1, <1>4, <1>5, <2>1, <3>1, <3>2, <3>3 DEF Claims, Working
  <2>2. Claims(w, claimed', delivered', composed', fails')
    BY <1>1, <1>2, <1>3 DEF Claims
  <2>3. QED
    BY <1>4, <2>1, <2>2
<1>8. Alone'
  BY <1>1, <1>2, <1>4, AloneKept DEF NoticesInv, Working, k
<1>9. Sent'
  <2>1. ASSUME NEW j \in R!Keys, j \in claimed, fails = 0 PROVE Tended(j)'
    <3>1. CASE j = k
      BY <1>2, <1>4, <3>1 DEF Tended
    <3>2. CASE j # k
      BY <1>1, <1>4, <2>1, <3>2 DEF NoticesInv, Sent, Tended, k
    <3>3. QED
      BY <3>1, <3>2
  <2>2. QED
    BY <1>1, <1>3, <1>5, <2>1 DEF NoticesInv, Sent, R!Keys
<1>10. QED
  BY <1>6, <1>7, <1>8, <1>9 DEF NoticesInv

\* A sweep fails, in the composing or anywhere else: it goes no further.
LEMMA NoticesFail ==
  ASSUME NoticesTyped, NoticesInv, NEW s \in Sweeps,
         R!ComposeFails(s) \/ R!Fail(s)
  PROVE  NoticesTyped' /\ NoticesInv'
<1>1. /\ UNCHANGED <<item, claimed, today, delivered, composed, named>>
      /\ fails < MaxFails /\ fails' = fails + 1
  BY DEF R!ComposeFails, R!Fail, R!rowVars, R!historyVars
<1>2. fails \in 0..MaxFails /\ MaxFails \in Nat
  BY AttemptsAssumption DEF NoticesTyped, R!TypeOK
<1>3. fails' \in 0..MaxFails /\ fails' > 0
  BY <1>1, <1>2
<1>4. PICK w \in Sweepings :
        /\ sweep' = [sweep EXCEPT ![s] = w]
        /\ \A r \in w.due : w.index[r] < R!Rungs
        /\ \/ w.pc = "idle"
           \/ w.pc = "release" /\ w.key = sweep[s].key /\ sweep[s].pc = "compose"
  <2>1. CASE R!ComposeFails(s)
    <3> DEFINE v == [sweep[s] EXCEPT !.pc = "release"]
    <3>1. sweep' = [sweep EXCEPT ![s] = v] /\ sweep[s].pc = "compose"
      BY <2>1 DEF R!ComposeFails, R!Goto, R!At
    <3>2. /\ v \in Sweepings /\ v.pc = "release" /\ v.key = sweep[s].key
          /\ v.due = sweep[s].due /\ v.index = sweep[s].index
      BY SweepRead, SweepingMoves DEF Pcs
    <3>3. \A r \in v.due : v.index[r] < R!Rungs
      BY <3>2, SweepRead
    <3> HIDE DEF v
    <3>4. QED
      BY <3>1, <3>2, <3>3
  <2>2. CASE R!Fail(s)
    BY <2>2, IdleSweep DEF R!Fail, R!Done
  <2>3. QED
    BY <2>1, <2>2
<1>5. /\ sweep' \in [Sweeps -> Sweepings] /\ sweep'[s] = w
      /\ \A t \in Sweeps : t # s => sweep'[t] = sweep[t]
      /\ \A t \in Sweeps : \A r \in sweep'[t].due :
           sweep'[t].index[r] < R!Rungs
  BY <1>4, SweepMoves
<1>6. NoticesTyped'
  BY <1>1, <1>3, <1>5, ItemsStayTyped DEF NoticesTyped, R!TypeOK
<1>7. \A t \in Sweeps : Claims(sweep'[t], claimed', delivered', composed', fails')
  <2>1. Claims(sweep[s], claimed, delivered, composed, fails)
    BY DEF NoticesInv
  <2>2. Claims(w, claimed, delivered, composed, fails')
    BY <1>3, <1>4, <2>1 DEF Claims, Working
  <2>3. ASSUME NEW t \in Sweeps, t # s
        PROVE  Claims(sweep'[t], claimed', delivered', composed', fails')
    <3>1. Claims(sweep[t], claimed, delivered, composed, fails)
      BY DEF NoticesInv
    <3>2. QED
      BY <1>1, <1>3, <1>5, <2>3, <3>1 DEF Claims
  <2>4. QED
    BY <1>1, <1>5, <2>2, <2>3
<1>8. Alone'
  BY <1>4, <1>5, AloneKept DEF NoticesInv, Working
<1>9. Sent'
  BY <1>1, <1>3 DEF NoticesInv, Sent, R!Keys
<1>10. QED
  BY <1>6, <1>7, <1>8, <1>9 DEF NoticesInv

\* The claim that is given back is on a notice that nobody composed or sent.
LEMMA NoticesRelease ==
  ASSUME NoticesTyped, NoticesInv, NEW s \in Sweeps, R!Release(s)
  PROVE  NoticesTyped' /\ NoticesInv'
<1> DEFINE k == sweep[s].key
<1>1. /\ UNCHANGED <<item, today, delivered, composed, named, fails>>
      /\ claimed' = claimed \ {k}
      /\ sweep[s].pc = "release"
      /\ sweep' = [sweep EXCEPT ![s] = R!Idle]
      /\ k \in R!Keys
  BY SweepRead DEF R!Release, R!At, R!Done, R!historyVars
<1>2. k \in claimed /\ delivered[k] = 0 /\ composed[k] = 0 /\ fails > 0
  BY <1>1 DEF NoticesInv, Claims, Working
<1> HIDE DEF k
<1>3. /\ sweep' \in [Sweeps -> Sweepings] /\ sweep'[s] = R!Idle
      /\ \A t \in Sweeps : t # s => sweep'[t] = sweep[t]
      /\ \A t \in Sweeps : \A r \in sweep'[t].due :
           sweep'[t].index[r] < R!Rungs
  BY <1>1, SweepMoves, IdleSweep
<1>4. NoticesTyped'
  BY <1>1, <1>3, ItemsStayTyped DEF NoticesTyped, R!TypeOK
<1>5. \A t \in Sweeps : Claims(sweep'[t], claimed', delivered', composed', fails')
  <2>1. ASSUME NEW t \in Sweeps, t # s
        PROVE  Claims(sweep'[t], claimed', delivered', composed', fails')
    <3>1. Claims(sweep[t], claimed, delivered, composed, fails)
      BY DEF NoticesInv
    <3>2. sweep[t].pc \in Working => sweep[t].key # k
      BY <1>1, <2>1 DEF NoticesInv, Alone, Working, k
    <3>3. QED
      BY <1>1, <1>3, <2>1, <3>1, <3>2 DEF Claims, Working
  <2>2. Claims(R!Idle, claimed', delivered', composed', fails')
    BY IdleSweep DEF Claims, Working
  <2>3. QED
    BY <1>3, <2>1, <2>2
<1>6. Alone'
  BY <1>3, IdleSweep, AloneKept DEF NoticesInv, Working
<1>7. Sent'
  BY <1>1, <1>2 DEF NoticesInv, Sent, R!Keys
<1>8. QED
  BY <1>4, <1>5, <1>6, <1>7 DEF NoticesInv

LEMMA NoticesDeliver ==
  ASSUME NoticesTyped, NoticesInv, NEW s \in Sweeps, R!Deliver(s)
  PROVE  NoticesTyped' /\ NoticesInv'
<1> DEFINE k == sweep[s].key
<1>1. /\ UNCHANGED <<item, claimed, today, composed, fails>>
      /\ delivered' = R!Counted(delivered, k)
      /\ named' = [r \in Reviews |-> IF r \in sweep[s].due THEN named[r] + 1
                                                          ELSE named[r]]
      /\ sweep[s].pc = "deliver"
      /\ k \in R!Keys
  BY SweepRead DEF R!Deliver, R!At, R!rowVars
<1>2. PICK w \in Sweepings :
        /\ sweep' = [sweep EXCEPT ![s] = w]
        /\ \A r \in w.due : w.index[r] < R!Rungs
        /\ w.pc = "idle" \/ (w.pc = "advance" /\ w.key = k)
  <2>1. CASE sweep[s].due = {}
    BY <2>1, IdleSweep DEF R!Deliver, R!Done
  <2>2. CASE sweep[s].due # {}
    <3> DEFINE v == [sweep[s] EXCEPT !.pc = "advance"]
    <3>1. sweep' = [sweep EXCEPT ![s] = v]
      BY <2>2 DEF R!Deliver, R!Goto
    <3>2. /\ v \in Sweepings /\ v.pc = "advance" /\ v.key = k
          /\ v.due = sweep[s].due /\ v.index = sweep[s].index
      BY SweepRead, SweepingMoves DEF Pcs
    <3>3. \A r \in v.due : v.index[r] < R!Rungs
      BY <3>2, SweepRead
    <3> HIDE DEF v
    <3>4. QED
      BY <3>1, <3>2, <3>3
  <2>3. QED
    BY <2>1, <2>2
<1>3. k \in claimed /\ delivered[k] = 0
  BY <1>1 DEF NoticesInv, Claims, Working
<1> HIDE DEF k
<1>4. /\ sweep' \in [Sweeps -> Sweepings] /\ sweep'[s] = w
      /\ \A t \in Sweeps : t # s => sweep'[t] = sweep[t]
      /\ \A t \in Sweeps : \A r \in sweep'[t].due :
           sweep'[t].index[r] < R!Rungs
  BY <1>2, SweepMoves
<1>5. /\ delivered' \in [R!Keys -> 0..2] /\ delivered'[k] = 1
      /\ \A j \in R!Keys : j # k => delivered'[j] = delivered[j]
  BY <1>1, <1>3, CountedOnce DEF NoticesTyped, R!TypeOK
<1>6. NoticesTyped'
  <2>1. named' \in [Reviews -> Nat]
    BY <1>1 DEF NoticesTyped, R!TypeOK
  <2>2. QED
    BY <1>1, <1>4, <1>5, <2>1, ItemsStayTyped DEF NoticesTyped, R!TypeOK
<1>7. \A t \in Sweeps : Claims(sweep'[t], claimed', delivered', composed', fails')
  <2>1. ASSUME NEW t \in Sweeps, t # s
        PROVE  Claims(sweep'[t], claimed', delivered', composed', fails')
    <3>1. Claims(sweep[t], claimed, delivered, composed, fails)
      BY DEF NoticesInv
    <3>2. sweep[t].pc \in Working => sweep[t].key # k
      BY <1>1, <2>1 DEF NoticesInv, Alone, Working, k
    <3>3. sweep[t].key \in R!Keys
      BY SweepRead
    <3>4. QED
      BY <1>1, <1>4, <1>5, <2>1, <3>1, <3>2, <3>3 DEF Claims, Working
  <2>2. Claims(w, claimed', delivered', composed', fails')
    BY <1>1, <1>2, <1>3 DEF Claims, Working
  <2>3. QED
    BY <1>4, <2>1, <2>2
<1>8. Alone'
  BY <1>1, <1>2, <1>4, AloneKept DEF NoticesInv, Working, k
<1>9. Sent'
  <2>1. ASSUME NEW j \in R!Keys, j \in claimed, fails = 0 PROVE Tended(j)'
    <3>1. CASE j = k
      BY <1>5, <3>1 DEF Tended
    <3>2. CASE j # k
      BY <1>1, <1>4, <1>5, <2>1, <3>2 DEF NoticesInv, Sent, Tended, k
    <3>3. QED
      BY <3>1, <3>2
  <2>2. QED
    BY <1>1, <1>3, <1>5, <2>1 DEF NoticesInv, Sent, R!Keys
<1>10. QED
  BY <1>6, <1>7, <1>8, <1>9 DEF NoticesInv

\* What an advance writes, and what is left to do.
LEMMA AdvanceWrites ==
  ASSUME NoticesTyped, NEW s \in Sweeps, R!Advance(s)
  PROVE  \E r \in sweep[s].due, w \in Sweepings, i \in Items :
           /\ item' = [item EXCEPT ![r] = i]
           /\ i.index = sweep[s].index[r] + 1
           /\ ~i.done => i.index < R!Rungs
           /\ sweep' = [sweep EXCEPT ![s] = w]
           /\ \A q \in w.due : w.index[q] < R!Rungs
           /\ \/ w = R!Idle
              \/ /\ w.pc = "advance" /\ w.key = sweep[s].key
                 /\ w.due = sweep[s].due \ {r} /\ w.index = sweep[s].index
<1>1. PICK r \in sweep[s].due :
        LET next == sweep[s].index[r] + 1
            left == sweep[s].due \ {r}
        IN  /\ item' = [item EXCEPT ![r].index = next, ![r].done = (next >= R!Rungs)]
            /\ sweep' = [sweep EXCEPT
                 ![s] = IF left = {} THEN R!Idle ELSE [@ EXCEPT !.due = left]]
  BY DEF R!Advance
<1> DEFINE next == sweep[s].index[r] + 1
           left == sweep[s].due \ {r}
           i == [item[r] EXCEPT !.index = next, !.done = (next >= R!Rungs)]
           w == IF left = {} THEN R!Idle ELSE [sweep[s] EXCEPT !.due = left]
<1>2. sweep[s].pc = "advance"
  BY DEF R!Advance, R!At
<1>3. /\ sweep[s] \in Sweepings /\ sweep \in [Sweeps -> Sweepings]
      /\ r \in Reviews /\ sweep[s].index[r] \in Nat
      /\ sweep[s].index[r] < R!Rungs /\ R!Rungs \in Nat
      /\ item \in [Reviews -> Items]
  BY SweepRead, RungsPositive DEF Sweepings, NoticesTyped, R!TypeOK, Items
<1>4. /\ i \in Items /\ i.index = next /\ (~i.done => i.index < R!Rungs)
  <2> DEFINE last == next >= R!Rungs
             j == [item[r] EXCEPT !.index = next, !.done = last]
  <2>1. item[r] \in Items /\ next \in 0..R!Rungs
    BY <1>3
  <2>2. last \in BOOLEAN /\ (~last => next < R!Rungs)
    BY <1>3
  <2> HIDE DEF last
  <2>3. j \in Items /\ j.index = next /\ j.done = last
    BY <2>1, <2>2 DEF Items
  <2>4. i = j
    BY DEF last
  <2> HIDE DEF i, j
  <2>5. QED
    BY <2>2, <2>3, <2>4
<1>5. item' = [item EXCEPT ![r] = i] /\ sweep' = [sweep EXCEPT ![s] = w]
  BY <1>1, <1>3
<1>6. /\ w \in Sweepings
      /\ \A q \in w.due : w.index[q] < R!Rungs
      /\ \/ w = R!Idle
         \/ /\ w.pc = "advance" /\ w.key = sweep[s].key
            /\ w.due = left /\ w.index = sweep[s].index
  <2>1. CASE left = {}
    BY <2>1, IdleSweep
  <2>2. CASE left # {}
    <3>1. w = [sweep[s] EXCEPT !.due = left] /\ left \in SUBSET Reviews
      BY <1>3, <2>2 DEF Sweepings
    <3>2. /\ w \in Sweepings /\ w.pc = "advance" /\ w.key = sweep[s].key
          /\ w.due = left /\ w.index = sweep[s].index
      BY <1>2, <1>3, <3>1 DEF Sweepings
    <3>3. QED
      BY <3>2, SweepRead
  <2>3. QED
    BY <2>1, <2>2
<1> HIDE DEF i, w
<1>7. QED
  BY <1>4, <1>5, <1>6

LEMMA NoticesAdvance ==
  ASSUME NoticesTyped, NoticesInv, NEW s \in Sweeps, R!Advance(s)
  PROVE  NoticesTyped' /\ NoticesInv'
<1>1. PICK r \in sweep[s].due, w \in Sweepings, i \in Items :
        /\ item' = [item EXCEPT ![r] = i]
        /\ i.index = sweep[s].index[r] + 1
        /\ ~i.done => i.index < R!Rungs
        /\ sweep' = [sweep EXCEPT ![s] = w]
        /\ \A q \in w.due : w.index[q] < R!Rungs
        /\ \/ w = R!Idle
           \/ /\ w.pc = "advance" /\ w.key = sweep[s].key
              /\ w.due = sweep[s].due \ {r} /\ w.index = sweep[s].index
  BY AdvanceWrites
<1>2. /\ UNCHANGED <<claimed, today, delivered, composed, named, fails>>
      /\ sweep[s].pc = "advance"
  BY DEF R!Advance, R!At, R!historyVars
<1>3. /\ sweep' \in [Sweeps -> Sweepings] /\ sweep'[s] = w
      /\ \A t \in Sweeps : t # s => sweep'[t] = sweep[t]
      /\ \A t \in Sweeps : \A q \in sweep'[t].due :
           sweep'[t].index[q] < R!Rungs
  BY <1>1, SweepMoves
<1>4. NoticesTyped'
  <2>1. item \in [Reviews -> Items]
    BY DEF NoticesTyped, R!TypeOK, Items
  <2>2. /\ item' \in [Reviews -> Items]
        /\ \A q \in Reviews : ~item'[q].done => item'[q].index < R!Rungs
    BY <1>1, <2>1 DEF NoticesTyped, Climbable
  <2>3. QED
    BY <1>2, <1>3, <2>2
       DEF NoticesTyped, R!TypeOK, Climbable, Items, Sweepings, Pcs, R!Keys, R!Rungs
<1>5. w.pc = "idle" \/ (w.pc = "advance" /\ w.key = sweep[s].key)
  BY <1>1, IdleSweep
<1>6. \A t \in Sweeps : Claims(sweep'[t], claimed', delivered', composed', fails')
  <2>1. \A t \in Sweeps : Claims(sweep[t], claimed, delivered, composed, fails)
    BY DEF NoticesInv
  <2>2. Claims(w, claimed, delivered, composed, fails)
    BY <1>2, <1>5, <2>1 DEF Claims, Working
  <2>3. QED
    BY <1>2, <1>3, <2>1, <2>2
<1>7. Alone'
  BY <1>2, <1>3, <1>5, AloneKept DEF NoticesInv, Working
<1>8. Sent'
  BY <1>2, <1>3, <1>5 DEF NoticesInv, Sent, Tended, R!Keys
<1>9. QED
  BY <1>4, <1>6, <1>7, <1>8 DEF NoticesInv

\* A lesson is completed, or completed again.
LEMMA SeededItem ==
  ASSUME NoticesTyped, NEW r \in Reviews
  PROVE  /\ R!Seeded(r) \in Items
         /\ R!Seeded(r).index = item[r].index
         /\ ~R!Seeded(r).done => R!Seeded(r).index < R!Rungs
         /\ ~item[r].done => R!Seeded(r) = item[r]
<1>1. /\ item[r] \in Items /\ today \in 1..MaxDay /\ R!Rungs \in Nat \ {0}
      /\ ~item[r].done => item[r].index < R!Rungs
  BY RungsPositive DEF NoticesTyped, R!TypeOK, Items, Climbable
<1>2. CASE item[r] = R!NoItem
  BY <1>1, <1>2, BoundsAssumption DEF R!Seeded, R!NoItem, Items
<1>3. CASE item[r] # R!NoItem
  BY <1>1, <1>3 DEF R!Seeded
<1>4. QED
  BY <1>2, <1>3

LEMMA NoticesCompleteLesson ==
  ASSUME NoticesTyped, NoticesInv, NEW r \in Reviews, R!CompleteLesson(r)
  PROVE  NoticesTyped' /\ NoticesInv'
<1>1. /\ UNCHANGED <<claimed, sweep, today, delivered, composed, named, fails>>
      /\ item' = [item EXCEPT ![r] = R!Seeded(r)]
  BY DEF R!CompleteLesson, R!historyVars
<1>2. item \in [Reviews -> Items]
  BY DEF NoticesTyped, R!TypeOK, Items
<1>3. /\ item' \in [Reviews -> Items]
      /\ \A q \in Reviews : ~item'[q].done => item'[q].index < R!Rungs
  BY <1>1, <1>2, SeededItem DEF NoticesTyped, Climbable
<1>4. NoticesTyped'
  BY <1>1, <1>3 DEF NoticesTyped, R!TypeOK, Climbable, Items, R!Keys, R!Rungs
<1>5. NoticesInv'
  BY <1>1 DEF NoticesInv, Alone, Sent, Tended, R!Keys
<1>6. QED
  BY <1>4, <1>5

LEMMA NoticesTick ==
  ASSUME NoticesTyped, NoticesInv, R!Tick
  PROVE  NoticesTyped' /\ NoticesInv'
<1>1. /\ UNCHANGED <<item, claimed, sweep, delivered, composed, named, fails>>
      /\ today < MaxDay /\ today' = today + 1
  BY DEF R!Tick, R!rowVars, R!historyVars
<1>2. today' \in 1..MaxDay
  BY <1>1, BoundsAssumption DEF NoticesTyped, R!TypeOK
<1>3. NoticesTyped'
  BY <1>1, <1>2 DEF NoticesTyped, R!TypeOK, Climbable, R!Keys, R!Rungs
<1>4. NoticesInv'
  BY <1>1 DEF NoticesInv, Alone, Sent, Tended, R!Keys
<1>5. QED
  BY <1>3, <1>4

LEMMA NoticesInit == R!Init => NoticesTyped /\ NoticesInv
<1> SUFFICES ASSUME R!Init PROVE NoticesTyped /\ NoticesInv
  OBVIOUS
<1>1. \A s \in Sweeps : sweep[s] = R!Idle
  BY DEF R!Init
<1>2. \A s \in Sweeps : Claims(sweep[s], claimed, delivered, composed, fails)
  BY <1>1, IdleSweep DEF Claims, Working
<1>3. Alone
  BY <1>1, IdleSweep DEF Alone, Working
<1>4. Sent
  BY DEF R!Init, Sent
<1>5. QED
  BY <1>2, <1>3, <1>4, NoticesTypedInit DEF NoticesInv

LEMMA NoticesNext ==
  ASSUME NoticesTyped, NoticesInv, R!Next
  PROVE  NoticesTyped' /\ NoticesInv'
BY NoticesStart, NoticesClaim, NoticesCompose, NoticesFail, NoticesRelease,
   NoticesDeliver, NoticesAdvance, NoticesCompleteLesson, NoticesTick
   DEF R!Next

----------------------------------------------------------------------------
(* Reminders: the ladder.  Of the digests of a day one is claimed, so that *)
(* what its sweep read of a review is what the review's row still says.    *)

\* The sweep will write what it read, or has yet to claim the notice.
Entitled(w, cl) ==
  \/ w.pc = "claim" /\ w.key \notin cl
  \/ w.pc \in {"deliver", "advance"}

Reads(w, cl, it, td, nm) ==
  /\ w.pc # "idle" /\ w.due # {} => w.key = <<"digest", td>>
  /\ Entitled(w, cl) => \A r \in w.due : w.index[r] = it[r].index /\ ~it[r].done
  /\ w.pc = "advance" => \A r \in w.due : nm[r] > it[r].index

Named(it, nm) == \A r \in Reviews : nm[r] >= it[r].index

LadderInv ==
  /\ \A s \in Sweeps : Reads(sweep[s], claimed, item, today, named)
  /\ Named(item, named)

LEMMA LadderInit == R!Init => LadderInv
<1> SUFFICES ASSUME R!Init PROVE LadderInv
  OBVIOUS
<1>1. \A s \in Sweeps : sweep[s] = R!Idle
  BY DEF R!Init
<1>2. \A s \in Sweeps : Reads(sweep[s], claimed, item, today, named)
  BY <1>1, IdleSweep DEF Reads
<1>3. Named(item, named)
  BY DEF R!Init, R!NoItem, Named
<1>4. QED
  BY <1>2, <1>3 DEF LadderInv

LEMMA IdleReads == \A cl, it, td, nm : Reads(R!Idle, cl, it, td, nm)
BY IdleSweep DEF Reads

\* One sweep moves, and the reviews' rows stay.
LEMMA LadderMoves ==
  ASSUME LadderInv, NEW s \in Sweeps, NEW w, sweep \in [Sweeps -> Sweepings],
         sweep' = [sweep EXCEPT ![s] = w], UNCHANGED <<item, today>>,
         Reads(w, claimed', item, today, named'),
         \A t \in Sweeps : Reads(sweep[t], claimed', item, today, named'),
         Named(item, named')
  PROVE  LadderInv'
BY DEF LadderInv

LEMMA LadderStart ==
  ASSUME NoticesTyped, LadderInv,
         NEW s \in Sweeps, NEW kind \in Kinds, R!Start(s, kind)
  PROVE  LadderInv'
<1>1. PICK due \in SUBSET Reviews :
        LET w == [pc |-> "claim", key |-> <<kind, R!DateOf(kind)>>, due |-> due,
                  index |-> [r \in Reviews |-> item[r].index]]
        IN  /\ sweep' = [sweep EXCEPT ![s] = w]
            /\ w \in Sweepings
            /\ due # {} => kind = "digest"
            /\ \A r \in due : ~item[r].done
  BY StartReads
<1> DEFINE w == [pc |-> "claim", key |-> <<kind, R!DateOf(kind)>>, due |-> due,
                 index |-> [r \in Reviews |-> item[r].index]]
<1>2. UNCHANGED <<item, claimed, today, named>>
  BY DEF R!Start, R!rowVars, R!historyVars
<1>3. due # {} => <<kind, R!DateOf(kind)>> = <<"digest", today>>
  BY <1>1 DEF R!DateOf
<1>4. Reads(w, claimed, item, today, named)
  BY <1>1, <1>3 DEF Reads, Entitled
<1>5. sweep' = [sweep EXCEPT ![s] = w]
  BY <1>1
<1> HIDE DEF w
<1>6. QED
  BY <1>2, <1>4, <1>5, SweepRead, LadderMoves DEF LadderInv

LEMMA LadderClaim ==
  ASSUME NoticesTyped, LadderInv, NEW s \in Sweeps, R!Claim(s)
  PROVE  LadderInv'
<1>1. UNCHANGED <<item, today, named>> /\ sweep[s].pc = "claim"
  BY DEF R!Claim, R!At, R!historyVars
<1>2. sweep[s] \in Sweepings /\ Reads(sweep[s], claimed, item, today, named)
  BY SweepRead DEF LadderInv
<1>3. CASE R!Taken(s)
  <2>1. sweep' = [sweep EXCEPT ![s] = R!Idle] /\ claimed' = claimed
    BY <1>3 DEF R!Claim, R!Done
  <2>2. QED
    BY <1>1, <2>1, IdleReads, SweepRead, LadderMoves DEF LadderInv
<1>4. CASE ~R!Taken(s)
  <2> DEFINE pc == IF sweep[s].key[1] = "coach" THEN "compose" ELSE "deliver"
             w == [sweep[s] EXCEPT !.pc = pc]
  <2>1. /\ sweep' = [sweep EXCEPT ![s] = w]
        /\ sweep[s].key \notin claimed
        /\ claimed' = claimed \cup {sweep[s].key}
    BY <1>4 DEF R!Claim, R!Goto, R!Taken
  <2>2. /\ w.pc \in {"compose", "deliver"} /\ w.key = sweep[s].key
        /\ w.due = sweep[s].due /\ w.index = sweep[s].index
    BY <1>2 DEF Sweepings
  <2> HIDE DEF w, pc
  <2>3. Reads(w, claimed', item, today, named)
    BY <1>1, <1>2, <2>1, <2>2 DEF Reads, Entitled
  <2>4. \A t \in Sweeps : Reads(sweep[t], claimed', item, today, named)
    BY <2>1 DEF LadderInv, Reads, Entitled
  <2>5. QED
    BY <1>1, <2>1, <2>3, <2>4, SweepRead, LadderMoves DEF LadderInv
<1>5. QED
  BY <1>3, <1>4

\* Coaching names no review, whether it is composed, or fails, or is released.
LEMMA LadderCoach ==
  ASSUME NoticesTyped, NoticesInv, LadderInv, NEW s \in Sweeps,
         R!Compose(s) \/ R!ComposeFails(s) \/ R!Release(s)
  PROVE  LadderInv'
<1>1. /\ UNCHANGED <<item, today, named>>
      /\ sweep[s].pc \in {"compose", "release"}
  BY DEF R!Compose, R!ComposeFails, R!Release, R!At, R!rowVars, R!historyVars
<1>2. /\ sweep[s] \in Sweepings /\ Reads(sweep[s], claimed, item, today, named)
      /\ sweep[s].key[1] = "coach"
  BY <1>1, SweepRead DEF LadderInv, NoticesInv, Claims
<1>3. sweep[s].due = {}
  BY <1>1, <1>2 DEF Reads
<1>4. CASE R!Release(s)
  <2>1. sweep' = [sweep EXCEPT ![s] = R!Idle] /\ claimed' = claimed \ {sweep[s].key}
    BY <1>4 DEF R!Release, R!Done
  <2>2. \A t \in Sweeps : Reads(sweep[t], claimed', item, today, named)
    <3>1. ASSUME NEW t \in Sweeps PROVE Reads(sweep[t], claimed', item, today, named)
      <4>1. Reads(sweep[t], claimed, item, today, named)
        BY DEF LadderInv
      <4>2. CASE sweep[t].due = {}
        BY <4>2 DEF Reads
      <4>3. CASE sweep[t].due # {} /\ sweep[t].pc = "claim"
        <5>1. sweep[t].key[1] = "digest"
          BY <4>1, <4>3 DEF Reads
        <5>2. QED
          BY <1>2, <2>1, <4>1, <4>3, <5>1 DEF Reads, Entitled
      <4>4. CASE sweep[t].pc # "claim"
        BY <4>1, <4>4 DEF Reads, Entitled
      <4>5. QED
        BY <4>2, <4>3, <4>4
    <3>2. QED
      BY <3>1
  <2>3. QED
    BY <1>1, <2>1, <2>2, IdleReads, SweepRead, LadderMoves DEF LadderInv
<1>5. CASE R!Compose(s) \/ R!ComposeFails(s)
  <2>1. PICK pc \in {"deliver", "release"} :
          sweep' = [sweep EXCEPT ![s] = [sweep[s] EXCEPT !.pc = pc]]
    BY <1>5 DEF R!Compose, R!ComposeFails, R!Goto
  <2> DEFINE w == [sweep[s] EXCEPT !.pc = pc]
  <2>2. w.due = {}
    BY <1>2, <1>3 DEF Sweepings
  <2>3. Reads(w, claimed, item, today, named)
    <3> HIDE DEF w
    <3>1. QED
      BY <2>2 DEF Reads
  <2>4. claimed' = claimed
    BY <1>5 DEF R!Compose, R!ComposeFails, R!rowVars
  <2> HIDE DEF w
  <2>5. sweep' = [sweep EXCEPT ![s] = w]
    BY <2>1 DEF w
  <2>6. QED
    BY <1>1, <2>3, <2>4, <2>5, SweepRead, LadderMoves DEF LadderInv
<1>6. QED
  BY <1>4, <1>5

LEMMA LadderFail ==
  ASSUME NoticesTyped, LadderInv, NEW s \in Sweeps, R!Fail(s)
  PROVE  LadderInv'
<1>1. /\ UNCHANGED <<item, claimed, today, named>>
      /\ sweep' = [sweep EXCEPT ![s] = R!Idle]
  BY DEF R!Fail, R!Done, R!rowVars, R!historyVars
<1>2. QED
  BY <1>1, IdleReads, SweepRead, LadderMoves DEF LadderInv

\* A digest that is sent names its reviews on the rung they are on.
LEMMA LadderDeliver ==
  ASSUME NoticesTyped, LadderInv, NEW s \in Sweeps, R!Deliver(s)
  PROVE  LadderInv'
<1>1. /\ UNCHANGED <<item, claimed, today>>
      /\ named' = [r \in Reviews |-> IF r \in sweep[s].due THEN named[r] + 1
                                                          ELSE named[r]]
      /\ sweep[s].pc = "deliver"
  BY DEF R!Deliver, R!At, R!rowVars
<1>2. /\ sweep[s] \in Sweepings /\ Reads(sweep[s], claimed, item, today, named)
      /\ named \in [Reviews -> Nat] /\ item \in [Reviews -> Items]
      /\ Named(item, named)
      /\ \A t \in Sweeps : sweep[t].due \subseteq Reviews
  BY SweepRead DEF LadderInv, NoticesTyped, R!TypeOK, Items, Sweepings
<1>3. \A r \in Reviews : item[r].index \in Nat /\ named'[r] \in Nat
        /\ named'[r] >= named[r] /\ (r \in sweep[s].due => named'[r] = named[r] + 1)
  BY <1>1, <1>2 DEF Items
<1>4. Named(item, named')
  BY <1>2, <1>3 DEF Named
<1>5. \A t \in Sweeps : Reads(sweep[t], claimed, item, today, named')
  BY <1>2, <1>3 DEF LadderInv, Reads
<1>6. CASE sweep[s].due = {}
  <2>1. sweep' = [sweep EXCEPT ![s] = R!Idle]
    BY <1>6 DEF R!Deliver, R!Done
  <2>2. QED
    BY <1>1, <1>4, <1>5, <2>1, IdleReads, SweepRead, LadderMoves
<1>7. CASE sweep[s].due # {}
  <2> DEFINE w == [sweep[s] EXCEPT !.pc = "advance"]
  <2>1. sweep' = [sweep EXCEPT ![s] = w]
    BY <1>7 DEF R!Deliver, R!Goto
  <2>2. /\ w.pc = "advance" /\ w.key = sweep[s].key
        /\ w.due = sweep[s].due /\ w.index = sweep[s].index
    BY <1>2 DEF Sweepings
  <2> HIDE DEF w
  <2>3. \A r \in w.due : named'[r] > item[r].index
    BY <1>2, <1>3, <2>2 DEF Named
  <2>4. Reads(w, claimed, item, today, named')
    BY <1>1, <1>2, <2>2, <2>3 DEF Reads, Entitled
  <2>5. QED
    BY <1>1, <1>4, <1>5, <2>1, <2>4, SweepRead, LadderMoves
<1>8. QED
  BY <1>6, <1>7

\* The row that is written is the row that was read: no other sweep is
\* entitled to a digest of the day.
LEMMA LadderAdvance ==
  ASSUME NoticesTyped, NoticesInv, LadderInv, NEW s \in Sweeps, R!Advance(s)
  PROVE  LadderInv' /\ R!Climbs
<1>1. PICK r \in sweep[s].due, w \in Sweepings, i \in Items :
        /\ item' = [item EXCEPT ![r] = i]
        /\ i.index = sweep[s].index[r] + 1
        /\ ~i.done => i.index < R!Rungs
        /\ sweep' = [sweep EXCEPT ![s] = w]
        /\ \A q \in w.due : w.index[q] < R!Rungs
        /\ \/ w = R!Idle
           \/ /\ w.pc = "advance" /\ w.key = sweep[s].key
              /\ w.due = sweep[s].due \ {r} /\ w.index = sweep[s].index
  BY AdvanceWrites
<1>2. UNCHANGED <<claimed, today, named>> /\ sweep[s].pc = "advance"
  BY DEF R!Advance, R!At, R!historyVars
<1>3. /\ sweep[s] \in Sweepings /\ r \in Reviews
      /\ Reads(sweep[s], claimed, item, today, named)
      /\ named \in [Reviews -> Nat] /\ item \in [Reviews -> Items]
      /\ Named(item, named)
      /\ \A t \in Sweeps : sweep[t].due \subseteq Reviews
  BY SweepRead DEF LadderInv, NoticesTyped, R!TypeOK, Items, Sweepings
<1>4. /\ item[r].index \in Nat /\ named[r] > item[r].index
      /\ i.index = item[r].index + 1
  BY <1>1, <1>2, <1>3 DEF Reads, Entitled, Items
<1>5. /\ item'[r] = i /\ \A q \in Reviews : q # r => item'[q] = item[q]
  BY <1>1, <1>3
<1>6. Named(item', named)
  BY <1>3, <1>4, <1>5 DEF Named
<1>7. Reads(w, claimed, item', today, named)
  <2>1. CASE w = R!Idle
    BY <2>1, IdleReads
  <2>2. CASE w # R!Idle
    <3>1. /\ w.pc = "advance" /\ w.key = sweep[s].key
          /\ w.due = sweep[s].due \ {r} /\ w.index = sweep[s].index
      BY <1>1, <2>2
    <3>2. \A q \in w.due : item'[q] = item[q]
      BY <1>3, <1>5, <3>1
    <3>3. QED
      BY <1>2, <1>3, <3>1, <3>2 DEF Reads, Entitled
  <2>3. QED
    BY <2>1, <2>2
<1>8. ASSUME NEW t \in Sweeps, t # s
      PROVE  Reads(sweep[t], claimed, item', today, named)
  <2>1. /\ Reads(sweep[t], claimed, item, today, named)
        /\ Claims(sweep[s], claimed, delivered, composed, fails)
    BY DEF LadderInv, NoticesInv
  <2>2. CASE r \notin sweep[t].due
    BY <1>3, <1>5, <2>1, <2>2 DEF Reads
  <2>3. CASE r \in sweep[t].due /\ sweep[t].pc # "idle"
    <3>1. sweep[t].key = sweep[s].key
      BY <1>2, <1>3, <2>1, <2>3 DEF Reads
    <3>2. sweep[t].pc \notin Working /\ sweep[t].key \in claimed
      BY <1>2, <1>8, <2>1, <3>1 DEF NoticesInv, Alone, Claims, Working
    <3>3. ~Entitled(sweep[t], claimed) /\ sweep[t].pc # "advance"
      BY <3>2 DEF Entitled, Working
    <3>4. QED
      BY <2>1, <3>3 DEF Reads
  <2>4. CASE sweep[t].pc = "idle"
    BY <2>4 DEF Reads, Entitled
  <2>5. QED
    BY <2>2, <2>3, <2>4
<1>9. sweep'[s] = w /\ \A t \in Sweeps : t # s => sweep'[t] = sweep[t]
  BY <1>1, SweepRead
<1>10. LadderInv'
  BY <1>2, <1>6, <1>7, <1>8, <1>9 DEF LadderInv
<1>11. R!Climbs
  BY <1>4, <1>5 DEF R!Climbs
<1>12. QED
  BY <1>10, <1>11

LEMMA LadderCompleteLesson ==
  ASSUME NoticesTyped, LadderInv, NEW r \in Reviews, R!CompleteLesson(r)
  PROVE  LadderInv' /\ \A q \in Reviews : item'[q].index = item[q].index
<1>1. /\ UNCHANGED <<claimed, sweep, today, named>>
      /\ item' = [item EXCEPT ![r] = R!Seeded(r)]
  BY DEF R!CompleteLesson, R!historyVars
<1>2. item \in [Reviews -> Items] /\ \A t \in Sweeps : sweep[t].due \subseteq Reviews
  BY SweepRead DEF NoticesTyped, R!TypeOK, Items, Sweepings
<1>3. \A q \in Reviews : /\ item'[q].index = item[q].index
                         /\ ~item[q].done => item'[q] = item[q]
  BY <1>1, <1>2, SeededItem
<1>4. \A t \in Sweeps : Reads(sweep[t], claimed, item', today, named)
  BY <1>2, <1>3 DEF LadderInv, Reads
<1>5. Named(item', named)
  BY <1>3 DEF LadderInv, Named
<1>6. QED
  BY <1>1, <1>3, <1>4, <1>5 DEF LadderInv

LEMMA LadderTick ==
  ASSUME LadderInv, R!Tick
  PROVE  LadderInv' /\ item' = item
<1>1. /\ UNCHANGED <<item, claimed, sweep, named>>
      /\ \A s \in Sweeps : sweep[s].pc = "idle"
  BY DEF R!Tick, R!At, R!rowVars, R!historyVars
<1>2. QED
  BY <1>1 DEF LadderInv, Reads, Entitled

LEMMA LadderNext ==
  ASSUME NoticesTyped, NoticesInv, LadderInv, R!Next
  PROVE  LadderInv' /\ R!Climbs
<1>1. ASSUME NEW s \in Sweeps,
             \/ \E kind \in Kinds : R!Start(s, kind)
             \/ R!Claim(s) \/ R!Compose(s) \/ R!ComposeFails(s) \/ R!Release(s)
             \/ R!Deliver(s) \/ R!Fail(s)
      PROVE  LadderInv' /\ R!Climbs
  <2>1. item' = item
    BY <1>1 DEF R!Start, R!Claim, R!Compose, R!ComposeFails, R!Release,
         R!Deliver, R!Fail, R!rowVars
  <2>2. R!Climbs
    BY <2>1 DEF R!Climbs
  <2>3. QED
    BY <1>1, <2>2, LadderStart, LadderClaim, LadderCoach, LadderDeliver, LadderFail
<1>2. ASSUME NEW s \in Sweeps, R!Advance(s) PROVE LadderInv' /\ R!Climbs
  BY <1>2, LadderAdvance
<1>3. ASSUME NEW r \in Reviews, R!CompleteLesson(r) PROVE LadderInv' /\ R!Climbs
  BY <1>3, LadderCompleteLesson DEF R!Climbs
<1>4. CASE R!Tick
  BY <1>4, LadderTick DEF R!Climbs
<1>5. QED
  BY <1>1, <1>2, <1>3, <1>4 DEF R!Next

----------------------------------------------------------------------------
(* Reminders: the theorems.                                                *)

RemindersInv == part = "reminders" => NoticesTyped /\ NoticesInv /\ LadderInv

LEMMA RemindersInvNext ==
  RemindersInv /\ [LearningNext]_learningVars
    => /\ RemindersInv'
       /\ [part = "reminders" => R!Climbs]_learningVars
<1> SUFFICES ASSUME RemindersInv, [LearningNext]_learningVars
             PROVE  /\ RemindersInv'
                    /\ [part = "reminders" => R!Climbs]_learningVars
  OBVIOUS
<1>1. CASE UNCHANGED learningVars
  BY <1>1 DEF learningVars, RemindersVars, RemindersInv, NoticesTyped, R!TypeOK,
       Climbable, NoticesInv, Alone, Sent, Tended, LadderInv, R!Keys, R!Rungs
<1>2. CASE LearningNext /\ part = "reminders"
  <2>1. R!Next /\ part' = part
    BY <1>2 DEF LearningNext
  <2>2. QED
    BY <1>2, <2>1, NoticesNext, LadderNext DEF RemindersInv
<1>3. CASE LearningNext /\ part # "reminders"
  BY <1>3 DEF LearningNext, RemindersInv
<1>4. QED
  BY <1>1, <1>2, <1>3

LEMMA RemindersAlways == LearningSpec => []RemindersInv
<1>1. LearningInit => RemindersInv
  BY NoticesInit, LadderInit DEF LearningInit, RemindersInv
<1>2. RemindersInv /\ [LearningNext]_learningVars => RemindersInv'
  BY RemindersInvNext
<1>3. QED
  BY <1>1, <1>2, PTL DEF LearningSpec

\* However the sweeps of the digests, kickoffs and coachings repeat, overlap
\* and fail, a notice is sent at most once, its coaching is composed at most
\* once, and without failures what is claimed is sent (the unique keys of
\* ReminderLog and CoachDigest in reminders.service.ts,
\* lifecycle-reminders.service.ts and coach.service.ts).
THEOREM NoticesAreSentOnce == LearningSpec => []NoticesOnce
<1>1. RemindersInv => NoticesOnce
  <2> SUFFICES ASSUME NoticesInv PROVE R!NoticesOnce
    BY DEF RemindersInv, NoticesOnce
  <2>1. ASSUME NEW k \in R!Keys, k \in claimed, fails = 0, delivered[k] # 1
        PROVE  \E s \in Sweeps : ~R!At(s, "claim") /\ sweep[s].key = k
    BY <2>1 DEF NoticesInv, Sent, Tended, R!At
  <2>2. QED
    BY <2>1 DEF NoticesInv, Sent, R!NoticesOnce
<1>2. QED
  BY <1>1, RemindersAlways, PTL

\* A review's rung changes only to the next one, and only after a digest named
\* the review on the rung it leaves: neither a second sweep of the day, nor one
\* that failed halfway, nor a second completion moves it otherwise
\* (sendDigestFor in reminders.service.ts, onLessonCompleted in
\* reminders.events-handler.ts).
THEOREM ReviewsClimb == LearningSpec => LadderClimbs
<1>1. RemindersInv /\ [LearningNext]_learningVars
        => [part = "reminders" => R!Climbs]_learningVars
  BY RemindersInvNext
<1>2. QED
  BY <1>1, RemindersAlways, PTL DEF LearningSpec, LadderClimbs

----------------------------------------------------------------------------
(* Integrity: what was not watched is known, and what was seen is kept.    *)

\* What the fields hold, but for the numbers of flags.
CallPcs == {"free", "sent", "insert", "tally", "update", "ack"}
IsCall(x) ==
  x \in [pc : CallPcs, events : SUBSET I!All, sender : {"waits", "requeued", "left"},
         tally : {x.tally}]
IsRow(rw) ==
  rw \in [submitted : BOOLEAN, flags : {rw.flags}, monitored : {"unsaid", "no"}]

IntegrityTyped ==
  /\ seen \subseteq I!All /\ buffer \subseteq Events
  /\ call = [c \in Calls |-> call[c]]
  /\ \A c \in Calls : IsCall(call[c])
  /\ logs \in [I!All -> 0..2]
  /\ IsRow(row)
  /\ fails \in Nat

\* The report is on the record, and its handler is not done.
Recording(x) == x.pc = "tally" \/ (x.pc = "update" /\ x.tally.unmonitored)

Admitted ==
  logs[Unmonitored] > 0 /\ fails = 0 =>
    row.monitored = "no" \/ \E c \in Calls : Recording(call[c])

\* What a handler has inserted is logged, unless the report came too late.
Logged(x, lg, late) ==
  x.pc \in {"tally", "update", "ack"} => late \/ \A e \in x.events : lg[e] > 0

\* A report that has yet to be logged, and that its page has not queued again.
Carries(x, e) ==
  x.pc \in {"sent", "insert"} /\ x.sender # "requeued" /\ e \in x.events

Kept(e) ==
  \/ e \in buffer
  \/ \E c \in Calls : Carries(call[c], e)
  \/ logs[e] > 0
  \/ e \in gone

IntegrityInv ==
  /\ IntegrityTyped
  /\ Admitted
  /\ \A c \in Calls : Logged(call[c], logs, row.submitted)
  /\ ~row.submitted => \A e \in seen \cap Events : Kept(e)

LEMMA FreeCall == IsCall(I!Free) /\ I!Free.pc = "free"
BY DEF I!Free, IsCall, CallPcs

LEMMA CallMoves ==
  ASSUME IntegrityTyped, NEW c \in Calls, NEW x, IsCall(x),
         call' = [call EXCEPT ![c] = x]
  PROVE  /\ call' = [d \in Calls |-> call'[d]] /\ call'[c] = x
         /\ \A d \in Calls : d # c => call'[d] = call[d]
         /\ \A d \in Calls : IsCall(call'[d])
<1>1. call = [d \in Calls |-> call[d]] /\ \A d \in Calls : IsCall(call[d])
  BY DEF IntegrityTyped
<1>2. /\ call' = [d \in Calls |-> call'[d]] /\ call'[c] = x
      /\ \A d \in Calls : d # c => call'[d] = call[d]
  BY <1>1
<1>3. QED
  BY <1>1, <1>2

\* What one slot's change leaves of an event, and what it does not.
KeptBut(c, e) ==
  \/ e \in buffer
  \/ \E d \in Calls \ {c} : Carries(call[d], e)
  \/ logs[e] > 0
  \/ e \in gone

LEMMA KeptSplits ==
  ASSUME NEW c \in Calls, NEW e
  PROVE  Kept(e) <=> KeptBut(c, e) \/ Carries(call[c], e)
BY DEF Kept, KeptBut

\* The call of one slot changes, and what it carried is found elsewhere.
LEMMA IntegrityMoves ==
  ASSUME IntegrityInv, NEW c \in Calls, NEW x, IsCall(x),
         call' = [call EXCEPT ![c] = x],
         row'.submitted = row.submitted, IsRow(row'),
         logs' \in [I!All -> 0..2],
         \A e \in I!All : logs[e] > 0 => logs'[e] > 0,
         fails' \in Nat, seen' \subseteq I!All, buffer' \subseteq Events,
         gone \subseteq gone',
         Logged(x, logs', row.submitted), Admitted',
         \A e \in seen' \cap Events :
           ~row.submitted /\ (e \in seen => KeptBut(c, e) \/ Carries(call[c], e)) =>
             \/ e \in buffer' \/ e \in gone' \/ logs'[e] > 0
             \/ \E d \in Calls \ {c} : Carries(call[d], e)
             \/ Carries(x, e)
  PROVE  IntegrityInv'
<1>1. /\ call' = [d \in Calls |-> call'[d]] /\ call'[c] = x
      /\ \A d \in Calls : d # c => call'[d] = call[d]
      /\ \A d \in Calls : IsCall(call'[d])
  BY CallMoves DEF IntegrityInv
<1>2. IntegrityTyped'
  BY <1>1 DEF IntegrityInv, IntegrityTyped, I!All, I!Camera
<1>3. \A d \in Calls : Logged(call'[d], logs', row'.submitted)
  <2>1. ASSUME NEW d \in Calls, d # c PROVE Logged(call[d], logs', row.submitted)
    <3>1. Logged(call[d], logs, row.submitted) /\ call[d].events \subseteq I!All
      BY DEF IntegrityInv, IntegrityTyped, IsCall
    <3>2. QED
      BY <3>1 DEF Logged
  <2>2. QED
    BY <1>1, <2>1
<1>4. ASSUME ~row'.submitted, NEW e \in seen' \cap Events PROVE Kept(e)'
  <2>1. e \in seen => KeptBut(c, e) \/ Carries(call[c], e)
    BY <1>4, KeptSplits DEF IntegrityInv
  <2>2. \/ e \in buffer' \/ e \in gone' \/ logs'[e] > 0
        \/ \E d \in Calls \ {c} : Carries(call[d], e)
        \/ Carries(x, e)
    BY <1>4, <2>1
  <2>3. ASSUME NEW d \in Calls, call'[d].pc \in {"sent", "insert"},
               call'[d].sender # "requeued", e \in call'[d].events
        PROVE  Kept(e)'
    BY <2>3 DEF Kept, Carries
  <2>4. QED
    BY <1>1, <2>2, <2>3 DEF Kept, Carries
<1>5. QED
  BY <1>2, <1>3, <1>4 DEF IntegrityInv

LEMMA AdmittedKept ==
  ASSUME IntegrityInv, NEW c \in Calls, NEW x, IsCall(x),
         call' = [call EXCEPT ![c] = x],
         row' = row, logs' = logs, fails' \in Nat, fails' = 0 => fails = 0,
         Recording(call[c]) /\ fails' = 0 /\ logs[Unmonitored] > 0 => Recording(x)
  PROVE  Admitted'
<1>1. call'[c] = x /\ \A d \in Calls : d # c => call'[d] = call[d]
  BY CallMoves DEF IntegrityInv
<1>2. QED
  BY <1>1 DEF IntegrityInv, Admitted

LEMMA SentFits ==
  ASSUME NEW events \in SUBSET I!All, NEW sender \in {"waits", "left"}
  PROVE  LET x == I!Sent(events, sender)
         IN  IsCall(x) /\ x.pc = "sent" /\ x.events = events /\ x.sender = sender
BY DEF I!Sent, I!Free, IsCall, CallPcs

\* A report: the events move from the buffer to the request.
LEMMA ReportKeeps ==
  ASSUME IntegrityInv, NEW c \in Calls, NEW events \in SUBSET I!All,
         NEW sender \in {"waits", "left"},
         I!Report(call, c, events, sender),
         UNCHANGED <<gone, logs, row, fails>>,
         seen' \subseteq I!All,
         buffer \subseteq buffer' \cup events, buffer' \subseteq Events,
         seen' \cap Events \subseteq seen \cup events
  PROVE  IntegrityInv'
<1> DEFINE x == I!Sent(events, sender)
<1>1. /\ IsCall(x) /\ x.pc = "sent" /\ x.events = events /\ x.sender = sender
      /\ call' = [call EXCEPT ![c] = x] /\ call[c] = I!Free
  BY SentFits DEF I!Report
<1> HIDE DEF x
<1>2. IsRow(row') /\ fails \in Nat /\ logs' \in [I!All -> 0..2]
  BY DEF IntegrityInv, IntegrityTyped, IsRow
<1>3. Admitted'
  <2>1. ~Recording(call[c])
    BY <1>1, FreeCall DEF Recording
  <2>2. QED
    BY <1>1, <1>2, <2>1, AdmittedKept
<1>4. Logged(x, logs', row.submitted) /\ ~\E e : Carries(call[c], e)
  BY <1>1, FreeCall DEF Logged, Carries
<1>5. \A e \in seen' \cap Events :
        (e \in seen => KeptBut(c, e)) =>
          \/ e \in buffer' \/ e \in gone' \/ logs'[e] > 0
          \/ \E d \in Calls \ {c} : Carries(call[d], e)
          \/ Carries(x, e)
  BY <1>1 DEF KeptBut, Carries
<1>6. QED
  BY <1>1, <1>2, <1>3, <1>4, <1>5, IntegrityMoves

\* Steps that leave the calls alone and forget nothing.
LEMMA IntegrityStays ==
  ASSUME IntegrityInv, UNCHANGED call,
         row'.submitted = row.submitted \/ row'.submitted,
         IsRow(row'),
         row.monitored = "no" => row'.monitored = "no",
         logs' \in [I!All -> 0..2], logs'[Unmonitored] = logs[Unmonitored],
         \A e \in I!All : logs[e] > 0 => logs'[e] > 0,
         fails' \in Nat, fails' = 0 => fails = 0,
         seen' \subseteq I!All, buffer' \subseteq Events, gone \subseteq gone',
         buffer \subseteq buffer' \cup gone',
         seen' \cap Events \subseteq seen \cup buffer'
  PROVE  IntegrityInv'
<1>1. IntegrityTyped'
  BY DEF IntegrityInv, IntegrityTyped, I!All
<1>2. Admitted'
  BY DEF IntegrityInv, Admitted
<1>3. \A c \in Calls : Logged(call'[c], logs', row'.submitted)
  <2>1. ASSUME NEW c \in Calls PROVE Logged(call[c], logs', row'.submitted)
    <3>1. Logged(call[c], logs, row.submitted) /\ call[c].events \subseteq I!All
      BY DEF IntegrityInv, IntegrityTyped, IsCall
    <3>2. QED
      BY <3>1 DEF Logged
  <2>2. QED
    BY <2>1
<1>4. ASSUME ~row'.submitted, NEW e \in seen' \cap Events
      PROVE  Kept(e)'
  <2>1. e \in buffer' \/ Kept(e)
    BY <1>4 DEF IntegrityInv
  <2>2. e \in I!All
    BY DEF I!All
  <2>3. QED
    BY <1>4, <2>1, <2>2 DEF Kept
<1>5. QED
  BY <1>1, <1>2, <1>3, <1>4 DEF IntegrityInv

LEMMA IntegrityInit == I!Init => IntegrityInv
<1> SUFFICES ASSUME I!Init PROVE IntegrityInv
  OBVIOUS
<1>1. \A c \in Calls : call[c] = I!Free
  BY DEF I!Init
<1>2. IntegrityTyped
  <2>1. call = [c \in Calls |-> call[c]]
    BY DEF I!Init
  <2>2. \A c \in Calls : IsCall(call[c])
    BY <1>1, FreeCall
  <2>3. IsRow(row)
    BY DEF I!Init, IsRow
  <2>4. seen \subseteq I!All /\ buffer \subseteq Events /\ logs \in [I!All -> 0..2] /\ fails \in Nat
    BY DEF I!Init
  <2>5. QED
    BY <2>1, <2>2, <2>3, <2>4 DEF IntegrityTyped
<1>3. Admitted
  BY DEF I!Init, Admitted, I!All, I!Camera
<1>4. \A c \in Calls : Logged(call[c], logs, row.submitted)
  BY <1>1, FreeCall DEF Logged
<1>5. QED
  BY <1>2, <1>3, <1>4 DEF IntegrityInv, I!Init

\* What a step that touches neither the row nor the logs starts from.
LEMMA IntegrityFields ==
  ASSUME IntegrityInv
  PROVE  /\ IsRow(row) /\ fails \in Nat /\ logs \in [I!All -> 0..2]
         /\ seen \subseteq I!All /\ buffer \subseteq Events /\ Events \subseteq I!All
         /\ row' = row => IsRow(row')
BY DEF IntegrityInv, IntegrityTyped, IsRow, I!All

LEMMA IntegrityObserve ==
  ASSUME IntegrityInv, NEW e \in I!All, I!Observe(e)
  PROVE  IntegrityInv'
<1>1. /\ e \in Events /\ seen' = seen \cup {e}
      /\ UNCHANGED <<gone, finalizer, logs, row, fails>>
  BY DEF I!Observe
<1>2. seen' \subseteq I!All
  BY <1>1, IntegrityFields
<1>3. CASE ~quiet /\ e \in Switches \cup Exits
  <2>1. PICK c \in Calls : I!Report(call, c, buffer \cup {e}, "waits")
    BY <1>3 DEF I!Observe, I!FlushBuffer
  <2>2. buffer' = {}
    BY <1>3 DEF I!Observe, I!FlushBuffer
  <2>3. buffer \cup {e} \in SUBSET I!All
    BY IntegrityFields
  <2>4. QED
    BY <1>1, <1>2, <2>1, <2>2, <2>3, ReportKeeps
<1>4. CASE quiet \/ e \notin Switches \cup Exits
  <2>1. buffer' = buffer \cup {e} /\ UNCHANGED call
    BY <1>4 DEF I!Observe, I!FlushBuffer
  <2>2. QED
    BY <1>1, <1>2, <2>1, IntegrityFields, IntegrityStays
<1>5. QED
  BY <1>3, <1>4

LEMMA IntegrityFlush ==
  ASSUME IntegrityInv, I!Flush
  PROVE  IntegrityInv'
<1>1. /\ UNCHANGED <<seen, gone, logs, row, fails>>
      /\ \E c \in Calls : I!Report(call, c, buffer, "waits") /\ buffer' = {}
  BY DEF I!Flush, I!FlushBuffer
<1>2. buffer \in SUBSET I!All /\ seen' \subseteq I!All
  BY <1>1, IntegrityFields
<1>3. QED
  BY <1>1, <1>2, ReportKeeps

LEMMA IntegrityCamera ==
  ASSUME IntegrityInv, NEW e \in I!All, I!ObserveCamera(e)
  PROVE  IntegrityInv'
<1>1. /\ seen' = seen \cup {e}
      /\ \E c \in Calls : I!Report(call, c, {e}, "left")
      /\ UNCHANGED <<buffer, gone, logs, row, fails>>
  BY DEF I!ObserveCamera
<1>2. {e} \in SUBSET I!All /\ seen' \subseteq I!All /\ buffer' \subseteq Events
  BY <1>1, IntegrityFields
<1>3. QED
  BY <1>1, <1>2, ReportKeeps

\* A report that comes to nothing goes back into the buffer of the page that
\* waits for it; without such a page, it is gone.
LEMMA DroppedKeeps ==
  ASSUME IntegrityInv, NEW c \in Calls, I!Dropped(c), UNCHANGED <<logs, row>>,
         NEW x, IsCall(x), call' = [call EXCEPT ![c] = x], fails' \in Nat, Admitted',
         Logged(x, logs', row.submitted)
  PROVE  IntegrityInv'
<1>1. /\ seen' = seen
      /\ buffer' = IF call[c].sender = "waits"
                   THEN buffer \cup (call[c].events \cap Events) ELSE buffer
      /\ gone' = IF call[c].sender = "left"
                 THEN gone \cup (call[c].events \cap Events) ELSE gone
  BY DEF I!Dropped, I!Requeue
<1>2. call[c].sender \in {"waits", "requeued", "left"}
  BY DEF IntegrityInv, IntegrityTyped, IsCall
<1>3. \A e \in seen' \cap Events :
        KeptBut(c, e) \/ Carries(call[c], e) =>
          \/ e \in buffer' \/ e \in gone' \/ logs'[e] > 0
          \/ \E d \in Calls \ {c} : Carries(call[d], e)
  BY <1>1, <1>2 DEF KeptBut, Carries
<1>4. buffer' \subseteq Events /\ gone \subseteq gone'
  BY <1>1, IntegrityFields
<1>5. QED
  BY <1>1, <1>3, <1>4, IntegrityFields, IntegrityMoves

LEMMA IntegrityLose ==
  ASSUME IntegrityInv, NEW c \in Calls, I!Lose(c) \/ I!FailHandler(c)
  PROVE  IntegrityInv'
<1> DEFINE given == [call[c] EXCEPT !.sender = "requeued"]
<1>1. UNCHANGED <<logs, row>> /\ fails' = fails + 1 /\ I!Dropped(c)
  BY DEF I!Lose, I!FailHandler
<1>2. IsCall(call[c]) /\ Logged(call[c], logs, row.submitted)
  BY DEF IntegrityInv, IntegrityTyped
<1>3. PICK x \in {I!Free, given} : call' = [call EXCEPT ![c] = x]
  BY DEF I!Lose, I!FailHandler
<1>4. /\ IsCall(given) /\ given.pc = call[c].pc /\ given.events = call[c].events
  BY <1>2 DEF IsCall
<1> HIDE DEF given
<1>5. IsCall(x) /\ Logged(x, logs', row.submitted)
  BY <1>1, <1>2, <1>4, FreeCall DEF Logged
<1>6. fails' \in Nat /\ fails' # 0
  BY <1>1, IntegrityFields
<1>7. Admitted'
  BY <1>6 DEF Admitted
<1>8. QED
  BY <1>1, <1>3, <1>5, <1>6, <1>7, DroppedKeeps

\* An answer: what was reported is on the record, or came too late.
LEMMA IntegrityAcknowledge ==
  ASSUME IntegrityInv, NEW c \in Calls, I!Acknowledge(c)
  PROVE  IntegrityInv'
<1>1. /\ UNCHANGED <<seen, buffer, gone, logs, row, fails>>
      /\ call[c].pc = "ack" /\ call' = [call EXCEPT ![c] = I!Free]
  BY DEF I!Acknowledge
<1>2. Admitted'
  <2>1. ~Recording(call[c])
    BY <1>1 DEF Recording
  <2>2. QED
    BY <1>1, <2>1, AdmittedKept, FreeCall, IntegrityFields
<1>3. \A e : ~Carries(call[c], e)
  BY <1>1 DEF Carries
<1>4. \A e \in seen' \cap Events :
        ~row.submitted /\ (e \in seen => KeptBut(c, e)) =>
          \/ e \in buffer' \/ e \in gone' \/ logs'[e] > 0
          \/ \E d \in Calls \ {c} : Carries(call[d], e)
  BY <1>1 DEF KeptBut
<1>5. Logged(I!Free, logs', row.submitted)
  BY FreeCall DEF Logged
<1>6. QED
  BY <1>1, <1>2, <1>3, <1>4, <1>5, FreeCall, IntegrityFields, IntegrityMoves

\* The page goes: nobody waits any more, and what is not sent is gone.
LEMMA DisownedCalls ==
  ASSUME IntegrityInv
  PROVE  /\ I!Disowned = [c \in Calls |-> I!Disowned[c]]
         /\ \A c \in Calls :
              LET x == I!Disowned[c] y == call[c] IN
              /\ IsCall(x) /\ x.pc = y.pc /\ x.events = y.events /\ x.tally = y.tally
              /\ \A e : Carries(y, e) => Carries(x, e)
<1>1. I!Disowned = [c \in Calls |-> I!Disowned[c]]
  BY DEF I!Disowned
<1>2. ASSUME NEW c \in Calls
      PROVE  LET x == I!Disowned[c] y == call[c] IN
             /\ IsCall(x) /\ x.pc = y.pc /\ x.events = y.events /\ x.tally = y.tally
             /\ x.sender \in {y.sender, "left"}
  <2> DEFINE y == call[c]
             left == [y EXCEPT !.sender = "left"]
  <2>1. IsCall(y)
    BY DEF IntegrityInv, IntegrityTyped
  <2>2. /\ IsCall(left) /\ left.pc = y.pc /\ left.events = y.events
        /\ left.tally = y.tally /\ left.sender = "left"
    BY <2>1 DEF IsCall
  <2>3. I!Disowned[c] = y \/ I!Disowned[c] = left
    BY DEF I!Disowned
  <2> HIDE DEF left, y
  <2>4. QED
    BY <2>1, <2>2, <2>3 DEF y
<1>3. QED
  BY <1>1, <1>2 DEF Carries

LEMMA IntegrityLeave ==
  ASSUME IntegrityInv, I!Leave \/ I!Unload
  PROVE  IntegrityInv'
<1>1. /\ UNCHANGED <<seen, logs, row, fails>> /\ buffer' = {} /\ gone \subseteq gone'
      /\ \/ call' = I!Disowned /\ buffer \subseteq gone'
         \/ \E c \in Calls : I!Report(I!Disowned, c, buffer, "left")
  BY DEF I!Leave, I!Unload
<1>2. /\ call' = [c \in Calls |-> call'[c]]
      /\ \A c \in Calls :
           /\ IsCall(call'[c]) /\ Logged(call'[c], logs', row'.submitted)
           /\ Recording(call[c]) => Recording(call'[c])
           /\ \A e : Carries(call[c], e) => Carries(call'[c], e)
      /\ \A e \in buffer : e \in gone' \/ \E c \in Calls : Carries(call'[c], e)
  <2>1. CASE call' = I!Disowned /\ buffer \subseteq gone'
    BY <1>1, <2>1, DisownedCalls DEF IntegrityInv, Logged, Recording
  <2>2. ASSUME NEW c \in Calls, I!Report(I!Disowned, c, buffer, "left")
        PROVE  /\ call' = [d \in Calls |-> call'[d]]
               /\ \A d \in Calls :
                    /\ IsCall(call'[d]) /\ Logged(call'[d], logs', row'.submitted)
                    /\ Recording(call[d]) => Recording(call'[d])
                    /\ \A e : Carries(call[d], e) => Carries(call'[d], e)
               /\ \A e \in buffer : \E d \in Calls : Carries(call'[d], e)
    <3> DEFINE x == I!Sent(buffer, "left")
    <3>1. /\ IsCall(x) /\ x.pc = "sent" /\ x.events = buffer /\ x.sender = "left"
      BY SentFits, IntegrityFields
    <3>2. call' = [I!Disowned EXCEPT ![c] = x] /\ I!Disowned[c] = I!Free
      BY <2>2 DEF I!Report
    <3> HIDE DEF x
    <3>3. /\ call' = [d \in Calls |-> call'[d]] /\ call'[c] = x
          /\ \A d \in Calls \ {c} : call'[d] = I!Disowned[d]
      BY <3>2, DisownedCalls
    <3>4. call[c].pc = "free"
      BY <3>2, FreeCall, DisownedCalls
    <3>5. ASSUME NEW d \in Calls
          PROVE  /\ IsCall(call'[d]) /\ Logged(call'[d], logs', row'.submitted)
                 /\ Recording(call[d]) => Recording(call'[d])
                 /\ \A e : Carries(call[d], e) => Carries(call'[d], e)
      <4>1. CASE d = c
        BY <3>1, <3>3, <3>4, <4>1 DEF Logged, Recording, Carries
      <4>2. CASE d # c
        BY <1>1, <3>3, <4>2, DisownedCalls DEF IntegrityInv, Logged, Recording
      <4>3. QED
        BY <4>1, <4>2
    <3>6. \A e \in buffer : Carries(call'[c], e)
      BY <3>1, <3>3 DEF Carries
    <3>7. QED
      BY <3>3, <3>5, <3>6
  <2>3. QED
    BY <1>1, <2>1, <2>2
<1>3. IntegrityTyped'
  BY <1>1, <1>2 DEF IntegrityInv, IntegrityTyped, IsRow, I!All
<1>4. Admitted'
  BY <1>1, <1>2 DEF IntegrityInv, Admitted
<1>5. ASSUME ~row'.submitted, NEW e \in seen' \cap Events PROVE Kept(e)'
  <2>1. Kept(e)
    BY <1>1, <1>5 DEF IntegrityInv
  <2>2. e \in gone' \/ logs'[e] > 0 \/ \E c \in Calls : Carries(call'[c], e)
    BY <1>1, <1>2, <2>1 DEF Kept
  <2>3. QED
    BY <2>2 DEF Kept, Carries
<1>6. QED
  BY <1>2, <1>3, <1>4, <1>5 DEF IntegrityInv

LEMMA IntegrityResume ==
  ASSUME IntegrityInv, I!Resume
  PROVE  IntegrityInv'
BY IntegrityFields, IntegrityStays DEF I!Resume

\* The row never takes back that nobody watched.
LEMMA WrittenRow ==
  ASSUME NEW old, NEW tally,
         IsRow(old)
  PROVE  LET new == I!Written(old, tally)
         IN  /\ IsRow(new)
             /\ new.submitted = old.submitted
             /\ old.monitored = "no" \/ tally.unmonitored => new.monitored = "no"
BY DEF I!Written, IsRow

LEMMA IntegrityFinalize ==
  ASSUME IntegrityInv, I!Finalize \/ I!Abort
  PROVE  IntegrityInv'
<1>1. /\ UNCHANGED <<seen, buffer, gone, call, logs, row>>
      /\ fails' \in {fails, fails + 1}
  BY DEF I!Finalize, I!Abort, I!page
<1>2. QED
  BY <1>1, IntegrityFields, IntegrityStays

LEMMA IntegrityCommit ==
  ASSUME IntegrityInv, I!Commit
  PROVE  IntegrityInv'
<1> DEFINE new == I!Written(row, finalizer.tally)
<1>1. /\ UNCHANGED <<seen, buffer, gone, call, fails>>
      /\ row' = [new EXCEPT !.submitted = TRUE]
      /\ logs' = IF finalizer.fast THEN [logs EXCEPT ![FastAnswer] = 1] ELSE logs
  BY DEF I!Commit, I!page
<1>2. IsRow(new) /\ (row.monitored = "no" => new.monitored = "no")
  BY IntegrityFields, WrittenRow
<1> HIDE DEF new
<1>3. IsRow(row') /\ row'.submitted = TRUE /\ row'.monitored = new.monitored
  BY <1>1, <1>2 DEF IsRow
<1>4. /\ logs' \in [I!All -> 0..2] /\ logs'[Unmonitored] = logs[Unmonitored]
      /\ \A e \in I!All : logs[e] > 0 => logs'[e] > 0
  BY <1>1, IntegrityFields, IntegrityAssumption DEF I!All, I!Camera
<1>5. QED
  BY <1>1, <1>2, <1>3, <1>4, IntegrityFields, IntegrityStays

\* The handler of a report: what it does to its call.
LEMMA HandlerMoves ==
  ASSUME IntegrityInv, NEW c \in Calls, NEW x, IsCall(x),
         call' = [call EXCEPT ![c] = x],
         UNCHANGED <<seen, buffer, gone, fails>>,
         row'.submitted = row.submitted, IsRow(row'),
         logs' \in [I!All -> 0..2],
         \A e \in I!All : logs[e] > 0 => logs'[e] > 0,
         \A e \in Events : Carries(call[c], e) =>
           Carries(x, e) \/ logs'[e] > 0 \/ row.submitted,
         Logged(x, logs', row.submitted), Admitted'
  PROVE  IntegrityInv'
<1>1. \A e \in seen' \cap Events :
        ~row.submitted /\ (e \in seen => KeptBut(c, e) \/ Carries(call[c], e)) =>
          \/ e \in buffer' \/ e \in gone' \/ logs'[e] > 0
          \/ \E d \in Calls \ {c} : Carries(call[d], e)
          \/ Carries(x, e)
  BY IntegrityFields DEF KeptBut
<1>2. fails' \in Nat /\ seen' \subseteq I!All /\ buffer' \subseteq Events
  BY IntegrityFields
<1>3. QED
  BY <1>1, <1>2, IntegrityMoves

LEMMA FinishedCall ==
  ASSUME NEW c \in Calls, IsCall(call[c]), NEW over
  PROVE  LET x == I!Finished(c, over)
         IN  /\ IsCall(x) /\ x.pc \in {"ack", "free"}
             /\ x.pc = "ack" => x.events = call[c].events
<1>1. CASE call[c].sender = "waits"
  <2> DEFINE t == [I!NoTally EXCEPT !.over = over]
             x == [call[c] EXCEPT !.pc = "ack", !.tally = t]
  <2>1. I!Finished(c, over) = x
    BY <1>1 DEF I!Finished
  <2> HIDE DEF t
  <2>2. IsCall(x) /\ x.pc = "ack" /\ x.events = call[c].events
    BY DEF IsCall, CallPcs
  <2> HIDE DEF x
  <2>3. QED
    BY <2>1, <2>2
<1>2. CASE call[c].sender # "waits"
  BY <1>2, FreeCall DEF I!Finished
<1>3. QED
  BY <1>1, <1>2

LEMMA IntegrityAccept ==
  ASSUME IntegrityInv, NEW c \in Calls, I!Accept(c)
  PROVE  IntegrityInv'
<1> DEFINE f == I!Finished(c, FALSE)
           i == [call[c] EXCEPT !.pc = "insert"]
<1>1. /\ UNCHANGED <<logs, row, fails>> /\ call[c].pc = "sent"
  BY DEF I!Accept
<1>2. IsCall(call[c]) /\ fails \in Nat /\ ~Recording(call[c])
  BY <1>1 DEF IntegrityInv, IntegrityTyped, Recording
<1>3. CASE I!Dropped(c) /\ call' = [call EXCEPT ![c] = I!Free]
  <2>1. Admitted'
    BY <1>1, <1>2, <1>3, AdmittedKept, FreeCall
  <2>2. Logged(I!Free, logs', row.submitted)
    BY FreeCall DEF Logged
  <2>3. QED
    BY <1>1, <1>2, <1>3, <2>1, <2>2, DroppedKeeps, FreeCall
<1>4. CASE call' = [call EXCEPT ![c] = IF row.submitted THEN f ELSE i] /\ UNCHANGED I!page
  <2>1. IsCall(f)
    BY <1>2, FinishedCall
  <2>2. /\ IsCall(i) /\ i.sender = call[c].sender /\ i.events = call[c].events
        /\ i.pc = "insert"
    BY <1>2 DEF IsCall, CallPcs
  <2> HIDE DEF f, i
  <2>3. PICK x \in {f, i} : /\ call' = [call EXCEPT ![c] = x]
                            /\ x # i => row.submitted
    BY <1>4
  <2>4. IsCall(x)
    BY <2>1, <2>2
  <2>5. Logged(x, logs', row.submitted)
    BY <2>2, <2>3 DEF Logged
  <2>6. Admitted'
    BY <1>1, <1>2, <2>3, <2>4, AdmittedKept
  <2>7. \A e \in Events : Carries(call[c], e) =>
          Carries(x, e) \/ logs'[e] > 0 \/ row.submitted
    BY <2>2, <2>3 DEF Carries
  <2>8. UNCHANGED <<seen, buffer, gone>>
    BY <1>4 DEF I!page
  <2>9. QED
    BY <1>1, <2>3, <2>4, <2>5, <2>6, <2>7, <2>8, IntegrityFields, HandlerMoves
<1>5. QED
  BY <1>3, <1>4 DEF I!Accept

LEMMA IntegrityInsert ==
  ASSUME IntegrityInv, NEW c \in Calls, I!Insert(c)
  PROVE  IntegrityInv'
<1> DEFINE x == [call[c] EXCEPT !.pc = "tally"]
<1>1. /\ UNCHANGED <<seen, buffer, gone, row, fails>>
      /\ call' = [call EXCEPT ![c] = x]
      /\ logs' = [e \in I!All |-> IF e \in call[c].events /\ logs[e] < 2
                                  THEN logs[e] + 1 ELSE logs[e]]
  BY DEF I!Insert, I!page
<1>2. IsCall(call[c]) /\ logs \in [I!All -> 0..2]
  BY DEF IntegrityInv, IntegrityTyped
<1>3. IsCall(x) /\ x.events = call[c].events /\ x.pc = "tally"
  BY <1>2 DEF IsCall, CallPcs
<1> HIDE DEF x
<1>4. /\ logs' \in [I!All -> 0..2]
      /\ \A e \in I!All : logs[e] > 0 => logs'[e] > 0
      /\ \A e \in call[c].events : logs'[e] > 0
  BY <1>1, <1>2 DEF IsCall
<1>5. Logged(x, logs', row.submitted)
  BY <1>3, <1>4 DEF Logged
<1>6. Admitted'
  <2>1. call'[c] = x
    BY <1>1, <1>3, CallMoves DEF IntegrityInv
  <2>2. Recording(call'[c])
    BY <1>3, <2>1 DEF Recording
  <2>3. QED
    BY <2>2 DEF Admitted
<1>7. \A e \in Events : Carries(call[c], e) => logs'[e] > 0
  BY <1>4 DEF Carries
<1>8. QED
  BY <1>1, <1>3, <1>4, <1>5, <1>6, <1>7, IntegrityFields, HandlerMoves

LEMMA IntegrityRecompute ==
  ASSUME IntegrityInv, NEW c \in Calls, I!Recompute(c)
  PROVE  IntegrityInv'
<1> DEFINE t == I!Tallied
           x == [call[c] EXCEPT !.pc = "update", !.tally = t]
<1>1. /\ UNCHANGED <<seen, buffer, gone, logs, row, fails>>
      /\ call[c].pc = "tally"
      /\ call' = [call EXCEPT ![c] = x]
  <2>1. call = [d \in Calls |-> call[d]]
    BY DEF IntegrityInv, IntegrityTyped
  <2>2. QED
    BY <2>1 DEF I!Recompute, I!page
<1>2. /\ IsCall(call[c]) /\ logs \in [I!All -> 0..2] /\ fails \in Nat
      /\ Logged(call[c], logs, row.submitted)
  BY DEF IntegrityInv, IntegrityTyped
<1>3. t.unmonitored = (logs[Unmonitored] > 0)
  BY DEF I!Tallied
<1> HIDE DEF t
<1>4. IsCall(x) /\ x.events = call[c].events /\ x.pc = "update" /\ x.tally = t
  BY <1>2 DEF IsCall, CallPcs
<1> HIDE DEF x
<1>5. Logged(x, logs', row.submitted)
  BY <1>1, <1>2, <1>4 DEF Logged
<1>6. Admitted'
  <2>1. logs[Unmonitored] > 0 => Recording(x)
    BY <1>3, <1>4 DEF Recording
  <2>2. QED
    BY <1>1, <1>2, <1>4, <2>1, AdmittedKept
<1>7. \A e : ~Carries(call[c], e)
  BY <1>1 DEF Carries
<1>8. QED
  BY <1>1, <1>2, <1>4, <1>5, <1>6, <1>7, IntegrityFields, HandlerMoves

\* The recompute is written: if it saw the report, the row says so.
LEMMA IntegrityUpdate ==
  ASSUME IntegrityInv, NEW c \in Calls, I!Update(c)
  PROVE  IntegrityInv'
<1> DEFINE over == call[c].tally.over
           x == I!Finished(c, over)
<1>1. /\ UNCHANGED <<seen, buffer, gone, logs, fails>>
      /\ call[c].pc = "update"
      /\ row' = I!Written(row, call[c].tally)
      /\ call' = [call EXCEPT ![c] = x]
  <2>1. call = [d \in Calls |-> call[d]]
    BY DEF IntegrityInv, IntegrityTyped
  <2>2. QED
    BY <2>1 DEF I!Update, I!page
<1>2. /\ IsCall(call[c]) /\ IsRow(row)
      /\ Logged(call[c], logs, row.submitted)
  BY DEF IntegrityInv, IntegrityTyped
<1>3. /\ IsCall(x) /\ x.pc \in {"ack", "free"}
      /\ x.pc = "ack" => x.events = call[c].events
  BY <1>2, FinishedCall
<1> HIDE DEF x
<1>4. /\ IsRow(row') /\ row'.submitted = row.submitted
      /\ row.monitored = "no" \/ call[c].tally.unmonitored
           => row'.monitored = "no"
  BY <1>1, <1>2, WrittenRow
<1>5. call'[c] = x /\ \A d \in Calls : d # c => call'[d] = call[d]
  BY <1>1, <1>3, CallMoves DEF IntegrityInv
<1>6. Admitted'
  <2>1. ASSUME logs[Unmonitored] > 0, fails = 0, row'.monitored # "no"
        PROVE  \E d \in Calls : Recording(call'[d])
    <3>1. PICK d \in Calls : Recording(call[d])
      BY <1>4, <2>1 DEF IntegrityInv, Admitted
    <3>2. d # c
      BY <1>1, <1>4, <2>1, <3>1 DEF Recording
    <3>3. QED
      BY <1>5, <3>1, <3>2
  <2>2. QED
    BY <1>1, <2>1 DEF Admitted
<1>7. Logged(x, logs', row.submitted)
  BY <1>1, <1>2, <1>3 DEF Logged
<1>8. \A e : ~Carries(call[c], e)
  BY <1>1 DEF Carries
<1>9. QED
  BY <1>1, <1>3, <1>4, <1>6, <1>7, <1>8, IntegrityFields, HandlerMoves

LEMMA IntegrityNext == IntegrityInv /\ I!Next => IntegrityInv'
BY IntegrityObserve, IntegrityFlush, IntegrityCamera, IntegrityLose,
   IntegrityAcknowledge, IntegrityLeave, IntegrityResume, IntegrityFinalize,
   IntegrityCommit, IntegrityAccept, IntegrityInsert, IntegrityRecompute,
   IntegrityUpdate
   DEF I!Next, I!Handle

SittingInv == part = "integrity" => IntegrityInv

LEMMA SittingAlways == LearningSpec => []SittingInv
<1>1. LearningInit => SittingInv
  BY IntegrityInit DEF LearningInit, SittingInv
<1>2. SittingInv /\ [LearningNext]_learningVars => SittingInv'
  <2> SUFFICES ASSUME SittingInv, [LearningNext]_learningVars PROVE SittingInv'
    OBVIOUS
  <2>1. CASE UNCHANGED learningVars
    BY <2>1 DEF learningVars, IntegrityVars, SittingInv, IntegrityInv,
         IntegrityTyped, IsRow, IsCall, Admitted, Kept, I!All
  <2>2. CASE LearningNext
    BY <2>2, IntegrityNext DEF LearningNext, SittingInv
  <2>3. QED
    BY <2>1, <2>2
<1>3. QED
  BY <1>1, <1>2, PTL DEF LearningSpec

\* Without failures, once a report that the camera's monitor never loaded is on
\* the record and the handlers are through, the attempt's row says that nobody
\* watched, whatever recompute or finalisation read the logs earlier
\* (recomputeIntegrity and finalize in attempts.service.ts).
THEOREM UnmonitoredStaysKnown == LearningSpec => []UnmonitoredIsKnown
<1>1. SittingInv => UnmonitoredIsKnown
  BY DEF SittingInv, IntegrityInv, Admitted, Recording, UnmonitoredIsKnown,
         I!UnmonitoredIsKnown, I!Settled
<1>2. QED
  BY <1>1, SittingAlways, PTL

\* While the attempt goes on, an observed event is in the buffer, in a report
\* that is yet to be logged, logged, or was lost with the memory of a page that
\* was left, reloaded or closed: no lost, refused or failed report alone makes
\* it forgotten (flush in use-anti-cheat.ts, ingestAntiCheat in
\* attempts.service.ts).
THEOREM EventsGoWithPages == LearningSpec => []EventsKept
<1>1. SittingInv => EventsKept
  BY DEF SittingInv, IntegrityInv, Kept, Carries, EventsKept, I!EventsKept
<1>2. QED
  BY <1>1, SittingAlways, PTL

----------------------------------------------------------------------------
(* Engagement: what is earned is held.                                     *)

EngagementPcs ==
  {"idle", "record", "day", "begin", "commit", "earn", "held", "award"}
Handling == [pc : EngagementPcs, trigger : E!Triggers, day : 0..MaxDay,
             row : E!Streak, retried : BOOLEAN, current : Nat, bridged : BOOLEAN,
             keys : SUBSET E!Keys]

EngagementTyped ==
  /\ recorded \subseteq Lessons /\ streak \in E!Streak /\ badges \subseteq E!Keys
  /\ handler \in [Handlers -> Handling]
  /\ today \in 1..MaxDay /\ gaveUp \in BOOLEAN /\ fails \in 0..MaxFails
  /\ active \subseteq 1..MaxDay /\ days \subseteq active /\ moves \in 0..MaxMoves

\* A handler that moves the streak is of the learner's own doing, on a day that
\* it read from the clock.
Doing(x) ==
  /\ x.pc \in {"day", "begin", "commit"} => x.trigger # "entity"
  /\ x.pc \in {"begin", "commit"} => x.day \in active

\* A handler will yet award the badge for n lessons, or for a streak of n days.
OnLessons(x, n) ==
  \/ x.pc \in {"day", "begin", "commit", "earn"}
  \/ x.pc \in {"held", "award"} /\ <<"lessons", n>> \in x.keys
OnStreak(x, n) ==
  \/ x.pc = "earn" /\ x.trigger # "entity" /\ x.current >= n
  \/ x.pc \in {"held", "award"} /\ <<"streak", n>> \in x.keys

Earns ==
  fails = 0 /\ ~gaveUp =>
    /\ \A n \in LessonBadges : Cardinality(recorded) >= n =>
         <<"lessons", n>> \in badges \/ \E h \in Handlers : OnLessons(handler[h], n)
    /\ \A n \in StreakBadges : streak.longest >= n =>
         <<"streak", n>> \in badges \/ \E h \in Handlers : OnStreak(handler[h], n)

EngagementInv ==
  /\ EngagementTyped
  /\ \A h \in Handlers : Doing(handler[h])
  /\ Earns

\* The engagement's own instance of the standard module counts as it does.
LEMMA SameCount == E!Cardinality(recorded) = Cardinality(recorded)
BY DEF E!Cardinality, Cardinality

LEMMA MaxOfTwo ==
  ASSUME NEW a \in Nat, NEW b \in Nat
  PROVE  E!Max({a, b}) = IF a >= b THEN a ELSE b
BY DEF E!Max

LEMMA MinOfTwo ==
  ASSUME NEW a \in Nat, NEW b \in Nat
  PROVE  E!Min({a, b}) = IF a <= b THEN a ELSE b
BY DEF E!Min

LEMMA EngagementConstants ==
  /\ MaxDay \in Nat /\ 0 \in 0..MaxDay /\ 1 \in 1..MaxDay /\ MaxFails \in Nat
  /\ 0 \in 0..MaxFails /\ MaxMoves \in Nat /\ 0 \in 0..MaxMoves
  /\ MAX_FREEZES \in Nat /\ 0 \in 0..MAX_FREEZES /\ FREEZE_MILESTONE \in Nat \ {0}
BY BoundsAssumption, AttemptsAssumption, EngagementAssumption

LEMMA NoStreakFits == E!NoStreak \in E!Streak
BY EngagementConstants DEF E!NoStreak, E!Streak

\* A handler that is through, or begins.
LEMMA IdleFits ==
  /\ E!Idle \in Handling /\ E!Idle.pc = "idle" /\ E!Idle.keys = {}
  /\ \A a : E!Idle.pc \notin {"day", "begin", "commit"}
BY EngagementConstants, NoStreakFits
   DEF E!Idle, Handling, EngagementPcs, E!Triggers

\* The handler of h changes, and what it was going to award is held, or it
\* still is going to.
LEMMA EngagementMoves ==
  ASSUME EngagementInv, NEW h \in Handlers, NEW x, x \in Handling,
         handler' = [handler EXCEPT ![h] = x],
         recorded' \subseteq Lessons, streak' \in E!Streak,
         badges' \subseteq E!Keys, badges \subseteq badges',
         today' \in 1..MaxDay, gaveUp' \in BOOLEAN, gaveUp => gaveUp',
         fails' = fails, moves' = moves,
         active' \subseteq 1..MaxDay, active \subseteq active', days' \subseteq active',
         x.pc \in {"day", "begin", "commit"} => x.trigger # "entity",
         x.pc \in {"begin", "commit"} => x.day \in active',
         fails = 0 /\ ~gaveUp' =>
           /\ \A n \in LessonBadges : Cardinality(recorded') >= n =>
                \/ <<"lessons", n>> \in badges' \/ OnLessons(x, n)
                \/ Cardinality(recorded) >= n /\ ~OnLessons(handler[h], n)
           /\ \A n \in StreakBadges : streak'.longest >= n =>
                \/ <<"streak", n>> \in badges' \/ OnStreak(x, n)
                \/ streak.longest >= n /\ ~OnStreak(handler[h], n)
  PROVE  EngagementInv'
<1>1. handler' \in [Handlers -> Handling]
  BY DEF EngagementInv, EngagementTyped
<1>2. handler'[h] = x /\ \A g \in Handlers : g # h => handler'[g] = handler[g]
  BY DEF EngagementInv, EngagementTyped
<1>3. EngagementTyped'
  BY <1>1 DEF EngagementInv, EngagementTyped, E!Keys, E!Streak, Handling, E!Triggers
<1>4. \A g \in Handlers : Doing(handler[g])'
  BY <1>2 DEF EngagementInv, Doing
<1>5. Earns'
  <2> SUFFICES ASSUME fails = 0, ~gaveUp' PROVE
        /\ \A n \in LessonBadges : Cardinality(recorded') >= n =>
             \/ <<"lessons", n>> \in badges'
             \/ \E g \in Handlers : OnLessons(handler'[g], n)
        /\ \A n \in StreakBadges : streak'.longest >= n =>
             \/ <<"streak", n>> \in badges'
             \/ \E g \in Handlers : OnStreak(handler'[g], n)
    BY DEF Earns
  <2>1. ~gaveUp /\ Earns
    BY DEF EngagementInv
  <2>2. ASSUME NEW n \in LessonBadges, Cardinality(recorded') >= n,
               <<"lessons", n>> \notin badges', ~OnLessons(x, n)
        PROVE  \E g \in Handlers : OnLessons(handler'[g], n)
    <3>1. Cardinality(recorded) >= n /\ ~OnLessons(handler[h], n)
      BY <2>2
    <3>2. PICK g \in Handlers : OnLessons(handler[g], n)
      BY <2>1, <2>2, <3>1 DEF Earns
    <3>3. QED
      BY <1>2, <3>1, <3>2
  <2>3. ASSUME NEW n \in StreakBadges, streak'.longest >= n,
               <<"streak", n>> \notin badges', ~OnStreak(x, n)
        PROVE  \E g \in Handlers : OnStreak(handler'[g], n)
    <3>1. streak.longest >= n /\ ~OnStreak(handler[h], n)
      BY <2>3
    <3>2. PICK g \in Handlers : OnStreak(handler[g], n)
      BY <2>1, <2>3, <3>1 DEF Earns
    <3>3. QED
      BY <1>2, <3>1, <3>2
  <2>4. QED
    BY <1>2, <2>2, <2>3
<1>6. QED
  BY <1>3, <1>4, <1>5 DEF EngagementInv

\* So for the steps that leave the record, the row and the history alone.
LEMMA EngagementSteps ==
  ASSUME EngagementInv, NEW h \in Handlers, NEW x, x \in Handling,
         handler' = [handler EXCEPT ![h] = x],
         UNCHANGED <<recorded, streak, today, active, days, gaveUp, moves, fails>>,
         badges' \subseteq E!Keys, badges \subseteq badges',
         x.pc \in {"day", "begin", "commit"} => x.trigger # "entity",
         x.pc \in {"begin", "commit"} => x.day \in active,
         \A n \in LessonBadges :
           Cardinality(recorded) >= n /\ OnLessons(handler[h], n) =>
             <<"lessons", n>> \in badges' \/ OnLessons(x, n),
         \A n \in StreakBadges :
           streak.longest >= n /\ OnStreak(handler[h], n) =>
             <<"streak", n>> \in badges' \/ OnStreak(x, n)
  PROVE  EngagementInv'
<1>1. /\ recorded \subseteq Lessons /\ streak \in E!Streak
      /\ today \in 1..MaxDay /\ gaveUp \in BOOLEAN
      /\ active \subseteq 1..MaxDay /\ days \subseteq active
  BY DEF EngagementInv, EngagementTyped
<1>2. QED
  BY <1>1, EngagementMoves

LEMMA EngagementInit == E!Init => EngagementInv
<1> SUFFICES ASSUME E!Init PROVE EngagementInv
  OBVIOUS
<1>1. EngagementTyped
  BY EngagementConstants, NoStreakFits, IdleFits DEF E!Init, EngagementTyped
<1>2. \A h \in Handlers : Doing(handler[h])
  BY IdleFits DEF E!Init, Doing
<1>3. Earns
  <2>1. Cardinality(recorded) = 0 /\ streak.longest = 0
    BY FS_EmptySet DEF E!Init, E!NoStreak
  <2>2. /\ \A n \in LessonBadges : ~(Cardinality(recorded) >= n)
        /\ \A n \in StreakBadges : ~(streak.longest >= n)
    BY <2>1, EngagementAssumption
  <2>3. QED
    BY <2>2 DEF Earns
<1>4. QED
  BY <1>1, <1>2, <1>3 DEF EngagementInv

LEMMA EngagementEmit ==
  ASSUME EngagementInv, NEW h \in Handlers, NEW t \in E!Triggers, E!Emit(h, t)
  PROVE  EngagementInv'
<1> DEFINE x == [E!Idle EXCEPT !.pc = "record", !.trigger = t]
<1>1. /\ handler[h].pc = "idle" /\ handler' = [handler EXCEPT ![h] = x]
      /\ UNCHANGED <<recorded, streak, badges, today, active, days, gaveUp, moves, fails>>
  BY DEF E!Emit, E!At
<1>2. x \in Handling /\ x.pc = "record"
  BY IdleFits DEF Handling, EngagementPcs
<1> HIDE DEF x
<1>3. badges \subseteq E!Keys
  BY DEF EngagementInv, EngagementTyped
<1>4. /\ \A n \in LessonBadges : ~OnLessons(handler[h], n)
      /\ \A n \in StreakBadges : ~OnStreak(handler[h], n)
  BY <1>1 DEF OnLessons, OnStreak
<1>5. QED
  BY <1>1, <1>2, <1>3, <1>4, EngagementSteps

\* A new record has its own handler see to what it earns.
LEMMA EngagementRecord ==
  ASSUME EngagementInv, NEW h \in Handlers, E!Record(h)
  PROVE  EngagementInv'
<1> DEFINE to == IF handler[h].trigger = "entity" THEN "earn" ELSE "day"
           x == [handler[h] EXCEPT !.pc = to]
<1>1. /\ handler[h].pc = "record" /\ handler' = [handler EXCEPT ![h] = x]
      /\ recorded' = recorded \cup ({handler[h].trigger} \cap Lessons)
      /\ UNCHANGED <<streak, badges, today, active, days, gaveUp, moves, fails>>
  BY DEF E!Record, E!At, E!Goto, EngagementInv, EngagementTyped
<1>2. handler[h] \in Handling /\ EngagementTyped
  BY DEF EngagementInv, EngagementTyped
<1>3. /\ x \in Handling /\ x.pc \in {"earn", "day"}
      /\ x.pc = "day" => x.trigger # "entity"
  BY <1>2 DEF Handling, EngagementPcs
<1> HIDE DEF x
<1>4. /\ \A n \in LessonBadges : OnLessons(x, n)
      /\ \A n \in StreakBadges : ~OnStreak(handler[h], n)
  BY <1>1, <1>3 DEF OnLessons, OnStreak
<1>5. /\ recorded' \subseteq Lessons /\ streak' \in E!Streak /\ badges' \subseteq E!Keys
      /\ badges \subseteq badges' /\ today' \in 1..MaxDay /\ gaveUp' \in BOOLEAN
      /\ active' \subseteq 1..MaxDay /\ active \subseteq active' /\ days' \subseteq active'
  BY <1>1, <1>2 DEF EngagementTyped
<1>6. /\ x.pc \in {"day", "begin", "commit"} => x.trigger # "entity"
      /\ x.pc \notin {"begin", "commit"}
  BY <1>3
<1>7. QED
  BY <1>1, <1>3, <1>4, <1>5, <1>6, EngagementMoves

LEMMA EngagementReadDay ==
  ASSUME EngagementInv, NEW h \in Handlers, E!ReadDay(h)
  PROVE  EngagementInv'
<1> DEFINE x == [handler[h] EXCEPT !.pc = "begin", !.day = today]
<1>1. /\ handler[h].pc = "day" /\ handler' = [handler EXCEPT ![h] = x]
      /\ active' = active \cup {today}
      /\ UNCHANGED <<recorded, streak, badges, today, days, gaveUp, moves, fails>>
  BY DEF E!ReadDay, E!At, EngagementInv, EngagementTyped
<1>2. handler[h] \in Handling /\ Doing(handler[h]) /\ EngagementTyped
  BY DEF EngagementInv, EngagementTyped
<1>0. today \in 0..MaxDay
  BY <1>2, EngagementConstants DEF EngagementTyped
<1>3. /\ x \in Handling /\ x.pc = "begin" /\ x.day = today
      /\ x.trigger = handler[h].trigger
  BY <1>2, <1>0 DEF Handling, EngagementPcs
<1> HIDE DEF x
<1>4. x.trigger # "entity"
  BY <1>1, <1>2, <1>3 DEF Doing
<1>5. /\ \A n \in LessonBadges : OnLessons(x, n)
      /\ \A n \in StreakBadges : ~OnStreak(handler[h], n)
  BY <1>1, <1>3 DEF OnLessons, OnStreak
<1>6. /\ recorded' \subseteq Lessons /\ streak' \in E!Streak /\ badges' \subseteq E!Keys
      /\ badges \subseteq badges' /\ today' \in 1..MaxDay /\ gaveUp' \in BOOLEAN
      /\ active' \subseteq 1..MaxDay /\ active \subseteq active' /\ days' \subseteq active'
      /\ x.day \in active'
  BY <1>1, <1>2, <1>3 DEF EngagementTyped
<1>7. QED
  BY <1>1, <1>3, <1>4, <1>5, <1>6, EngagementMoves

LEMMA EngagementBegin ==
  ASSUME EngagementInv, NEW h \in Handlers, E!Begin(h)
  PROVE  EngagementInv'
<1> DEFINE x == [handler[h] EXCEPT !.pc = "commit", !.row = streak]
<1>1. /\ handler[h].pc = "begin" /\ handler' = [handler EXCEPT ![h] = x]
      /\ UNCHANGED <<recorded, streak, badges, today, active, days, gaveUp, moves, fails>>
  BY DEF E!Begin, E!At, EngagementInv, EngagementTyped
<1>2. /\ handler[h] \in Handling /\ Doing(handler[h]) /\ streak \in E!Streak
      /\ badges \subseteq E!Keys
  BY DEF EngagementInv, EngagementTyped
<1>3. /\ x \in Handling /\ x.pc = "commit" /\ x.day = handler[h].day
      /\ x.trigger = handler[h].trigger
  BY <1>2 DEF Handling, EngagementPcs
<1> HIDE DEF x
<1>4. x.trigger # "entity" /\ x.day \in active
  BY <1>1, <1>2, <1>3 DEF Doing
<1>5. /\ \A n \in LessonBadges : OnLessons(x, n)
      /\ \A n \in StreakBadges : ~OnStreak(handler[h], n)
  BY <1>1, <1>3 DEF OnLessons, OnStreak
<1>6. QED
  BY <1>1, <1>2, <1>3, <1>4, <1>5, EngagementSteps

LEMMA JudgingFits ==
  ASSUME NEW h \in Handlers, handler[h] \in Handling, NEW rw \in E!Streak,
         NEW b \in BOOLEAN
  PROVE  /\ E!Judging(h, rw, b) \in Handling
         /\ E!Judging(h, rw, b).pc = "earn"
         /\ E!Judging(h, rw, b).trigger = handler[h].trigger
         /\ E!Judging(h, rw, b).current = rw.current
BY IdleFits DEF E!Judging, Handling, EngagementPcs, E!Streak

LEMMA EngagementSame ==
  ASSUME EngagementInv, NEW h \in Handlers, E!Same(h)
  PROVE  EngagementInv'
<1> DEFINE x == E!Judging(h, handler[h].row, FALSE)
<1>1. /\ handler[h].pc = "commit" /\ handler' = [handler EXCEPT ![h] = x]
      /\ UNCHANGED <<recorded, streak, badges, today, active, days, gaveUp, moves, fails>>
  BY DEF E!Same, E!At
<1>2. /\ handler[h] \in Handling /\ handler[h].row \in E!Streak
      /\ badges \subseteq E!Keys
  BY DEF EngagementInv, EngagementTyped, Handling
<1>3. x \in Handling /\ x.pc = "earn"
  BY <1>2, JudgingFits
<1> HIDE DEF x
<1>4. /\ \A n \in LessonBadges : OnLessons(x, n)
      /\ \A n \in StreakBadges : ~OnStreak(handler[h], n)
  BY <1>1, <1>3 DEF OnLessons, OnStreak
<1>5. QED
  BY <1>1, <1>2, <1>3, <1>4, EngagementSteps

\* The streak after a day that moves it: the bank of freezes is neither
\* overdrawn nor over its cap, and the longest streak is as long as the current.
LEMMA MovedFits ==
  ASSUME NEW s \in E!Streak, NEW day \in 0..MaxDay, ~E!Unmoved(s, day)
  PROVE  /\ E!Moved(s, day) \in E!Streak
         /\ E!Moved(s, day).longest =
              IF s.longest >= E!Moved(s, day).current THEN s.longest
              ELSE E!Moved(s, day).current
<1> DEFINE current == IF E!Survives(s, day) THEN s.current + 1 ELSE 1
           left == IF E!Survives(s, day) THEN s.freezes - E!Missed(s, day) ELSE s.freezes
           banked == IF current % FREEZE_MILESTONE = 0 THEN E!Banked(left) ELSE left
           longest == E!Max({s.longest, current})
<1>1. E!Moved(s, day) = [current |-> current, longest |-> longest,
                         freezes |-> banked, last |-> day]
  BY DEF E!Moved
<1>2. /\ s.current \in Nat /\ s.longest \in Nat /\ s.freezes \in 0..MAX_FREEZES
      /\ s.last \in 0..MaxDay
  BY DEF E!Streak
<1>3. current \in Nat /\ left \in 0..MAX_FREEZES
  BY <1>2, EngagementConstants DEF E!Survives, E!Unmoved, E!Missed
<1>4. longest = IF s.longest >= current THEN s.longest ELSE current
  BY <1>2, <1>3, MaxOfTwo
<1>5. banked \in 0..MAX_FREEZES
  <2> HIDE DEF left
  <2>1. left + 1 \in Nat
    BY <1>3
  <2>2. E!Banked(left) = IF MAX_FREEZES <= left + 1 THEN MAX_FREEZES ELSE left + 1
    BY <2>1, MinOfTwo, EngagementConstants DEF E!Banked
  <2>3. QED
    BY <1>3, <2>1, <2>2, EngagementConstants
<1> HIDE DEF current, left, banked, longest
<1>6. QED
  BY <1>1, <1>2, <1>3, <1>4, <1>5 DEF E!Streak

\* The committed update goes on to be judged: it is what the longest streak may
\* have become.
LEMMA EngagementCommit ==
  ASSUME EngagementInv, NEW h \in Handlers, E!Commit(h)
  PROVE  EngagementInv'
<1> DEFINE rw == handler[h].row
           day == handler[h].day
           b == E!Survives(rw, day) /\ E!Missed(rw, day) > 0
           moved == E!Moved(rw, day)
           x == E!Judging(h, moved, b)
<1>1. /\ handler[h].pc = "commit" /\ ~E!Unmoved(rw, day) /\ streak = rw
      /\ streak' = moved /\ days' = days \cup {day}
      /\ handler' = [handler EXCEPT ![h] = x]
      /\ UNCHANGED <<recorded, badges, today, active, gaveUp, moves, fails>>
  BY DEF E!Commit, E!At
<1>2. /\ handler[h] \in Handling /\ rw \in E!Streak /\ day \in 0..MaxDay
      /\ EngagementTyped /\ Doing(handler[h])
  BY DEF EngagementInv, EngagementTyped, Handling
<1>3. b \in BOOLEAN
  BY DEF E!Survives
<1> HIDE DEF rw, day, b
<1>4. /\ moved \in E!Streak
      /\ moved.longest =
           IF rw.longest >= moved.current THEN rw.longest ELSE moved.current
  BY <1>1, <1>2, MovedFits
<1> HIDE DEF moved
<1>5. /\ x \in Handling /\ x.pc = "earn" /\ x.trigger = handler[h].trigger
      /\ x.current = moved.current
  BY <1>2, <1>3, <1>4, JudgingFits
<1> HIDE DEF x
<1>6. x.trigger # "entity" /\ day \in active
  BY <1>1, <1>2, <1>5 DEF Doing, day
<1>7. /\ \A n \in LessonBadges : OnLessons(x, n)
      /\ \A n \in StreakBadges : ~OnStreak(handler[h], n)
  BY <1>1, <1>5 DEF OnLessons, OnStreak
<1>8. \A n \in StreakBadges :
        streak'.longest >= n => OnStreak(x, n) \/ streak.longest >= n
  BY <1>1, <1>4, <1>5, <1>6 DEF OnStreak
<1>9. /\ recorded' \subseteq Lessons /\ streak' \in E!Streak /\ badges' \subseteq E!Keys
      /\ badges \subseteq badges' /\ today' \in 1..MaxDay /\ gaveUp' \in BOOLEAN
      /\ active' \subseteq 1..MaxDay /\ active \subseteq active' /\ days' \subseteq active'
  BY <1>1, <1>2, <1>4, <1>6 DEF EngagementTyped
<1>10. x.pc \notin {"day", "begin", "commit"}
  BY <1>5
<1>11. QED
  BY <1>1, <1>5, <1>7, <1>8, <1>9, <1>10, EngagementMoves

LEMMA EngagementConflict ==
  ASSUME EngagementInv, NEW h \in Handlers, E!Conflict(h)
  PROVE  EngagementInv'
<1>1. /\ handler[h].pc = "commit"
      /\ UNCHANGED <<recorded, streak, badges, today, active, days, moves, fails>>
  BY DEF E!Conflict, E!At
<1>2. /\ handler[h] \in Handling /\ Doing(handler[h]) /\ EngagementTyped
  BY DEF EngagementInv, EngagementTyped
<1>3. CASE E!Retries(h)
  <2> DEFINE x == [handler[h] EXCEPT !.pc = "begin", !.retried = TRUE]
  <2>1. handler' = [handler EXCEPT ![h] = x] /\ UNCHANGED gaveUp
    BY <1>3 DEF E!Conflict, EngagementInv, EngagementTyped
  <2>2. /\ x \in Handling /\ x.pc = "begin" /\ x.day = handler[h].day
        /\ x.trigger = handler[h].trigger
    BY <1>2 DEF Handling, EngagementPcs
  <2> HIDE DEF x
  <2>3. x.trigger # "entity" /\ x.day \in active
    BY <1>1, <1>2, <2>2 DEF Doing
  <2>4. /\ \A n \in LessonBadges : OnLessons(x, n)
        /\ \A n \in StreakBadges : ~OnStreak(handler[h], n)
    BY <1>1, <2>2 DEF OnLessons, OnStreak
  <2>5. badges \subseteq E!Keys
    BY <1>2 DEF EngagementTyped
  <2>6. QED
    BY <1>1, <2>1, <2>2, <2>3, <2>4, <2>5, EngagementSteps
<1>4. CASE ~E!Retries(h)
  <2> DEFINE x == E!Idle
  <2>1. handler' = [handler EXCEPT ![h] = x] /\ gaveUp' = TRUE
    BY <1>4 DEF E!Conflict, E!Done
  <2>2. /\ recorded' \subseteq Lessons /\ streak' \in E!Streak
        /\ badges' \subseteq E!Keys /\ badges \subseteq badges'
        /\ today' \in 1..MaxDay /\ gaveUp' \in BOOLEAN
        /\ active' \subseteq 1..MaxDay /\ active \subseteq active'
        /\ days' \subseteq active'
    BY <1>1, <1>2, <2>1 DEF EngagementTyped
  <2> HIDE DEF x
  <2>3. x \in Handling /\ x.pc = "idle"
    BY IdleFits DEF x
  <2>4. QED
    BY <1>1, <2>1, <2>2, <2>3, EngagementMoves
<1>5. QED
  BY <1>3, <1>4

LEMMA EarnedFits ==
  ASSUME NEW h \in Handlers
  PROVE  /\ E!Earned(h) \subseteq E!Keys
         /\ \A n \in LessonBadges :
              Cardinality(recorded) >= n => <<"lessons", n>> \in E!Earned(h)
         /\ \A n \in StreakBadges :
              handler[h].trigger # "entity" /\ handler[h].current >= n =>
                <<"streak", n>> \in E!Earned(h)
<1> DEFINE current == IF handler[h].trigger = "entity" THEN streak.current
                      ELSE handler[h].current
           A == {"lessons"} \X {n \in LessonBadges : Cardinality(recorded) >= n}
           B == {"streak"} \X {n \in StreakBadges : current >= n}
           C == IF handler[h].bridged THEN {<<"comeback", 0>>} ELSE {}
<1>1. E!Earned(h) = A \cup B \cup C
  BY SameCount DEF E!Earned
<1>2. /\ A \subseteq {"lessons"} \X LessonBadges
      /\ B \subseteq {"streak"} \X StreakBadges
      /\ C \subseteq {<<"comeback", 0>>}
  OBVIOUS
<1>3. \A n \in LessonBadges : Cardinality(recorded) >= n => <<"lessons", n>> \in A
  OBVIOUS
<1>4. \A n \in StreakBadges :
        handler[h].trigger # "entity" /\ handler[h].current >= n =>
          <<"streak", n>> \in B
  OBVIOUS
<1> HIDE DEF A, B, C
<1>5. QED
  BY <1>1, <1>2, <1>3, <1>4 DEF E!Keys

LEMMA EngagementEarn ==
  ASSUME EngagementInv, NEW h \in Handlers, E!Earn(h)
  PROVE  EngagementInv'
<1> DEFINE ks == E!Earned(h)
           w == [E!Idle EXCEPT !.pc = "held", !.keys = ks]
<1>1. /\ handler[h].pc = "earn"
      /\ UNCHANGED <<recorded, streak, badges, today, active, days, gaveUp, moves, fails>>
      /\ handler' = [handler EXCEPT ![h] = IF ks = {} THEN E!Idle ELSE w]
  BY DEF E!Earn, E!At, E!Done
<1>2. handler[h] \in Handling /\ badges \subseteq E!Keys
  BY DEF EngagementInv, EngagementTyped
<1>3. /\ ks \subseteq E!Keys
      /\ \A n \in LessonBadges : Cardinality(recorded) >= n => <<"lessons", n>> \in ks
      /\ \A n \in StreakBadges : OnStreak(handler[h], n) => <<"streak", n>> \in ks
  BY <1>1, EarnedFits DEF OnStreak
<1> HIDE DEF ks
<1>4. w \in Handling /\ w.pc = "held" /\ w.keys = ks
  BY <1>3, IdleFits DEF Handling, EngagementPcs
<1> HIDE DEF w
<1> DEFINE x == IF ks = {} THEN E!Idle ELSE w
<1>5. x \in Handling /\ x.pc \in {"idle", "held"} /\ (ks # {} => x = w)
  BY <1>4, IdleFits
<1>6. handler' = [handler EXCEPT ![h] = x]
  BY <1>1
<1> HIDE DEF x
<1>7. /\ \A n \in LessonBadges : Cardinality(recorded) >= n => OnLessons(x, n)
      /\ \A n \in StreakBadges : OnStreak(handler[h], n) => OnStreak(x, n)
  BY <1>3, <1>4, <1>5 DEF OnLessons, OnStreak
<1>8. QED
  BY <1>1, <1>2, <1>5, <1>6, <1>7, EngagementSteps

LEMMA EngagementReadHeld ==
  ASSUME EngagementInv, NEW h \in Handlers, E!ReadHeld(h)
  PROVE  EngagementInv'
<1> DEFINE ks == handler[h].keys
           w == [handler[h] EXCEPT !.pc = "award", !.keys = @ \ badges]
<1>1. /\ handler[h].pc = "held"
      /\ UNCHANGED <<recorded, streak, badges, today, active, days, gaveUp, moves, fails>>
      /\ handler' = [handler EXCEPT ![h] = IF ks \subseteq badges THEN E!Idle ELSE w]
  BY DEF E!ReadHeld, E!At, E!Done, EngagementInv, EngagementTyped
<1>2. handler[h] \in Handling /\ badges \subseteq E!Keys
  BY DEF EngagementInv, EngagementTyped
<1>3. w \in Handling /\ w.pc = "award" /\ w.keys = ks \ badges
  BY <1>2 DEF Handling, EngagementPcs
<1> HIDE DEF w
<1> DEFINE x == IF ks \subseteq badges THEN E!Idle ELSE w
<1>4. /\ x \in Handling /\ x.pc \in {"idle", "award"}
      /\ ~(ks \subseteq badges) => x = w
  BY <1>3, IdleFits
<1>5. handler' = [handler EXCEPT ![h] = x]
  BY <1>1
<1> HIDE DEF x
<1>6. /\ \A n \in LessonBadges : OnLessons(handler[h], n) =>
           <<"lessons", n>> \in badges' \/ OnLessons(x, n)
      /\ \A n \in StreakBadges : OnStreak(handler[h], n) =>
           <<"streak", n>> \in badges' \/ OnStreak(x, n)
  BY <1>1, <1>3, <1>4 DEF OnLessons, OnStreak
<1>7. QED
  BY <1>1, <1>2, <1>4, <1>5, <1>6, EngagementSteps

LEMMA EngagementAward ==
  ASSUME EngagementInv, NEW h \in Handlers, E!Award(h)
  PROVE  EngagementInv'
<1> DEFINE x == E!Idle
<1>1. /\ handler[h].pc = "award"
      /\ UNCHANGED <<recorded, streak, today, active, days, gaveUp, moves, fails>>
      /\ badges' = badges \cup handler[h].keys
      /\ handler' = [handler EXCEPT ![h] = x]
  BY DEF E!Award, E!At, E!Done, E!SkippingDuplicates
<1>2. badges' \subseteq E!Keys /\ badges \subseteq badges'
  BY <1>1 DEF EngagementInv, EngagementTyped, Handling
<1> HIDE DEF x
<1>3. x \in Handling /\ x.pc = "idle"
  BY IdleFits DEF x
<1>4. /\ \A n \in LessonBadges : OnLessons(handler[h], n) => <<"lessons", n>> \in badges'
      /\ \A n \in StreakBadges : OnStreak(handler[h], n) => <<"streak", n>> \in badges'
  BY <1>1 DEF OnLessons, OnStreak
<1>5. QED
  BY <1>1, <1>2, <1>3, <1>4, EngagementSteps

LEMMA EngagementFail ==
  ASSUME EngagementInv, NEW h \in Handlers, E!Fail(h)
  PROVE  EngagementInv'
<1>1. /\ UNCHANGED <<recorded, streak, badges, today, active, days, gaveUp, moves>>
      /\ fails < MaxFails /\ fails' = fails + 1
      /\ handler' = [handler EXCEPT ![h] = E!Idle]
  BY DEF E!Fail, E!Done
<1>2. fails' \in 0..MaxFails /\ fails' # 0
  BY <1>1, EngagementConstants DEF EngagementInv, EngagementTyped
<1>3. handler' \in [Handlers -> Handling]
  BY <1>1, IdleFits DEF EngagementInv, EngagementTyped
<1>4. \A g \in Handlers : handler'[g] = IF g = h THEN E!Idle ELSE handler[g]
  BY <1>1 DEF EngagementInv, EngagementTyped
<1>5. \A g \in Handlers : Doing(handler[g])'
  BY <1>1, <1>4, IdleFits DEF EngagementInv, Doing
<1>6. EngagementTyped'
  BY <1>1, <1>2, <1>3 DEF EngagementInv, EngagementTyped, E!Keys, E!Streak,
     Handling, E!Triggers
<1>7. QED
  BY <1>2, <1>5, <1>6 DEF EngagementInv, Earns

LEMMA EngagementCalendar ==
  ASSUME EngagementInv, E!Tick \/ E!MoveWest
  PROVE  EngagementInv'
<1>1. /\ UNCHANGED <<recorded, streak, badges, handler, active, days, gaveUp, fails>>
      /\ today' \in 1..MaxDay /\ moves' \in 0..MaxMoves
  BY EngagementConstants DEF EngagementInv, EngagementTyped, E!Tick, E!MoveWest
<1>2. QED
  BY <1>1 DEF EngagementInv, EngagementTyped, E!Keys, E!Streak, Handling,
     E!Triggers, Doing, Earns

LEMMA EngagementNext == EngagementInv /\ E!Next => EngagementInv'
BY EngagementEmit, EngagementRecord, EngagementReadDay, EngagementBegin,
   EngagementSame, EngagementCommit, EngagementConflict, EngagementEarn,
   EngagementReadHeld, EngagementAward, EngagementFail, EngagementCalendar
   DEF E!Next

BadgesInv == part = "engagement" => EngagementInv

LEMMA BadgesAlways == LearningSpec => []BadgesInv
<1>1. LearningInit => BadgesInv
  BY EngagementInit DEF LearningInit, BadgesInv
<1>2. BadgesInv /\ [LearningNext]_learningVars => BadgesInv'
  <2> SUFFICES ASSUME BadgesInv, [LearningNext]_learningVars PROVE BadgesInv'
    OBVIOUS
  <2>1. CASE UNCHANGED learningVars
    BY <2>1 DEF learningVars, EngagementVars, BadgesInv, EngagementInv,
       EngagementTyped, E!Keys, E!Streak, Handling, E!Triggers, Doing, Earns
  <2>2. CASE LearningNext
    BY <2>2, EngagementNext DEF LearningNext, BadgesInv
  <2>3. QED
    BY <2>1, <2>2
<1>3. QED
  BY <1>1, <1>2, PTL DEF LearningSpec

\* Without failures, and unless the streak's transaction failed twice, once the
\* handlers are through every badge that the lessons on the record or the longest
\* streak earn is held, whatever the order of the events' handlers
\* (awardBadges in engagement.events-handler.ts).
THEOREM BadgesAreHeld == LearningSpec => []EarnedBadgesHeld
<1>1. BadgesInv => EarnedBadgesHeld
  <2> SUFFICES ASSUME part = "engagement", EngagementInv PROVE E!EarnedBadgesHeld
    BY DEF BadgesInv, EarnedBadgesHeld
  <2>1. ASSUME fails = 0, ~gaveUp, \A h \in Handlers : E!At(h, "idle")
        PROVE  /\ \A n \in LessonBadges :
                    Cardinality(recorded) >= n => <<"lessons", n>> \in badges
               /\ \A n \in StreakBadges :
                    streak.longest >= n => <<"streak", n>> \in badges
    <3>1. \A h \in Handlers : \A n : ~OnLessons(handler[h], n) /\ ~OnStreak(handler[h], n)
      BY <2>1 DEF OnLessons, OnStreak, E!At
    <3>2. QED
      BY <2>1, <3>1 DEF EngagementInv, Earns
  <2>2. QED
    BY <2>1, SameCount DEF E!EarnedBadgesHeld
<1>2. QED
  BY <1>1, BadgesAlways, PTL

----------------------------------------------------------------------------
(* Engagement: what a streak counts.  Numbers first, then the calculator:  *)
(* the row is made of the days that moved it.                              *)

\* Some numbers up to n have a largest.
LEMMA SomeLatest ==
  ASSUME NEW n \in Nat, NEW T, T \subseteq 1..n, T # {}
  PROVE  \E k \in T : \A j \in T : j <= k
<1> DEFINE D == {n - k : k \in T}
<1>1. D \subseteq Nat /\ D # {}
  <2>1. \A k \in T : n - k \in Nat
    OBVIOUS
  <2>2. QED
    BY <2>1
<1>2. \E d \in D : \A e \in D : <<e, d>> \notin OpToRel(<, Nat)
  <2>1. IsWellFoundedOn(OpToRel(<, Nat), Nat)
    BY NatLessThanWellFounded
  <2> HIDE DEF OpToRel, D
  <2>2. QED
    BY <1>1, <2>1, WFMin
<1>3. PICK k \in T : \A e \in D : <<e, n - k>> \notin OpToRel(<, Nat)
  BY <1>2
<1>4. ASSUME NEW j \in T PROVE j <= k
  <2>1. n - j \in Nat /\ n - k \in Nat /\ n - j \in D
    BY <1>1
  <2>2. ~ (n - j < n - k)
    BY <1>3, <2>1 DEF OpToRel
  <2>3. QED
    BY <2>2
<1>5. QED
  BY <1>4

LEMMA LatestIs ==
  ASSUME NEW T, NEW m \in T, \A d \in T : d \in Nat /\ d <= m
  PROVE  E!Max(T) = m
BY DEF E!Max

LEMMA Quotient ==
  ASSUME NEW a \in Nat, NEW m \in Nat \ {0}
  PROVE  /\ a \div m \in Nat /\ a % m \in 0..(m - 1)
         /\ a = (m * (a \div m)) + (a % m)
OBVIOUS

\* A quotient is the largest number of times that m goes into a.
LEMMA LargestQuotient ==
  ASSUME NEW a \in Nat, NEW m \in Nat \ {0}, NEW q \in Nat, m * q <= a
  PROVE  q <= a \div m
<1> DEFINE p == a \div m
           r == a % m
<1>1. p \in Nat /\ r \in Nat /\ r < m /\ a = (m * p) + r
  BY Quotient
<1> HIDE DEF p, r
<1>2. SUFFICES ASSUME p + 1 <= q PROVE FALSE
  BY <1>1 DEF p
<1>3. PICK k \in Nat : q = p + 1 + k
  <2>1. q - (p + 1) \in Nat /\ q = p + 1 + (q - (p + 1))
    BY <1>1, <1>2
  <2>2. QED
    BY <2>1
<1>4. m * q = m * p + m + m * k /\ m * k \in Nat /\ m * p \in Nat
  BY <1>1, <1>3
<1>5. QED
  BY <1>1, <1>4

LEMMA QuotientsAdd ==
  ASSUME NEW a \in Nat, NEW b \in Nat, NEW m \in Nat \ {0}
  PROVE  (a \div m) + (b \div m) <= (a + b) \div m
<1> DEFINE p == a \div m
           q == b \div m
<1>1. p \in Nat /\ q \in Nat /\ m * p <= a /\ m * q <= b
  BY Quotient
<1> HIDE DEF p, q
<1>2. m * (p + q) = m * p + m * q /\ m * p \in Nat /\ m * q \in Nat
  BY <1>1
<1>3. m * (p + q) <= a + b
  BY <1>1, <1>2
<1>4. p + q <= (a + b) \div m
  BY <1>1, <1>3, LargestQuotient
<1>5. QED
  BY <1>4 DEF p, q

\* The quotient of the next number: it grows where m divides that.
LEMMA NextQuotient ==
  ASSUME NEW a \in Nat, NEW m \in Nat \ {0}
  PROVE  /\ a \div m <= (a + 1) \div m
         /\ (a + 1) % m = 0 => (a \div m) + 1 <= (a + 1) \div m
<1> DEFINE p == a \div m
           q == (a + 1) \div m
<1>1. p \in Nat /\ m * p <= a
  BY Quotient
<1>2. q \in Nat /\ (a + 1) % m = 0 => a + 1 = m * q
  BY Quotient
<1> HIDE DEF p, q
<1>3. p <= q
  BY <1>1, LargestQuotient DEF q
<1>4. (a + 1) % m = 0 => p # q
  BY <1>1, <1>2
<1>5. QED
  BY <1>1, <1>2, <1>3, <1>4 DEF p, q

\* The days from f on.
From(ds, f) == {d \in ds : d >= f}

\* The streak row s is made of the days ds: its days are those from f on, which
\* follows a missed day unless it is the first; and the days missed since, and
\* the freezes banked, are no more than the milestones reached.
Run(ds, s, f) ==
  /\ s.last \in ds /\ \A d \in ds : d <= s.last
  /\ Cardinality(From(ds, f)) = s.current
  /\ Cardinality((f..s.last) \ ds) + s.freezes
       <= (Cardinality(ds \ From(ds, f)) \div FREEZE_MILESTONE)
          + (s.current \div FREEZE_MILESTONE)
  /\ \A d \in ds : d < f => d < f - 1

Made(ds, s) ==
  \/ ds = {} /\ s.current = 0 /\ s.freezes = 0 /\ s.last = 0
  \/ \E f \in ds : Run(ds, s, f)

LEMMA DaysFinite ==
  ASSUME NEW ds, ds \subseteq 1..MaxDay, NEW f
  PROVE  /\ IsFiniteSet(ds) /\ IsFiniteSet(From(ds, f)) /\ IsFiniteSet(ds \ From(ds, f))
         /\ Cardinality(ds) \in Nat /\ Cardinality(From(ds, f)) \in Nat
         /\ Cardinality(ds \ From(ds, f)) \in Nat
         /\ Cardinality(ds) = Cardinality(From(ds, f)) + Cardinality(ds \ From(ds, f))
<1>1. IsFiniteSet(1..MaxDay)
  BY EngagementConstants, FS_Interval
<1>2. IsFiniteSet(ds)
  BY <1>1, FS_Subset
<1>3. From(ds, f) \subseteq ds /\ ds \cap From(ds, f) = From(ds, f)
  BY DEF From
<1>4. IsFiniteSet(From(ds, f)) /\ IsFiniteSet(ds \ From(ds, f))
  BY <1>2, <1>3, FS_Subset
<1>5. Cardinality(ds \ From(ds, f)) = Cardinality(ds) - Cardinality(From(ds, f))
  BY <1>2, <1>3, FS_Difference
<1>6. /\ Cardinality(ds) \in Nat /\ Cardinality(From(ds, f)) \in Nat
      /\ Cardinality(ds \ From(ds, f)) \in Nat
  BY <1>2, <1>4, FS_CardinalityType
<1>7. QED
  BY <1>2, <1>4, <1>5, <1>6

Reached(n) == IF n % FREEZE_MILESTONE = 0 THEN 1 ELSE 0

\* What applyActivity writes: a day more, or a new streak; a freeze for each day
\* it bridged, and at most one banked, at a milestone.
LEMMA MovedCounts ==
  ASSUME NEW s \in E!Streak, NEW day \in 0..MaxDay, ~E!Unmoved(s, day)
  PROVE  /\ E!Moved(s, day).last = day
         /\ E!Survives(s, day) =>
              /\ E!Moved(s, day).current = s.current + 1
              /\ E!Moved(s, day).freezes + (day - s.last - 1)
                   <= s.freezes + Reached(s.current + 1)
         /\ ~E!Survives(s, day) =>
              /\ E!Moved(s, day).current = 1
              /\ E!Moved(s, day).freezes <= s.freezes + Reached(1)
              /\ s.last # 0 => s.last < day - 1
<1> DEFINE current == IF E!Survives(s, day) THEN s.current + 1 ELSE 1
           left == IF E!Survives(s, day) THEN s.freezes - E!Missed(s, day) ELSE s.freezes
           banked == IF current % FREEZE_MILESTONE = 0 THEN E!Banked(left) ELSE left
<1>1. /\ E!Moved(s, day).last = day /\ E!Moved(s, day).current = current
      /\ E!Moved(s, day).freezes = banked
  BY DEF E!Moved
<1>2. /\ s.current \in Nat /\ s.freezes \in 0..MAX_FREEZES /\ s.last \in 0..MaxDay
  BY DEF E!Streak
<1>3. current \in Nat /\ left \in 0..MAX_FREEZES
  BY <1>2, EngagementConstants DEF E!Survives, E!Unmoved, E!Missed
<1>4. banked <= left + Reached(current)
  <2> HIDE DEF left, current
  <2>1. left + 1 \in Nat
    BY <1>3
  <2>2. E!Banked(left) = IF MAX_FREEZES <= left + 1 THEN MAX_FREEZES ELSE left + 1
    BY <2>1, MinOfTwo, EngagementConstants DEF E!Banked
  <2>3. E!Banked(left) <= left + 1
    BY <1>3, <2>1, <2>2, EngagementConstants
  <2>4. QED
    BY <1>3, <2>3 DEF Reached
<1>5. banked \in Nat /\ Reached(current) \in Nat
  <2> HIDE DEF left, current
  <2>1. left + 1 \in Nat
    BY <1>3
  <2>2. E!Banked(left) = IF MAX_FREEZES <= left + 1 THEN MAX_FREEZES ELSE left + 1
    BY <2>1, MinOfTwo, EngagementConstants DEF E!Banked
  <2>3. QED
    BY <1>3, <2>1, <2>2, EngagementConstants DEF Reached
<1> HIDE DEF banked
<1>6. CASE E!Survives(s, day)
  <2>1. current = s.current + 1 /\ left = s.freezes - (day - s.last - 1)
    BY <1>6 DEF E!Missed
  <2> HIDE DEF current, left
  <2>2. QED
    BY <1>1, <1>2, <1>3, <1>4, <1>5, <1>6, <2>1
<1>7. CASE ~E!Survives(s, day)
  <2>1. current = 1 /\ left = s.freezes
    BY <1>7
  <2> HIDE DEF current, left
  <2>2. s.last # 0 => s.last < day - 1
    BY <1>2, <1>7, EngagementConstants DEF E!Survives, E!Missed, E!Unmoved
  <2>3. QED
    BY <1>1, <1>2, <1>3, <1>4, <1>5, <1>7, <2>1, <2>2
<1>8. QED
  BY <1>6, <1>7

LEMMA MilestoneReached ==
  ASSUME NEW n \in Nat
  PROVE  /\ Reached(n + 1) \in Nat /\ (n \div FREEZE_MILESTONE) \in Nat
         /\ ((n + 1) \div FREEZE_MILESTONE) \in Nat
         /\ (n \div FREEZE_MILESTONE) + Reached(n + 1)
              <= ((n + 1) \div FREEZE_MILESTONE)
<1>1. /\ (n \div FREEZE_MILESTONE) \in Nat /\ ((n + 1) \div FREEZE_MILESTONE) \in Nat
  BY EngagementConstants, Quotient
<1>2. /\ (n \div FREEZE_MILESTONE) <= ((n + 1) \div FREEZE_MILESTONE)
      /\ (n + 1) % FREEZE_MILESTONE = 0
           => (n \div FREEZE_MILESTONE) + 1 <= ((n + 1) \div FREEZE_MILESTONE)
  BY EngagementConstants, NextQuotient
<1>3. QED
  BY <1>1, <1>2 DEF Reached

\* The first day, or the first after one that no freeze bridges, is a streak.
LEMMA StreakStarts ==
  ASSUME NEW ds, ds \subseteq 1..MaxDay, NEW s \in E!Streak, NEW t \in E!Streak,
         NEW day \in 1..MaxDay,
         \A d \in ds : d < day - 1,
         s.freezes <= Cardinality(ds) \div FREEZE_MILESTONE,
         t.last = day, t.current = 1, t.freezes <= s.freezes + Reached(1)
  PROVE  Made(ds \cup {day}, t)
<1> DEFINE es == ds \cup {day}
<1>0. MaxDay \in Nat /\ FREEZE_MILESTONE \in Nat \ {0}
  BY EngagementConstants
<1>1. From(es, day) = {day} /\ es \ From(es, day) = ds /\ (day..day) \ es = {}
  <2>1. day \in Int /\ \A d \in ds : d \in Int /\ d < day - 1
    BY <1>0
  <2>2. From(es, day) = {day}
    <3>1. \A d \in es : d >= day <=> d = day
      BY <2>1
    <3>2. day \in es
      OBVIOUS
    <3> HIDE DEF es
    <3>3. QED
      BY <3>1, <3>2 DEF From
  <2>3. day \notin ds
    BY <2>1
  <2>4. \A d : d \in day..day => d = day
    BY <2>1
  <2>5. QED
    BY <2>2, <2>3, <2>4
<1>2. Cardinality({day}) = 1 /\ Cardinality({}) = 0
  BY FS_EmptySet, FS_Singleton
<1>3. Cardinality(ds) \in Nat
  BY DaysFinite
<1>4. /\ Reached(0 + 1) \in Nat /\ (0 \div FREEZE_MILESTONE) \in Nat
      /\ ((0 + 1) \div FREEZE_MILESTONE) \in Nat
      /\ (0 \div FREEZE_MILESTONE) + Reached(0 + 1) <= ((0 + 1) \div FREEZE_MILESTONE)
  BY MilestoneReached
<1>5. 0 + 1 = 1
  OBVIOUS
<1>6. Reached(1) <= (1 \div FREEZE_MILESTONE) /\ (1 \div FREEZE_MILESTONE) \in Nat
      /\ Reached(1) \in Nat
  BY <1>4, <1>5
<1>7. (Cardinality(ds) \div FREEZE_MILESTONE) \in Nat
  BY <1>0, <1>3, Quotient
<1>8. s.freezes \in Nat /\ t.freezes \in Nat
  BY EngagementConstants DEF E!Streak
<1>9. Cardinality((day..day) \ es) + t.freezes
        <= (Cardinality(es \ From(es, day)) \div FREEZE_MILESTONE)
           + (t.current \div FREEZE_MILESTONE)
  <2>1. /\ Cardinality((day..day) \ es) = 0
        /\ Cardinality(es \ From(es, day)) = Cardinality(ds)
    BY <1>1, <1>2
  <2> DEFINE a == Cardinality(ds) \div FREEZE_MILESTONE
             b == 1 \div FREEZE_MILESTONE
             r == Reached(1)
  <2>2. /\ a \in Nat /\ b \in Nat /\ r \in Nat /\ r <= b
        /\ s.freezes <= a /\ t.freezes <= s.freezes + r
    BY <1>6, <1>7
  <2>3. /\ Cardinality(es \ From(es, day)) \div FREEZE_MILESTONE = a
        /\ t.current \div FREEZE_MILESTONE = b
    BY <2>1
  <2> HIDE DEF a, b, r, es
  <2>4. 0 + t.freezes <= a + b
    BY <1>8, <2>2
  <2>5. QED
    BY <2>1, <2>3, <2>4
<1>10. /\ \A d \in es : d <= day /\ (d < day => d < day - 1)
       /\ day \in es /\ Cardinality(From(es, day)) = 1
  <2>1. day \in Int /\ \A d \in ds : d \in Int /\ d < day - 1
    BY <1>0
  <2>2. \A d \in es : d <= day /\ (d < day => d < day - 1)
    BY <2>1
  <2>3. QED
    BY <1>1, <1>2, <2>2
<1> HIDE DEF es
<1>11. Run(es, t, day)
  BY <1>9, <1>10 DEF Run
<1>12. QED
  BY <1>10, <1>11 DEF Made, es

\* A day later, with the days between bridged by freezes, a streak is longer.
LEMMA StreakGrows ==
  ASSUME NEW ds, ds \subseteq 1..MaxDay, NEW s \in E!Streak, NEW t \in E!Streak,
         NEW day \in 1..MaxDay, NEW f \in ds, Run(ds, s, f),
         s.last < day, t.last = day, t.current = s.current + 1,
         t.freezes + (day - s.last - 1) <= s.freezes + Reached(s.current + 1)
  PROVE  Made(ds \cup {day}, t)
<1> DEFINE es == ds \cup {day}
           gaps == (f..s.last) \ ds
           later == (s.last + 1)..(day - 1)
<1>0. MaxDay \in Nat /\ FREEZE_MILESTONE \in Nat \ {0}
  BY EngagementConstants
<1>1. /\ s.last \in 1..MaxDay /\ f \in 1..MaxDay /\ f <= s.last
      /\ \A d \in ds : d \in 1..MaxDay /\ d <= s.last
  BY DEF Run
<1>2. /\ s.current \in Nat /\ s.freezes \in Nat /\ t.freezes \in Nat
  BY EngagementConstants DEF E!Streak
<1>3. /\ From(es, f) = From(ds, f) \cup {day} /\ day \notin From(ds, f)
      /\ es \ From(es, f) = ds \ From(ds, f)
  BY <1>0, <1>1 DEF From
<1>4. Cardinality(From(es, f)) = s.current + 1
  <2>1. IsFiniteSet(From(ds, f))
    BY DaysFinite
  <2>2. Cardinality(From(ds, f) \cup {day}) = Cardinality(From(ds, f)) + 1
    BY <1>3, <2>1, FS_AddElement
  <2>3. Cardinality(From(ds, f)) = s.current
    BY DEF Run
  <2>4. QED
    BY <1>3, <2>2, <2>3
<1>5. (f..day) \ es = gaps \cup later /\ gaps \cap later = {}
  BY <1>0, <1>1
<1>6. IsFiniteSet(gaps) /\ IsFiniteSet(later) /\ Cardinality(later) = day - s.last - 1
  <2>1. IsFiniteSet(f..s.last)
    BY <1>0, <1>1, FS_Interval
  <2>2. IsFiniteSet(gaps)
    BY <2>1, FS_Subset
  <2>3. /\ IsFiniteSet(later)
        /\ Cardinality(later) =
             IF s.last + 1 > day - 1 THEN 0 ELSE (day - 1) - (s.last + 1) + 1
    <3>1. s.last + 1 \in Int /\ day - 1 \in Int
      BY <1>0, <1>1
    <3> DEFINE a == s.last + 1
               b == day - 1
    <3>2. a \in Int /\ b \in Int
      BY <3>1
    <3> HIDE DEF a, b
    <3>3. IsFiniteSet(a..b) /\ Cardinality(a..b) = IF a > b THEN 0 ELSE b - a + 1
      BY <3>2, FS_Interval
    <3>4. QED
      BY <3>3 DEF a, b
  <2>4. QED
    BY <1>0, <1>1, <2>2, <2>3
<1>7. Cardinality(gaps) \in Nat /\ Cardinality(later) \in Nat
  BY <1>6, FS_CardinalityType
<1>8. Cardinality((f..day) \ es) = Cardinality(gaps) + (day - s.last - 1)
  <2>1. Cardinality(gaps \cup later)
          = Cardinality(gaps) + Cardinality(later) - Cardinality(gaps \cap later)
    BY <1>6, FS_Union
  <2>2. Cardinality(gaps \cap later) = 0
    BY <1>5, FS_EmptySet
  <2> HIDE DEF gaps, later, es
  <2>3. QED
    BY <1>5, <1>6, <1>7, <2>1, <2>2
<1>9. /\ Reached(s.current + 1) \in Nat /\ (s.current \div FREEZE_MILESTONE) \in Nat
      /\ ((s.current + 1) \div FREEZE_MILESTONE) \in Nat
      /\ (s.current \div FREEZE_MILESTONE) + Reached(s.current + 1)
           <= ((s.current + 1) \div FREEZE_MILESTONE)
  BY <1>2, MilestoneReached
<1>10. (Cardinality(ds \ From(ds, f)) \div FREEZE_MILESTONE) \in Nat
  BY <1>0, DaysFinite, Quotient
<1>11. Cardinality(gaps) + s.freezes
         <= (Cardinality(ds \ From(ds, f)) \div FREEZE_MILESTONE)
            + (s.current \div FREEZE_MILESTONE)
  BY DEF Run
<1>12. Cardinality((f..day) \ es) + t.freezes
         <= (Cardinality(es \ From(es, f)) \div FREEZE_MILESTONE)
            + (t.current \div FREEZE_MILESTONE)
  <2> DEFINE g == Cardinality(gaps)
             a == Cardinality(ds \ From(ds, f)) \div FREEZE_MILESTONE
             b == s.current \div FREEZE_MILESTONE
             c == (s.current + 1) \div FREEZE_MILESTONE
             r == Reached(s.current + 1)
  <2>1. g \in Nat /\ a \in Nat /\ b \in Nat /\ c \in Nat /\ r \in Nat
    BY <1>7, <1>9, <1>10
  <2>2. g + s.freezes <= a + b /\ b + r <= c
    BY <1>9, <1>11
  <2> HIDE DEF g, a, b, c, r
  <2>3. g + (day - s.last - 1) + t.freezes <= a + c
    <3>1. t.freezes + (day - s.last - 1) <= s.freezes + r
      BY DEF r
    <3>2. QED
      BY <1>0, <1>1, <1>2, <2>1, <2>2, <3>1
  <2>4. /\ Cardinality((f..day) \ es) = g + (day - s.last - 1)
        /\ Cardinality(es \ From(es, f)) \div FREEZE_MILESTONE = a
        /\ t.current \div FREEZE_MILESTONE = c
    BY <1>3, <1>8 DEF g, a, c
  <2>5. QED
    BY <2>3, <2>4
<1>13. /\ day \in es /\ f \in es
       /\ \A d \in es : d <= day /\ (d < f => d < f - 1)
  BY <1>0, <1>1 DEF Run
<1> HIDE DEF es
<1>14. Run(es, t, f)
  BY <1>4, <1>12, <1>13 DEF Run
<1>15. QED
  BY <1>13, <1>14 DEF Made, es

LEMMA MadeMoves ==
  ASSUME NEW ds, ds \subseteq 1..MaxDay, NEW s \in E!Streak, NEW day \in 1..MaxDay,
         Made(ds, s), ~E!Unmoved(s, day)
  PROVE  Made(ds \cup {day}, E!Moved(s, day))
<1> DEFINE t == E!Moved(s, day)
<1>0. MaxDay \in Nat /\ FREEZE_MILESTONE \in Nat \ {0} /\ day \in 0..MaxDay
  BY EngagementConstants
<1>1. /\ t \in E!Streak /\ t.last = day
      /\ E!Survives(s, day) =>
           /\ t.current = s.current + 1
           /\ t.freezes + (day - s.last - 1) <= s.freezes + Reached(s.current + 1)
      /\ ~E!Survives(s, day) =>
           /\ t.current = 1 /\ t.freezes <= s.freezes + Reached(1)
           /\ s.last # 0 => s.last < day - 1
  BY <1>0, MovedFits, MovedCounts
<1> HIDE DEF t
<1>2. CASE ds = {} /\ s.current = 0 /\ s.freezes = 0 /\ s.last = 0
  <2>1. ~E!Survives(s, day)
    BY <1>2 DEF E!Survives
  <2>2. s.freezes <= Cardinality(ds) \div FREEZE_MILESTONE
    <3>1. Cardinality(ds) \in Nat
      BY DaysFinite
    <3>2. Cardinality(ds) \div FREEZE_MILESTONE \in Nat
      BY <1>0, <3>1, Quotient
    <3>3. QED
      BY <1>2, <3>2
  <2>3. \A d \in ds : d < day - 1
    BY <1>2
  <2>4. Made(ds \cup {day}, t)
    BY <1>1, <2>1, <2>2, <2>3, StreakStarts
  <2>5. QED
    BY <2>4 DEF t
<1>3. ASSUME NEW f \in ds, Run(ds, s, f)
      PROVE  Made(ds \cup {day}, t)
  <2>1. s.last \in 1..MaxDay /\ \A d \in ds : d \in 1..MaxDay /\ d <= s.last
    BY <1>3 DEF Run
  <2>2. s.last < day
    BY <1>0, <2>1 DEF E!Unmoved
  <2>3. CASE E!Survives(s, day)
    BY <1>1, <1>3, <2>2, <2>3, StreakGrows
  <2>4. CASE ~E!Survives(s, day)
    <3>1. \A d \in ds : d < day - 1
      BY <1>0, <1>1, <2>1, <2>4
    <3>2. s.freezes <= Cardinality(ds) \div FREEZE_MILESTONE
      <4> DEFINE g == Cardinality((f..s.last) \ ds)
                 n == Cardinality(From(ds, f))
                 m == Cardinality(ds \ From(ds, f))
      <4>1. /\ n \in Nat /\ m \in Nat /\ Cardinality(ds) = n + m
            /\ n = s.current
        BY <1>3, DaysFinite DEF Run
      <4>2. g \in Nat
        <5>1. IsFiniteSet(f..s.last)
          BY <2>1, FS_Interval
        <5>2. QED
          BY <5>1, FS_Subset, FS_CardinalityType
      <4>3. g + s.freezes <= (m \div FREEZE_MILESTONE) + (n \div FREEZE_MILESTONE)
        BY <1>3, <4>1 DEF Run
      <4> HIDE DEF g, n, m
      <4>4. /\ (m \div FREEZE_MILESTONE) + (n \div FREEZE_MILESTONE)
                 <= (m + n) \div FREEZE_MILESTONE
            /\ (m \div FREEZE_MILESTONE) \in Nat /\ (n \div FREEZE_MILESTONE) \in Nat
            /\ ((m + n) \div FREEZE_MILESTONE) \in Nat /\ m + n = n + m
        <5>1. m + n \in Nat /\ m + n = n + m
          BY <4>1
        <5>2. (m \div FREEZE_MILESTONE) + (n \div FREEZE_MILESTONE)
                <= (m + n) \div FREEZE_MILESTONE
          BY <1>0, <4>1, QuotientsAdd
        <5>3. (m \div FREEZE_MILESTONE) \in Nat /\ (n \div FREEZE_MILESTONE) \in Nat
          BY <1>0, <4>1, Quotient
        <5>4. ((m + n) \div FREEZE_MILESTONE) \in Nat
          BY <1>0, <5>1, Quotient
        <5>5. QED
          BY <5>1, <5>2, <5>3, <5>4
      <4>5. s.freezes \in Nat
        BY EngagementConstants DEF E!Streak
      <4>6. QED
        BY <4>1, <4>2, <4>3, <4>4, <4>5
    <3>3. QED
      BY <1>1, <2>4, <3>1, <3>2, StreakStarts
  <2>5. QED
    BY <2>3, <2>4
<1>4. QED
  BY <1>2, <1>3 DEF Made, t

----------------------------------------------------------------------------
(* Engagement: two handlers that race for the row.                         *)

Moving == {"begin", "commit"}

\* What a handler x that moves the streak knows of the row s and of the clock t.
Fresh(x) == x.pc \in {"record", "day"} => ~x.retried
Knows(x, s) == x.pc = "commit" => x.row.last <= s.last
Dated(x, t) == x.pc \in Moving => x.day <= t

\* Once x has been, or is about to be, beaten to the row, y's day is not before
\* its own.
Behind(x, y, s) ==
  x.pc \in Moving /\ y.pc \in Moving
      /\ (x.retried \/ (x.pc = "commit" /\ x.row # s))
    => x.day <= y.day

\* Who is beaten twice is beaten by a day that is not before its own.
Beaten(x, s) == x.pc = "commit" /\ x.retried /\ x.row # s => x.day <= s.last

\* The day d has moved the streak, or a later one did, or a handler is at it.
Counts(d, ds, s, hs) ==
  d \in ds \/ d < s.last \/ \E h \in Handlers : hs[h].pc \in Moving /\ hs[h].day = d

AtMostTwo == \A f, g, h \in Handlers : f = g \/ g = h \/ f = h

RaceInv ==
  /\ \A h \in Handlers : Fresh(handler[h]) /\ Knows(handler[h], streak)
  /\ moves = 0 => \A h \in Handlers : Dated(handler[h], today)
  /\ moves = 0 /\ AtMostTwo =>
       /\ \A h, g \in Handlers : h # g => Behind(handler[h], handler[g], streak)
       /\ \A h \in Handlers : Beaten(handler[h], streak)
       /\ fails = 0 => \A d \in active : Counts(d, days, streak, handler)

StreakInv == EngagementInv /\ Made(days, streak) /\ RaceInv

LEMMA AtMostTwoIsTwo ==
  ASSUME Cardinality(Handlers) <= 2
  PROVE  AtMostTwo
<1> SUFFICES ASSUME NEW f \in Handlers, NEW g \in Handlers, NEW h \in Handlers,
                    f # g, g # h, f # h
             PROVE  FALSE
  BY DEF AtMostTwo
<1>1. IsFiniteSet(Handlers)
  BY EngagementAssumption
<1>2. IsFiniteSet({f}) /\ Cardinality({f}) = 1
  BY FS_Singleton
<1>3. IsFiniteSet({f} \cup {g}) /\ Cardinality({f} \cup {g}) = 2
  BY <1>2, FS_AddElement
<1>4. Cardinality(({f} \cup {g}) \cup {h}) = 3
  BY <1>3, FS_AddElement
<1>5. Cardinality(({f} \cup {g}) \cup {h}) <= Cardinality(Handlers)
  <2>1. ({f} \cup {g}) \cup {h} \subseteq Handlers
    OBVIOUS
  <2>2. QED
    BY <1>1, <2>1, FS_Subset
<1>6. Cardinality(Handlers) \in Nat
  BY <1>1, FS_CardinalityType
<1>7. QED
  BY <1>4, <1>5, <1>6

\* The handler of h moves on to x.
LEMMA RaceMoves ==
  ASSUME StreakInv, NEW h \in Handlers, NEW x,
         handler' = [handler EXCEPT ![h] = x],
         UNCHANGED <<today, moves>>,
         streak.last <= streak'.last, streak' \in E!Streak,
         Fresh(x), Knows(x, streak'), moves = 0 => Dated(x, today),
         moves = 0 /\ AtMostTwo =>
           /\ \A g \in Handlers : g # h =>
                /\ Behind(x, handler[g], streak') /\ Behind(handler[g], x, streak')
                /\ Beaten(handler[g], streak')
           /\ Beaten(x, streak')
           /\ fails' = 0 => \A d \in active' : Counts(d, days', streak', handler')
  PROVE  RaceInv'
<1>1. handler'[h] = x /\ \A g \in Handlers : g # h => handler'[g] = handler[g]
  BY DEF StreakInv, EngagementInv, EngagementTyped
<1>2. \A g \in Handlers : Fresh(handler'[g]) /\ Knows(handler'[g], streak')
  <2> SUFFICES ASSUME NEW g \in Handlers, g # h PROVE Knows(handler[g], streak')
    BY <1>1 DEF StreakInv, RaceInv
  <2>1. Knows(handler[g], streak) /\ handler[g] \in Handling
    BY DEF StreakInv, RaceInv, EngagementInv, EngagementTyped
  <2>2. handler[g].row.last \in Nat /\ streak.last \in Nat /\ streak'.last \in Nat
    BY <2>1, EngagementConstants DEF Handling, E!Streak, StreakInv, EngagementInv,
       EngagementTyped
  <2>3. QED
    BY <2>1, <2>2 DEF Knows
<1>3. moves' = 0 => \A g \in Handlers : Dated(handler'[g], today')
  BY <1>1 DEF StreakInv, RaceInv
<1>4. ASSUME moves' = 0, AtMostTwo
      PROVE  /\ \A f, g \in Handlers : f # g => Behind(handler'[f], handler'[g], streak')
             /\ \A g \in Handlers : Beaten(handler'[g], streak')
             /\ fails' = 0 => \A d \in active' : Counts(d, days', streak', handler')
  <2>1. moves = 0
    BY <1>4
  <2>2. ASSUME NEW f \in Handlers, NEW g \in Handlers, f # g
        PROVE  Behind(handler'[f], handler'[g], streak')
    <3>1. f = h \/ g = h
      BY <1>4, <2>2 DEF AtMostTwo
    <3>2. QED
      BY <1>1, <1>4, <2>1, <2>2, <3>1
  <2>3. \A g \in Handlers : Beaten(handler'[g], streak')
    BY <1>1, <1>4, <2>1
  <2>4. QED
    BY <1>4, <2>1, <2>2, <2>3
<1>5. AtMostTwo' = AtMostTwo
  BY DEF AtMostTwo
<1>6. QED
  BY <1>2, <1>3, <1>4, <1>5 DEF RaceInv, Fresh, Knows, Dated, Behind, Beaten, Counts

\* A handler that is not at the streak, and a row that stays.
LEMMA RaceAside ==
  ASSUME StreakInv, NEW h \in Handlers, NEW x,
         handler' = [handler EXCEPT ![h] = x],
         UNCHANGED <<streak, today, active, days, moves>>,
         x.pc \notin Moving, Fresh(x),
         fails' = 0 => fails = 0,
         moves = 0 /\ AtMostTwo /\ fails' = 0 /\ handler[h].pc \in Moving
           => handler[h].day \in days \/ handler[h].day < streak.last
  PROVE  RaceInv' /\ Made(days, streak)'
<1>1. streak \in E!Streak /\ Made(days, streak) /\ RaceInv /\ streak.last \in Nat
  BY EngagementConstants DEF StreakInv, EngagementInv, EngagementTyped, E!Streak
<1>2. Knows(x, streak) /\ Dated(x, today) /\ Beaten(x, streak)
      /\ \A y : Behind(x, y, streak) /\ Behind(y, x, streak)
  BY DEF Knows, Dated, Beaten, Behind, Moving
<1>3. ASSUME moves = 0, AtMostTwo, fails' = 0, NEW d \in active
      PROVE  Counts(d, days, streak, handler')
  <2>1. Counts(d, days, streak, handler)
    BY <1>1, <1>3 DEF RaceInv
  <2>2. ASSUME NEW g \in Handlers, handler[g].pc \in Moving, handler[g].day = d
        PROVE  Counts(d, days, streak, handler')
    <3>1. CASE g = h
      BY <1>3, <2>2, <3>1 DEF Counts
    <3>2. CASE g # h
      <4>1. handler'[g] = handler[g]
        BY <3>2 DEF StreakInv, EngagementInv, EngagementTyped
      <4>2. QED
        BY <2>2, <4>1 DEF Counts
    <3>3. QED
      BY <3>1, <3>2
  <2>3. QED
    BY <2>1, <2>2 DEF Counts
<1>4. ASSUME moves = 0, AtMostTwo
      PROVE  \A g \in Handlers : Beaten(handler[g], streak)
  BY <1>1, <1>4 DEF RaceInv
<1>5. streak' = streak /\ days' = days /\ active' = active /\ streak'.last >= streak.last
  BY <1>1
<1>6. RaceInv'
  BY <1>1, <1>2, <1>3, <1>4, <1>5, RaceMoves
<1>7. QED
  BY <1>1, <1>5, <1>6 DEF Made, Run, From

LEMMA RaceInit == E!Init => Made(days, streak) /\ RaceInv
<1> SUFFICES ASSUME E!Init PROVE Made(days, streak) /\ RaceInv
  OBVIOUS
<1>1. Made(days, streak)
  BY DEF E!Init, E!NoStreak, Made
<1>2. /\ \A h \in Handlers : handler[h] = E!Idle
      /\ active = {}
  BY DEF E!Init
<1>3. E!Idle.pc = "idle" /\ ~E!Idle.retried
  BY DEF E!Idle
<1>4. QED
  BY <1>1, <1>2, <1>3 DEF RaceInv, Fresh, Knows, Dated, Behind, Beaten, Moving

\* The steps before and after those on the streak.
LEMMA RaceOutside ==
  ASSUME StreakInv, NEW h \in Handlers,
         \/ \E t \in E!Triggers : E!Emit(h, t)
         \/ E!Record(h) \/ E!Earn(h) \/ E!ReadHeld(h) \/ E!Award(h)
  PROVE  RaceInv' /\ Made(days, streak)'
<1>0. handler \in [Handlers -> Handling] /\ handler[h] \in Handling /\ Fresh(handler[h])
  BY DEF StreakInv, EngagementInv, EngagementTyped, RaceInv
<1>1. UNCHANGED <<streak, today, active, days, moves, fails>>
  BY DEF E!Emit, E!Record, E!Earn, E!ReadHeld, E!Award
<1>2. E!Idle.pc = "idle" /\ ~E!Idle.retried
  BY DEF E!Idle
<1>3. handler[h].pc \notin Moving
  BY DEF E!Emit, E!Record, E!Earn, E!ReadHeld, E!Award, E!At, Moving
<1>4. SUFFICES \E x : /\ handler' = [handler EXCEPT ![h] = x]
                      /\ x.pc \notin Moving /\ Fresh(x)
  BY <1>1, <1>3, RaceAside
<1>5. ASSUME handler' = [handler EXCEPT ![h] = E!Idle]
      PROVE  \E x : /\ handler' = [handler EXCEPT ![h] = x]
                    /\ x.pc \notin Moving /\ Fresh(x)
  BY <1>2, <1>5 DEF Moving, Fresh
<1>6. ASSUME NEW t \in E!Triggers, E!Emit(h, t)
      PROVE  \E x : /\ handler' = [handler EXCEPT ![h] = x]
                    /\ x.pc \notin Moving /\ Fresh(x)
  <2> DEFINE x == [E!Idle EXCEPT !.pc = "record", !.trigger = t]
  <2>1. handler' = [handler EXCEPT ![h] = x]
    BY <1>6 DEF E!Emit
  <2>2. x.pc = "record" /\ ~x.retried
    BY DEF E!Idle
  <2>3. QED
    BY <2>1, <2>2 DEF Moving, Fresh
<1>7. CASE E!Record(h)
  <2> DEFINE to == IF handler[h].trigger = "entity" THEN "earn" ELSE "day"
             x == [handler[h] EXCEPT !.pc = to]
  <2>1. handler' = [handler EXCEPT ![h] = x] /\ handler[h].pc = "record"
    BY <1>0, <1>7 DEF E!Record, E!Goto, E!At
  <2>2. x.pc \in {"earn", "day"} /\ x.retried = handler[h].retried
    BY <1>0 DEF Handling
  <2>3. QED
    BY <1>0, <2>1, <2>2 DEF Moving, Fresh
<1>8. CASE E!Earn(h)
  <2> DEFINE x == [E!Idle EXCEPT !.pc = "held", !.keys = E!Earned(h)]
  <2>1. handler' = [handler EXCEPT ![h] = x] \/ handler' = [handler EXCEPT ![h] = E!Idle]
    BY <1>8 DEF E!Earn, E!Done
  <2>2. x.pc = "held"
    BY DEF E!Idle
  <2> HIDE DEF x
  <2>3. QED
    BY <1>5, <2>1, <2>2 DEF Moving, Fresh
<1>9. CASE E!ReadHeld(h)
  <2> DEFINE x == [handler[h] EXCEPT !.pc = "award", !.keys = @ \ badges]
  <2>1. handler' = [handler EXCEPT ![h] = x] \/ handler' = [handler EXCEPT ![h] = E!Idle]
    BY <1>0, <1>9 DEF E!ReadHeld, E!Done
  <2>2. x.pc = "award"
    BY <1>0 DEF Handling
  <2> HIDE DEF x
  <2>3. QED
    BY <1>5, <2>1, <2>2 DEF Moving, Fresh
<1>10. CASE E!Award(h)
  BY <1>5, <1>10 DEF E!Award, E!Done
<1>11. QED
  BY <1>6, <1>7, <1>8, <1>9, <1>10

\* A failure is the end of the promise, and of the handler.
LEMMA RaceFail ==
  ASSUME StreakInv, NEW h \in Handlers, E!Fail(h)
  PROVE  RaceInv' /\ Made(days, streak)'
<1>1. /\ UNCHANGED <<streak, today, active, days, moves>>
      /\ handler' = [handler EXCEPT ![h] = E!Idle] /\ fails' = fails + 1
  BY DEF E!Fail, E!Done
<1>2. E!Idle.pc = "idle" /\ ~E!Idle.retried
  BY DEF E!Idle
<1>3. fails' # 0
  BY <1>1, EngagementConstants DEF StreakInv, EngagementInv, EngagementTyped
<1>4. E!Idle.pc \notin Moving /\ Fresh(E!Idle)
  BY <1>2 DEF Moving, Fresh
<1>5. QED
  BY <1>1, <1>3, <1>4, RaceAside

\* A handler's day is the clock's, and the clock was behind no other's.
LEMMA RaceReadDay ==
  ASSUME StreakInv, NEW h \in Handlers, E!ReadDay(h)
  PROVE  RaceInv' /\ Made(days, streak)'
<1> DEFINE x == [handler[h] EXCEPT !.pc = "begin", !.day = today]
<1>0. /\ handler \in [Handlers -> Handling] /\ handler[h] \in Handling
      /\ Fresh(handler[h]) /\ streak \in E!Streak /\ today \in 1..MaxDay
      /\ Made(days, streak) /\ RaceInv
  BY DEF StreakInv, EngagementInv, EngagementTyped, RaceInv
<1>1. /\ handler[h].pc = "day" /\ handler' = [handler EXCEPT ![h] = x]
      /\ active' = active \cup {today}
      /\ UNCHANGED <<streak, today, days, moves, fails>>
  BY <1>0 DEF E!ReadDay, E!At
<1>2. x.pc = "begin" /\ x.day = today /\ ~x.retried
  BY <1>0, <1>1 DEF Handling, Fresh
<1> HIDE DEF x
<1>3. streak.last \in Nat /\ today \in Nat
  BY <1>0, EngagementConstants DEF E!Streak
<1>4. /\ Fresh(x) /\ Knows(x, streak) /\ Dated(x, today) /\ Beaten(x, streak)
      /\ \A y : Behind(x, y, streak)
  BY <1>2, <1>3 DEF Fresh, Knows, Dated, Beaten, Behind
<1>5. ASSUME moves = 0, AtMostTwo
      PROVE  /\ \A g \in Handlers : g # h =>
                  Behind(handler[g], x, streak) /\ Beaten(handler[g], streak)
             /\ fails' = 0 => \A d \in active' : Counts(d, days, streak, handler')
  <2>1. /\ \A g \in Handlers : Dated(handler[g], today) /\ Beaten(handler[g], streak)
        /\ fails = 0 => \A d \in active : Counts(d, days, streak, handler)
    BY <1>0, <1>5 DEF RaceInv
  <2>2. \A g \in Handlers : Behind(handler[g], x, streak)
    BY <1>2, <2>1 DEF Behind, Dated
  <2>3. \A g \in Handlers : g # h => handler'[g] = handler[g]
    BY <1>0, <1>1
  <2>4. handler'[h] = x
    BY <1>0, <1>1
  <2>5. ASSUME fails' = 0, NEW d \in active' PROVE Counts(d, days, streak, handler')
    <3>1. CASE d = today
      BY <1>2, <2>4, <3>1 DEF Counts, Moving
    <3>2. CASE d \in active
      <4>1. Counts(d, days, streak, handler)
        BY <1>1, <2>1, <2>5, <3>2
      <4>2. h \notin {g \in Handlers : handler[g].pc \in Moving}
        BY <1>1 DEF Moving
      <4>3. QED
        BY <2>3, <4>1, <4>2 DEF Counts
    <3>3. QED
      BY <1>1, <2>5, <3>1, <3>2
  <2>6. QED
    BY <2>1, <2>2, <2>5
<1>6. streak' = streak /\ days' = days /\ streak.last <= streak'.last
  BY <1>1, <1>3
<1>7. RaceInv'
  BY <1>0, <1>1, <1>4, <1>5, <1>6, RaceMoves
<1>8. QED
  BY <1>0, <1>6, <1>7 DEF Made, Run, From

\* A handler that reads the row.
LEMMA RaceBegin ==
  ASSUME StreakInv, NEW h \in Handlers, E!Begin(h)
  PROVE  RaceInv' /\ Made(days, streak)'
<1> DEFINE x == [handler[h] EXCEPT !.pc = "commit", !.row = streak]
<1>0. /\ handler \in [Handlers -> Handling] /\ handler[h] \in Handling
      /\ streak \in E!Streak /\ Made(days, streak) /\ RaceInv
  BY DEF StreakInv, EngagementInv, EngagementTyped, RaceInv
<1>1. /\ handler[h].pc = "begin" /\ handler' = [handler EXCEPT ![h] = x]
      /\ UNCHANGED <<streak, today, active, days, moves, fails>>
  BY <1>0 DEF E!Begin, E!At
<1>2. /\ x.pc = "commit" /\ x.row = streak /\ x.day = handler[h].day
      /\ x.retried = handler[h].retried
  BY <1>0 DEF Handling
<1> HIDE DEF x
<1>3. streak.last \in Nat
  BY <1>0, EngagementConstants DEF E!Streak
<1>4. Fresh(x) /\ Knows(x, streak) /\ Beaten(x, streak)
  BY <1>2, <1>3 DEF Fresh, Knows, Beaten
<1>5. moves = 0 => Dated(x, today)
  BY <1>0, <1>1, <1>2 DEF RaceInv, Dated, Moving
<1>6. ASSUME moves = 0, AtMostTwo
      PROVE  /\ \A g \in Handlers : g # h =>
                  /\ Behind(x, handler[g], streak) /\ Behind(handler[g], x, streak)
                  /\ Beaten(handler[g], streak)
             /\ fails' = 0 => \A d \in active' : Counts(d, days, streak, handler')
  <2>1. /\ \A g \in Handlers : g # h =>
             /\ Behind(handler[h], handler[g], streak)
             /\ Behind(handler[g], handler[h], streak)
        /\ \A g \in Handlers : Beaten(handler[g], streak)
        /\ fails = 0 => \A d \in active : Counts(d, days, streak, handler)
    BY <1>0, <1>6 DEF RaceInv
  <2>2. \A g \in Handlers : g # h =>
             /\ Behind(x, handler[g], streak) /\ Behind(handler[g], x, streak)
    BY <1>1, <1>2, <2>1 DEF Behind, Moving
  <2>3. \A g \in Handlers : handler'[g].pc \in Moving <=> handler[g].pc \in Moving
    BY <1>0, <1>1, <1>2 DEF Moving
  <2>4. \A g \in Handlers : handler'[g].day = handler[g].day
    BY <1>0, <1>1, <1>2
  <2>5. QED
    BY <1>1, <2>1, <2>2, <2>3, <2>4 DEF Counts
<1>7. streak' = streak /\ days' = days /\ streak.last <= streak'.last
  BY <1>1, <1>3
<1>8. RaceInv'
  BY <1>0, <1>1, <1>4, <1>5, <1>6, <1>7, RaceMoves
<1>9. QED
  BY <1>0, <1>7, <1>8 DEF Made, Run, From

\* The last day of the streak's row is a day that moved it.
LEMMA LastIsADay ==
  ASSUME StreakInv, streak.last # 0
  PROVE  streak.last \in days
BY DEF StreakInv, Made, Run

\* A day that is not after the row's is not after the streak's either.
LEMMA RaceSame ==
  ASSUME StreakInv, NEW h \in Handlers, E!Same(h)
  PROVE  RaceInv' /\ Made(days, streak)'
<1> DEFINE x == E!Judging(h, handler[h].row, FALSE)
<1>0. /\ handler[h] \in Handling /\ streak \in E!Streak /\ RaceInv
  BY DEF StreakInv, EngagementInv, EngagementTyped
<1>1. /\ handler[h].pc = "commit" /\ E!Unmoved(handler[h].row, handler[h].day)
      /\ handler' = [handler EXCEPT ![h] = x]
      /\ UNCHANGED <<streak, today, active, days, moves, fails>>
  BY DEF E!Same, E!At
<1>2. x.pc = "earn"
  BY DEF E!Judging, E!Idle
<1> HIDE DEF x
<1>3. /\ handler[h].row.last \in Nat /\ streak.last \in Nat /\ handler[h].day \in Nat
  BY <1>0, EngagementConstants DEF Handling, E!Streak
<1>4. handler[h].day <= streak.last /\ streak.last # 0
  BY <1>0, <1>1, <1>3 DEF RaceInv, Knows, E!Unmoved
<1>5. handler[h].day \in days \/ handler[h].day < streak.last
  BY <1>3, <1>4, LastIsADay
<1>6. x.pc \notin Moving /\ Fresh(x)
  BY <1>2 DEF Moving, Fresh
<1>7. QED
  BY <1>1, <1>5, <1>6, RaceAside

\* The day of the handler that moves the streak is not before another's that
\* was beaten once.
LEMMA RaceCommit ==
  ASSUME StreakInv, NEW h \in Handlers, E!Commit(h)
  PROVE  RaceInv' /\ Made(days, streak)'
<1> DEFINE day == handler[h].day
           b == E!Survives(streak, day) /\ E!Missed(streak, day) > 0
           x == E!Judging(h, streak', b)
<1>0. /\ handler \in [Handlers -> Handling] /\ handler[h] \in Handling
      /\ streak \in E!Streak /\ days \subseteq active /\ active \subseteq 1..MaxDay
      /\ Doing(handler[h]) /\ Made(days, streak) /\ RaceInv
  BY DEF StreakInv, EngagementInv, EngagementTyped
<1>1. /\ handler[h].pc = "commit" /\ ~E!Unmoved(streak, day) /\ streak = handler[h].row
      /\ streak' = E!Moved(streak, day) /\ days' = days \cup {day}
      /\ handler' = [handler EXCEPT ![h] = x]
      /\ UNCHANGED <<today, active, moves, fails>>
  BY DEF E!Commit, E!At
<1>2. x.pc = "earn"
  BY DEF E!Judging, E!Idle
<1> HIDE DEF x, b
<1>3. day \in active /\ day \in 1..MaxDay /\ day \in 0..MaxDay
  <2>1. day \in active
    BY <1>0, <1>1 DEF Doing
  <2> HIDE DEF day
  <2>2. day \in 1..MaxDay
    BY <1>0, <2>1
  <2>3. MaxDay \in Nat
    BY EngagementConstants
  <2>4. QED
    BY <2>1, <2>2, <2>3
<1> HIDE DEF day
<1>4. streak' \in E!Streak /\ streak'.last = day
  BY <1>0, <1>1, <1>3, MovedFits, MovedCounts
<1>5. streak.last \in Nat /\ day \in Nat /\ streak.last <= streak'.last
  BY <1>0, <1>1, <1>3, <1>4, EngagementConstants DEF E!Streak, E!Unmoved
<1>6. Made(days', streak')
  BY <1>0, <1>1, <1>3, MadeMoves
<1>7. /\ Fresh(x) /\ Knows(x, streak') /\ Dated(x, today) /\ Beaten(x, streak')
      /\ \A y : Behind(x, y, streak') /\ Behind(y, x, streak')
  BY <1>2 DEF Fresh, Knows, Dated, Beaten, Behind, Moving
<1>8. ASSUME moves = 0, AtMostTwo
      PROVE  /\ \A g \in Handlers : g # h => Beaten(handler[g], streak')
             /\ fails' = 0 => \A d \in active' : Counts(d, days', streak', handler')
  <2>1. /\ \A g \in Handlers : g # h => Behind(handler[g], handler[h], streak)
        /\ fails = 0 => \A d \in active : Counts(d, days, streak, handler)
    BY <1>0, <1>8 DEF RaceInv
  <2>2. \A g \in Handlers : g # h => Beaten(handler[g], streak')
    BY <1>1, <1>4, <2>1 DEF Behind, Beaten, Moving, day
  <2>3. ASSUME fails' = 0, NEW d \in active' PROVE Counts(d, days', streak', handler')
    <3>1. Counts(d, days, streak, handler) /\ d \in Nat
      BY <1>0, <1>1, <2>1, <2>3, EngagementConstants
    <3>2. CASE d \in days
      BY <1>1, <3>2 DEF Counts
    <3>3. CASE d < streak.last
      BY <1>4, <1>5, <3>1, <3>3 DEF Counts
    <3>4. ASSUME NEW g \in Handlers, handler[g].pc \in Moving, handler[g].day = d
          PROVE  Counts(d, days', streak', handler')
      <4>1. CASE g = h
        BY <1>1, <3>4, <4>1 DEF Counts, day
      <4>2. CASE g # h
        <5>1. handler'[g] = handler[g]
          BY <1>0, <1>1, <4>2
        <5>2. QED
          BY <3>4, <5>1 DEF Counts
      <4>3. QED
        BY <4>1, <4>2
    <3>5. QED
      BY <3>1, <3>2, <3>3, <3>4 DEF Counts
  <2>4. QED
    BY <2>2, <2>3
<1>9. RaceInv'
  BY <1>1, <1>4, <1>5, <1>7, <1>8, RaceMoves
<1>10. QED
  BY <1>6, <1>9 DEF Made, Run, From

\* A handler is beaten to the row, for the first or the last time.
LEMMA RaceConflict ==
  ASSUME StreakInv, NEW h \in Handlers, E!Conflict(h)
  PROVE  RaceInv' /\ Made(days, streak)'
<1>0. /\ handler \in [Handlers -> Handling] /\ handler[h] \in Handling
      /\ streak \in E!Streak /\ active \subseteq 1..MaxDay
      /\ Doing(handler[h]) /\ Made(days, streak) /\ RaceInv
  BY DEF StreakInv, EngagementInv, EngagementTyped
<1>1. /\ handler[h].pc = "commit" /\ streak # handler[h].row
      /\ UNCHANGED <<streak, today, active, days, moves, fails>>
  BY DEF E!Conflict, E!At
<1>2. /\ streak.last \in Nat /\ handler[h].day \in Nat /\ handler[h].day # 0
      /\ streak' = streak /\ days' = days /\ streak.last <= streak'.last
  <2>1. handler[h].day \in active
    BY <1>0, <1>1 DEF Doing
  <2>2. handler[h].day \in 1..MaxDay /\ MaxDay \in Nat
    BY <1>0, <2>1, EngagementConstants
  <2>3. streak.last \in 0..MaxDay
    BY <1>0 DEF E!Streak
  <2>4. QED
    BY <1>1, <2>2, <2>3
<1>3. CASE E!Retries(h)
  <2> DEFINE x == [handler[h] EXCEPT !.pc = "begin", !.retried = TRUE]
  <2>1. handler' = [handler EXCEPT ![h] = x]
    BY <1>0, <1>3 DEF E!Conflict
  <2>2. x.pc = "begin" /\ x.retried /\ x.day = handler[h].day
    BY <1>0 DEF Handling
  <2> HIDE DEF x
  <2>3. Fresh(x) /\ Knows(x, streak) /\ Beaten(x, streak)
    BY <2>2 DEF Fresh, Knows, Beaten
  <2>4. moves = 0 => Dated(x, today)
    BY <1>0, <1>1, <2>2 DEF RaceInv, Dated, Moving
  <2>5. ASSUME moves = 0, AtMostTwo
        PROVE  /\ \A g \in Handlers : g # h =>
                    /\ Behind(x, handler[g], streak) /\ Behind(handler[g], x, streak)
                    /\ Beaten(handler[g], streak)
               /\ fails' = 0 => \A d \in active' : Counts(d, days', streak', handler')
    <3>1. /\ \A g \in Handlers : g # h =>
               /\ Behind(handler[h], handler[g], streak)
               /\ Behind(handler[g], handler[h], streak)
          /\ \A g \in Handlers : Beaten(handler[g], streak)
          /\ fails = 0 => \A d \in active : Counts(d, days, streak, handler)
      BY <1>0, <2>5 DEF RaceInv
    <3>2. \A g \in Handlers : g # h =>
               /\ Behind(x, handler[g], streak) /\ Behind(handler[g], x, streak)
      BY <1>1, <2>2, <3>1 DEF Behind, Moving
    <3>3. \A g \in Handlers : handler'[g].pc \in Moving <=> handler[g].pc \in Moving
      BY <1>0, <1>1, <2>1, <2>2 DEF Moving
    <3>4. \A g \in Handlers : handler'[g].day = handler[g].day
      BY <1>0, <2>1, <2>2
    <3>5. QED
      BY <1>1, <3>1, <3>2, <3>3, <3>4 DEF Counts
  <2>6. RaceInv'
    BY <1>0, <1>1, <1>2, <2>1, <2>3, <2>4, <2>5, RaceMoves
  <2>7. QED
    BY <1>0, <1>2, <2>6 DEF Made, Run, From
<1>4. CASE ~E!Retries(h)
  <2>1. handler' = [handler EXCEPT ![h] = E!Idle] /\ handler[h].retried
    BY <1>0, <1>4 DEF E!Conflict, E!Done, E!Retries, Handling
  <2>2. E!Idle.pc \notin Moving /\ Fresh(E!Idle)
    BY DEF E!Idle, Moving, Fresh
  <2>3. moves = 0 /\ AtMostTwo =>
          handler[h].day \in days \/ handler[h].day < streak.last
    <3>1. SUFFICES ASSUME moves = 0, AtMostTwo
                   PROVE  handler[h].day \in days \/ handler[h].day < streak.last
      OBVIOUS
    <3>2. handler[h].day <= streak.last
      BY <1>0, <1>1, <2>1, <3>1 DEF RaceInv, Beaten
    <3>3. QED
      BY <1>2, <3>2, LastIsADay
  <2>4. QED
    BY <1>1, <2>1, <2>2, <2>3, RaceAside
<1>5. QED
  BY <1>3, <1>4

LEMMA RaceCalendar ==
  ASSUME StreakInv, E!Tick \/ E!MoveWest
  PROVE  RaceInv' /\ Made(days, streak)'
<1>1. /\ UNCHANGED <<streak, handler, active, days, fails>>
      /\ Made(days, streak) /\ RaceInv /\ handler \in [Handlers -> Handling]
  BY DEF E!Tick, E!MoveWest, StreakInv, EngagementInv, EngagementTyped
<1>2. today \in Nat /\ moves \in Nat /\ \A h \in Handlers : handler[h].day \in Nat
  BY <1>1, EngagementConstants DEF StreakInv, EngagementInv, EngagementTyped, Handling
<1>3. moves' = 0 => moves = 0 /\ today <= today'
  BY <1>2 DEF E!Tick, E!MoveWest
<1>4. moves' = 0 => \A h \in Handlers : Dated(handler[h], today')
  <2> SUFFICES ASSUME moves' = 0, NEW h \in Handlers PROVE Dated(handler[h], today')
    OBVIOUS
  <2>1. Dated(handler[h], today)
    BY <1>1, <1>3 DEF RaceInv
  <2>2. today' \in Nat
    BY <1>2 DEF E!Tick, E!MoveWest
  <2>3. QED
    BY <1>2, <1>3, <2>1, <2>2 DEF Dated
<1>5. QED
  BY <1>1, <1>3, <1>4 DEF RaceInv, Made, Run, From, Fresh, Knows, Dated, Behind,
     Beaten, Counts, AtMostTwo

LEMMA RaceNext == StreakInv /\ E!Next => RaceInv' /\ Made(days, streak)'
BY RaceOutside, RaceReadDay, RaceBegin, RaceSame, RaceCommit, RaceConflict,
   RaceFail, RaceCalendar DEF E!Next

DaysInv == part = "engagement" => StreakInv

LEMMA DaysAlways == LearningSpec => []DaysInv
<1>1. LearningInit => DaysInv
  BY EngagementInit, RaceInit DEF LearningInit, DaysInv, StreakInv
<1>2. DaysInv /\ [LearningNext]_learningVars => DaysInv'
  <2> SUFFICES ASSUME DaysInv, [LearningNext]_learningVars PROVE DaysInv'
    OBVIOUS
  <2>1. CASE UNCHANGED learningVars
    BY <2>1 DEF learningVars, EngagementVars, DaysInv, StreakInv, EngagementInv,
       EngagementTyped, E!Keys, E!Streak, Handling, E!Triggers, Doing, Earns,
       Made, Run, From, RaceInv, Fresh, Knows, Dated, Behind, Beaten, Counts, AtMostTwo
  <2>2. CASE LearningNext
    <3>1. part' = part /\ (part = "engagement" => E!Next)
      BY <2>2 DEF LearningNext
    <3>2. StreakInv /\ E!Next => StreakInv'
      BY EngagementNext, RaceNext DEF StreakInv
    <3>3. QED
      BY <3>1, <3>2 DEF DaysInv
  <2>3. QED
    BY <2>1, <2>2
<1>3. QED
  BY <1>1, <1>2, PTL DEF LearningSpec

LEMMA CountAsEver == ASSUME NEW T PROVE E!Cardinality(T) = Cardinality(T)
BY DEF E!Cardinality, Cardinality

\* The streak's days are the last ones.
LEMMA StreakDaysAre ==
  ASSUME days \subseteq 1..MaxDay, NEW f \in days, Run(days, streak, f)
  PROVE  E!StreakDays = From(days, f)
<1>0. MaxDay \in Nat /\ f \in Nat /\ \A d \in days : d \in Nat
  BY EngagementConstants
<1>1. Cardinality(From(days, f)) = streak.current /\ streak.current \in Nat
  BY DaysFinite DEF Run
<1>2. ASSUME NEW d \in days
      PROVE  Cardinality(From(days, d)) <= streak.current <=> d >= f
  <2>0. /\ IsFiniteSet(From(days, d)) /\ IsFiniteSet(From(days, f))
        /\ Cardinality(From(days, d)) \in Nat
    BY DaysFinite
  <2>1. CASE d >= f
    <3>1. From(days, d) \subseteq From(days, f)
      <4>1. \A e \in days : e >= d => e >= f
        BY <1>0, <1>2, <2>1
      <4>2. QED
        BY <4>1 DEF From
    <3>2. Cardinality(From(days, d)) <= Cardinality(From(days, f))
      BY <2>0, <3>1, FS_Subset
    <3>3. QED
      BY <1>1, <2>1, <3>2
  <2>2. CASE d < f
    <3>1. From(days, f) \cup {d} \subseteq From(days, d) /\ d \notin From(days, f)
      <4>1. \A e \in days : e >= f => e >= d
        BY <1>0, <1>2, <2>2
      <4>2. d >= d /\ ~(d >= f)
        BY <1>0, <1>2, <2>2
      <4>3. QED
        BY <1>2, <4>1, <4>2 DEF From
    <3>2. Cardinality(From(days, f) \cup {d}) = streak.current + 1
      BY <1>1, <2>0, <3>1, FS_AddElement
    <3>3. Cardinality(From(days, f) \cup {d}) <= Cardinality(From(days, d))
      BY <2>0, <3>1, FS_Subset
    <3>4. QED
      BY <1>0, <1>1, <1>2, <2>0, <2>2, <3>2, <3>3
  <2>3. QED
    BY <1>0, <1>2, <2>1, <2>2
<1>3. \A d : E!Cardinality({e \in days : e >= d}) = Cardinality(From(days, d))
  BY CountAsEver DEF From
<1>4. E!StreakDays = {d \in days : Cardinality(From(days, d)) <= streak.current}
  BY <1>3 DEF E!StreakDays
<1>5. QED
  BY <1>2, <1>4 DEF From

LEMMA UnbrokenIs ==
  ASSUME StreakInv PROVE E!StreakIsUnbroken
<1> SUFFICES ASSUME days # {} PROVE E!StreakIsUnbroken
  BY DEF E!StreakIsUnbroken
<1>0. days \subseteq 1..MaxDay /\ streak \in E!Streak /\ MaxDay \in Nat
  BY EngagementConstants DEF StreakInv, EngagementInv, EngagementTyped
<1>1. PICK f \in days : Run(days, streak, f)
  BY DEF StreakInv, Made
<1>2. E!StreakDays = From(days, f)
  BY <1>0, <1>1, StreakDaysAre
<1>3. /\ f \in Nat /\ streak.last \in days /\ \A d \in days : d \in Nat /\ d <= streak.last
  BY <1>0, <1>1 DEF Run
<1>4. f \in Int /\ streak.last \in Int
  <2>1. \A d \in days : d \in Int
    BY <1>3
  <2>2. QED
    BY <1>3, <2>1
<1>5. E!Min(From(days, f)) = f
  <2>1. f \in From(days, f) /\ \A d \in From(days, f) : f <= d /\ d \in Nat
    BY <1>3 DEF From
  <2>2. QED
    BY <1>3, <2>1 DEF E!Min
<1>6. E!Max(days) = streak.last
  BY <1>3, LatestIs
<1> DEFINE earlier == {d \in days : d < f}
<1>7. earlier # {} => E!Max(earlier) < f - 1
  <2> SUFFICES ASSUME earlier # {} PROVE E!Max(earlier) < f - 1
    OBVIOUS
  <2>1. earlier \subseteq 1..MaxDay
    BY <1>0
  <2>2. PICK m \in earlier : \A d \in earlier : d <= m
    BY <1>0, <2>1, SomeLatest
  <2>3. E!Max(earlier) = m
    <3>1. m \in earlier /\ \A d \in earlier : d \in Nat /\ d <= m
      BY <1>3, <2>2
    <3> HIDE DEF earlier
    <3>2. QED
      BY <3>1, LatestIs
  <2>4. QED
    BY <1>1, <2>2, <2>3 DEF Run
<1>8. /\ Cardinality(From(days, f)) = streak.current
      /\ Cardinality((f..streak.last) \ days) + streak.freezes
           <= Cardinality(days) \div FREEZE_MILESTONE
  <2> DEFINE n == Cardinality(From(days, f))
             m == Cardinality(days \ From(days, f))
             g == Cardinality((f..streak.last) \ days)
  <2>1. /\ n \in Nat /\ m \in Nat /\ Cardinality(days) = n + m
    BY <1>0, DaysFinite
  <2>2. /\ n = streak.current
        /\ g + streak.freezes <= (m \div FREEZE_MILESTONE) + (n \div FREEZE_MILESTONE)
    BY <1>1 DEF Run
  <2>3. g \in Nat /\ streak.freezes \in Nat
    <3>1. IsFiniteSet(f..streak.last)
      BY <1>4, FS_Interval
    <3>2. IsFiniteSet((f..streak.last) \ days)
      BY <3>1, FS_Subset
    <3>3. QED
      BY <1>0, <3>2, FS_CardinalityType, EngagementConstants DEF E!Streak
  <2> HIDE DEF n, m, g
  <2>4. (m \div FREEZE_MILESTONE) + (n \div FREEZE_MILESTONE)
          <= (m + n) \div FREEZE_MILESTONE
    BY <2>1, EngagementConstants, QuotientsAdd
  <2>5. /\ (m \div FREEZE_MILESTONE) \in Nat /\ (n \div FREEZE_MILESTONE) \in Nat
    BY <2>1, EngagementConstants, Quotient
  <2>6. m + n = Cardinality(days) /\ m + n \in Nat
    BY <2>1
  <2>7. (m + n) \div FREEZE_MILESTONE \in Nat
    BY <2>6, EngagementConstants, Quotient
  <2>8. g + streak.freezes <= (m + n) \div FREEZE_MILESTONE
    BY <2>2, <2>3, <2>4, <2>5, <2>7
  <2>9. QED
    BY <2>2, <2>6, <2>8 DEF n, g
<1>9. /\ E!Cardinality(E!StreakDays) = Cardinality(From(days, f))
      /\ E!Cardinality((f..streak.last) \ days) = Cardinality((f..streak.last) \ days)
      /\ E!Cardinality(days) = Cardinality(days)
  BY <1>2, CountAsEver
<1>10. QED
  BY <1>2, <1>5, <1>6, <1>7, <1>8, <1>9 DEF E!StreakIsUnbroken

LEMMA NoneIsLost ==
  ASSUME StreakInv PROVE E!NoDayLost
<1> SUFFICES ASSUME fails = 0, moves = 0, E!Cardinality(Handlers) <= 2,
                    NEW d \in active
             PROVE  \/ d \in days \/ d < streak.last
                    \/ \E h \in Handlers :
                         handler[h].pc \in {"begin", "commit"} /\ handler[h].day = d
  BY DEF E!NoDayLost
<1>1. AtMostTwo
  BY CountAsEver, AtMostTwoIsTwo
<1>2. QED
  BY <1>1 DEF StreakInv, RaceInv, Counts, Moving

\* A streak counts the days on which something was learned, each once, and the
\* freezes that bridge the days between them were earned; and of two handlers at a
\* time, in one timezone, neither's day is lost to the other (recordDailyActivity
\* in engagement.events-handler.ts, applyActivity in streak.calculator.ts).
THEOREM StreaksCount == LearningSpec => []StreakCountsDays
<1>1. DaysInv => StreakCountsDays
  BY UnbrokenIs, NoneIsLost DEF DaysInv, StreakCountsDays, E!StreakCountsDays
<1>2. QED
  BY <1>1, DaysAlways, PTL

----------------------------------------------------------------------------
(* Attempts: types, however many requests overlap.                         *)

\* The latest of some attempts is one of them.
LEMMA LatestIsOne ==
  ASSUME NEW n \in Nat, NEW T \in SUBSET (1..n), T # {}
  PROVE  Max(T) \in T
<1>1. PICK k \in T : \A j \in T : j <= k
  BY SomeLatest
<1>2. \A j \in T : k >= j
  BY <1>1
<1>3. QED
  BY <1>2 DEF Max

\* One row is written.
LEMMA RowWritten ==
  ASSUME NEW T, NEW as \in Seq(T), NEW i \in 1..Len(as), NEW a \in T,
         NEW bs, bs = [as EXCEPT ![i] = a]
  PROVE  /\ bs \in Seq(T) /\ Len(bs) = Len(as) /\ bs[i] = a
         /\ \A j \in 1..Len(as) : j # i => bs[j] = as[j]
<1>1. /\ as \in [1..Len(as) -> T] /\ Len(as) \in Nat
  BY LenProperties
<1>2. bs \in [1..Len(as) -> T]
  BY <1>1
<1>3. \E n \in Nat : bs \in [1..n -> T]
  BY <1>1, <1>2
<1>4. bs \in Seq(T)
  BY <1>3, SeqDef
<1>5. Len(bs) = Len(as)
  <2>1. bs \in [1..Len(bs) -> T] /\ Len(bs) \in Nat
    BY <1>4, LenProperties
  <2>2. 1..Len(bs) = 1..Len(as)
    BY <1>2, <2>1
  <2>3. \A m, n \in Nat : 1..m = 1..n => m = n
    <3>1. ASSUME NEW m \in Nat, NEW n \in Nat, 1..m = 1..n, m < n PROVE FALSE
      <4>1. n \in 1..n /\ n \notin 1..m
        BY <3>1
      <4>2. QED
        BY <3>1, <4>1
    <3>2. QED
      BY <3>1
  <2>4. QED
    BY <1>1, <2>1, <2>2, <2>3
<1>6. QED
  BY <1>1, <1>2, <1>4, <1>5

\* A new attempt joins the rows.
LEMMA RowAppended ==
  ASSUME NEW T, NEW as \in Seq(T), NEW a \in T, NEW bs, bs = Append(as, a)
  PROVE  /\ bs \in Seq(T) /\ Len(bs) = Len(as) + 1 /\ Len(as) \in Nat
         /\ bs[Len(as) + 1] = a
         /\ \A j \in 1..Len(as) : bs[j] = as[j]
<1>1. Len(as) \in Nat
  BY LenProperties
<1>2. /\ Append(as, a) \in Seq(T) /\ Len(Append(as, a)) = Len(as) + 1
      /\ Append(as, a)[Len(as) + 1] = a
  BY AppendProperties, Zenon
<1>3. \A j \in 1..Len(as) : Append(as, a)[j] = as[j]
  BY <1>1
<1>4. QED
  BY <1>1, <1>2, <1>3, Zenon

LEMMA AttemptsConstants ==
  /\ None \notin Nat
  /\ MaxAttempts \in Nat /\ MaxTime \in Nat /\ MaxReviews \in Nat /\ MaxFails \in Nat
BY RetryAssumption, AttemptsAssumption

\* A request that is about to write a row knows one of n, and what it tells.
Bound(x, n) ==
  /\ x.pc \in {"save", "finalize", "write", "tell"} => x.id \in 1..n
  /\ x.pc = "tell" => x.passed \in BOOLEAN

AttemptsTyped ==
  /\ TypeOK
  /\ \A r \in Requests : Bound(request[r], Len(attempts))
  /\ \A g \in Graders : Bound(grader[g], Len(attempts))

LearnerPcs == {"save", "finalize", "eligible", "create"}
GraderPcs == {"read", "write"}

LEMMA AttemptsTypesAre ==
  TypeOK <=>
    /\ attempts \in Seq(Attempt) /\ Len(attempts) \in Nat
    /\ Len(attempts) <= MaxAttempts
    /\ request \in [Requests -> Local(LearnerPcs)]
    /\ grader \in [Graders -> Local(GraderPcs)]
    /\ now \in 0..MaxTime
    /\ reviews \in 0..MaxReviews /\ fails \in 0..MaxFails
BY LenProperties DEF TypeOK, LearnerPcs, GraderPcs

\* The requests go on, and no row is lost.
LEMMA BothTyped ==
  ASSUME AttemptsTyped, attempts' \in Seq(Attempt),
         Len(attempts) <= Len(attempts'), Len(attempts') <= MaxAttempts,
         request' \in [Requests -> Local(LearnerPcs)],
         grader' \in [Graders -> Local(GraderPcs)],
         \A r \in Requests : \/ request'[r] = request[r]
                             \/ Bound(request'[r], Len(attempts')),
         \A g \in Graders : \/ grader'[g] = grader[g]
                            \/ Bound(grader'[g], Len(attempts')),
         now' \in 0..MaxTime, reviews' \in 0..MaxReviews, fails' \in 0..MaxFails
  PROVE  AttemptsTyped'
<1>1. Len(attempts) \in Nat /\ Len(attempts') \in Nat
  BY LenProperties DEF AttemptsTyped, TypeOK
<1>2. ASSUME NEW x, Bound(x, Len(attempts)) PROVE Bound(x, Len(attempts'))
  BY <1>1, <1>2 DEF Bound
<1>3. /\ \A r \in Requests : Bound(request'[r], Len(attempts'))
      /\ \A g \in Graders : Bound(grader'[g], Len(attempts'))
  BY <1>2 DEF AttemptsTyped
<1>4. TypeOK'
  BY DEF TypeOK, Attempt, Local, LearnerPcs, GraderPcs
<1>5. QED
  BY <1>3, <1>4 DEF AttemptsTyped

LEMMA LearnerTyped ==
  ASSUME AttemptsTyped, NEW r \in Requests, NEW x \in Local(LearnerPcs),
         request' = [request EXCEPT ![r] = x],
         attempts' \in Seq(Attempt), Bound(x, Len(attempts')),
         Len(attempts) <= Len(attempts'), Len(attempts') <= MaxAttempts,
         UNCHANGED <<grader, now, reviews, fails>>
  PROVE  AttemptsTyped'
<1>1. TypeOK
  BY DEF AttemptsTyped
<1>2. /\ request' \in [Requests -> Local(LearnerPcs)] /\ request'[r] = x
      /\ \A s \in Requests : s # r => request'[s] = request[s]
  BY <1>1, AttemptsTypesAre
<1>3. QED
  BY <1>1, <1>2, BothTyped, AttemptsTypesAre

\* The rows stay as they are.
LEMMA LearnerStays ==
  ASSUME AttemptsTyped, NEW r \in Requests, NEW x \in Local(LearnerPcs),
         request' = [request EXCEPT ![r] = x], Bound(x, Len(attempts)),
         UNCHANGED <<attempts, grader, now, reviews, fails>>
  PROVE  AttemptsTyped'
<1>1. /\ attempts \in Seq(Attempt) /\ Len(attempts) \in Nat
      /\ Len(attempts) <= MaxAttempts
  BY AttemptsTypesAre DEF AttemptsTyped
<1>2. /\ attempts' \in Seq(Attempt) /\ Bound(x, Len(attempts'))
      /\ Len(attempts) <= Len(attempts') /\ Len(attempts') <= MaxAttempts
  BY <1>1
<1>3. QED
  BY <1>2, LearnerTyped

LEMMA GraderTyped ==
  ASSUME AttemptsTyped, NEW g \in Graders, NEW y \in Local(GraderPcs),
         grader' = [grader EXCEPT ![g] = y],
         attempts' \in Seq(Attempt), Bound(y, Len(attempts')),
         Len(attempts) <= Len(attempts'), Len(attempts') <= MaxAttempts,
         UNCHANGED <<request, now, reviews, fails>>
  PROVE  AttemptsTyped'
<1>1. TypeOK
  BY DEF AttemptsTyped
<1>2. /\ grader' \in [Graders -> Local(GraderPcs)] /\ grader'[g] = y
      /\ \A h \in Graders : h # g => grader'[h] = grader[h]
  BY <1>1, AttemptsTypesAre
<1>3. QED
  BY <1>1, <1>2, BothTyped, AttemptsTypesAre

LEMMA IdleTyped ==
  ASSUME NEW pcs, NEW n
  PROVE  Idle \in Local(pcs) /\ Bound(Idle, n)
BY AttemptsConstants DEF Idle, Local, Bound

LEMMA BegunTyped ==
  ASSUME NEW pcs, NEW pc \in pcs, NEW id \in 0..MaxAttempts
  PROVE  /\ [Idle EXCEPT !.pc = pc, !.id = id] \in Local(pcs)
         /\ [Idle EXCEPT !.pc = pc, !.starts = TRUE] \in Local(pcs)
         /\ [Idle EXCEPT !.pc = pc, !.starts = TRUE].pc = pc
         /\ [Idle EXCEPT !.pc = pc, !.id = id].pc = pc
         /\ [Idle EXCEPT !.pc = pc, !.id = id].id = id
<1>1. Idle \in Local(pcs)
  BY IdleTyped
<1>2. QED
  BY <1>1 DEF Local

LEMMA GoesTyped ==
  ASSUME NEW pcs, NEW x \in Local(pcs), NEW pc \in pcs \cup {"tell"},
         NEW id \in 0..MaxAttempts, NEW passed \in BOOLEAN
  PROVE  /\ [x EXCEPT !.pc = pc] \in Local(pcs)
         /\ [x EXCEPT !.pc = pc, !.id = id] \in Local(pcs)
         /\ [x EXCEPT !.pc = pc, !.passed = passed] \in Local(pcs)
BY DEF Local

LEMMA GoesOnTyped ==
  ASSUME NEW r \in Requests, NEW n
  PROVE  GoesOn(r) \in Local(LearnerPcs) /\ Bound(GoesOn(r), n)
<1> DEFINE x == [Idle EXCEPT !.pc = "eligible", !.starts = TRUE]
<1>1. x \in Local(LearnerPcs) /\ x.pc = "eligible"
  <2>1. "eligible" \in LearnerPcs /\ 0 \in 0..MaxAttempts
    BY AttemptsConstants DEF LearnerPcs
  <2>2. QED
    BY <2>1, BegunTyped
<1> HIDE DEF x
<1>2. Bound(x, n)
  BY <1>1 DEF Bound
<1>3. QED
  BY <1>1, <1>2, IdleTyped DEF GoesOn, x

LEMMA IdOfRow ==
  ASSUME AttemptsTyped, NEW i \in Ids
  PROVE  i \in 0..MaxAttempts /\ i \in 1..Len(attempts) /\ attempts[i] \in Attempt
<1>1. attempts \in Seq(Attempt) /\ Len(attempts) \in Nat
        /\ Len(attempts) <= MaxAttempts
  BY AttemptsTypesAre DEF AttemptsTyped
<1>2. attempts \in [1..Len(attempts) -> Attempt]
  BY <1>1, LenProperties
<1>3. QED
  BY <1>1, <1>2, AttemptsConstants DEF Ids

\* An attempt that expired is finalised on the way to a new one.
LEMMA TypesStart ==
  ASSUME AttemptsTyped, NEW r \in Requests, Start(r)
  PROVE  AttemptsTyped'
<1> DEFINE begun == {i \in Ids : Open(i)}
           last == Max(begun)
           e == [Idle EXCEPT !.pc = "eligible", !.id = 0, !.starts = TRUE]
           f == [Idle EXCEPT !.pc = "finalize", !.id = last, !.starts = TRUE]
           x == IF begun = {} THEN e ELSE f
<1>1. /\ Len(attempts) \in Nat /\ {"eligible", "finalize"} \subseteq LearnerPcs
      /\ Idle \in Local(LearnerPcs) /\ 0 \in 0..MaxAttempts
  BY AttemptsTypesAre, AttemptsConstants, IdleTyped DEF AttemptsTyped, LearnerPcs
<1>2. /\ UNCHANGED <<attempts, grader, now, reviews, fails>>
      /\ request' = [request EXCEPT ![r] =
           [Idle EXCEPT !.pc = IF begun = {} THEN "eligible" ELSE "finalize",
                        !.id = IF begun = {} THEN 0 ELSE last,
                        !.starts = TRUE]]
  BY DEF Start
<1>3. request' = [request EXCEPT ![r] = x]
  BY <1>2
<1>4. begun # {} => last \in 0..MaxAttempts /\ last \in 1..Len(attempts)
  <2>1. begun \in SUBSET (1..Len(attempts))
    BY DEF Ids
  <2>2. begun # {} => last \in begun
    BY <1>1, <2>1, LatestIsOne
  <2>3. QED
    BY <2>2, IdOfRow
<1> HIDE DEF last, begun
<1>5. e \in Local(LearnerPcs) /\ e.pc = "eligible"
  BY <1>1 DEF Local
<1>6. begun # {} => f \in Local(LearnerPcs) /\ f.pc = "finalize" /\ f.id = last
  BY <1>1, <1>4 DEF Local
<1> HIDE DEF e, f
<1>7. x \in Local(LearnerPcs) /\ Bound(x, Len(attempts))
  BY <1>4, <1>5, <1>6 DEF Bound
<1> HIDE DEF x
<1>8. QED
  BY <1>2, <1>3, <1>7, LearnerStays

LEMMA TypesCheckEligible ==
  ASSUME AttemptsTyped, NEW r \in Requests, CheckEligible(r)
  PROVE  AttemptsTyped'
<1> DEFINE closed == {i \in Ids : ~Open(i)}
           c == [request[r] EXCEPT !.pc = "create", !.saw = closed]
<1>1. /\ request[r] \in Local(LearnerPcs) /\ attempts \in Seq(Attempt)
      /\ Len(attempts) \in Nat /\ Len(attempts) <= MaxAttempts
      /\ "create" \in LearnerPcs /\ closed \in SUBSET (1..MaxAttempts)
  BY AttemptsTypesAre, AttemptsConstants DEF AttemptsTyped, LearnerPcs, Ids
<1>2. /\ UNCHANGED <<attempts, grader, now, reviews, fails>>
      /\ \/ request' = [request EXCEPT ![r] = c]
         \/ request' = [request EXCEPT ![r] = Idle]
  BY AttemptsTypesAre DEF CheckEligible, Done, AttemptsTyped
<1> HIDE DEF closed
<1>3. c \in Local(LearnerPcs) /\ c.pc = "create"
  BY <1>1 DEF Local
<1> HIDE DEF c
<1>4. Bound(c, Len(attempts))
  BY <1>3 DEF Bound
<1>5. Idle \in Local(LearnerPcs) /\ Bound(Idle, Len(attempts))
  BY IdleTyped
<1>6. QED
  BY <1>2, <1>3, <1>4, <1>5, LearnerStays

LEMMA TypesCreate ==
  ASSUME AttemptsTyped, NEW r \in Requests, Create(r)
  PROVE  AttemptsTyped'
<1> DEFINE a == [started |-> now, submitted |-> None, held |-> FALSE,
                 passed |-> None, invalid |-> FALSE, tainted |-> FALSE,
                 stale |-> Overtaken(r), told |-> <<>>]
<1>1. /\ attempts \in Seq(Attempt) /\ Len(attempts) \in Nat /\ now \in 0..MaxTime
  BY AttemptsTypesAre DEF AttemptsTyped
<1>2. /\ UNCHANGED <<grader, now, reviews, fails>>
      /\ attempts' = Append(attempts, a) /\ Len(attempts) < MaxAttempts
      /\ request' = [request EXCEPT ![r] = Idle]
  BY DEF Create, Done
<1>3. a \in Attempt
  <2>1. <<>> \in Seq(BOOLEAN)
    OBVIOUS
  <2>2. QED
    BY <1>1, <2>1 DEF Attempt, Overtaken
<1> HIDE DEF a
<1>4. attempts' \in Seq(Attempt) /\ Len(attempts') = Len(attempts) + 1
  BY <1>1, <1>2, <1>3, AppendProperties, Zenon
<1>5. Idle \in Local(LearnerPcs) /\ Bound(Idle, Len(attempts'))
  BY IdleTyped
<1>6. Len(attempts) <= Len(attempts') /\ Len(attempts') <= MaxAttempts
  BY <1>1, <1>2, <1>4, AttemptsConstants
<1>7. QED
  BY <1>2, <1>4, <1>5, <1>6, LearnerTyped

LEMMA TypesLoad ==
  ASSUME AttemptsTyped, NEW r \in Requests, Load(r)
  PROVE  AttemptsTyped'
<1>1. PICK i \in Ids, pc \in {"save", "finalize"} :
        request' = [request EXCEPT ![r] = [Idle EXCEPT !.pc = pc, !.id = i]]
  BY DEF Load
<1> DEFINE x == [Idle EXCEPT !.pc = pc, !.id = i]
<1>2. i \in 0..MaxAttempts /\ i \in 1..Len(attempts) /\ pc \in LearnerPcs
  BY IdOfRow DEF LearnerPcs
<1>3. x \in Local(LearnerPcs) /\ x.pc = pc /\ x.id = i
  BY <1>2, BegunTyped
<1>4. UNCHANGED <<attempts, grader, now, reviews, fails>>
  BY DEF Load
<1> HIDE DEF x
<1>5. Bound(x, Len(attempts))
  BY <1>2, <1>3 DEF Bound
<1>6. request' = [request EXCEPT ![r] = x]
  BY <1>1 DEF x
<1>7. QED
  BY <1>3, <1>4, <1>5, <1>6, LearnerStays

LEMMA TypesSave ==
  ASSUME AttemptsTyped, NEW r \in Requests, Save(r)
  PROVE  AttemptsTyped'
<1> DEFINE i == request[r].id
           a == [attempts[i] EXCEPT !.held = FALSE]
<1>1. /\ attempts' = [attempts EXCEPT ![i].held = FALSE]
      /\ request' = [request EXCEPT ![r] = Idle]
      /\ UNCHANGED <<grader, now, reviews, fails>>
  BY DEF Save, Done
<1>2. /\ i \in Ids /\ attempts \in Seq(Attempt)
      /\ Len(attempts) \in Nat /\ Len(attempts) <= MaxAttempts
  BY AttemptsTypesAre DEF Save, AttemptsTyped, Bound, Ids
<1>3. /\ i \in 1..Len(attempts) /\ attempts[i] \in Attempt
      /\ attempts \in [1..Len(attempts) -> Attempt]
  BY <1>2, IdOfRow, LenProperties
<1>4. attempts' = [attempts EXCEPT ![i] = a] /\ a \in Attempt
  BY <1>1, <1>3 DEF Attempt
<1> HIDE DEF a, i
<1>5. attempts' \in Seq(Attempt) /\ Len(attempts') = Len(attempts)
  BY <1>2, <1>3, <1>4, RowWritten
<1>6. Len(attempts) <= Len(attempts') /\ Len(attempts') <= MaxAttempts
  BY <1>2, <1>5
<1>7. Idle \in Local(LearnerPcs) /\ Bound(Idle, Len(attempts'))
  BY IdleTyped
<1>8. QED
  BY <1>1, <1>5, <1>6, <1>7, LearnerTyped

LEMMA TypesFinalize ==
  ASSUME AttemptsTyped, NEW r \in Requests, Finalize(r)
  PROVE  AttemptsTyped'
<1> DEFINE i == request[r].id
<1>1. PICK held \in (IF Manual THEN BOOLEAN ELSE {FALSE}), passed \in BOOLEAN :
        /\ attempts' = [attempts EXCEPT
             ![i].submitted = now, ![i].held = held,
             ![i].passed = IF held THEN None ELSE passed,
             ![i].stale = @ \/ ~Open(i)]
        /\ request' = [request EXCEPT
             ![r] = IF Announced(held)
                    THEN [@ EXCEPT !.pc = "tell", !.passed = ~held /\ passed]
                    ELSE GoesOn(r)]
  BY DEF Finalize
<1>2. /\ UNCHANGED <<grader, now, reviews, fails>>
      /\ i \in Ids /\ now \in 0..MaxTime /\ request[r] \in Local(LearnerPcs)
      /\ held \in BOOLEAN /\ attempts \in Seq(Attempt)
      /\ Len(attempts) \in Nat /\ Len(attempts) <= MaxAttempts
  BY AttemptsTypesAre DEF Finalize, AttemptsTyped, Bound, Ids
<1> DEFINE stale == attempts[i].stale \/ ~Open(i)
           a == [attempts[i] EXCEPT !.submitted = now, !.held = held,
                                    !.passed = IF held THEN None ELSE passed,
                                    !.stale = stale]
<1>3. /\ i \in 1..Len(attempts) /\ i \in 0..MaxAttempts
      /\ attempts[i] \in Attempt
      /\ attempts \in [1..Len(attempts) -> Attempt]
  BY <1>2, IdOfRow, LenProperties
<1>4. attempts' = [attempts EXCEPT ![i] = a]
  BY <1>1, <1>3
<1>5. a \in Attempt
  <2>1. stale \in BOOLEAN
    BY <1>3 DEF Attempt, Open
  <2> HIDE DEF stale
  <2>2. QED
    BY <1>2, <1>3, <2>1 DEF Attempt
<1> DEFINE t == [request[r] EXCEPT !.pc = "tell", !.passed = ~held /\ passed]
<1>6. /\ t \in Local(LearnerPcs) /\ t.pc = "tell" /\ t.id = i
      /\ t.passed \in BOOLEAN
  <2>1. (~held /\ passed) \in BOOLEAN
    BY <1>2
  <2> DEFINE p == ~held /\ passed
  <2> HIDE DEF p
  <2>2. p \in BOOLEAN
    BY <2>1 DEF p
  <2>3. LET u == [request[r] EXCEPT !.pc = "tell", !.passed = p]
        IN  u \in Local(LearnerPcs) /\ u.pc = "tell" /\ u.id = i /\ u.passed = p
    BY <1>2, <2>2 DEF Local
  <2>4. QED
    BY <2>2, <2>3 DEF p
<1>7. PICK x \in {t, GoesOn(r)} : request' = [request EXCEPT ![r] = x]
  BY <1>1, <1>2, AttemptsTypesAre DEF AttemptsTyped
<1> HIDE DEF a, t, i
<1>8. attempts' \in Seq(Attempt) /\ Len(attempts') = Len(attempts)
  BY <1>2, <1>3, <1>4, <1>5, RowWritten
<1>9. x \in Local(LearnerPcs) /\ Bound(x, Len(attempts'))
  <2>1. Bound(t, Len(attempts'))
    BY <1>3, <1>6, <1>8 DEF Bound
  <2>2. QED
    BY <1>6, <1>7, <2>1, GoesOnTyped
<1>10. Len(attempts) <= Len(attempts') /\ Len(attempts') <= MaxAttempts
  BY <1>2, <1>8
<1>11. QED
  BY <1>2, <1>7, <1>8, <1>9, <1>10, LearnerTyped

\* The event, told of a row that is there.
LEMMA TypesAnnounce ==
  ASSUME AttemptsTyped, NEW i \in Ids, NEW passed \in BOOLEAN, Announce(i, passed)
  PROVE  attempts' \in Seq(Attempt) /\ Len(attempts') = Len(attempts)
<1> DEFINE a == [attempts[i] EXCEPT !.told = Append(attempts[i].told, passed)]
<1>1. /\ i \in 1..Len(attempts) /\ attempts[i] \in Attempt
      /\ attempts \in Seq(Attempt) /\ attempts \in [1..Len(attempts) -> Attempt]
  BY IdOfRow, LenProperties, AttemptsTypesAre DEF AttemptsTyped
<1>2. Append(attempts[i].told, passed) \in Seq(BOOLEAN)
  <2>1. attempts[i].told \in Seq(BOOLEAN)
    BY <1>1 DEF Attempt
  <2>2. QED
    BY <2>1, AppendProperties, Zenon
<1>3. a \in Attempt
  BY <1>1, <1>2 DEF Attempt
<1>4. attempts' = [attempts EXCEPT ![i] = a]
  BY <1>1 DEF Announce
<1> HIDE DEF a
<1>5. QED
  BY <1>1, <1>3, <1>4, RowWritten

LEMMA TypesTell ==
  ASSUME AttemptsTyped, NEW r \in Requests, Tell(r)
  PROVE  AttemptsTyped'
<1>1. /\ request[r].id \in Ids /\ request[r].passed \in BOOLEAN
      /\ Announce(request[r].id, request[r].passed)
      /\ request' = [request EXCEPT ![r] = GoesOn(r)]
      /\ UNCHANGED <<grader, now, reviews, fails>>
  BY DEF Tell, AttemptsTyped, Bound, Ids
<1>2. attempts' \in Seq(Attempt) /\ Len(attempts') = Len(attempts)
  BY <1>1, TypesAnnounce
<1>3. Len(attempts) \in Nat /\ Len(attempts) <= MaxAttempts
  BY AttemptsTypesAre DEF AttemptsTyped
<1>4. Len(attempts) <= Len(attempts') /\ Len(attempts') <= MaxAttempts
  BY <1>2, <1>3
<1>5. GoesOn(r) \in Local(LearnerPcs) /\ Bound(GoesOn(r), Len(attempts'))
  BY GoesOnTyped
<1>6. QED
  BY <1>1, <1>2, <1>4, <1>5, LearnerTyped

LEMMA TypesReadHeld ==
  ASSUME AttemptsTyped, NEW g \in Graders, NEW i \in Ids, ReadHeld(g, i)
  PROVE  AttemptsTyped'
<1> DEFINE y == [Idle EXCEPT !.pc = "write", !.id = i]
<1>1. /\ i \in 0..MaxAttempts /\ i \in 1..Len(attempts) /\ "write" \in GraderPcs
      /\ attempts \in Seq(Attempt) /\ Len(attempts) \in Nat
      /\ Len(attempts) <= MaxAttempts
  BY IdOfRow, AttemptsTypesAre DEF GraderPcs, AttemptsTyped
<1>2. y \in Local(GraderPcs) /\ y.pc = "write" /\ y.id = i
  BY <1>1, BegunTyped
<1>3. /\ UNCHANGED <<attempts, request, now, reviews, fails>>
      /\ grader' = [grader EXCEPT ![g] = y]
  BY DEF ReadHeld
<1> HIDE DEF y
<1>4. /\ attempts' \in Seq(Attempt) /\ Bound(y, Len(attempts'))
      /\ Len(attempts) <= Len(attempts') /\ Len(attempts') <= MaxAttempts
  BY <1>1, <1>2, <1>3 DEF Bound
<1>5. QED
  BY <1>2, <1>3, <1>4, GraderTyped

LEMMA TypesWriteGrade ==
  ASSUME AttemptsTyped, NEW g \in Graders, WriteGrade(g)
  PROVE  AttemptsTyped'
<1> DEFINE i == grader[g].id
<1>1. PICK passed \in BOOLEAN :
        /\ attempts' = [attempts EXCEPT ![i].held = FALSE, ![i].passed = passed,
                                        ![i].stale = @ \/ ~attempts[i].held]
        /\ grader' = [grader EXCEPT ![g].pc = "tell", ![g].passed = passed]
  BY DEF WriteGrade
<1>2. /\ i \in Ids /\ grader[g] \in Local(GraderPcs)
      /\ grader \in [Graders -> Local(GraderPcs)] /\ attempts \in Seq(Attempt)
      /\ Len(attempts) \in Nat /\ Len(attempts) <= MaxAttempts
      /\ UNCHANGED <<request, now, reviews, fails>>
  BY AttemptsTypesAre DEF WriteGrade, AttemptsTyped, Bound, Ids
<1>3. /\ i \in 1..Len(attempts) /\ attempts[i] \in Attempt
      /\ attempts \in [1..Len(attempts) -> Attempt]
  BY <1>2, IdOfRow, LenProperties
<1> DEFINE stale == attempts[i].stale \/ ~attempts[i].held
           a == [attempts[i] EXCEPT !.held = FALSE, !.passed = passed,
                                    !.stale = stale]
           y == [grader[g] EXCEPT !.pc = "tell", !.passed = passed]
<1>4. attempts' = [attempts EXCEPT ![i] = a] /\ a \in Attempt
  <2>1. stale \in BOOLEAN
    BY <1>3 DEF Attempt
  <2>2. attempts' = [attempts EXCEPT ![i] = a]
    BY <1>1, <1>3
  <2> HIDE DEF stale
  <2>3. a \in Attempt
    BY <1>3, <2>1 DEF Attempt
  <2>4. QED
    BY <2>2, <2>3
<1>5. /\ grader' = [grader EXCEPT ![g] = y] /\ y \in Local(GraderPcs)
      /\ y.pc = "tell" /\ y.id = i /\ y.passed = passed
  BY <1>1, <1>2 DEF Local
<1> HIDE DEF a, y
<1>6. attempts' \in Seq(Attempt) /\ Len(attempts') = Len(attempts)
  BY <1>2, <1>3, <1>4, RowWritten
<1>7. /\ Bound(y, Len(attempts'))
      /\ Len(attempts) <= Len(attempts') /\ Len(attempts') <= MaxAttempts
  BY <1>2, <1>3, <1>5, <1>6 DEF Bound
<1>8. QED
  BY <1>2, <1>5, <1>6, <1>7, GraderTyped

LEMMA TypesTellGrade ==
  ASSUME AttemptsTyped, NEW g \in Graders, TellGrade(g)
  PROVE  AttemptsTyped'
<1>1. /\ grader[g].id \in Ids /\ grader[g].passed \in BOOLEAN
      /\ Announce(grader[g].id, grader[g].passed)
      /\ grader' = [grader EXCEPT ![g] = Idle]
      /\ UNCHANGED <<request, now, reviews, fails>>
  BY DEF TellGrade, AttemptsTyped, Bound, Ids
<1>2. attempts' \in Seq(Attempt) /\ Len(attempts') = Len(attempts)
  BY <1>1, TypesAnnounce
<1>3. Len(attempts) \in Nat /\ Len(attempts) <= MaxAttempts
  BY AttemptsTypesAre DEF AttemptsTyped
<1>4. Len(attempts) <= Len(attempts') /\ Len(attempts') <= MaxAttempts
  BY <1>2, <1>3
<1>5. Idle \in Local(GraderPcs) /\ Bound(Idle, Len(attempts'))
  BY IdleTyped
<1>6. QED
  BY <1>1, <1>2, <1>4, <1>5, GraderTyped

\* Nothing moves but a row, the clock, or a count.
LEMMA TypesReview ==
  ASSUME AttemptsTyped, NEW i \in Ids, NEW invalid \in BOOLEAN, Review(i, invalid)
  PROVE  AttemptsTyped'
<1> DEFINE a == [attempts[i] EXCEPT !.invalid = invalid, !.tainted = TRUE]
<1>1. /\ i \in 1..Len(attempts) /\ attempts[i] \in Attempt
      /\ attempts \in Seq(Attempt) /\ attempts \in [1..Len(attempts) -> Attempt]
      /\ Len(attempts) \in Nat /\ Len(attempts) <= MaxAttempts
      /\ request \in [Requests -> Local(LearnerPcs)]
      /\ grader \in [Graders -> Local(GraderPcs)]
      /\ now \in 0..MaxTime /\ reviews \in 0..MaxReviews /\ fails \in 0..MaxFails
  BY IdOfRow, LenProperties, AttemptsTypesAre DEF AttemptsTyped
<1>2. a \in Attempt
  BY <1>1 DEF Attempt
<1>3. /\ attempts' = [attempts EXCEPT ![i] = a]
      /\ reviews < MaxReviews /\ reviews' = reviews + 1
      /\ UNCHANGED <<request, grader, now, fails>>
  BY <1>1 DEF Review
<1> HIDE DEF a
<1>4. attempts' \in Seq(Attempt) /\ Len(attempts') = Len(attempts)
  BY <1>1, <1>2, <1>3, RowWritten
<1>5. /\ reviews' \in 0..MaxReviews
      /\ Len(attempts) <= Len(attempts') /\ Len(attempts') <= MaxAttempts
  BY <1>1, <1>3, <1>4, AttemptsConstants
<1>6. QED
  BY <1>1, <1>3, <1>4, <1>5, BothTyped

LEMMA TypesTick == ASSUME AttemptsTyped, Tick PROVE AttemptsTyped'
<1>1. /\ attempts \in Seq(Attempt)
      /\ Len(attempts) \in Nat /\ Len(attempts) <= MaxAttempts
      /\ request \in [Requests -> Local(LearnerPcs)]
      /\ grader \in [Graders -> Local(GraderPcs)]
      /\ now \in 0..MaxTime /\ reviews \in 0..MaxReviews /\ fails \in 0..MaxFails
  BY AttemptsTypesAre DEF AttemptsTyped
<1>2. /\ UNCHANGED <<attempts, request, grader, reviews, fails>>
      /\ now' \in 0..MaxTime
  BY <1>1, AttemptsConstants DEF Tick
<1>3. Len(attempts) <= Len(attempts') /\ Len(attempts') <= MaxAttempts
  BY <1>1, <1>2
<1>4. QED
  BY <1>1, <1>2, <1>3, BothTyped

LEMMA TypesFail == ASSUME AttemptsTyped, Fail PROVE AttemptsTyped'
<1>1. /\ attempts \in Seq(Attempt)
      /\ Len(attempts) \in Nat /\ Len(attempts) <= MaxAttempts
      /\ request \in [Requests -> Local(LearnerPcs)]
      /\ grader \in [Graders -> Local(GraderPcs)]
      /\ now \in 0..MaxTime /\ reviews \in 0..MaxReviews /\ fails \in 0..MaxFails
  BY AttemptsTypesAre DEF AttemptsTyped
<1>2. UNCHANGED <<attempts, now, reviews>> /\ fails' \in 0..MaxFails
  BY <1>1, AttemptsConstants DEF Fail
<1>3. /\ Idle \in Local(LearnerPcs) /\ Idle \in Local(GraderPcs)
      /\ Bound(Idle, Len(attempts'))
  BY IdleTyped
<1>4. Len(attempts) <= Len(attempts') /\ Len(attempts') <= MaxAttempts
  BY <1>1, <1>2
<1>5. CASE \E r \in Requests : request[r] # Idle /\ Done(r) /\ UNCHANGED grader
  <2>1. PICK r \in Requests : request' = [request EXCEPT ![r] = Idle]
    BY <1>5 DEF Done
  <2>2. /\ request' \in [Requests -> Local(LearnerPcs)] /\ request'[r] = Idle
        /\ \A s \in Requests : s # r => request'[s] = request[s]
        /\ grader' = grader
    BY <1>1, <1>3, <1>5, <2>1
  <2>3. QED
    BY <1>1, <1>2, <1>3, <1>4, <2>2, BothTyped
<1>6. CASE \E g \in Graders : /\ grader[g] # Idle
                              /\ grader' = [grader EXCEPT ![g] = Idle]
                              /\ UNCHANGED request
  <2>1. PICK g \in Graders : grader' = [grader EXCEPT ![g] = Idle]
    BY <1>6
  <2>2. /\ grader' \in [Graders -> Local(GraderPcs)] /\ grader'[g] = Idle
        /\ \A h \in Graders : h # g => grader'[h] = grader[h]
        /\ request' = request
    BY <1>1, <1>3, <1>6, <2>1
  <2>3. QED
    BY <1>1, <1>2, <1>3, <1>4, <2>2, BothTyped
<1>7. QED
  BY <1>5, <1>6 DEF Fail

LEMMA AttemptsTypesKept == AttemptsTyped /\ Next => AttemptsTyped'
<1> SUFFICES ASSUME AttemptsTyped, Next PROVE AttemptsTyped'
  OBVIOUS
<1>1. ASSUME NEW r \in Requests,
             \/ Start(r) \/ CheckEligible(r) \/ Create(r)
             \/ Load(r) \/ Save(r) \/ Finalize(r) \/ Tell(r)
      PROVE  AttemptsTyped'
  BY <1>1, TypesStart, TypesCheckEligible, TypesCreate, TypesLoad, TypesSave,
     TypesFinalize, TypesTell
<1>2. ASSUME NEW g \in Graders,
             (\E i \in Ids : ReadHeld(g, i)) \/ WriteGrade(g) \/ TellGrade(g)
      PROVE  AttemptsTyped'
  BY <1>2, TypesReadHeld, TypesWriteGrade, TypesTellGrade
<1>3. ASSUME NEW i \in Ids, Invalidate(i) \/ Accept(i) PROVE AttemptsTyped'
  BY <1>3, TypesReview DEF Invalidate, Accept
<1>4. QED
  BY <1>1, <1>2, <1>3, TypesTick, TypesFail DEF Next

LEMMA AttemptsTypesInit == Init => AttemptsTyped
<1> SUFFICES ASSUME Init PROVE AttemptsTyped
  OBVIOUS
<1>1. TypeOK
  BY AttemptsConstants DEF Init, TypeOK, Idle, Local
<1>2. \A n : Bound(Idle, n)
  BY IdleTyped
<1>3. QED
  BY <1>1, <1>2 DEF Init, AttemptsTyped

----------------------------------------------------------------------------
(* Attempts: what an action writes.                                        *)

Rewritten(i, a) ==
  /\ Len(attempts') = Len(attempts) /\ attempts'[i] = a
  /\ \A j \in Ids : j # i => attempts'[j] = attempts[j]
Moved(r, x) == \A s \in Requests : request'[s] = IF s = r THEN x ELSE request[s]
GraderMoved(g, y) == \A h \in Graders : grader'[h] = IF h = g THEN y ELSE grader[h]

\* One row of the attempts is written.
LEMMA OneRow ==
  ASSUME AttemptsTyped, NEW i \in Ids, NEW a \in Attempt,
         attempts' = [attempts EXCEPT ![i] = a]
  PROVE  Rewritten(i, a)
<1>1. attempts \in Seq(Attempt) /\ i \in 1..Len(attempts)
  BY AttemptsTypesAre DEF AttemptsTyped, Ids
<1>2. QED
  BY <1>1, RowWritten DEF Rewritten, Ids

LEMMA SaveWrites ==
  ASSUME AttemptsTyped, NEW r \in Requests, Save(r)
  PROVE  /\ request[r].id \in Ids
         /\ Rewritten(request[r].id, [attempts[request[r].id] EXCEPT !.held = FALSE])
         /\ Moved(r, Idle) /\ UNCHANGED <<grader, now>>
<1> DEFINE i == request[r].id
           a == [attempts[i] EXCEPT !.held = FALSE]
<1>1. i \in Ids
  BY DEF Save, AttemptsTyped, Bound, Ids
<1>2. attempts[i] \in Attempt /\ i \in 1..Len(attempts)
  BY <1>1, IdOfRow
<1>3. /\ attempts \in [1..Len(attempts) -> Attempt]
      /\ request \in [Requests -> Local(LearnerPcs)]
  BY AttemptsTypesAre, LenProperties DEF AttemptsTyped
<1>4. attempts' = [attempts EXCEPT ![i] = a] /\ a \in Attempt
  BY <1>2, <1>3 DEF Save, Attempt
<1>5. Moved(r, Idle) /\ UNCHANGED <<grader, now>>
  BY <1>3 DEF Save, Done, Moved
<1>6. QED
  BY <1>1, <1>4, <1>5, OneRow

LEMMA FinalizeWrites ==
  ASSUME AttemptsTyped, NEW r \in Requests, Finalize(r)
  PROVE  \E held \in BOOLEAN, passed \in BOOLEAN, a \in Attempt,
            x \in Local(LearnerPcs) :
           /\ request[r].id \in Ids /\ Rewritten(request[r].id, a) /\ Moved(r, x)
           /\ UNCHANGED <<grader, now>> /\ now \in 0..MaxTime
           /\ a = [attempts[request[r].id] EXCEPT
                     !.submitted = now, !.held = held,
                     !.passed = IF held THEN None ELSE passed,
                     !.stale = @ \/ ~Open(request[r].id)]
           /\ \/ held /\ x = GoesOn(r)
              \/ /\ ~held /\ x.pc = "tell" /\ x.id = request[r].id
                 /\ x.passed = passed
<1> DEFINE i == request[r].id
<1>1. PICK held \in (IF Manual THEN BOOLEAN ELSE {FALSE}), passed \in BOOLEAN :
        /\ attempts' = [attempts EXCEPT
             ![i].submitted = now, ![i].held = held,
             ![i].passed = IF held THEN None ELSE passed,
             ![i].stale = @ \/ ~Open(i)]
        /\ request' = [request EXCEPT
             ![r] = IF Announced(held)
                    THEN [@ EXCEPT !.pc = "tell", !.passed = ~held /\ passed]
                    ELSE GoesOn(r)]
  BY DEF Finalize
<1>2. /\ held \in BOOLEAN /\ now \in 0..MaxTime /\ request[r] \in Local(LearnerPcs)
      /\ request \in [Requests -> Local(LearnerPcs)]
      /\ attempts \in [1..Len(attempts) -> Attempt]
  BY AttemptsTypesAre, LenProperties DEF AttemptsTyped
<1>3. i \in Ids /\ UNCHANGED <<grader, now>>
  BY DEF Finalize, AttemptsTyped, Bound, Ids
<1>4. attempts[i] \in Attempt /\ i \in 1..Len(attempts)
  BY <1>3, IdOfRow
<1> DEFINE stale == attempts[i].stale \/ ~Open(i)
           a == [attempts[i] EXCEPT !.submitted = now, !.held = held,
                                    !.passed = IF held THEN None ELSE passed,
                                    !.stale = stale]
<1>5. attempts' = [attempts EXCEPT ![i] = a]
  BY <1>1, <1>4, <1>2
<1>6. a \in Attempt
  <2>1. stale \in BOOLEAN
    BY <1>4 DEF Attempt, Open
  <2> HIDE DEF stale
  <2>2. QED
    BY <1>2, <1>4, <2>1 DEF Attempt
<1> DEFINE p == ~held /\ passed
           t == [request[r] EXCEPT !.pc = "tell", !.passed = p]
           x == IF held THEN GoesOn(r) ELSE t
<1>7. p \in BOOLEAN /\ (~held => p = passed)
  BY <1>2
<1>8. request' = [request EXCEPT ![r] = x]
  <2>1. request' = [request EXCEPT ![r] = IF Announced(held) THEN t ELSE GoesOn(r)]
    BY <1>1, <1>2
  <2>2. Announced(held) = ~held
    BY DEF Announced
  <2>3. QED
    BY <1>2, <2>1, <2>2
<1> HIDE DEF p
<1>9. t \in Local(LearnerPcs) /\ t.pc = "tell" /\ t.passed = p /\ t.id = i
  BY <1>2, <1>7 DEF Local
<1> HIDE DEF t
<1>10. x \in Local(LearnerPcs)
  BY <1>9, GoesOnTyped
<1>11. Rewritten(i, a) /\ Moved(r, x)
  <2>1. Rewritten(i, a)
    BY <1>3, <1>5, <1>6, OneRow
  <2> HIDE DEF x
  <2>2. QED
    BY <1>2, <1>8, <2>1 DEF Moved
<1>12. \/ held /\ x = GoesOn(r)
       \/ ~held /\ x.pc = "tell" /\ x.id = i /\ x.passed = passed
  BY <1>2, <1>7, <1>9
<1>13. a = [attempts[i] EXCEPT !.submitted = now, !.held = held,
                               !.passed = IF held THEN None ELSE passed,
                               !.stale = @ \/ ~Open(i)]
  OBVIOUS
<1> HIDE DEF a, x, i
<1>14. QED
  BY <1>2, <1>3, <1>6, <1>10, <1>11, <1>12, <1>13 DEF i

\* The event tells of a row that is there, and leaves the rest of it alone.
LEMMA AnnounceWrites ==
  ASSUME AttemptsTyped, NEW i \in Ids, NEW passed \in BOOLEAN, Announce(i, passed)
  PROVE  Rewritten(i, [attempts[i] EXCEPT !.told = Append(attempts[i].told, passed)])
<1> DEFINE told == Append(attempts[i].told, passed)
           a == [attempts[i] EXCEPT !.told = told]
<1>1. /\ i \in 1..Len(attempts) /\ attempts[i] \in Attempt
      /\ attempts \in [1..Len(attempts) -> Attempt]
  BY IdOfRow, LenProperties, AttemptsTypesAre DEF AttemptsTyped
<1>2. told \in Seq(BOOLEAN)
  <2>1. attempts[i].told \in Seq(BOOLEAN)
    BY <1>1 DEF Attempt
  <2>2. QED
    BY <2>1, AppendProperties, Zenon
<1>3. attempts' = [attempts EXCEPT ![i] = a]
  BY <1>1 DEF Announce
<1> HIDE DEF told
<1>4. a \in Attempt
  BY <1>1, <1>2 DEF Attempt
<1>5. Rewritten(i, a)
  BY <1>3, <1>4, OneRow
<1>6. QED
  BY <1>5 DEF told

LEMMA TellWrites ==
  ASSUME AttemptsTyped, NEW r \in Requests, Tell(r)
  PROVE  /\ request[r].id \in Ids /\ request[r].passed \in BOOLEAN
         /\ Rewritten(request[r].id,
              [attempts[request[r].id] EXCEPT
                 !.told = Append(attempts[request[r].id].told, request[r].passed)])
         /\ Moved(r, GoesOn(r)) /\ UNCHANGED <<grader, now>>
<1>1. /\ request[r].id \in Ids /\ request[r].passed \in BOOLEAN
      /\ request \in [Requests -> Local(LearnerPcs)]
  BY AttemptsTypesAre DEF Tell, AttemptsTyped, Bound, Ids
<1>2. Moved(r, GoesOn(r)) /\ UNCHANGED <<grader, now>>
  BY <1>1 DEF Tell, Moved
<1>3. QED
  BY <1>1, <1>2, AnnounceWrites DEF Tell

LEMMA WriteGradeWrites ==
  ASSUME AttemptsTyped, NEW g \in Graders, WriteGrade(g)
  PROVE  \E passed \in BOOLEAN, a \in Attempt, y \in Local(GraderPcs) :
           /\ grader[g].id \in Ids /\ Rewritten(grader[g].id, a) /\ GraderMoved(g, y)
           /\ UNCHANGED <<request, now>>
           /\ a = [attempts[grader[g].id] EXCEPT
                     !.held = FALSE, !.passed = passed,
                     !.stale = @ \/ ~attempts[grader[g].id].held]
           /\ y.pc = "tell" /\ y.id = grader[g].id /\ y.passed = passed
<1> DEFINE i == grader[g].id
<1>1. PICK passed \in BOOLEAN :
        /\ attempts' = [attempts EXCEPT ![i].held = FALSE, ![i].passed = passed,
                                        ![i].stale = @ \/ ~attempts[i].held]
        /\ grader' = [grader EXCEPT ![g].pc = "tell", ![g].passed = passed]
  BY DEF WriteGrade
<1>2. /\ i \in Ids /\ grader[g] \in Local(GraderPcs)
      /\ grader \in [Graders -> Local(GraderPcs)]
      /\ attempts \in [1..Len(attempts) -> Attempt]
      /\ UNCHANGED <<request, now>>
  BY AttemptsTypesAre, LenProperties DEF WriteGrade, AttemptsTyped, Bound, Ids
<1>3. attempts[i] \in Attempt /\ i \in 1..Len(attempts)
  BY <1>2, IdOfRow
<1> DEFINE stale == attempts[i].stale \/ ~attempts[i].held
           a == [attempts[i] EXCEPT !.held = FALSE, !.passed = passed,
                                    !.stale = stale]
           y == [grader[g] EXCEPT !.pc = "tell", !.passed = passed]
<1>4. attempts' = [attempts EXCEPT ![i] = a]
  BY <1>1, <1>2, <1>3
<1>5. a \in Attempt
  <2>1. stale \in BOOLEAN
    BY <1>3 DEF Attempt
  <2> HIDE DEF stale
  <2>2. QED
    BY <1>3, <2>1 DEF Attempt
<1>6. /\ grader' = [grader EXCEPT ![g] = y] /\ y \in Local(GraderPcs)
      /\ y.pc = "tell" /\ y.id = i /\ y.passed = passed
  BY <1>1, <1>2 DEF Local
<1>7. a = [attempts[i] EXCEPT !.held = FALSE, !.passed = passed,
                              !.stale = @ \/ ~attempts[i].held]
  OBVIOUS
<1> HIDE DEF a, y
<1>8. GraderMoved(g, y)
  BY <1>2, <1>6 DEF GraderMoved
<1>9. Rewritten(i, a)
  BY <1>2, <1>4, <1>5, OneRow
<1> HIDE DEF i
<1>10. QED
  BY <1>2, <1>5, <1>6, <1>7, <1>8, <1>9 DEF i

LEMMA TellGradeWrites ==
  ASSUME AttemptsTyped, NEW g \in Graders, TellGrade(g)
  PROVE  /\ grader[g].id \in Ids /\ grader[g].passed \in BOOLEAN
         /\ Rewritten(grader[g].id,
              [attempts[grader[g].id] EXCEPT
                 !.told = Append(attempts[grader[g].id].told, grader[g].passed)])
         /\ GraderMoved(g, Idle) /\ UNCHANGED <<request, now>>
<1>1. /\ grader[g].id \in Ids /\ grader[g].passed \in BOOLEAN
      /\ grader \in [Graders -> Local(GraderPcs)]
  BY AttemptsTypesAre DEF TellGrade, AttemptsTyped, Bound, Ids
<1>2. GraderMoved(g, Idle) /\ UNCHANGED <<request, now>>
  BY <1>1 DEF TellGrade, GraderMoved
<1>3. QED
  BY <1>1, <1>2, AnnounceWrites DEF TellGrade

LEMMA ReviewWrites ==
  ASSUME AttemptsTyped, NEW i \in Ids, NEW invalid \in BOOLEAN, Review(i, invalid)
  PROVE  /\ Rewritten(i, [attempts[i] EXCEPT !.invalid = invalid, !.tainted = TRUE])
         /\ UNCHANGED <<request, grader, now>>
<1> DEFINE a == [attempts[i] EXCEPT !.invalid = invalid, !.tainted = TRUE]
<1>1. /\ attempts[i] \in Attempt /\ i \in 1..Len(attempts)
      /\ attempts \in [1..Len(attempts) -> Attempt]
  BY IdOfRow, LenProperties, AttemptsTypesAre DEF AttemptsTyped
<1>2. attempts' = [attempts EXCEPT ![i] = a] /\ a \in Attempt
  BY <1>1 DEF Review, Attempt
<1>3. UNCHANGED <<request, grader, now>>
  BY DEF Review
<1>4. QED
  BY <1>2, <1>3, OneRow

LEMMA CreateWrites ==
  ASSUME AttemptsTyped, NEW r \in Requests, Create(r)
  PROVE  /\ Len(attempts') = Len(attempts) + 1 /\ Len(attempts) \in Nat
         /\ attempts'[Len(attempts) + 1] =
              [started |-> now, submitted |-> None, held |-> FALSE, passed |-> None,
               invalid |-> FALSE, tainted |-> FALSE, stale |-> Overtaken(r),
               told |-> <<>>]
         /\ \A j \in Ids : attempts'[j] = attempts[j]
         /\ Moved(r, Idle) /\ UNCHANGED <<grader, now>>
<1> DEFINE a == [started |-> now, submitted |-> None, held |-> FALSE, passed |-> None,
                 invalid |-> FALSE, tainted |-> FALSE, stale |-> Overtaken(r),
                 told |-> <<>>]
<1>1. /\ attempts \in Seq(Attempt) /\ now \in 0..MaxTime
      /\ request \in [Requests -> Local(LearnerPcs)]
  BY AttemptsTypesAre DEF AttemptsTyped
<1>2. a \in Attempt
  <2>1. <<>> \in Seq(BOOLEAN)
    OBVIOUS
  <2>2. QED
    BY <1>1, <2>1 DEF Attempt, Overtaken
<1>3. attempts' = Append(attempts, a)
  BY DEF Create
<1>4. Moved(r, Idle) /\ UNCHANGED <<grader, now>>
  BY <1>1 DEF Create, Done, Moved
<1> HIDE DEF a
<1>5. /\ Len(attempts') = Len(attempts) + 1 /\ Len(attempts) \in Nat
      /\ attempts'[Len(attempts) + 1] = a
      /\ \A j \in 1..Len(attempts) : attempts'[j] = attempts[j]
  BY <1>1, <1>2, <1>3, RowAppended
<1>6. QED
  BY <1>4, <1>5 DEF Ids, a

\* A start, a load and a look at what is held change the request alone.
LEMMA StartMoves ==
  ASSUME AttemptsTyped, NEW r \in Requests, Start(r)
  PROVE  \E x : /\ Moved(r, x) /\ x.pc \in {"eligible", "finalize"}
                /\ UNCHANGED <<attempts, grader, now>>
<1> DEFINE x == [Idle EXCEPT !.pc = IF {i \in Ids : Open(i)} = {} THEN "eligible"
                                                                  ELSE "finalize",
                  !.id = IF {i \in Ids : Open(i)} = {} THEN 0
                         ELSE Max({i \in Ids : Open(i)}),
                  !.starts = TRUE]
<1>1. x.pc \in {"eligible", "finalize"}
  BY DEF Idle
<1>2. request' = [request EXCEPT ![r] = x] /\ UNCHANGED <<attempts, grader, now>>
  BY DEF Start
<1>3. request \in [Requests -> Local(LearnerPcs)]
  BY AttemptsTypesAre DEF AttemptsTyped
<1> HIDE DEF x
<1>4. Moved(r, x)
  BY <1>2, <1>3 DEF Moved
<1>5. QED
  BY <1>1, <1>2, <1>4

LEMMA LoadMoves ==
  ASSUME AttemptsTyped, NEW r \in Requests, Load(r)
  PROVE  \E x : /\ Moved(r, x) /\ x.pc \in {"save", "finalize"}
                /\ UNCHANGED <<attempts, grader, now>>
<1>1. PICK i \in Ids, pc \in {"save", "finalize"} :
        request' = [request EXCEPT ![r] = [Idle EXCEPT !.pc = pc, !.id = i]]
  BY DEF Load
<1> DEFINE x == [Idle EXCEPT !.pc = pc, !.id = i]
<1>2. x.pc = pc /\ UNCHANGED <<attempts, grader, now>>
  BY DEF Idle, Load
<1>3. request \in [Requests -> Local(LearnerPcs)]
  BY AttemptsTypesAre DEF AttemptsTyped
<1>4. request' = [request EXCEPT ![r] = x]
  BY <1>1
<1> HIDE DEF x
<1>5. Moved(r, x)
  BY <1>3, <1>4 DEF Moved
<1>6. QED
  BY <1>2, <1>5

LEMMA CheckMoves ==
  ASSUME AttemptsTyped, NEW r \in Requests, CheckEligible(r)
  PROVE  \E x : /\ Moved(r, x) /\ UNCHANGED <<attempts, grader, now>>
                /\ \/ x = Idle
                   \/ x.pc = "create" /\ MayStart /\ x.saw = {i \in Ids : ~Open(i)}
<1> DEFINE closed == {i \in Ids : ~Open(i)}
           c == [request[r] EXCEPT !.pc = "create", !.saw = closed]
<1>1. request \in [Requests -> Local(LearnerPcs)]
  BY AttemptsTypesAre DEF AttemptsTyped
<1>2. /\ UNCHANGED <<attempts, grader, now>>
      /\ \/ request' = [request EXCEPT ![r] = c] /\ MayStart
         \/ request' = [request EXCEPT ![r] = Idle]
  BY <1>1 DEF CheckEligible, Done
<1> HIDE DEF closed
<1>3. c.pc = "create" /\ c.saw = closed
  BY <1>1 DEF Local
<1> HIDE DEF c
<1>4. \/ Moved(r, c) /\ MayStart
      \/ Moved(r, Idle)
  BY <1>1, <1>2 DEF Moved
<1>5. QED
  BY <1>2, <1>3, <1>4 DEF closed

LEMMA ReadHeldMoves ==
  ASSUME AttemptsTyped, NEW g \in Graders, NEW i \in Ids, ReadHeld(g, i)
  PROVE  \E y : /\ GraderMoved(g, y) /\ y.pc = "write" /\ y.id = i
                /\ attempts[i].submitted # None
                /\ UNCHANGED <<attempts, request, now>>
<1> DEFINE y == [Idle EXCEPT !.pc = "write", !.id = i]
<1>1. y.pc = "write" /\ y.id = i
  BY DEF Idle
<1>2. /\ grader' = [grader EXCEPT ![g] = y] /\ attempts[i].submitted # None
      /\ UNCHANGED <<attempts, request, now>>
  BY DEF ReadHeld, Open
<1>3. grader \in [Graders -> Local(GraderPcs)]
  BY AttemptsTypesAre DEF AttemptsTyped
<1> HIDE DEF y
<1>4. GraderMoved(g, y)
  BY <1>2, <1>3 DEF GraderMoved
<1>5. QED
  BY <1>1, <1>2, <1>4

LEMMA FailMoves ==
  ASSUME AttemptsTyped, Fail
  PROVE  /\ UNCHANGED <<attempts, now>>
         /\ \/ \E r \in Requests : Moved(r, Idle) /\ UNCHANGED grader
            \/ \E g \in Graders : GraderMoved(g, Idle) /\ UNCHANGED request
<1>1. /\ request \in [Requests -> Local(LearnerPcs)]
      /\ grader \in [Graders -> Local(GraderPcs)]
  BY AttemptsTypesAre DEF AttemptsTyped
<1>2. UNCHANGED <<attempts, now>>
  BY DEF Fail
<1>3. CASE \E r \in Requests : request[r] # Idle /\ Done(r) /\ UNCHANGED grader
  <2>1. PICK r \in Requests : request' = [request EXCEPT ![r] = Idle]
    BY <1>3 DEF Done
  <2>2. Moved(r, Idle) /\ UNCHANGED grader
    BY <1>1, <1>3, <2>1 DEF Moved
  <2>3. QED
    BY <1>2, <2>2
<1>4. CASE \E g \in Graders : /\ grader[g] # Idle
                              /\ grader' = [grader EXCEPT ![g] = Idle]
                              /\ UNCHANGED request
  <2>1. PICK g \in Graders : grader' = [grader EXCEPT ![g] = Idle]
    BY <1>4
  <2>2. GraderMoved(g, Idle) /\ UNCHANGED request
    BY <1>1, <1>4, <2>1 DEF GraderMoved
  <2>3. QED
    BY <1>2, <2>2
<1>5. QED
  BY <1>3, <1>4 DEF Fail

----------------------------------------------------------------------------
(* Attempts: the outcome that is told is the one that stands.  A row that  *)
(* no request wrote too late has one teller at most, and it knows what the *)
(* row says.                                                               *)

\* An attempt in progress or held for its grade was not told of; what is told
\* of another is its outcome.
Outcome(a) ==
  /\ a.told \in {<<>>, <<a.passed>>}
  /\ a.submitted = None \/ a.held => a.told = <<>>

\* The request x is about to tell the outcome that its attempt's row has.
Landed(x, as) ==
  /\ as[x.id].submitted # None /\ ~as[x.id].held
  /\ as[x.id].told = <<>> /\ as[x.id].passed = x.passed

Telling(x, i) == x.pc = "tell" /\ x.id = i

\* A grade is written on an attempt that was submitted.
Heard(x, as) ==
  /\ x.pc = "write" => as[x.id].submitted # None
  /\ x.pc = "tell" => as[x.id].stale \/ Landed(x, as)

\* Two tell of one attempt only when it was written too late.
Sole(x, y, as) ==
  x.pc = "tell" /\ y.pc = "tell" /\ x.id = y.id => as[x.id].stale

OutcomesInv ==
  /\ \A i \in Ids : attempts[i].stale \/ Outcome(attempts[i])
  /\ \A r \in Requests : Heard(request[r], attempts)
  /\ \A g \in Graders : Heard(grader[g], attempts)
  /\ \A r, s \in Requests : r # s => Sole(request[r], request[s], attempts)
  /\ \A g, h \in Graders : g # h => Sole(grader[g], grader[h], attempts)
  /\ \A r \in Requests, g \in Graders : Sole(request[r], grader[g], attempts)

\* What x knows of its row is still so: the row became stale, or kept the
\* outcome that x tells, or is not one that x tells of.
Undisturbed(x, as, bs) ==
  \A i \in 1..Len(as) :
    /\ as[i].stale => bs[i].stale
    /\ as[i].submitted # None => bs[i].submitted # None
    /\ \/ bs[i].stale
       \/ ~Telling(x, i)
       \/ /\ ~as[i].held => ~bs[i].held
          /\ bs[i].passed = as[i].passed /\ bs[i].told = as[i].told

LEMMA StillHeard ==
  ASSUME NEW x, NEW as, NEW bs, Bound(x, Len(as)), Heard(x, as),
         Undisturbed(x, as, bs)
  PROVE  Heard(x, bs)
<1>1. x.pc \in {"write", "tell"} => x.id \in 1..Len(as)
  BY DEF Bound
<1>2. QED
  BY <1>1 DEF Heard, Landed, Undisturbed, Telling

LEMMA StillSole ==
  ASSUME NEW x, NEW y, NEW as, NEW bs, Bound(x, Len(as)), Sole(x, y, as),
         Undisturbed(x, as, bs)
  PROVE  Sole(x, y, bs)
BY DEF Bound, Sole, Undisturbed

\* What every step keeps of the rows.
RowsKept ==
  /\ \A i \in 1..Len(attempts') : attempts'[i].stale \/ Outcome(attempts'[i])
  /\ \A r \in Requests : Bound(request[r], Len(attempts))
  /\ \A g \in Graders : Bound(grader[g], Len(attempts))

LEMMA LearnerActs ==
  ASSUME OutcomesInv, RowsKept, NEW r \in Requests, NEW x, Moved(r, x),
         UNCHANGED grader, Heard(x, attempts'),
         \A s \in Requests : s # r =>
           /\ Undisturbed(request[s], attempts, attempts')
           /\ Sole(x, request[s], attempts')
         ,
         \A g \in Graders :
           /\ Undisturbed(grader[g], attempts, attempts')
           /\ Sole(x, grader[g], attempts')
  PROVE  OutcomesInv'
<1>1. ASSUME NEW s \in Requests PROVE Heard(request'[s], attempts')
  BY StillHeard DEF OutcomesInv, RowsKept, Moved
<1>2. ASSUME NEW g \in Graders PROVE Heard(grader'[g], attempts')
  BY StillHeard DEF OutcomesInv, RowsKept
<1>3. ASSUME NEW s \in Requests, NEW t \in Requests, s # t
      PROVE  Sole(request'[s], request'[t], attempts')
  <2>1. CASE s = r
    BY <1>3, <2>1 DEF Moved
  <2>2. CASE t = r
    <3>1. Sole(x, request[s], attempts')
      BY <1>3, <2>2
    <3>2. request'[t] = x /\ request'[s] = request[s]
      BY <1>3, <2>2 DEF Moved
    <3>3. QED
      BY <3>1, <3>2 DEF Sole
  <2>3. CASE s # r /\ t # r
    <3>1. Sole(request[s], request[t], attempts')
      BY <1>3, <2>3, StillSole DEF OutcomesInv, RowsKept
    <3>2. QED
      BY <2>3, <3>1 DEF Moved
  <2>4. QED
    BY <2>1, <2>2, <2>3
<1>4. ASSUME NEW g \in Graders, NEW h \in Graders, g # h
      PROVE  Sole(grader'[g], grader'[h], attempts')
  BY <1>4, StillSole DEF OutcomesInv, RowsKept
<1>5. ASSUME NEW s \in Requests, NEW g \in Graders
      PROVE  Sole(request'[s], grader'[g], attempts')
  <2>1. CASE s = r
    BY <2>1 DEF Moved
  <2>2. CASE s # r
    <3>1. Sole(request[s], grader[g], attempts')
      BY <2>2, StillSole DEF OutcomesInv, RowsKept
    <3>2. QED
      BY <2>2, <3>1 DEF Moved
  <2>3. QED
    BY <2>1, <2>2
<1>6. QED
  BY <1>1, <1>2, <1>3, <1>4, <1>5 DEF OutcomesInv, RowsKept, Ids

LEMMA GraderActs ==
  ASSUME OutcomesInv, RowsKept, NEW g \in Graders, NEW y, GraderMoved(g, y),
         UNCHANGED request, Heard(y, attempts'),
         \A h \in Graders : h # g =>
           /\ Undisturbed(grader[h], attempts, attempts')
           /\ Sole(y, grader[h], attempts')
         ,
         \A r \in Requests :
           /\ Undisturbed(request[r], attempts, attempts')
           /\ Sole(y, request[r], attempts')
  PROVE  OutcomesInv'
<1>1. ASSUME NEW h \in Graders PROVE Heard(grader'[h], attempts')
  BY StillHeard DEF OutcomesInv, RowsKept, GraderMoved
<1>2. ASSUME NEW r \in Requests PROVE Heard(request'[r], attempts')
  BY StillHeard DEF OutcomesInv, RowsKept
<1>3. ASSUME NEW h \in Graders, NEW k \in Graders, h # k
      PROVE  Sole(grader'[h], grader'[k], attempts')
  <2>1. CASE h = g
    BY <1>3, <2>1 DEF GraderMoved
  <2>2. CASE k = g
    <3>1. Sole(y, grader[h], attempts')
      BY <1>3, <2>2
    <3>2. grader'[k] = y /\ grader'[h] = grader[h]
      BY <1>3, <2>2 DEF GraderMoved
    <3>3. QED
      BY <3>1, <3>2 DEF Sole
  <2>3. CASE h # g /\ k # g
    <3>1. Sole(grader[h], grader[k], attempts')
      BY <1>3, <2>3, StillSole DEF OutcomesInv, RowsKept
    <3>2. QED
      BY <2>3, <3>1 DEF GraderMoved
  <2>4. QED
    BY <2>1, <2>2, <2>3
<1>4. ASSUME NEW r \in Requests, NEW s \in Requests, r # s
      PROVE  Sole(request'[r], request'[s], attempts')
  BY <1>4, StillSole DEF OutcomesInv, RowsKept
<1>5. ASSUME NEW r \in Requests, NEW h \in Graders
      PROVE  Sole(request'[r], grader'[h], attempts')
  <2>1. CASE h = g
    <3>1. Sole(y, request[r], attempts') /\ grader'[h] = y
      BY <2>1 DEF GraderMoved
    <3>2. QED
      BY <3>1 DEF Sole
  <2>2. CASE h # g
    <3>1. Sole(request[r], grader[h], attempts')
      BY StillSole DEF OutcomesInv, RowsKept
    <3>2. QED
      BY <2>2, <3>1 DEF GraderMoved
  <2>3. QED
    BY <2>1, <2>2
<1>6. QED
  BY <1>1, <1>2, <1>3, <1>4, <1>5 DEF OutcomesInv, RowsKept, Ids

\* Nobody begins to tell, and no outcome changes.
LEMMA NothingIsDisturbed ==
  ASSUME UNCHANGED attempts, NEW x
  PROVE  Undisturbed(x, attempts, attempts')
BY DEF Undisturbed

LEMMA LearnerIsQuiet ==
  ASSUME OutcomesInv, AttemptsTyped, NEW r \in Requests, NEW x, Moved(r, x),
         UNCHANGED <<attempts, grader>>, x.pc \notin {"write", "tell"}
  PROVE  OutcomesInv'
<1>1. RowsKept
  BY DEF OutcomesInv, RowsKept, AttemptsTyped, Ids
<1>2. Heard(x, attempts') /\ \A y : Sole(x, y, attempts')
  BY DEF Heard, Sole
<1>3. QED
  BY <1>1, <1>2, NothingIsDisturbed, LearnerActs

LEMMA GraderIsQuiet ==
  ASSUME OutcomesInv, AttemptsTyped, NEW g \in Graders, NEW y, GraderMoved(g, y),
         UNCHANGED <<attempts, request>>, y.pc # "tell",
         y.pc = "write" => attempts[y.id].submitted # None
  PROVE  OutcomesInv'
<1>1. RowsKept
  BY DEF OutcomesInv, RowsKept, AttemptsTyped, Ids
<1>2. Heard(y, attempts') /\ \A z : Sole(y, z, attempts')
  BY DEF Heard, Sole
<1>3. QED
  BY <1>1, <1>2, NothingIsDisturbed, GraderActs

\* One row is written, with an outcome or too late; those who tell of it are
\* disturbed only by the latter.
LEMMA RowsKeptBy ==
  ASSUME OutcomesInv, AttemptsTyped, NEW i \in Ids, NEW a, Rewritten(i, a),
         a.stale \/ Outcome(a),
         attempts[i].stale => a.stale,
         attempts[i].submitted # None => a.submitted # None
  PROVE  /\ RowsKept
         /\ \A x : \/ a.stale
                   \/ ~Telling(x, i)
                   \/ /\ ~attempts[i].held => ~a.held
                      /\ a.passed = attempts[i].passed /\ a.told = attempts[i].told
                   => Undisturbed(x, attempts, attempts')
<1>1. RowsKept
  BY DEF OutcomesInv, RowsKept, AttemptsTyped, Ids, Rewritten
<1>2. ASSUME NEW x, \/ a.stale
                    \/ ~Telling(x, i)
                    \/ /\ ~attempts[i].held => ~a.held
                       /\ a.passed = attempts[i].passed /\ a.told = attempts[i].told
      PROVE  Undisturbed(x, attempts, attempts')
  <2> SUFFICES ASSUME NEW j \in Ids
               PROVE  /\ attempts[j].stale => attempts'[j].stale
                      /\ attempts[j].submitted # None => attempts'[j].submitted # None
                      /\ \/ attempts'[j].stale
                         \/ ~Telling(x, j)
                         \/ /\ ~attempts[j].held => ~attempts'[j].held
                            /\ attempts'[j].passed = attempts[j].passed
                            /\ attempts'[j].told = attempts[j].told
    BY DEF Undisturbed, Ids
  <2>1. CASE j = i
    BY <1>2, <2>1 DEF Rewritten
  <2>2. CASE j # i
    BY <2>2 DEF Rewritten
  <2>3. QED
    BY <2>1, <2>2
<1>3. QED
  BY <1>1, <1>2

\* Of an attempt that is told once nobody else tells.
LEMMA NobodyElse ==
  ASSUME OutcomesInv, NEW x, Heard(x, attempts), NEW i \in Ids, ~attempts[i].stale,
         attempts[i].submitted = None \/ attempts[i].held
  PROVE  ~Telling(x, i)
BY DEF Heard, Landed, Telling

LEMMA OutcomesStart ==
  ASSUME OutcomesInv, AttemptsTyped, NEW r \in Requests, Start(r) \/ Load(r)
  PROVE  OutcomesInv'
<1>1. PICK x : /\ Moved(r, x) /\ x.pc \notin {"write", "tell"}
               /\ UNCHANGED <<attempts, grader>>
  BY StartMoves, LoadMoves
<1>2. QED
  BY <1>1, LearnerIsQuiet

LEMMA OutcomesCheckEligible ==
  ASSUME OutcomesInv, AttemptsTyped, NEW r \in Requests, CheckEligible(r)
  PROVE  OutcomesInv'
<1>1. PICK x : /\ Moved(r, x) /\ UNCHANGED <<attempts, grader>>
               /\ x = Idle \/ x.pc = "create"
  BY CheckMoves
<1>2. x.pc \notin {"write", "tell"}
  BY <1>1 DEF Idle
<1>3. QED
  BY <1>1, <1>2, LearnerIsQuiet

LEMMA OutcomesCreate ==
  ASSUME OutcomesInv, AttemptsTyped, NEW r \in Requests, Create(r)
  PROVE  OutcomesInv'
<1> DEFINE n == Len(attempts) + 1
<1>1. /\ Len(attempts') = n /\ Len(attempts) \in Nat
      /\ attempts'[n].told = <<>> /\ \A j \in Ids : attempts'[j] = attempts[j]
      /\ Moved(r, Idle) /\ UNCHANGED grader
  <2>1. attempts'[n] =
          [started |-> now, submitted |-> None, held |-> FALSE, passed |-> None,
           invalid |-> FALSE, tainted |-> FALSE, stale |-> Overtaken(r),
           told |-> <<>>]
    BY CreateWrites
  <2>2. attempts'[n].told = <<>>
    BY <2>1
  <2>3. QED
    BY <2>2, CreateWrites
<1>2. RowsKept
  <2>1. Outcome(attempts'[n])
    BY <1>1 DEF Outcome
  <2>2. \A j \in 1..Len(attempts') : j = n \/ j \in Ids
    BY <1>1 DEF Ids
  <2>3. \A j \in 1..Len(attempts') : attempts'[j].stale \/ Outcome(attempts'[j])
    BY <1>1, <2>1, <2>2 DEF OutcomesInv
  <2>4. QED
    BY <2>3 DEF RowsKept, AttemptsTyped
<1>3. \A x : Undisturbed(x, attempts, attempts')
  BY <1>1 DEF Undisturbed, Ids
<1>4. Heard(Idle, attempts') /\ \A y : Sole(Idle, y, attempts')
  BY DEF Heard, Sole, Idle
<1>5. QED
  BY <1>1, <1>2, <1>3, <1>4, LearnerActs

\* A save that was read before the attempt was finalised only lets go of what is
\* held, of which nothing was told.
LEMMA OutcomesSave ==
  ASSUME OutcomesInv, AttemptsTyped, NEW r \in Requests, Save(r)
  PROVE  OutcomesInv'
<1> DEFINE i == request[r].id
           a == [attempts[i] EXCEPT !.held = FALSE]
<1>1. i \in Ids /\ Rewritten(i, a) /\ Moved(r, Idle) /\ UNCHANGED grader
  BY SaveWrites
<1>2. attempts[i] \in Attempt
  BY <1>1, IdOfRow
<1>3. /\ a.submitted = attempts[i].submitted /\ ~a.held
      /\ a.passed = attempts[i].passed /\ a.told = attempts[i].told
      /\ a.stale = attempts[i].stale
  BY <1>2 DEF Attempt
<1> HIDE DEF a, i
<1>4. a.stale \/ Outcome(a)
  BY <1>1, <1>3 DEF OutcomesInv, Outcome
<1>5. RowsKept /\ \A x : Undisturbed(x, attempts, attempts')
  BY <1>1, <1>3, <1>4, RowsKeptBy
<1>6. Heard(Idle, attempts') /\ \A y : Sole(Idle, y, attempts')
  BY DEF Heard, Sole, Idle
<1>7. QED
  BY <1>1, <1>5, <1>6, LearnerActs

\* A second finalisation makes the attempt stale; a first one finds that nothing
\* was told, and that nobody is about to.
LEMMA OutcomesFinalize ==
  ASSUME OutcomesInv, AttemptsTyped, NEW r \in Requests, Finalize(r)
  PROVE  OutcomesInv'
<1> DEFINE i == request[r].id
<1>1. PICK held \in BOOLEAN, passed \in BOOLEAN, a \in Attempt,
           x \in Local(LearnerPcs) :
        /\ i \in Ids /\ Rewritten(i, a) /\ Moved(r, x)
        /\ UNCHANGED <<grader, now>> /\ now \in 0..MaxTime
        /\ a = [attempts[i] EXCEPT !.submitted = now, !.held = held,
                                   !.passed = IF held THEN None ELSE passed,
                                   !.stale = @ \/ ~Open(i)]
        /\ \/ held /\ x = GoesOn(r)
           \/ ~held /\ x.pc = "tell" /\ x.id = i /\ x.passed = passed
  BY FinalizeWrites
<1>2. attempts[i] \in Attempt
  BY <1>1, IdOfRow
<1>3. /\ a.submitted = now /\ a.held = held
      /\ a.passed = (IF held THEN None ELSE passed)
      /\ a.told = attempts[i].told
      /\ a.stale = (attempts[i].stale \/ attempts[i].submitted # None)
  BY <1>1, <1>2 DEF Attempt, Open
<1>4. a.submitted # None
  BY <1>1, <1>3, AttemptsConstants
<1>5. GoesOn(r).pc \in {"idle", "eligible"}
  BY DEF GoesOn, Idle
<1> HIDE DEF i
<1>6. attempts[i].told = <<>> \/ a.stale
  BY <1>1, <1>3 DEF OutcomesInv, Outcome
<1>7. a.stale \/ Outcome(a)
  BY <1>3, <1>6 DEF Outcome
<1>8. ASSUME NEW y, Heard(y, attempts) PROVE a.stale \/ ~Telling(y, i)
  BY <1>1, <1>3, <1>8, NobodyElse
<1>9. /\ RowsKept
      /\ \A y : a.stale \/ ~Telling(y, i) => Undisturbed(y, attempts, attempts')
  BY <1>1, <1>3, <1>4, <1>7, RowsKeptBy
<1>10. ASSUME NEW y, Heard(y, attempts)
       PROVE  Undisturbed(y, attempts, attempts') /\ Sole(x, y, attempts')
  <2>1. Sole(x, y, attempts')
    <3>1. CASE held
      BY <1>1, <1>5, <3>1 DEF Sole
    <3>2. CASE ~held
      <4>1. x.id = i /\ attempts'[i] = a
        BY <1>1, <3>2 DEF Rewritten
      <4>2. QED
        BY <1>8, <1>10, <4>1 DEF Sole, Telling
    <3>3. QED
      BY <3>1, <3>2
  <2>2. QED
    BY <1>8, <1>9, <1>10, <2>1
<1>11. Heard(x, attempts')
  <2>1. CASE held
    BY <1>1, <1>5, <2>1 DEF Heard
  <2>2. CASE ~held
    <3>1. x.pc = "tell" /\ x.id = i /\ x.passed = passed /\ attempts'[i] = a
      BY <1>1, <2>2 DEF Rewritten
    <3>2. a.stale \/ Landed(x, attempts')
      BY <1>3, <1>4, <1>6, <2>2, <3>1 DEF Landed
    <3>3. QED
      BY <3>1, <3>2 DEF Heard
  <2>3. QED
    BY <2>1, <2>2
<1>12. /\ \A s \in Requests : Heard(request[s], attempts)
       /\ \A g \in Graders : Heard(grader[g], attempts)
  BY DEF OutcomesInv
<1>13. QED
  BY <1>1, <1>9, <1>10, <1>11, <1>12, LearnerActs

\* The event appends the outcome to an attempt that was not told of.
LEMMA TellsOutcome ==
  ASSUME OutcomesInv, AttemptsTyped, NEW i \in Ids, NEW x, x.pc = "tell", x.id = i,
         Heard(x, attempts), NEW a, Rewritten(i, a),
         a = [attempts[i] EXCEPT !.told = Append(attempts[i].told, x.passed)]
  PROVE  /\ RowsKept
         /\ \A y : Sole(x, y, attempts) => Undisturbed(y, attempts, attempts')
<1>1. attempts[i] \in Attempt
  BY IdOfRow
<1>2. /\ a.submitted = attempts[i].submitted /\ a.held = attempts[i].held
      /\ a.passed = attempts[i].passed /\ a.stale = attempts[i].stale
      /\ a.told = Append(attempts[i].told, x.passed)
  BY <1>1 DEF Attempt
<1>3. a.stale \/ Outcome(a)
  <2>1. SUFFICES ASSUME ~attempts[i].stale PROVE Outcome(a)
    BY <1>2
  <2>2. /\ attempts[i].submitted # None /\ ~attempts[i].held
        /\ attempts[i].told = <<>> /\ attempts[i].passed = x.passed
    BY <2>1 DEF Heard, Landed
  <2>3. Append(<<>>, x.passed) = <<x.passed>>
    OBVIOUS
  <2>4. a.told = <<a.passed>>
    BY <1>2, <2>2, <2>3
  <2>5. QED
    BY <1>2, <2>2, <2>4 DEF Outcome
<1>4. /\ RowsKept
      /\ \A y : a.stale \/ ~Telling(y, i) => Undisturbed(y, attempts, attempts')
  BY <1>2, <1>3, RowsKeptBy
<1>5. ASSUME NEW y, Sole(x, y, attempts) PROVE a.stale \/ ~Telling(y, i)
  BY <1>2, <1>5 DEF Sole, Telling
<1>6. QED
  BY <1>4, <1>5

LEMMA OutcomesTell ==
  ASSUME OutcomesInv, AttemptsTyped, NEW r \in Requests, Tell(r)
  PROVE  OutcomesInv'
<1> DEFINE i == request[r].id
           a == [attempts[i] EXCEPT
                   !.told = Append(attempts[i].told, request[r].passed)]
<1>1. /\ i \in Ids /\ Rewritten(i, a) /\ Moved(r, GoesOn(r)) /\ UNCHANGED grader
      /\ request[r].pc = "tell"
  BY TellWrites DEF Tell
<1>2. Heard(request[r], attempts)
  BY DEF OutcomesInv
<1>3. /\ RowsKept
      /\ \A y : Sole(request[r], y, attempts) => Undisturbed(y, attempts, attempts')
  BY <1>1, <1>2, TellsOutcome
<1>4. GoesOn(r).pc \in {"idle", "eligible"}
  BY DEF GoesOn, Idle
<1>5. Heard(GoesOn(r), attempts') /\ \A y : Sole(GoesOn(r), y, attempts')
  BY <1>4 DEF Heard, Sole
<1>6. /\ \A s \in Requests : s # r => Sole(request[r], request[s], attempts)
      /\ \A g \in Graders : Sole(request[r], grader[g], attempts)
  BY DEF OutcomesInv
<1>7. QED
  BY <1>1, <1>3, <1>5, <1>6, LearnerActs

LEMMA OutcomesReadHeld ==
  ASSUME OutcomesInv, AttemptsTyped, NEW g \in Graders, NEW i \in Ids, ReadHeld(g, i)
  PROVE  OutcomesInv'
<1>1. PICK y : /\ GraderMoved(g, y) /\ y.pc = "write" /\ y.id = i
               /\ attempts[i].submitted # None /\ UNCHANGED <<attempts, request>>
  BY ReadHeldMoves
<1>2. QED
  BY <1>1, GraderIsQuiet

\* A grade of what is no longer held makes the attempt stale; one of what is held
\* finds that nothing was told, and that nobody is about to.
LEMMA OutcomesWriteGrade ==
  ASSUME OutcomesInv, AttemptsTyped, NEW g \in Graders, WriteGrade(g)
  PROVE  OutcomesInv'
<1> DEFINE i == grader[g].id
<1>1. PICK passed \in BOOLEAN, a \in Attempt, y \in Local(GraderPcs) :
        /\ i \in Ids /\ Rewritten(i, a) /\ GraderMoved(g, y)
        /\ UNCHANGED <<request, now>>
        /\ a = [attempts[i] EXCEPT !.held = FALSE, !.passed = passed,
                                   !.stale = @ \/ ~attempts[i].held]
        /\ y.pc = "tell" /\ y.id = i /\ y.passed = passed
  BY WriteGradeWrites
<1>2. attempts[i] \in Attempt
  BY <1>1, IdOfRow
<1>3. /\ a.submitted = attempts[i].submitted /\ ~a.held /\ a.passed = passed
      /\ a.told = attempts[i].told
      /\ a.stale = (attempts[i].stale \/ ~attempts[i].held)
  BY <1>1, <1>2 DEF Attempt
<1>4. attempts[i].submitted # None
  BY DEF WriteGrade, OutcomesInv, Heard
<1> HIDE DEF i
<1>5. attempts[i].told = <<>> \/ a.stale
  BY <1>1, <1>3 DEF OutcomesInv, Outcome
<1>6. a.stale \/ Outcome(a)
  BY <1>3, <1>5 DEF Outcome
<1>7. ASSUME NEW x, Heard(x, attempts) PROVE a.stale \/ ~Telling(x, i)
  BY <1>1, <1>3, <1>7, NobodyElse
<1>8. /\ RowsKept
      /\ \A x : a.stale \/ ~Telling(x, i) => Undisturbed(x, attempts, attempts')
  BY <1>1, <1>3, <1>6, RowsKeptBy
<1>9. ASSUME NEW x, Heard(x, attempts)
      PROVE  Undisturbed(x, attempts, attempts') /\ Sole(y, x, attempts')
  <2>1. Sole(y, x, attempts')
    BY <1>1, <1>7, <1>9 DEF Sole, Telling, Rewritten
  <2>2. QED
    BY <1>7, <1>8, <1>9, <2>1
<1>10. Heard(y, attempts')
  <2>1. attempts'[i] = a
    BY <1>1 DEF Rewritten
  <2>2. a.stale \/ Landed(y, attempts')
    BY <1>1, <1>3, <1>4, <1>5, <2>1 DEF Landed
  <2>3. QED
    BY <1>1, <2>1, <2>2 DEF Heard
<1>11. /\ \A r \in Requests : Heard(request[r], attempts)
       /\ \A h \in Graders : Heard(grader[h], attempts)
  BY DEF OutcomesInv
<1>12. QED
  BY <1>1, <1>8, <1>9, <1>10, <1>11, GraderActs

LEMMA OutcomesTellGrade ==
  ASSUME OutcomesInv, AttemptsTyped, NEW g \in Graders, TellGrade(g)
  PROVE  OutcomesInv'
<1> DEFINE i == grader[g].id
           a == [attempts[i] EXCEPT
                   !.told = Append(attempts[i].told, grader[g].passed)]
<1>1. /\ i \in Ids /\ Rewritten(i, a) /\ GraderMoved(g, Idle) /\ UNCHANGED request
      /\ grader[g].pc = "tell"
  BY TellGradeWrites DEF TellGrade
<1>2. Heard(grader[g], attempts)
  BY DEF OutcomesInv
<1>3. /\ RowsKept
      /\ \A y : Sole(grader[g], y, attempts) => Undisturbed(y, attempts, attempts')
  BY <1>1, <1>2, TellsOutcome
<1>4. Heard(Idle, attempts') /\ \A y : Sole(Idle, y, attempts')
  BY DEF Heard, Sole, Idle
<1>5. /\ \A h \in Graders : h # g => Sole(grader[g], grader[h], attempts)
      /\ \A r \in Requests : Sole(grader[g], request[r], attempts)
  BY DEF OutcomesInv, Sole
<1>6. QED
  BY <1>1, <1>3, <1>4, <1>5, GraderActs

\* A reviewer's verdict leaves the outcome and what was told of it alone.
LEMMA OutcomesReview ==
  ASSUME OutcomesInv, AttemptsTyped, NEW i \in Ids, NEW verdict \in BOOLEAN,
         Review(i, verdict)
  PROVE  OutcomesInv'
<1> DEFINE a == [attempts[i] EXCEPT !.invalid = verdict, !.tainted = TRUE]
<1>1. Rewritten(i, a) /\ UNCHANGED <<request, grader>> /\ attempts[i] \in Attempt
  BY ReviewWrites, IdOfRow
<1>2. /\ a.submitted = attempts[i].submitted /\ a.held = attempts[i].held
      /\ a.passed = attempts[i].passed /\ a.told = attempts[i].told
      /\ a.stale = attempts[i].stale
  BY <1>1 DEF Attempt
<1> HIDE DEF a
<1>3. a.stale \/ Outcome(a)
  BY <1>2 DEF OutcomesInv, Outcome
<1>4. RowsKept /\ \A x : Undisturbed(x, attempts, attempts')
  BY <1>1, <1>2, <1>3, RowsKeptBy
<1>5. /\ \A r \in Requests : Heard(request[r], attempts')
      /\ \A g \in Graders : Heard(grader[g], attempts')
  BY <1>4, StillHeard DEF OutcomesInv, RowsKept
<1>6. /\ \A r, s \in Requests : r # s => Sole(request[r], request[s], attempts')
      /\ \A g, h \in Graders : g # h => Sole(grader[g], grader[h], attempts')
      /\ \A r \in Requests, g \in Graders : Sole(request[r], grader[g], attempts')
  BY <1>4, StillSole DEF OutcomesInv, RowsKept
<1>7. QED
  BY <1>1, <1>4, <1>5, <1>6 DEF OutcomesInv, RowsKept, Ids

LEMMA OutcomesFail ==
  ASSUME OutcomesInv, AttemptsTyped, Fail
  PROVE  OutcomesInv'
<1>1. Idle.pc = "idle"
  BY DEF Idle
<1>2. CASE \E r \in Requests : Moved(r, Idle) /\ UNCHANGED grader
  BY <1>1, <1>2, FailMoves, LearnerIsQuiet
<1>3. CASE \E g \in Graders : GraderMoved(g, Idle) /\ UNCHANGED request
  BY <1>1, <1>3, FailMoves, GraderIsQuiet
<1>4. QED
  BY <1>2, <1>3, FailMoves

LEMMA OutcomesKept == OutcomesInv /\ AttemptsTyped /\ Next => OutcomesInv'
<1> SUFFICES ASSUME OutcomesInv, AttemptsTyped, Next PROVE OutcomesInv'
  OBVIOUS
<1>1. ASSUME NEW r \in Requests,
             \/ Start(r) \/ CheckEligible(r) \/ Create(r)
             \/ Load(r) \/ Save(r) \/ Finalize(r) \/ Tell(r)
      PROVE  OutcomesInv'
  BY <1>1, OutcomesStart, OutcomesCheckEligible, OutcomesCreate, OutcomesSave,
     OutcomesFinalize, OutcomesTell
<1>2. ASSUME NEW g \in Graders,
             (\E i \in Ids : ReadHeld(g, i)) \/ WriteGrade(g) \/ TellGrade(g)
      PROVE  OutcomesInv'
  BY <1>2, OutcomesReadHeld, OutcomesWriteGrade, OutcomesTellGrade
<1>3. ASSUME NEW i \in Ids, Invalidate(i) \/ Accept(i) PROVE OutcomesInv'
  BY <1>3, OutcomesReview DEF Invalidate, Accept
<1>4. ASSUME Tick PROVE OutcomesInv'
  BY <1>4 DEF Tick, OutcomesInv, Ids
<1>5. QED
  BY <1>1, <1>2, <1>3, <1>4, OutcomesFail DEF Next

LEMMA OutcomesInit == Init => OutcomesInv
<1> SUFFICES ASSUME Init PROVE OutcomesInv
  OBVIOUS
<1>1. Ids = {}
  BY DEF Init, Ids
<1>2. QED
  BY <1>1 DEF Init, OutcomesInv, Idle, Heard, Sole

\* In the other parts' behaviours there are no attempts.
GradesInv ==
  /\ part = "attempts" => AttemptsTyped /\ OutcomesInv
  /\ part # "attempts" => attempts = <<>>

LEMMA GradesAlways == LearningSpec => []GradesInv
<1>1. LearningInit => GradesInv
  BY AttemptsTypesInit, OutcomesInit DEF LearningInit, GradesInv, AttemptsIdle
<1>2. GradesInv /\ [LearningNext]_learningVars => GradesInv'
  <2> SUFFICES ASSUME GradesInv, [LearningNext]_learningVars PROVE GradesInv'
    OBVIOUS
  <2>1. CASE UNCHANGED learningVars
    <3>1. UNCHANGED <<part, attempts, request, grader, now, reviews, fails>>
      BY <2>1 DEF learningVars, AttemptsVars, RequestVars
    <3>2. OutcomesInv => OutcomesInv'
      BY <3>1 DEF OutcomesInv, Ids
    <3>3. AttemptsTyped => AttemptsTyped'
      BY <3>1 DEF AttemptsTyped, TypeOK, Attempt, Local
    <3>4. QED
      BY <3>1, <3>2, <3>3 DEF GradesInv
  <2>2. CASE LearningNext
    BY <2>2, OutcomesKept, AttemptsTypesKept
    DEF LearningNext, AttemptsVars, GradesInv
  <2>3. QED
    BY <2>1, <2>2
<1>3. QED
  BY <1>1, <1>2, PTL DEF LearningSpec

\* Of an attempt that no second finalisation or second grade wrote again, the
\* outcome that the event tells is told once and is the one that stands, however
\* many requests of the learner and of instructors overlap and whatever is saved
\* late, held, invalidated, accepted or fails meanwhile (finalize, saveAnswer and
\* gradeManual in attempts.service.ts).
THEOREM OutcomeStands == LearningSpec => []GradeStands
<1>1. GradesInv => GradeStands
  <2> SUFFICES ASSUME GradesInv PROVE GradeStands
    OBVIOUS
  <2>1. CASE part = "attempts"
    BY <2>1 DEF GradesInv, OutcomesInv, Outcome, GradeStands
  <2>2. CASE part # "attempts"
    BY <2>2 DEF GradesInv, GradeStands, Ids
  <2>3. QED
    BY <2>1, <2>2
<1>2. QED
  BY <1>1, GradesAlways, PTL

----------------------------------------------------------------------------
(* Attempts: retries keep to the policy, whatever the history.             *)

\* Some numbers have a least.
LEMMA SomeLeast ==
  ASSUME NEW T, T \subseteq Nat, T # {}
  PROVE  \E k \in T : \A j \in T : k <= j
<1>1. PICK k \in T : \A j \in T : <<j, k>> \notin OpToRel(<, Nat)
  <2>1. IsWellFoundedOn(OpToRel(<, Nat), Nat)
    BY NatLessThanWellFounded
  <2> HIDE DEF OpToRel
  <2>2. QED
    BY <2>1, WFMin
<1>2. \A j \in T : ~ (j < k)
  BY <1>1 DEF OpToRel
<1>3. \A j \in T : k <= j
  BY <1>2
<1>4. QED
  BY <1>3

\* A window moves on by one try.
NextWindow(w, x) == IF Elapsed(w, x) THEN <<x>> ELSE Append(w, x)

\* f holds the windows after each of the first n tries.
WindowsTo(n, times, f) ==
  f = [m \in 0..n |-> IF m = 0 THEN <<>>
                      ELSE IF Elapsed(f[m - 1], times[m]) THEN <<times[m]>>
                      ELSE Append(f[m - 1], times[m])]

LEMMA WindowsExist ==
  ASSUME NEW times, NEW n \in Nat
  PROVE  \E f : WindowsTo(n, times, f)
<1> DEFINE T == {m \in Nat : ~ \E f : WindowsTo(m, times, f)}
<1> SUFFICES ASSUME T # {} PROVE FALSE
  OBVIOUS
<1>1. PICK k \in T : \A j \in T : k <= j
  <2>1. T \subseteq Nat
    OBVIOUS
  <2> HIDE DEF T
  <2>2. QED
    BY <2>1, SomeLeast
<1>2. k \in Nat /\ ~ \E f : WindowsTo(k, times, f)
  BY <1>1
<1>3. CASE k = 0
  <2> DEFINE f == [m \in 0..0 |-> <<>>]
  <2>1. WindowsTo(0, times, f)
    BY DEF WindowsTo
  <2>2. QED
    BY <1>2, <1>3, <2>1
<1>4. CASE k # 0
  <2>1. k - 1 \in Nat /\ k - 1 \notin T
    BY <1>1, <1>2, <1>4
  <2>2. PICK f : WindowsTo(k - 1, times, f)
    BY <2>1
  <2> DEFINE g == [m \in 0..k |-> IF m = k THEN NextWindow(f[k - 1], times[k]) ELSE f[m]]
             F(h, m) == IF m = 0 THEN <<>>
                        ELSE IF Elapsed(h[m - 1], times[m]) THEN <<times[m]>>
                        ELSE Append(h[m - 1], times[m])
  <2>3. \A m \in 0..k : m < k => m \in 0..(k - 1) /\ g[m] = f[m]
    BY <1>2, <2>1
  <2>4. \A m \in 0..(k - 1) : f[m] = F(f, m)
    BY <2>2 DEF WindowsTo
  <2>5. \A m \in 0..k : m # 0 => m - 1 \in 0..k /\ m - 1 < k
    BY <1>2
  <2>6. g[k] = F(f, k)
    BY <1>2, <1>4 DEF NextWindow
  <2>7. ASSUME NEW m \in 0..k PROVE g[m] = F(g, m)
    <3>1. F(g, m) = F(f, m)
      BY <2>3, <2>5
    <3>2. CASE m = k
      BY <2>6, <3>1, <3>2
    <3>3. CASE m # k
      BY <1>2, <2>3, <2>4, <3>1, <3>3
    <3>4. QED
      BY <3>2, <3>3
  <2>8. g = [m \in 0..k |-> F(g, m)]
    <3>1. g = [m \in 0..k |-> g[m]]
      OBVIOUS
    <3> HIDE DEF g, F
    <3>2. QED
      BY <2>7, <3>1
  <2>9. WindowsTo(k, times, g)
    BY <2>8, Zenon DEF WindowsTo
  <2>10. QED
    BY <1>2, <2>9
<1>5. QED
  BY <1>3, <1>4

\* What the walk over the tries leaves.
LEMMA WindowOf ==
  ASSUME NEW times, Len(times) \in Nat
  PROVE  \E f : WindowsTo(Len(times), times, f) /\ Window(times) = f[Len(times)]
<1> DEFINE after == CHOOSE f : WindowsTo(Len(times), times, f)
<1>1. WindowsTo(Len(times), times, after)
  BY WindowsExist
<1>2. Window(times) = after[Len(times)]
  BY Zenon DEF Window, WindowsTo
<1>3. QED
  BY <1>1, <1>2

\* The window w after the first n tries: the last of them, and a lockout after
\* the try before it, if there is one.
Walked(times, n, w) ==
  /\ w \in Seq(Nat) /\ Len(w) <= n /\ (n > 0 => Len(w) > 0)
  /\ \A k \in 1..Len(w) : w[k] = times[(n - Len(w)) + k]
  /\ Len(w) < n =>
       /\ Lockout # None
       /\ times[(n - Len(w)) + 1] >= times[n - Len(w)] + Lockout

LEMMA WalkGoesOn ==
  ASSUME NEW times \in Seq(Nat), NEW n \in Nat, n + 1 <= Len(times),
         NEW w, Walked(times, n, w)
  PROVE  Walked(times, n + 1, NextWindow(w, times[n + 1]))
<1> DEFINE x == times[n + 1]
<1>1. w \in Seq(Nat) /\ Len(w) \in Nat /\ Len(w) <= n
  BY LenProperties DEF Walked
<1>2. Len(times) \in Nat /\ n + 1 \in 1..Len(times) /\ x \in Nat
  <2>1. Len(times) \in Nat
    BY LenProperties
  <2>2. n + 1 \in 1..Len(times)
    BY <2>1
  <2>3. times \in [1..Len(times) -> Nat]
    BY LenProperties
  <2>4. QED
    BY <2>1, <2>2, <2>3
<1> HIDE DEF x
<1>3. CASE Elapsed(w, x)
  <2> DEFINE v == <<x>>
  <2>1. v \in Seq(Nat) /\ Len(v) = 1 /\ v[1] = x
    BY <1>2
  <2>2. NextWindow(w, x) = v
    BY <1>3 DEF NextWindow
  <2>3. n > 0 => /\ Lockout # None
                 /\ x >= times[n] + Lockout
    <3> SUFFICES ASSUME n > 0 PROVE Lockout # None /\ x >= times[n] + Lockout
      OBVIOUS
    <3>1. Len(w) > 0
      BY DEF Walked
    <3>2. Len(w) \in 1..Len(w)
      BY <1>1, <3>1
    <3>3. w[Len(w)] = times[(n - Len(w)) + Len(w)]
      BY <3>2 DEF Walked
    <3>4. (n - Len(w)) + Len(w) = n
      BY <1>1
    <3>5. QED
      BY <1>3, <3>3, <3>4 DEF Elapsed, LockoutEnd
  <2> HIDE DEF v
  <2>4. \A k \in 1..Len(v) : v[k] = times[((n + 1) - Len(v)) + k]
    <3>1. \A k \in 1..Len(v) : k = 1 /\ ((n + 1) - Len(v)) + k = n + 1
      BY <2>1
    <3>2. QED
      BY <2>1, <3>1 DEF x
  <2>5. Len(v) < n + 1 =>
          /\ Lockout # None
          /\ times[((n + 1) - Len(v)) + 1] >= times[(n + 1) - Len(v)] + Lockout
    <3>1. (n + 1) - Len(v) = n /\ ((n + 1) - Len(v)) + 1 = n + 1
      BY <2>1
    <3>2. QED
      BY <2>1, <2>3, <3>1 DEF x
  <2>6. Walked(times, n + 1, v)
    BY <2>1, <2>4, <2>5 DEF Walked
  <2>7. QED
    BY <2>2, <2>6 DEF x
<1>4. CASE ~Elapsed(w, x)
  <2> DEFINE v == Append(w, x)
  <2>1. /\ v \in Seq(Nat) /\ Len(v) = Len(w) + 1 /\ v[Len(w) + 1] = x
        /\ \A j \in 1..Len(w) : v[j] = w[j]
    BY <1>1, <1>2, RowAppended
  <2>2. NextWindow(w, x) = v
    BY <1>4 DEF NextWindow
  <2> HIDE DEF v
  <2>3. (n + 1) - Len(v) = n - Len(w)
    BY <1>1, <2>1
  <2>4. ASSUME NEW k \in 1..Len(v)
        PROVE  v[k] = times[((n + 1) - Len(v)) + k]
    <3>1. CASE k = Len(w) + 1
      <4>1. (n - Len(w)) + k = n + 1
        BY <1>1, <3>1
      <4>2. QED
        BY <2>1, <2>3, <3>1, <4>1 DEF x
    <3>2. CASE k # Len(w) + 1
      <4>1. k \in 1..Len(w)
        BY <1>1, <2>1, <3>2
      <4>2. QED
        BY <2>1, <2>3, <4>1 DEF Walked
    <3>3. QED
      BY <3>1, <3>2
  <2>5. Len(v) < n + 1 =>
          /\ Lockout # None
          /\ times[((n + 1) - Len(v)) + 1] >= times[(n + 1) - Len(v)] + Lockout
    <3>1. Len(v) < n + 1 => Len(w) < n
      BY <1>1, <2>1
    <3>2. QED
      BY <2>3, <3>1 DEF Walked
  <2>6. Walked(times, n + 1, v)
    BY <1>1, <2>1, <2>4, <2>5 DEF Walked
  <2>7. QED
    BY <2>2, <2>6 DEF x
<1>5. QED
  BY <1>3, <1>4

LEMMA WindowWalked ==
  ASSUME NEW times \in Seq(Nat)
  PROVE  Walked(times, Len(times), Window(times))
<1> DEFINE N == Len(times)
<1>1. N \in Nat
  BY LenProperties
<1>2. PICK f : WindowsTo(N, times, f) /\ Window(times) = f[N]
  BY <1>1, WindowOf
<1> DEFINE T == {n \in 0..N : ~Walked(times, n, f[n])}
<1>3. T = {}
  <2> SUFFICES ASSUME T # {} PROVE FALSE
    OBVIOUS
  <2>1. PICK k \in T : \A j \in T : k <= j
    <3>1. T \subseteq Nat
      BY <1>1
    <3> HIDE DEF T
    <3>2. QED
      BY <3>1, SomeLeast
  <2>2. k \in 0..N /\ ~Walked(times, k, f[k])
    BY <2>1
  <2>3. CASE k = 0
    <3>1. f[0] = <<>>
      BY <1>1, <1>2 DEF WindowsTo
    <3>2. Walked(times, 0, <<>>)
      BY DEF Walked
    <3>3. QED
      BY <2>2, <2>3, <3>1, <3>2
  <2>4. CASE k # 0
    <3>1. k - 1 \in 0..N /\ k - 1 \in Nat /\ (k - 1) + 1 = k /\ k <= N
      BY <1>1, <2>2, <2>4
    <3>2. Walked(times, k - 1, f[k - 1])
      <4>1. k - 1 \notin T
        BY <2>1, <2>2
      <4>2. QED
        BY <3>1, <4>1
    <3>3. f[k] = NextWindow(f[k - 1], times[k])
      BY <1>1, <1>2, <2>2, <2>4 DEF WindowsTo, NextWindow
    <3>4. Walked(times, k, NextWindow(f[k - 1], times[k]))
      BY <3>1, <3>2, WalkGoesOn
    <3>5. QED
      BY <2>2, <3>3, <3>4
  <2>5. QED
    BY <2>3, <2>4
<1>4. N \in 0..N
  BY <1>1
<1>5. QED
  BY <1>2, <1>3, <1>4

\* A retry that the policy allows keeps to it, whatever the tries before: a
\* cooldown or a lockout after the last of them, and, once there are as many as
\* a window holds, a lockout after the one that many tries ago
\* (computeRetryState in retry-policy.calculator.ts).
THEOREM RetryKeepsPolicy ==
  ASSUME NEW times \in Seq(Nat), NEW passed, NEW t \in Nat,
         \A m, n \in 1..Len(times) : m <= n => times[m] <= times[n],
         \A n \in 1..Len(times) : times[n] <= t,
         CanRetry(times, passed, t)
  PROVE  /\ ~passed
         /\ times # <<>> =>
              \/ Spacing = None
              \/ t >= times[Len(times)] + Spacing
              \/ Lockout # None /\ t >= times[Len(times)] + Lockout
         /\ MaxTries # None /\ Len(times) >= MaxTries =>
              /\ Lockout # None
              /\ t >= times[(Len(times) - MaxTries) + 1] + Lockout
<1> DEFINE N == Len(times)
           w == Window(times)
<1>1. N \in Nat /\ Walked(times, N, w) /\ \A n \in 1..N : times[n] \in Nat
  BY LenProperties, WindowWalked
<1>2. /\ ~passed
      /\ \/ Elapsed(w, t)
         \/ /\ ~Full(w)
            /\ \/ Spacing = None \/ w = <<>>
               \/ w[Len(w)] + Spacing <= t
  BY DEF CanRetry
<1> HIDE DEF w
<1>3. w \in Seq(Nat) /\ Len(w) \in Nat /\ Len(w) <= N
  BY <1>1, LenProperties DEF Walked
<1>4. N > 0 => Len(w) > 0 /\ w # <<>> /\ w[Len(w)] = times[N]
  <2> SUFFICES ASSUME N > 0 PROVE Len(w) > 0 /\ w # <<>> /\ w[Len(w)] = times[N]
    OBVIOUS
  <2>1. Len(w) > 0
    BY <1>1 DEF Walked
  <2>2. Len(w) \in 1..Len(w) /\ (N - Len(w)) + Len(w) = N
    BY <1>1, <1>3, <2>1
  <2>3. w # <<>>
    BY <2>1
  <2>4. QED
    BY <1>1, <2>1, <2>2, <2>3 DEF Walked
<1>5. times # <<>> => N > 0
  BY <1>1, EmptySeq
<1>6. Elapsed(w, t) /\ N > 0 => Lockout # None /\ t >= times[N] + Lockout
  BY <1>4 DEF Elapsed, LockoutEnd
<1>7. times # <<>> =>
        \/ Spacing = None
        \/ t >= times[N] + Spacing
        \/ Lockout # None /\ t >= times[N] + Lockout
  <2>1. Spacing # None => Spacing \in Nat
    BY RetryAssumption
  <2>2. N > 0 => times[N] \in Nat
    BY <1>1
  <2>3. QED
    BY <1>2, <1>4, <1>5, <1>6, <2>1, <2>2
<1>8. ASSUME MaxTries # None, N >= MaxTries
      PROVE  Lockout # None /\ t >= times[(N - MaxTries) + 1] + Lockout
  <2> DEFINE p == (N - MaxTries) + 1
  <2> SUFFICES Lockout # None /\ t >= times[p] + Lockout
    OBVIOUS
  <2>1. MaxTries \in Nat \ {0} /\ p \in 1..N /\ N \in 1..N /\ p <= N /\ N > 0
    BY <1>1, <1>8, RetryAssumption
  <2>2. Lockout # None => Lockout \in Nat
    BY RetryAssumption
  <2>3. CASE Elapsed(w, t)
    <3>1. times[p] <= times[N] /\ times[p] \in Nat /\ times[N] \in Nat
      BY <1>1, <2>1
    <3>2. QED
      BY <1>6, <2>1, <2>2, <2>3, <3>1
  <2>4. CASE ~Elapsed(w, t)
    <3> DEFINE q == N - Len(w)
    <3>1. Len(w) < MaxTries
      BY <1>2, <1>3, <1>8, <2>1, <2>4 DEF Full
    <3>2. Len(w) < N /\ q \in 1..N /\ q + 1 \in 1..N /\ p <= q
      BY <1>1, <1>3, <1>4, <2>1, <3>1
    <3>3. Lockout # None /\ times[q + 1] >= times[q] + Lockout
      BY <1>1, <3>2 DEF Walked
    <3> HIDE DEF p, q
    <3>4. Len(w) > 0
      BY <1>4, <2>1
    <3>5. times[p] <= times[q] /\ times[q + 1] <= times[N]
      BY <1>1, <2>1, <3>2
    <3>6. t >= times[N]
      BY <2>1
    <3>7. /\ times[p] \in Nat /\ times[q] \in Nat
          /\ times[q + 1] \in Nat /\ times[N] \in Nat
      BY <1>1, <2>1, <3>2
    <3>8. \A a, b, c, d, l \in Nat :
            a <= b /\ b + l <= c /\ c <= d /\ d <= t => a + l <= t
      OBVIOUS
    <3>9. times[q] + Lockout <= times[q + 1] /\ Lockout \in Nat
      BY <2>2, <3>3, <3>7
    <3>10. QED
      BY <3>3, <3>5, <3>6, <3>7, <3>8, <3>9
  <2>5. QED
    BY <2>3, <2>4
<1>9. QED
  BY <1>2, <1>7, <1>8

\* s holds the rows of the set in the order of their submission.
OrderOf(s, set) ==
  /\ s \in Seq(set) /\ Len(s) = Cardinality(set)
  /\ \A m, n \in 1..Len(s) : m < n => Before(s[m], s[n])
  /\ \A i \in set : \E n \in 1..Len(s) : s[n] = i

LEMMA BeforeOrders ==
  ASSUME NEW i \in Nat, NEW j \in Nat, attempts[i].submitted \in Nat,
         attempts[j].submitted \in Nat
  PROVE  /\ ~Before(i, i)
         /\ i # j => Before(i, j) \/ Before(j, i)
         /\ Before(i, j) => attempts[i].submitted <= attempts[j].submitted
BY DEF Before

LEMMA BeforeTransits ==
  ASSUME NEW i \in Nat, NEW j \in Nat, NEW k \in Nat,
         attempts[i].submitted \in Nat, attempts[j].submitted \in Nat,
         attempts[k].submitted \in Nat, Before(i, j), Before(j, k)
  PROVE  Before(i, k)
BY DEF Before

\* The n-th row of a set is the one with n - 1 rows before it: there is one.
LEMMA Ordered ==
  ASSUME NEW set \in SUBSET Nat, IsFiniteSet(set),
         \A i \in set : attempts[i].submitted \in Nat
  PROVE  OrderOf(InOrder(set), set)
<1> DEFINE N == Cardinality(set)
           below(i) == {j \in set : Before(j, i)}
           rank == [i \in set |-> Cardinality(below(i))]
           s == InOrder(set)
<1>1. N \in Nat
  BY FS_CardinalityType
<1>2. \A i \in set : IsFiniteSet(below(i)) /\ Cardinality(below(i)) \in Nat
  <2> TAKE i \in set
  <2>1. below(i) \in SUBSET set
    OBVIOUS
  <2> HIDE DEF below
  <2>2. QED
    BY <2>1, FS_Subset, FS_CardinalityType
<1>3. ASSUME NEW i \in set, NEW j \in set, Before(i, j)
      PROVE  Cardinality(below(i)) < Cardinality(below(j))
  <2>1. i \in below(j) /\ i \notin below(i)
    BY <1>3, BeforeOrders
  <2>2. below(i) \in SUBSET below(j)
    <3>1. ASSUME NEW k \in set, Before(k, i) PROVE Before(k, j)
      BY <1>3, <3>1, BeforeTransits
    <3>2. QED
      BY <3>1
  <2> HIDE DEF below
  <2>3. /\ Cardinality(below(i)) <= Cardinality(below(j))
        /\ Cardinality(below(i)) # Cardinality(below(j))
    BY <1>2, <2>1, <2>2, FS_Subset
  <2>4. QED
    BY <1>2, <2>3
<1>4. \A i \in set : Cardinality(below(i)) \in 0..(N - 1)
  <2> TAKE i \in set
  <2>1. below(i) \in SUBSET set /\ i \notin below(i)
    BY BeforeOrders
  <2> HIDE DEF below
  <2>2. Cardinality(below(i)) <= N /\ Cardinality(below(i)) # N
    BY <2>1, FS_Subset
  <2>3. QED
    BY <1>1, <1>2, <2>2
<1>5. rank \in Injection(set, 0..(N - 1))
  <2>1. rank \in [set -> 0..(N - 1)]
    BY <1>4
  <2>2. ASSUME NEW i \in set, NEW j \in set, i # j PROVE rank[i] # rank[j]
    <3>1. Before(i, j) \/ Before(j, i)
      BY <2>2, BeforeOrders
    <3>2. rank[i] = Cardinality(below(i)) /\ rank[j] = Cardinality(below(j))
      OBVIOUS
    <3> HIDE DEF rank, below
    <3>3. QED
      BY <1>2, <1>3, <3>1, <3>2
  <2> HIDE DEF rank
  <2>3. QED
    BY <2>1, <2>2 DEF Injection, IsInjective
<1>6. rank \in Surjection(set, 0..(N - 1))
  <2>1. 0 \in Int /\ N - 1 \in Int
    BY <1>1
  <2>2. IsFiniteSet(0..(N - 1)) /\ Cardinality(0..(N - 1)) = N
    <3>1. /\ IsFiniteSet(0..(N - 1))
          /\ Cardinality(0..(N - 1)) = IF 0 > N - 1 THEN 0 ELSE (N - 1) - 0 + 1
      BY <2>1, FS_Interval
    <3> HIDE DEF N
    <3>2. QED
      BY <1>1, <3>1
  <2> HIDE DEF rank
  <2>3. QED
    BY <1>5, <2>2, FS_Injection
<1>7. s = [n \in 1..N |-> CHOOSE i \in set : Cardinality(below(i)) = n - 1]
  BY DEF InOrder
<1> HIDE DEF s
<1>8. ASSUME NEW n \in 1..N
      PROVE  s[n] \in set /\ Cardinality(below(s[n])) = n - 1
  <2>1. n - 1 \in 0..(N - 1)
    BY <1>1
  <2>2. PICK i \in set : rank[i] = n - 1
    <3> HIDE DEF rank
    <3>1. QED
      BY <1>6, <2>1 DEF Surjection
  <2>3. \E k \in set : Cardinality(below(k)) = n - 1
    BY <2>2
  <2> HIDE DEF below, rank
  <2>4. QED
    BY <1>7, <2>3
<1>9. s \in Seq(set) /\ Len(s) = N
  <2>1. s \in [1..N -> set]
    <3> HIDE DEF below
    <3>1. QED
      BY <1>7, <1>8
  <2>2. s \in Seq(set)
    BY <1>1, <2>1, SeqDef
  <2>3. DOMAIN s = 1..N
    BY <2>1
  <2>4. QED
    BY <1>1, <2>2, <2>3, LenProperties
<1>10. ASSUME NEW m \in 1..N, NEW n \in 1..N, m < n PROVE Before(s[m], s[n])
  <2>1. s[m] \in set /\ s[n] \in set /\ s[m] \in Nat /\ s[n] \in Nat
    BY <1>8
  <2>2. Cardinality(below(s[m])) = m - 1 /\ Cardinality(below(s[n])) = n - 1
    BY <1>8
  <2> HIDE DEF below
  <2>3. s[m] # s[n]
    BY <1>1, <1>10, <2>2
  <2>4. ~Before(s[n], s[m])
    <3>1. Before(s[n], s[m]) => n - 1 < m - 1
      BY <1>3, <2>1, <2>2
    <3>2. QED
      BY <1>1, <1>10, <3>1
  <2>5. QED
    BY <2>1, <2>3, <2>4, BeforeOrders
<1>11. ASSUME NEW i \in set PROVE \E n \in 1..N : s[n] = i
  <2> DEFINE n == Cardinality(below(i)) + 1
  <2>1. n \in 1..N /\ n - 1 = Cardinality(below(i))
    <3> HIDE DEF below
    <3>1. QED
      BY <1>1, <1>4
  <2>2. s[n] \in set /\ Cardinality(below(s[n])) = n - 1
    BY <1>8, <2>1
  <2>3. s[n] = i
    <3>1. s[n] # i => Before(s[n], i) \/ Before(i, s[n])
      BY <2>2, BeforeOrders
    <3>2. Before(s[n], i) => Cardinality(below(s[n])) < Cardinality(below(i))
      BY <1>3, <2>2
    <3>3. Before(i, s[n]) => Cardinality(below(i)) < Cardinality(below(s[n]))
      BY <1>3, <2>2
    <3>4. /\ Cardinality(below(s[n])) = Cardinality(below(i))
          /\ Cardinality(below(i)) \in Nat
      BY <1>2, <2>1, <2>2
    <3> HIDE DEF below, n
    <3>5. QED
      BY <3>1, <3>2, <3>3, <3>4
  <2>4. QED
    BY <2>1, <2>3
<1>12. QED
  BY <1>9, <1>10, <1>11 DEF OrderOf, s

\* The attempts in P, which were always counted, let another begin at t: none
\* of them passed or may pass yet, and the policy's distances are kept.
Allows(as, P, t) ==
  /\ \A j \in P :
       /\ as[j].submitted \in Nat /\ ~as[j].held /\ as[j].passed # TRUE
       /\ \/ Spacing = None
          \/ t >= as[j].submitted + Spacing
          \/ Lockout # None /\ t >= as[j].submitted + Lockout
  /\ MaxTries # None /\ Cardinality(P) >= MaxTries =>
       /\ Lockout # None
       /\ Cardinality({j \in P : t < as[j].submitted + Lockout}) < MaxTries

\* Those of some rows that were never invalidated and no request wrote too late.
Unspoilt(as, T) == {j \in T : ~as[j].tainted /\ ~as[j].stale}

RowFits(a, t) ==
  /\ a.started <= t
  /\ a.submitted = None => a.passed = None /\ ~a.held
  /\ a.submitted # None =>
       a.started <= a.submitted /\ a.submitted <= t /\ (a.held => a.passed = None)
  /\ a.invalid => a.tainted

Follows(a, b) ==
  a.submitted # None /\ (a.stale \/ a.submitted <= b.started)

\* Of a start that nothing has overtaken, the policy allows what it saw.
Granted(x) ==
  /\ x.saw \subseteq Ids /\ \A j \in x.saw : attempts[j].submitted # None
  /\ Allows(attempts, Unspoilt(attempts, x.saw), now)

\* Attempts that no request wrote too late are made one after the other, and
\* each was allowed when it began.
PolicyInv ==
  /\ \A i \in Ids : RowFits(attempts[i], now)
  /\ \A i, j \in Ids : i < j /\ ~attempts[j].stale =>
       Follows(attempts[i], attempts[j])
  /\ \A i \in Ids : ~attempts[i].stale =>
       Allows(attempts, Unspoilt(attempts, 1..(i - 1)), attempts[i].started)
  /\ \A r \in Requests : request[r].pc = "create" => Granted(request[r])

LEMMA PolicyConstants ==
  /\ Spacing # None => Spacing \in Nat
  /\ Lockout # None => Lockout \in Nat
  /\ MaxTries # None => MaxTries \in Nat \ {0}
BY RetryAssumption

LEMMA UnspoiltFinite ==
  ASSUME NEW as, NEW T, IsFiniteSet(T)
  PROVE  IsFiniteSet(Unspoilt(as, T)) /\ Unspoilt(as, T) \in SUBSET T
<1>1. Unspoilt(as, T) \in SUBSET T
  BY DEF Unspoilt
<1>2. QED
  BY <1>1, FS_Subset

\* The rows before one of them.
LEMMA RowsBefore ==
  ASSUME NEW i \in Ids, Len(attempts) \in Nat
  PROVE  /\ i \in Nat /\ 1..(i - 1) \subseteq Ids /\ IsFiniteSet(1..(i - 1))
         /\ \A j \in 1..(i - 1) : j < i
<1>1. i \in Nat /\ i - 1 \in Int /\ 1 \in Int /\ i <= Len(attempts)
  BY DEF Ids
<1>2. IsFiniteSet(1..(i - 1))
  BY <1>1, FS_Interval
<1>3. QED
  BY <1>1, <1>2 DEF Ids

LEMMA IdsFinite ==
  ASSUME TypeOK
  PROVE  IsFiniteSet(Ids) /\ Len(attempts) \in Nat
<1>1. Len(attempts) \in Nat /\ 1 \in Int /\ Len(attempts) \in Int
  BY LenProperties DEF TypeOK
<1>2. QED
  BY <1>1, FS_Interval DEF Ids

\* Later, with fewer attempts that count, another may still begin.
LEMMA AllowsStill ==
  ASSUME NEW as, NEW bs, NEW P, IsFiniteSet(P), NEW Q \in SUBSET P,
         NEW t \in Nat, NEW u \in Nat, t <= u, Allows(as, P, t),
         \A j \in Q : /\ bs[j].submitted = as[j].submitted
                      /\ ~bs[j].held /\ bs[j].passed = as[j].passed
  PROVE  Allows(bs, Q, u)
<1>1. ASSUME NEW j \in Q
      PROVE  /\ bs[j].submitted \in Nat /\ ~bs[j].held /\ bs[j].passed # TRUE
             /\ \/ Spacing = None
                \/ u >= bs[j].submitted + Spacing
                \/ Lockout # None /\ u >= bs[j].submitted + Lockout
  <2>1. /\ as[j].submitted \in Nat /\ as[j].passed # TRUE
        /\ \/ Spacing = None
           \/ t >= as[j].submitted + Spacing
           \/ Lockout # None /\ t >= as[j].submitted + Lockout
    BY DEF Allows
  <2>2. /\ bs[j].submitted = as[j].submitted /\ ~bs[j].held
        /\ bs[j].passed = as[j].passed
    OBVIOUS
  <2>3. \A x, y \in Nat : t >= x + y => u >= x + y
    OBVIOUS
  <2>4. QED
    BY <2>1, <2>2, <2>3, PolicyConstants
<1>2. ASSUME MaxTries # None, Cardinality(Q) >= MaxTries
      PROVE  /\ Lockout # None
             /\ Cardinality({j \in Q : u < bs[j].submitted + Lockout}) < MaxTries
  <2> DEFINE late == {j \in P : t < as[j].submitted + Lockout}
             later == {j \in Q : u < bs[j].submitted + Lockout}
  <2>1. /\ Cardinality(P) \in Nat /\ Cardinality(Q) \in Nat
        /\ Cardinality(Q) <= Cardinality(P)
    BY FS_Subset, FS_CardinalityType
  <2>2. Cardinality(P) >= MaxTries
    BY <1>2, <2>1, PolicyConstants
  <2>3. Lockout # None /\ Cardinality(late) < MaxTries
    BY <1>2, <2>2 DEF Allows
  <2>4. later \in SUBSET late
    <3>1. \A j \in Q : as[j].submitted \in Nat
      BY DEF Allows
    <3>2. ASSUME NEW j \in Q, u < bs[j].submitted + Lockout
          PROVE  j \in P /\ t < as[j].submitted + Lockout
      <4>1. bs[j].submitted = as[j].submitted /\ as[j].submitted \in Nat
        BY <3>1
      <4>2. \A x, y \in Nat : u < x + y => t < x + y
        OBVIOUS
      <4>3. QED
        BY <2>3, <3>2, <4>1, <4>2, PolicyConstants
    <3>3. QED
      BY <3>2
  <2>5. IsFiniteSet(late)
    BY FS_Subset
  <2> HIDE DEF late, later
  <2>6. /\ Cardinality(later) <= Cardinality(late)
        /\ Cardinality(late) \in Nat /\ Cardinality(later) \in Nat
    BY <2>4, <2>5, FS_Subset, FS_CardinalityType
  <2>7. Cardinality(later) < MaxTries
    BY <1>2, <2>3, <2>6, PolicyConstants
  <2>8. QED
    BY <2>3, <2>7 DEF later
<1>3. QED
  BY <1>1, <1>2 DEF Allows

\* The policy lets a learner start: whatever was invalidated and accepted, the
\* attempts that always counted allow it.
LEMMA StartAllowed ==
  ASSUME TypeOK, MayStart, \A i \in Ids : RowFits(attempts[i], now)
  PROVE  Allows(attempts, Unspoilt(attempts, {i \in Ids : ~Open(i)}), now)
<1> DEFINE s == CountedInOrder
           times == [n \in DOMAIN s |-> attempts[s[n]].submitted]
           N == Len(s)
           U == Unspoilt(attempts, {i \in Ids : ~Open(i)})
<1>1. Len(attempts) \in Nat /\ now \in Nat
  BY LenProperties, AttemptsConstants DEF TypeOK
<1>2. \A i \in Counted : /\ i \in Ids /\ attempts[i].submitted \in Nat
                         /\ attempts[i].submitted <= now
                         /\ attempts[i].held \in BOOLEAN
                         /\ attempts[i].held => attempts[i].passed = None
  <2>1. attempts \in [1..Len(attempts) -> Attempt]
    BY LenProperties DEF TypeOK
  <2>2. \A i \in Ids : attempts[i] \in Attempt
    BY <2>1 DEF Ids
  <2>3. QED
    BY <2>2, AttemptsConstants DEF Attempt, Counted, Open, RowFits
<1>3. Counted \in SUBSET Ids /\ Counted \in SUBSET Nat /\ IsFiniteSet(Counted)
  <2>1. Counted \in SUBSET (1..Len(attempts))
    BY DEF Counted, Ids
  <2>2. IsFiniteSet(1..Len(attempts))
    <3>1. 1 \in Int /\ Len(attempts) \in Int
      BY <1>1
    <3>2. QED
      BY <3>1, FS_Interval
  <2>3. QED
    <3>1. \A j \in 1..Len(attempts) : j \in Nat
      OBVIOUS
    <3>2. IsFiniteSet(Counted)
      BY <2>1, <2>2, FS_Subset
    <3>3. QED
      BY <2>1, <3>1, <3>2 DEF Ids
<1>4. OrderOf(s, Counted)
  BY <1>2, <1>3, Ordered DEF CountedInOrder
<1> HIDE DEF s
<1>5. /\ s \in [1..N -> Counted] /\ N \in Nat /\ DOMAIN s = 1..N
      /\ N = Cardinality(Counted)
  BY <1>4, LenProperties DEF OrderOf
<1>6. times \in Seq(Nat) /\ Len(times) = N /\ \A n \in 1..N : times[n] = attempts[s[n]].submitted
  <2>1. times \in [1..N -> Nat]
    BY <1>2, <1>3, <1>5
  <2>2. times \in Seq(Nat)
    BY <1>5, <2>1, SeqDef
  <2>3. DOMAIN times = 1..N
    BY <2>1
  <2>4. QED
    BY <1>5, <2>1, <2>2, <2>3, LenProperties
<1>7. \A n \in 1..N : s[n] \in Counted /\ s[n] \in Nat
  BY <1>3, <1>5
<1>8. \A m, n \in 1..N : m <= n => times[m] <= times[n]
  <2>1. ASSUME NEW m \in 1..N, NEW n \in 1..N, m < n PROVE times[m] <= times[n]
    <3>1. Before(s[m], s[n])
      BY <1>4, <2>1 DEF OrderOf
    <3>2. QED
      BY <1>2, <1>6, <1>7, <3>1, BeforeOrders
  <2>2. \A n \in 1..N : times[n] \in Nat
    BY <1>2, <1>6, <1>7
  <2>3. QED
    BY <1>5, <2>1, <2>2
<1>9. \A n \in 1..N : times[n] <= now
  BY <1>2, <1>6, <1>7
<1> DEFINE passed == \E i \in Counted : attempts[i].passed = TRUE
<1>10. CanRetry(times, passed, now)
  BY DEF MayStart, s
<1>11. ~ \E i \in Counted : attempts[i].passed = None /\ attempts[i].held
  BY DEF MayStart
<1> HIDE DEF times, passed
<1>12. /\ ~passed
       /\ times # <<>> =>
            \/ Spacing = None
            \/ now >= times[N] + Spacing
            \/ Lockout # None /\ now >= times[N] + Lockout
       /\ MaxTries # None /\ N >= MaxTries =>
            /\ Lockout # None
            /\ now >= times[(N - MaxTries) + 1] + Lockout
  <2>1. Len(times) = N
    BY <1>6
  <2> HIDE DEF N
  <2>2. QED
    BY <1>1, <1>6, <1>8, <1>9, <1>10, <2>1, RetryKeepsPolicy
<1>13. U \in SUBSET Counted /\ IsFiniteSet(U)
  <2>1. \A i \in U : i \in Ids /\ ~Open(i) /\ ~attempts[i].tainted
    BY DEF Unspoilt
  <2>2. \A i \in U : ~attempts[i].invalid
    BY <2>1 DEF RowFits
  <2>3. U \in SUBSET Counted
    BY <2>1, <2>2 DEF Counted
  <2> HIDE DEF U
  <2>4. QED
    BY <1>3, <2>3, FS_Subset
<1> HIDE DEF U
<1>14. \A j \in U : \E n \in 1..N : s[n] = j /\ times[n] = attempts[j].submitted
  BY <1>4, <1>6, <1>13 DEF OrderOf
<1>15. ASSUME NEW j \in U
       PROVE  /\ attempts[j].submitted \in Nat /\ ~attempts[j].held
              /\ attempts[j].passed # TRUE
              /\ \/ Spacing = None
                 \/ now >= attempts[j].submitted + Spacing
                 \/ Lockout # None /\ now >= attempts[j].submitted + Lockout
  <2>1. j \in Counted /\ j \in Ids /\ attempts[j].submitted \in Nat
    BY <1>2, <1>3, <1>13
  <2>2. ~attempts[j].held /\ attempts[j].passed # TRUE
    <3>1. attempts[j].passed # TRUE
      BY <1>12, <2>1 DEF passed
    <3>2. attempts[j].held => attempts[j].passed = None
      BY <1>2, <2>1
    <3>3. QED
      BY <1>11, <2>1, <3>1, <3>2
  <2>3. PICK n \in 1..N : times[n] = attempts[j].submitted
    BY <1>14
  <2>4. N \in 1..N /\ n <= N /\ times # <<>>
    <3>1. N \in 1..N /\ n <= N
      BY <1>5
    <3>2. times # <<>>
      BY <1>6, <3>1
    <3>3. QED
      BY <3>1, <3>2
  <2>5. attempts[j].submitted <= times[N] /\ times[N] \in Nat
    BY <1>2, <1>6, <1>7, <1>8, <2>3, <2>4
  <2>6. \A x, y, z \in Nat : x <= y /\ now >= y + z => now >= x + z
    BY <1>1
  <2> HIDE DEF N
  <2>7. \/ Spacing = None
        \/ now >= attempts[j].submitted + Spacing
        \/ Lockout # None /\ now >= attempts[j].submitted + Lockout
    BY <1>12, <2>1, <2>4, <2>5, <2>6, PolicyConstants
  <2>8. QED
    BY <2>1, <2>2, <2>7
<1>16. ASSUME MaxTries # None, Cardinality(U) >= MaxTries
       PROVE  /\ Lockout # None
              /\ Cardinality({j \in U : now < attempts[j].submitted + Lockout})
                   < MaxTries
  <2> DEFINE L == {j \in U : now < attempts[j].submitted + Lockout}
             p == (N - MaxTries) + 1
             f == [j \in L |-> CHOOSE n \in 1..N : s[n] = j]
  <2>1. Cardinality(U) \in Nat /\ Cardinality(U) <= N
    BY <1>3, <1>5, <1>13, FS_Subset, FS_CardinalityType
  <2>2. MaxTries \in Nat \ {0} /\ N >= MaxTries
    BY <1>5, <1>16, <2>1, PolicyConstants
  <2>3. Lockout \in Nat /\ Lockout # None /\ now >= times[p] + Lockout
    BY <1>12, <1>16, <2>2, PolicyConstants
  <2>4. p \in 1..N /\ p + 1 \in Int /\ N \in Int
    BY <1>5, <2>2
  <2>5. ASSUME NEW j \in L
        PROVE  f[j] \in (p + 1)..N /\ f[j] \in 1..N /\ s[f[j]] = j
    <3>1. j \in U /\ now < attempts[j].submitted + Lockout
      OBVIOUS
    <3>2. f[j] \in 1..N /\ s[f[j]] = j
      <4>1. f[j] = CHOOSE n \in 1..N : s[n] = j
        OBVIOUS
      <4> HIDE DEF f
      <4>2. QED
        BY <1>14, <3>1, <4>1
    <3>3. times[f[j]] = attempts[j].submitted
      BY <1>6, <3>2
    <3> HIDE DEF f, p
    <3>4. ~ (f[j] <= p)
      <4>1. f[j] <= p => times[f[j]] <= times[p]
        BY <1>8, <2>4, <3>2
      <4>2. times[f[j]] \in Nat /\ times[p] \in Nat
        BY <1>2, <1>6, <1>7, <2>4, <3>2
      <4>3. QED
        BY <1>1, <2>3, <3>1, <3>3, <4>1, <4>2
    <3>5. QED
      BY <1>5, <2>4, <3>2, <3>4
  <2>6. f \in Injection(L, (p + 1)..N)
    <3>1. f \in [L -> (p + 1)..N]
      <4>1. f = [j \in L |-> f[j]]
        OBVIOUS
      <4> HIDE DEF f, L, p
      <4>2. QED
        BY <2>5, <4>1
    <3>2. \A i, j \in L : f[i] = f[j] => i = j
      <4> HIDE DEF f, L
      <4>1. QED
        BY <2>5
    <3> HIDE DEF f, L, p
    <3>3. QED
      BY <3>1, <3>2 DEF Injection, IsInjective
  <2>7. /\ IsFiniteSet((p + 1)..N)
        /\ Cardinality((p + 1)..N) = IF p + 1 > N THEN 0 ELSE N - (p + 1) + 1
    BY <2>4, FS_Interval
  <2>8. Cardinality(L) \in Nat /\ Cardinality(L) <= Cardinality((p + 1)..N)
    <3> HIDE DEF f, L, p
    <3>1. QED
      BY <2>6, <2>7, FS_Injection, FS_CardinalityType
  <2>9. Cardinality((p + 1)..N) < MaxTries
    BY <1>5, <2>2, <2>7
  <2> HIDE DEF L, p
  <2>10. Cardinality((p + 1)..N) \in Nat
    BY <2>7, FS_CardinalityType
  <2>11. Cardinality(L) < MaxTries
    BY <2>2, <2>8, <2>9, <2>10
  <2>12. QED
    BY <2>3, <2>11 DEF L
<1>17. QED
  BY <1>15, <1>16 DEF Allows, U

RowTypes ==
  \A i \in Ids : attempts[i] \in Attempt /\ i \in Nat /\ Len(attempts) \in Nat

LEMMA RowsTyped == ASSUME TypeOK PROVE RowTypes
<1>1. attempts \in [1..Len(attempts) -> Attempt] /\ Len(attempts) \in Nat
  BY LenProperties DEF TypeOK
<1>2. \A i \in 1..Len(attempts) : i \in Nat
  OBVIOUS
<1>3. QED
  BY <1>1, <1>2 DEF Ids, RowTypes

\* The order of submission is that of creation.
LEMMA EarlierIsBefore ==
  ASSUME TypeOK, PolicyInv, NEW i \in Ids, NEW j \in Ids,
         ~Open(i), ~Open(j), ~attempts[i].stale, ~attempts[j].stale, Before(j, i)
  PROVE  j < i
<1>1. /\ i \in Nat /\ j \in Nat
      /\ attempts[i].submitted \in Nat /\ attempts[j].submitted \in Nat
      /\ attempts[i].started \in Nat /\ attempts[j].started \in Nat
  BY RowsTyped, AttemptsConstants DEF RowTypes, Attempt, Open
<1>2. i < j => attempts[i].submitted <= attempts[j].started
  BY DEF PolicyInv, Follows
<1>3. attempts[j].started <= attempts[j].submitted
  BY DEF PolicyInv, RowFits, Open
<1>4. i < j => attempts[i].submitted <= attempts[j].submitted
  BY <1>1, <1>2, <1>3
<1>5. QED
  BY <1>1, <1>4 DEF Before

LEMMA PolicyHolds ==
  ASSUME TypeOK, PolicyInv
  PROVE  RetriesWithinPolicy
<1> DEFINE T == {i \in Ids :
                    ~Open(i) /\ ~attempts[i].tainted /\ ~attempts[i].stale}
           s == Standing
           N == Len(s)
<1>1. T \in SUBSET Ids /\ T \in SUBSET Nat /\ IsFiniteSet(T)
      /\ \A i \in T : attempts[i].submitted \in Nat
  <2>1. T \in SUBSET (1..Len(attempts))
    BY DEF Ids
  <2>2. Len(attempts) \in Nat
    BY LenProperties DEF TypeOK
  <2>3. IsFiniteSet(1..Len(attempts))
    <3>1. 1 \in Int /\ Len(attempts) \in Int
      BY <2>2
    <3>2. QED
      BY <3>1, FS_Interval
  <2>4. IsFiniteSet(T)
    BY <2>1, <2>3, FS_Subset
  <2>5. \A i \in T : i \in Ids /\ ~Open(i)
    OBVIOUS
  <2> HIDE DEF T
  <2>6. \A i \in T : i \in Nat /\ attempts[i].submitted \in Nat
    BY <2>5, RowsTyped, AttemptsConstants DEF RowTypes, Attempt, Open
  <2>7. QED
    BY <2>4, <2>5, <2>6
<1>2. OrderOf(s, T)
  BY <1>1, Ordered DEF Standing
<1>3. \A i \in T : /\ i \in Ids /\ ~Open(i)
                  /\ ~attempts[i].tainted /\ ~attempts[i].stale
  OBVIOUS
<1> HIDE DEF s, T
<1>4. s \in [1..N -> T] /\ N \in Nat
  BY <1>2, LenProperties DEF OrderOf
<1>5. ASSUME NEW n \in 2..N
      PROVE  /\ \A k \in 1..(n - 1) : attempts[s[k]].passed # TRUE
             /\ \/ Spacing = None
                \/ attempts[s[n]].submitted >= attempts[s[n - 1]].submitted + Spacing
                \/ /\ Lockout # None
                   /\ attempts[s[n]].submitted
                        >= attempts[s[n - 1]].submitted + Lockout
             /\ MaxTries # None /\ n > MaxTries =>
                  /\ Lockout # None
                  /\ attempts[s[n]].submitted
                       >= attempts[s[n - MaxTries]].submitted + Lockout
  <2> DEFINE i == s[n]
             P == Unspoilt(attempts, 1..(i - 1))
             t == attempts[i].started
  <2>1. n \in 1..N /\ n - 1 \in 1..N /\ n \in Nat /\ n - 1 \in 1..(n - 1)
    BY <1>4
  <2>2. i \in T /\ i \in Ids /\ i \in Nat /\ ~Open(i) /\ ~attempts[i].stale
    BY <1>1, <1>3, <1>4, <2>1
  <2>3. /\ t \in Nat /\ attempts[i].submitted \in Nat
        /\ t <= attempts[i].submitted
    <3>1. attempts[i] \in Attempt
      BY <2>2, RowsTyped DEF RowTypes
    <3>2. RowFits(attempts[i], now)
      BY <2>2 DEF PolicyInv
    <3> HIDE DEF i
    <3>3. QED
      BY <2>2, <3>1, <3>2, AttemptsConstants DEF Attempt, Open, RowFits
  <2>4. Allows(attempts, P, t)
    BY <2>2 DEF PolicyInv
  <2>5. ASSUME NEW k \in 1..(n - 1)
        PROVE  s[k] \in P /\ k \in 1..N /\ s[k] \in Nat
               /\ attempts[s[k]].submitted \in Nat
    <3>1. k \in 1..N /\ k < n
      BY <1>4, <2>1
    <3>2. /\ s[k] \in T /\ s[k] \in Ids /\ s[k] \in Nat /\ ~Open(s[k])
          /\ ~attempts[s[k]].stale
      BY <1>1, <1>3, <1>4, <3>1
    <3>3. Before(s[k], i)
      BY <1>2, <2>1, <3>1 DEF OrderOf
    <3> HIDE DEF i
    <3>4. s[k] < i
      BY <2>2, <3>2, <3>3, EarlierIsBefore
    <3>5. s[k] \in 1..(i - 1)
      <4>1. Len(attempts) \in Nat /\ 1 <= s[k]
        BY <3>2, LenProperties DEF TypeOK, Ids
      <4>2. QED
        BY <2>2, <3>2, <3>4, <4>1
    <3>6. s[k] \in P
      BY <1>3, <3>2, <3>5 DEF Unspoilt
    <3>7. QED
      BY <1>1, <3>1, <3>2, <3>6
  <2> HIDE DEF P, t
  <2>6. \A k \in 1..(n - 1) : attempts[s[k]].passed # TRUE
    BY <2>4, <2>5 DEF Allows
  <2>7. \/ Spacing = None
        \/ attempts[s[n]].submitted >= attempts[s[n - 1]].submitted + Spacing
        \/ /\ Lockout # None
           /\ attempts[s[n]].submitted >= attempts[s[n - 1]].submitted + Lockout
    <3> DEFINE b == attempts[s[n - 1]].submitted
    <3>1. b \in Nat /\ s[n - 1] \in P
      BY <2>1, <2>5
    <3>2. \/ Spacing = None
          \/ t >= b + Spacing
          \/ Lockout # None /\ t >= b + Lockout
      BY <2>4, <3>1 DEF Allows
    <3>3. attempts[i].submitted = attempts[s[n]].submitted
      OBVIOUS
    <3> HIDE DEF b, i
    <3>4. \A x \in Nat : t >= b + x => attempts[i].submitted >= b + x
      BY <2>3, <3>1
    <3>5. QED
      BY <3>2, <3>3, <3>4, PolicyConstants DEF b
  <2>8. ASSUME MaxTries # None, n > MaxTries
        PROVE  /\ Lockout # None
               /\ attempts[s[n]].submitted
                    >= attempts[s[n - MaxTries]].submitted + Lockout
    <3> DEFINE f == [k \in (n - MaxTries)..(n - 1) |-> s[k]]
               D == (n - MaxTries)..(n - 1)
               late == {j \in P : t < attempts[j].submitted + Lockout}
               b == attempts[s[n - MaxTries]].submitted
    <3>1. /\ MaxTries \in Nat \ {0} /\ n - MaxTries \in D
          /\ \A k \in D : k \in 1..(n - 1) /\ k \in Nat
          /\ n - MaxTries \in Int /\ n - 1 \in Int /\ n - MaxTries <= n - 1
      <4>1. MaxTries \in Nat \ {0}
        BY <2>8, PolicyConstants
      <4>2. QED
        BY <2>1, <2>8, <4>1
    <3>2. IsFiniteSet(D) /\ Cardinality(D) = MaxTries
      <4>1. /\ IsFiniteSet(D)
            /\ Cardinality(D) = IF n - MaxTries > n - 1 THEN 0
                                ELSE (n - 1) - (n - MaxTries) + 1
        BY <3>1, FS_Interval
      <4> HIDE DEF D
      <4>2. QED
        BY <2>1, <3>1, <4>1
    <3>3. ASSUME NEW k \in D, NEW l \in D, s[k] = s[l] PROVE k = l
      <4>1. k \in 1..N /\ l \in 1..N /\ k \in Nat /\ l \in Nat /\ s[k] \in Nat
            /\ attempts[s[k]].submitted \in Nat
        BY <2>5, <3>1
      <4>2. ~ (k < l) /\ ~ (l < k)
        BY <1>2, <3>3, <4>1, BeforeOrders DEF OrderOf
      <4>3. QED
        BY <4>1, <4>2
    <3>4. IsFiniteSet(P)
      <4>1. IsFiniteSet(1..(i - 1))
        <5> HIDE DEF i
        <5>1. QED
          BY <2>2, IdsFinite, RowsBefore
      <4>2. QED
        BY <4>1, UnspoiltFinite DEF P
    <3>5. Cardinality(P) >= MaxTries
      <4>1. f \in Injection(D, P)
        BY <2>5, <3>1, <3>3 DEF Injection, IsInjective
      <4> HIDE DEF f, D
      <4>2. Cardinality(D) <= Cardinality(P)
        BY <3>4, <4>1, FS_Injection
      <4>3. QED
        BY <3>2, <4>2
    <3>6. Lockout # None /\ Lockout \in Nat /\ Cardinality(late) < MaxTries
      <4>1. Lockout # None /\ Cardinality(late) < MaxTries
        BY <2>4, <2>8, <3>5 DEF Allows
      <4>2. QED
        BY <4>1, PolicyConstants
    <3>7. b \in Nat /\ s[n - MaxTries] \in P
      BY <2>5, <3>1
    <3>8. attempts[i].submitted >= b + Lockout
      <4> SUFFICES ASSUME t < b + Lockout PROVE FALSE
        <5> HIDE DEF b, i
        <5>1. ~ (t < b + Lockout) => t >= b + Lockout
          BY <2>3, <3>6, <3>7
        <5>2. t >= b + Lockout => attempts[i].submitted >= b + Lockout
          BY <2>3, <3>6, <3>7
        <5>3. QED
          BY <5>1, <5>2
      <4>1. ASSUME NEW k \in D PROVE s[k] \in late
        <5>1. k \in 1..(n - 1) /\ k \in 1..N /\ n - MaxTries \in 1..N
              /\ s[k] \in P /\ attempts[s[k]].submitted \in Nat
          BY <2>5, <3>1
        <5>2. b <= attempts[s[k]].submitted
          <6>1. CASE k = n - MaxTries
            BY <3>7, <6>1
          <6>2. CASE k # n - MaxTries
            <7>1. n - MaxTries < k
              BY <2>1, <3>1, <6>2
            <7>2. Before(s[n - MaxTries], s[k])
              BY <1>2, <5>1, <7>1 DEF OrderOf
            <7>3. s[n - MaxTries] \in Nat /\ s[k] \in Nat
              BY <2>5, <3>1
            <7>4. QED
              BY <3>7, <5>1, <7>2, <7>3, BeforeOrders
          <6>3. QED
            BY <6>1, <6>2
        <5> HIDE DEF b
        <5>3. t < attempts[s[k]].submitted + Lockout
          BY <2>3, <3>6, <3>7, <5>1, <5>2
        <5>4. QED
          BY <5>1, <5>3
      <4>2. f \in Injection(D, late)
        <5>1. f \in [D -> late]
          <6> HIDE DEF late
          <6>1. QED
            BY <4>1
        <5> HIDE DEF late
        <5>2. QED
          BY <3>3, <5>1 DEF Injection, IsInjective
      <4>3. IsFiniteSet(late)
        BY <3>4, FS_Subset
      <4> HIDE DEF f, D, late
      <4>4. Cardinality(D) <= Cardinality(late) /\ Cardinality(late) \in Nat
        BY <4>2, <4>3, FS_Injection, FS_CardinalityType
      <4>5. QED
        BY <3>1, <3>2, <3>6, <4>4
    <3>9. QED
      BY <3>6, <3>8
  <2>9. QED
    BY <2>6, <2>7, <2>8
<1>6. QED
  BY <1>5 DEF RetriesWithinPolicy, At, s

\* A row stays what the policy saw of it: what changes is an attempt in progress,
\* a grade that is held, or one that becomes stale.
Stays(a, b) ==
  /\ b.started = a.started
  /\ a.tainted => b.tainted
  /\ a.stale => b.stale
  /\ a.submitted # None => b.submitted # None
  /\ a.submitted # None /\ ~b.stale =>
       b.submitted = a.submitted /\ (a.held \/ (~b.held /\ b.passed = a.passed))

LEMMA AllowsRewritten ==
  ASSUME NEW as, NEW bs, NEW T, IsFiniteSet(T),
         NEW t \in Nat, NEW u \in Nat, t <= u,
         \A j \in T : as[j].submitted # None /\ Stays(as[j], bs[j]),
         Allows(as, Unspoilt(as, T), t)
  PROVE  Allows(bs, Unspoilt(bs, T), u)
<1>1. Unspoilt(bs, T) \in SUBSET Unspoilt(as, T)
  BY DEF Unspoilt, Stays
<1>2. ASSUME NEW j \in Unspoilt(bs, T)
      PROVE  /\ bs[j].submitted = as[j].submitted
             /\ ~bs[j].held /\ bs[j].passed = as[j].passed
  <2>1. j \in Unspoilt(as, T) /\ j \in T /\ ~bs[j].stale
    BY <1>1 DEF Unspoilt
  <2>2. Stays(as[j], bs[j]) /\ ~as[j].held /\ as[j].submitted # None
    BY <2>1 DEF Allows
  <2>3. QED
    BY <2>1, <2>2 DEF Stays
<1>3. QED
  BY <1>1, <1>2, AllowsStill, UnspoiltFinite

\* What is known of the rows before one that no request wrote too late.
LEMMA RowsOf ==
  ASSUME AttemptsTyped, PolicyInv, NEW i \in Ids
  PROVE  /\ i \in Nat /\ attempts[i] \in Attempt /\ attempts[i].started \in Nat
         /\ 1..(i - 1) \subseteq Ids /\ IsFiniteSet(1..(i - 1))
         /\ ~attempts[i].stale =>
              /\ \A j \in 1..(i - 1) : attempts[j].submitted # None
              /\ Allows(attempts, Unspoilt(attempts, 1..(i - 1)), attempts[i].started)
<1>1. Len(attempts) \in Nat /\ attempts[i] \in Attempt
  BY IdOfRow, AttemptsTypesAre DEF AttemptsTyped
<1>2. attempts[i].started \in Nat
  BY <1>1, AttemptsConstants DEF Attempt
<1>3. /\ i \in Nat /\ 1..(i - 1) \subseteq Ids /\ IsFiniteSet(1..(i - 1))
      /\ \A j \in 1..(i - 1) : j < i
  BY <1>1, RowsBefore
<1>4. ~attempts[i].stale =>
        /\ \A j \in 1..(i - 1) : attempts[j].submitted # None
        /\ Allows(attempts, Unspoilt(attempts, 1..(i - 1)), attempts[i].started)
  BY <1>3 DEF PolicyInv, Follows
<1>5. QED
  BY <1>1, <1>2, <1>3, <1>4

\* Rows that stay what the policy saw of them leave a start judged as it was.
LEMMA JudgedStill ==
  ASSUME AttemptsTyped, NEW x, Granted(x),
         Len(attempts') \in Nat, Len(attempts) <= Len(attempts'),
         \A j \in Ids : Stays(attempts[j], attempts'[j]),
         now' \in Nat, now <= now'
  PROVE  /\ x.saw \subseteq Ids' /\ \A j \in x.saw : attempts'[j].submitted # None
         /\ Allows(attempts', Unspoilt(attempts', x.saw), now')
<1>1. TypeOK /\ now \in Nat
  BY AttemptsConstants DEF AttemptsTyped, TypeOK
<1>2. IsFiniteSet(Ids) /\ Len(attempts) \in Nat
  BY <1>1, IdsFinite
<1>3. /\ x.saw \in SUBSET Ids /\ \A j \in x.saw : attempts[j].submitted # None
      /\ Allows(attempts, Unspoilt(attempts, x.saw), now)
  BY DEF Granted
<1>4. IsFiniteSet(x.saw)
  BY <1>2, <1>3, FS_Subset
<1>5. \A j \in x.saw : attempts[j].submitted # None /\ Stays(attempts[j], attempts'[j])
  BY <1>3
<1>6. Ids \subseteq Ids'
  BY <1>2 DEF Ids
<1>7. Allows(attempts', Unspoilt(attempts', x.saw), now')
  BY <1>1, <1>3, <1>4, <1>5, AllowsRewritten
<1>8. QED
  BY <1>3, <1>5, <1>6, <1>7 DEF Stays

\* Steps that leave the rows and the clock alone.
LEMMA PolicyRequestMoves ==
  ASSUME PolicyInv, UNCHANGED <<attempts, now>>, NEW r \in Requests, NEW x,
         Moved(r, x), x.pc = "create" => Granted(x)
  PROVE  PolicyInv'
<1>1. ASSUME NEW s \in Requests, request'[s].pc = "create" PROVE Granted(request'[s])
  BY <1>1 DEF Moved, PolicyInv
<1>2. QED
  BY <1>1 DEF PolicyInv, Granted, Ids

LEMMA PolicyStart ==
  ASSUME AttemptsTyped, PolicyInv, NEW r \in Requests, Start(r) \/ Load(r)
  PROVE  PolicyInv'
<1>1. PICK x : /\ Moved(r, x) /\ x.pc # "create" /\ UNCHANGED <<attempts, now>>
  BY StartMoves, LoadMoves
<1>2. QED
  BY <1>1, PolicyRequestMoves

LEMMA PolicyCheckEligible ==
  ASSUME AttemptsTyped, PolicyInv, NEW r \in Requests, CheckEligible(r)
  PROVE  PolicyInv'
<1>1. PICK x : /\ Moved(r, x) /\ UNCHANGED <<attempts, now>>
               /\ \/ x = Idle
                  \/ x.pc = "create" /\ MayStart /\ x.saw = {i \in Ids : ~Open(i)}
  BY CheckMoves
<1>2. CASE x = Idle
  BY <1>1, <1>2, PolicyRequestMoves DEF Idle
<1>3. CASE x.pc = "create" /\ MayStart /\ x.saw = {i \in Ids : ~Open(i)}
  <2>1. Allows(attempts, Unspoilt(attempts, {i \in Ids : ~Open(i)}), now)
    BY <1>3, StartAllowed DEF PolicyInv, AttemptsTyped
  <2>2. Granted(x)
    BY <1>3, <2>1 DEF Granted, Open
  <2>3. QED
    BY <1>1, <2>2, PolicyRequestMoves
<1>4. QED
  BY <1>1, <1>2, <1>3

LEMMA PolicyFail ==
  ASSUME AttemptsTyped, PolicyInv, Fail
  PROVE  PolicyInv'
<1>1. UNCHANGED <<attempts, now>> /\ Idle.pc # "create"
  BY FailMoves DEF Idle
<1>2. CASE \E r \in Requests : Moved(r, Idle)
  BY <1>1, <1>2, PolicyRequestMoves
<1>3. CASE UNCHANGED request
  BY <1>1, <1>3 DEF PolicyInv, Granted, Ids
<1>4. QED
  BY <1>2, <1>3, FailMoves

LEMMA PolicyTick ==
  ASSUME AttemptsTyped, PolicyInv, Tick
  PROVE  PolicyInv'
<1>1. /\ UNCHANGED <<attempts, request>> /\ now \in Nat /\ now' \in Nat /\ now <= now'
      /\ Len(attempts) \in Nat
  BY AttemptsTypesAre, AttemptsConstants DEF Tick, AttemptsTyped
<1>2. \A i \in Ids : RowFits(attempts[i], now')
  <2> TAKE i \in Ids
  <2>1. attempts[i] \in Attempt /\ RowFits(attempts[i], now)
    BY IdOfRow DEF PolicyInv
  <2>2. QED
    BY <1>1, <2>1, AttemptsConstants DEF RowFits, Attempt
<1>3. \A j \in Ids : Stays(attempts[j], attempts'[j])
  BY <1>1 DEF Stays
<1>4. ASSUME NEW r \in Requests, request[r].pc = "create"
      PROVE  /\ request[r].saw \subseteq Ids'
             /\ \A j \in request[r].saw : attempts'[j].submitted # None
             /\ Allows(attempts', Unspoilt(attempts', request[r].saw), now')
  <2>1. Granted(request[r])
    BY <1>4 DEF PolicyInv
  <2>2. Len(attempts') \in Nat /\ Len(attempts) <= Len(attempts')
    BY <1>1
  <2>3. QED
    BY <1>1, <1>3, <2>1, <2>2, JudgedStill
<1>5. QED
  BY <1>1, <1>2, <1>4 DEF PolicyInv, Granted, Ids

LEMMA PolicyReadHeld ==
  ASSUME PolicyInv, NEW g \in Graders, NEW i \in Ids, ReadHeld(g, i)
  PROVE  PolicyInv'
BY DEF ReadHeld, PolicyInv, Granted, Ids

\* A new attempt, which the policy allowed by all that there is, or which another
\* has overtaken.
LEMMA PolicyCreate ==
  ASSUME AttemptsTyped, PolicyInv, NEW r \in Requests, Create(r)
  PROVE  PolicyInv'
<1> DEFINE N == Len(attempts)
           a == [started |-> now, submitted |-> None, held |-> FALSE, passed |-> None,
                 invalid |-> FALSE, tainted |-> FALSE, stale |-> Overtaken(r),
                 told |-> <<>>]
<1>1. /\ Len(attempts') = N + 1 /\ N \in Nat /\ attempts'[N + 1] = a
      /\ \A j \in Ids : attempts'[j] = attempts[j]
      /\ Moved(r, Idle) /\ UNCHANGED now
  BY CreateWrites
<1>2. now \in Nat
  BY AttemptsConstants DEF AttemptsTyped, TypeOK
<1>3. /\ a.started = now /\ a.submitted = None /\ a.passed = None /\ ~a.held
      /\ ~a.invalid /\ a.stale = Overtaken(r)
  OBVIOUS
<1> HIDE DEF a
<1>4. Granted(request[r])
  BY DEF Create, PolicyInv
<1>5. \A i \in Ids' : i \in Ids \/ i = N + 1
  BY <1>1 DEF Ids
<1>6. RowFits(a, now)
  BY <1>2, <1>3, AttemptsConstants DEF RowFits
<1>7. \A i \in Ids' : RowFits(attempts'[i], now)
  BY <1>1, <1>5, <1>6 DEF PolicyInv
<1>8. \A i \in Ids : /\ i \in Nat /\ i < N + 1 /\ attempts[i] \in Attempt
                     /\ Stays(attempts[i], attempts'[i])
  <2> TAKE i \in Ids
  <2>1. i \in Nat /\ i < N + 1
    BY <1>1 DEF Ids
  <2>2. QED
    BY <1>1, <2>1, IdOfRow DEF Stays
<1> HIDE DEF N
<1>9. ASSUME NEW i \in Ids', NEW j \in Ids', i < j, ~attempts'[j].stale
      PROVE  Follows(attempts'[i], attempts'[j])
  <2>1. i \in Ids
    BY <1>1, <1>5, <1>8, <1>9
  <2>2. CASE j \in Ids
    BY <1>1, <1>9, <2>1, <2>2 DEF PolicyInv
  <2>3. CASE j = N + 1
    <3>1. request[r].saw = Ids
      BY <1>1, <1>3, <1>9, <2>3 DEF Overtaken
    <3>2. attempts[i].submitted # None /\ attempts[i].submitted <= now
      BY <1>4, <2>1, <3>1 DEF Granted, PolicyInv, RowFits
    <3>3. attempts'[j].started = now /\ attempts'[i] = attempts[i]
      BY <1>1, <1>3, <2>1, <2>3
    <3>4. QED
      BY <3>2, <3>3 DEF Follows
  <2>4. QED
    BY <1>5, <2>2, <2>3
<1>10. ASSUME NEW i \in Ids', ~attempts'[i].stale
       PROVE  Allows(attempts', Unspoilt(attempts', 1..(i - 1)), attempts'[i].started)
  <2>1. CASE i \in Ids
    <3>1. /\ attempts[i].started \in Nat /\ attempts'[i] = attempts[i]
          /\ 1..(i - 1) \subseteq Ids /\ IsFiniteSet(1..(i - 1))
          /\ \A j \in 1..(i - 1) : attempts[j].submitted # None
          /\ Allows(attempts, Unspoilt(attempts, 1..(i - 1)), attempts[i].started)
      BY <1>1, <1>10, <2>1, RowsOf
    <3>2. /\ \A j \in 1..(i - 1) : /\ attempts[j].submitted # None
                                   /\ Stays(attempts[j], attempts'[j])
          /\ attempts[i].started <= attempts[i].started
      BY <1>8, <3>1
    <3>3. Allows(attempts', Unspoilt(attempts', 1..(i - 1)), attempts[i].started)
      BY <3>1, <3>2, AllowsRewritten
    <3>4. QED
      BY <3>1, <3>3
  <2>2. CASE i = N + 1
    <3>1. request[r].saw = Ids
      BY <1>1, <1>3, <1>10, <2>2 DEF Overtaken
    <3>2. 1..(i - 1) = Ids /\ i - 1 = N
      BY <1>1, <2>2 DEF Ids, N
    <3>3. Allows(attempts', Unspoilt(attempts', request[r].saw), now)
      <4>1. Len(attempts') \in Nat /\ Len(attempts) <= Len(attempts')
        BY <1>1 DEF N
      <4>2. now' \in Nat /\ now <= now' /\ now' = now
        BY <1>1, <1>2
      <4>3. QED
        BY <1>4, <1>8, <4>1, <4>2, JudgedStill
    <3>4. attempts'[i].started = now
      BY <1>1, <1>3, <2>2
    <3>5. QED
      BY <3>1, <3>2, <3>3, <3>4
  <2>3. QED
    BY <1>5, <2>1, <2>2
<1>11. ASSUME NEW s \in Requests, request'[s].pc = "create"
       PROVE  /\ request'[s].saw \subseteq Ids'
              /\ \A j \in request'[s].saw : attempts'[j].submitted # None
              /\ Allows(attempts', Unspoilt(attempts', request'[s].saw), now')
  <2>1. s # r /\ request'[s] = request[s]
    BY <1>1, <1>11 DEF Moved, Idle
  <2>2. Granted(request[s])
    BY <1>11, <2>1 DEF PolicyInv
  <2>3. Len(attempts') \in Nat /\ Len(attempts) <= Len(attempts')
    BY <1>1 DEF N
  <2>4. now' \in Nat /\ now <= now'
    BY <1>1, <1>2
  <2>5. QED
    BY <1>8, <2>1, <2>2, <2>3, <2>4, JudgedStill
<1>12. QED
  BY <1>1, <1>7, <1>9, <1>10, <1>11 DEF PolicyInv, Granted

\* One row is written, of which the policy saw what stays.
LEMMA PolicyRowMoves ==
  ASSUME AttemptsTyped, PolicyInv, NEW i \in Ids, NEW a, UNCHANGED now,
         Rewritten(i, a), Stays(attempts[i], a), RowFits(a, now),
         \A r \in Requests :
           request'[r].pc = "create" => request'[r] = request[r]
  PROVE  PolicyInv'
<1>1. Ids' = Ids /\ Len(attempts') = Len(attempts) /\ Len(attempts) \in Nat
  BY AttemptsTypesAre DEF Rewritten, Ids, AttemptsTyped
<1>2. \A j \in Ids : Stays(attempts[j], attempts'[j]) /\ RowFits(attempts'[j], now)
  <2> TAKE j \in Ids
  <2>1. CASE j = i
    BY <2>1 DEF Rewritten
  <2>2. CASE j # i
    BY <2>2 DEF Rewritten, PolicyInv, Stays
  <2>3. QED
    BY <2>1, <2>2
<1>3. ASSUME NEW j \in Ids, NEW k \in Ids, j < k, ~attempts'[k].stale
      PROVE  Follows(attempts'[j], attempts'[k])
  <2>1. Stays(attempts[j], attempts'[j]) /\ Stays(attempts[k], attempts'[k])
    BY <1>2
  <2>2. Follows(attempts[j], attempts[k])
    BY <1>3, <2>1 DEF PolicyInv, Stays
  <2>3. QED
    BY <2>1, <2>2 DEF Follows, Stays
<1>4. ASSUME NEW j \in Ids, ~attempts'[j].stale
      PROVE  Allows(attempts', Unspoilt(attempts', 1..(j - 1)), attempts'[j].started)
  <2>1. ~attempts[j].stale /\ attempts'[j].started = attempts[j].started
    BY <1>2, <1>4 DEF Stays
  <2>2. /\ attempts[j].started \in Nat
        /\ 1..(j - 1) \subseteq Ids /\ IsFiniteSet(1..(j - 1))
        /\ \A k \in 1..(j - 1) : attempts[k].submitted # None
        /\ Allows(attempts, Unspoilt(attempts, 1..(j - 1)), attempts[j].started)
    BY <2>1, RowsOf
  <2>3. /\ \A k \in 1..(j - 1) : /\ attempts[k].submitted # None
                                 /\ Stays(attempts[k], attempts'[k])
        /\ attempts[j].started <= attempts[j].started
    BY <1>2, <2>2
  <2>4. Allows(attempts', Unspoilt(attempts', 1..(j - 1)), attempts[j].started)
    BY <2>2, <2>3, AllowsRewritten
  <2>5. QED
    BY <2>1, <2>4
<1>5. ASSUME NEW r \in Requests, request'[r].pc = "create"
      PROVE  /\ request'[r].saw \subseteq Ids'
             /\ \A j \in request'[r].saw : attempts'[j].submitted # None
             /\ Allows(attempts', Unspoilt(attempts', request'[r].saw), now')
  <2>1. request'[r] = request[r]
    BY <1>5
  <2>2. Granted(request[r])
    BY <1>5, <2>1 DEF PolicyInv
  <2>3. Len(attempts') \in Nat /\ Len(attempts) <= Len(attempts')
    BY <1>1
  <2>4. now' \in Nat /\ now <= now'
    BY AttemptsConstants DEF AttemptsTyped, TypeOK
  <2>5. QED
    BY <1>2, <2>1, <2>2, <2>3, <2>4, JudgedStill
<1>6. QED
  BY <1>1, <1>2, <1>3, <1>4, <1>5 DEF PolicyInv, Granted

LEMMA PolicySave ==
  ASSUME AttemptsTyped, PolicyInv, NEW r \in Requests, Save(r)
  PROVE  PolicyInv'
<1> DEFINE i == request[r].id
           a == [attempts[i] EXCEPT !.held = FALSE]
<1>1. i \in Ids /\ Rewritten(i, a) /\ Moved(r, Idle) /\ UNCHANGED now
  BY SaveWrites
<1>2. attempts[i] \in Attempt /\ RowFits(attempts[i], now)
  BY <1>1, IdOfRow DEF PolicyInv
<1>3. /\ a.started = attempts[i].started /\ a.submitted = attempts[i].submitted
      /\ ~a.held /\ a.passed = attempts[i].passed /\ a.invalid = attempts[i].invalid
      /\ a.tainted = attempts[i].tainted /\ a.stale = attempts[i].stale
  BY <1>2 DEF Attempt
<1> HIDE DEF a, i
<1>4. Stays(attempts[i], a) /\ RowFits(a, now)
  BY <1>2, <1>3 DEF Stays, RowFits
<1>5. \A s \in Requests : request'[s].pc = "create" => request'[s] = request[s]
  BY <1>1 DEF Moved, Idle
<1>6. QED
  BY <1>1, <1>4, <1>5, PolicyRowMoves

\* The event of an attempt's outcome leaves the rest of its row alone.
LEMMA ToldRow ==
  ASSUME AttemptsTyped, PolicyInv, NEW i \in Ids, NEW told
  PROVE  LET a == [attempts[i] EXCEPT !.told = told]
         IN  Stays(attempts[i], a) /\ RowFits(a, now)
<1> DEFINE a == [attempts[i] EXCEPT !.told = told]
<1>1. attempts[i] \in Attempt /\ RowFits(attempts[i], now)
  BY IdOfRow DEF PolicyInv
<1>2. /\ a.started = attempts[i].started /\ a.submitted = attempts[i].submitted
      /\ a.held = attempts[i].held /\ a.passed = attempts[i].passed
      /\ a.invalid = attempts[i].invalid /\ a.tainted = attempts[i].tainted
      /\ a.stale = attempts[i].stale
  BY <1>1 DEF Attempt
<1> HIDE DEF a
<1>3. Stays(attempts[i], a) /\ RowFits(a, now)
  BY <1>1, <1>2 DEF Stays, RowFits
<1>4. QED
  BY <1>3 DEF a

LEMMA PolicyTell ==
  ASSUME AttemptsTyped, PolicyInv, NEW r \in Requests, Tell(r)
  PROVE  PolicyInv'
<1> DEFINE i == request[r].id
           told == Append(attempts[i].told, request[r].passed)
           a == [attempts[i] EXCEPT !.told = told]
<1>1. i \in Ids /\ Rewritten(i, a) /\ Moved(r, GoesOn(r)) /\ UNCHANGED now
  BY TellWrites
<1> HIDE DEF i, told
<1>2. Stays(attempts[i], a) /\ RowFits(a, now)
  BY <1>1, ToldRow
<1>3. GoesOn(r).pc # "create"
  BY DEF GoesOn, Idle
<1>4. \A s \in Requests : request'[s].pc = "create" => request'[s] = request[s]
  BY <1>1, <1>3 DEF Moved
<1> HIDE DEF a
<1>5. QED
  BY <1>1, <1>2, <1>4, PolicyRowMoves

LEMMA PolicyTellGrade ==
  ASSUME AttemptsTyped, PolicyInv, NEW g \in Graders, TellGrade(g)
  PROVE  PolicyInv'
<1> DEFINE i == grader[g].id
           told == Append(attempts[i].told, grader[g].passed)
           a == [attempts[i] EXCEPT !.told = told]
<1>1. i \in Ids /\ Rewritten(i, a) /\ UNCHANGED <<request, now>>
  BY TellGradeWrites
<1> HIDE DEF i, told
<1>2. Stays(attempts[i], a) /\ RowFits(a, now)
  BY <1>1, ToldRow
<1> HIDE DEF a
<1>3. QED
  BY <1>1, <1>2, PolicyRowMoves

\* A grade of what is no longer held makes the attempt stale.
LEMMA PolicyWriteGrade ==
  ASSUME AttemptsTyped, OutcomesInv, PolicyInv, NEW g \in Graders, WriteGrade(g)
  PROVE  PolicyInv'
<1> DEFINE i == grader[g].id
<1>1. PICK passed \in BOOLEAN, a \in Attempt, y \in Local(GraderPcs) :
        /\ i \in Ids /\ Rewritten(i, a) /\ GraderMoved(g, y)
        /\ UNCHANGED <<request, now>>
        /\ a = [attempts[i] EXCEPT !.held = FALSE, !.passed = passed,
                                   !.stale = @ \/ ~attempts[i].held]
        /\ y.pc = "tell" /\ y.id = i /\ y.passed = passed
  BY WriteGradeWrites
<1>2. attempts[i] \in Attempt /\ RowFits(attempts[i], now)
  BY <1>1, IdOfRow DEF PolicyInv
<1>3. /\ a.started = attempts[i].started /\ a.submitted = attempts[i].submitted
      /\ ~a.held /\ a.invalid = attempts[i].invalid
      /\ a.tainted = attempts[i].tainted
      /\ a.stale = (attempts[i].stale \/ ~attempts[i].held)
  BY <1>1, <1>2 DEF Attempt
<1>4. attempts[i].submitted # None
  BY DEF WriteGrade, OutcomesInv, Heard
<1> HIDE DEF i
<1>5. Stays(attempts[i], a) /\ RowFits(a, now)
  BY <1>2, <1>3, <1>4 DEF Stays, RowFits
<1>6. QED
  BY <1>1, <1>5, PolicyRowMoves

\* An attempt that is invalidated, or accepted again, counts for no later one.
LEMMA PolicyReview ==
  ASSUME AttemptsTyped, PolicyInv, NEW i \in Ids, NEW verdict \in BOOLEAN,
         Review(i, verdict)
  PROVE  PolicyInv'
<1> DEFINE a == [attempts[i] EXCEPT !.invalid = verdict, !.tainted = TRUE]
<1>1. Rewritten(i, a) /\ UNCHANGED <<request, now>>
  BY ReviewWrites
<1>2. attempts[i] \in Attempt /\ RowFits(attempts[i], now)
  BY IdOfRow DEF PolicyInv
<1>3. /\ a.started = attempts[i].started /\ a.submitted = attempts[i].submitted
      /\ a.held = attempts[i].held /\ a.passed = attempts[i].passed
      /\ a.tainted = TRUE /\ a.stale = attempts[i].stale
  BY <1>2 DEF Attempt
<1> HIDE DEF a
<1>4. Stays(attempts[i], a) /\ RowFits(a, now)
  BY <1>2, <1>3 DEF Stays, RowFits
<1>5. QED
  BY <1>1, <1>4, PolicyRowMoves

\* An attempt in progress is one that no other was judged by; a second
\* finalisation makes it stale.
LEMMA PolicyFinalize ==
  ASSUME AttemptsTyped, PolicyInv, NEW r \in Requests, Finalize(r)
  PROVE  PolicyInv'
<1> DEFINE i == request[r].id
<1>1. PICK held \in BOOLEAN, passed \in BOOLEAN, a \in Attempt,
           x \in Local(LearnerPcs) :
        /\ i \in Ids /\ Rewritten(i, a) /\ Moved(r, x)
        /\ UNCHANGED <<grader, now>> /\ now \in 0..MaxTime
        /\ a = [attempts[i] EXCEPT !.submitted = now, !.held = held,
                                   !.passed = IF held THEN None ELSE passed,
                                   !.stale = @ \/ ~Open(i)]
        /\ \/ held /\ x = GoesOn(r)
           \/ ~held /\ x.pc = "tell" /\ x.id = i /\ x.passed = passed
  BY FinalizeWrites
<1>2. attempts[i] \in Attempt /\ RowFits(attempts[i], now)
  BY <1>1, IdOfRow DEF PolicyInv
<1>3. /\ a.started = attempts[i].started /\ a.submitted = now /\ a.held = held
      /\ a.passed = (IF held THEN None ELSE passed)
      /\ a.invalid = attempts[i].invalid /\ a.tainted = attempts[i].tainted
      /\ a.stale = (attempts[i].stale \/ attempts[i].submitted # None)
  BY <1>1, <1>2 DEF Attempt, Open
<1>4. now \in Nat /\ now # None
  BY <1>1, AttemptsConstants
<1>5. GoesOn(r).pc # "create"
  BY DEF GoesOn, Idle
<1>6. \A s \in Requests : request'[s].pc = "create" => request'[s] = request[s]
  BY <1>1, <1>5 DEF Moved
<1> HIDE DEF i
<1>7. Stays(attempts[i], a)
  BY <1>3, <1>4 DEF Stays
<1>8. RowFits(a, now)
  BY <1>2, <1>3, <1>4 DEF RowFits
<1>9. QED
  BY <1>1, <1>6, <1>7, <1>8, PolicyRowMoves

LEMMA PolicyInit == Init => PolicyInv
BY DEF Init, Idle, PolicyInv, Ids

LEMMA PolicyNext ==
  ASSUME AttemptsTyped, OutcomesInv, PolicyInv, Next
  PROVE  PolicyInv'
<1>1. CASE \E i \in Ids : Invalidate(i) \/ Accept(i)
  BY <1>1, PolicyReview DEF Invalidate, Accept
<1>2. CASE \E r \in Requests :
             Start(r) \/ CheckEligible(r) \/ Create(r)
             \/ Load(r) \/ Save(r) \/ Finalize(r) \/ Tell(r)
  BY <1>2, PolicyStart, PolicyCheckEligible, PolicyCreate, PolicySave,
     PolicyFinalize, PolicyTell
<1>3. CASE \E g \in Graders :
             (\E i \in Ids : ReadHeld(g, i)) \/ WriteGrade(g) \/ TellGrade(g)
  BY <1>3, PolicyReadHeld, PolicyWriteGrade, PolicyTellGrade
<1>4. QED
  BY <1>1, <1>2, <1>3, PolicyTick, PolicyFail DEF Next

RetriesInv == part = "attempts" => PolicyInv

LEMMA RetriesAlways == LearningSpec => []RetriesInv
<1>1. LearningInit => RetriesInv
  BY PolicyInit DEF LearningInit, RetriesInv
<1>2. GradesInv /\ RetriesInv /\ [LearningNext]_learningVars => RetriesInv'
  <2> SUFFICES ASSUME GradesInv, RetriesInv, [LearningNext]_learningVars
               PROVE  RetriesInv'
    OBVIOUS
  <2>1. CASE UNCHANGED learningVars
    BY <2>1 DEF learningVars, AttemptsVars, RequestVars, RetriesInv, PolicyInv,
       Granted, Ids
  <2>2. CASE LearningNext
    BY <2>2, PolicyNext DEF LearningNext, GradesInv, RetriesInv
  <2>3. QED
    BY <2>1, <2>2
<1>3. QED
  BY <1>1, <1>2, GradesAlways, PTL DEF LearningSpec

\* The attempts that always counted, and that no request wrote on what it had read
\* too early, keep to the retry policy, however many starts, saves and gradings
\* overlap and whatever is held, graded late, invalidated, accepted or fails
\* meanwhile (startOrResume and eligibility in attempts.service.ts,
\* computeRetryState in retry-policy.calculator.ts).
THEOREM RetriesKeepPolicy == LearningSpec => []RetriesWithinPolicy
<1>1. ASSUME GradesInv, part # "attempts" PROVE RetriesWithinPolicy
  <2>1. attempts = <<>> /\ Ids = {}
    BY <1>1 DEF GradesInv, Ids
  <2> DEFINE T == {i \in Ids : ~Open(i) /\ ~attempts[i].tainted /\ ~attempts[i].stale}
  <2>2. T = {}
    BY <2>1
  <2>3. OrderOf(Standing, T)
    <3>1. T \in SUBSET Nat /\ IsFiniteSet(T)
      BY <2>2, FS_EmptySet
    <3> HIDE DEF T
    <3>2. QED
      BY <2>2, <3>1, Ordered DEF Standing, T
  <2> HIDE DEF T
  <2>4. Len(Standing) = 0
    BY <2>2, <2>3, FS_EmptySet DEF OrderOf
  <2>5. QED
    BY <2>4 DEF RetriesWithinPolicy
<1>2. GradesInv /\ RetriesInv => RetriesWithinPolicy
  BY <1>1, PolicyHolds DEF GradesInv, RetriesInv, AttemptsTyped
<1>3. QED
  BY <1>2, GradesAlways, RetriesAlways, PTL

----------------------------------------------------------------------------
(* Submissions: peers grade when enough of them have reviewed.             *)

WorkPcs == {"idle", "create", "assign", "increment", "mark", "count", "record",
            "grade", "write"}
Work == [author : Learners, graded : {Nobody, Creator, "peers"}, passed : BOOLEAN,
         assigned : Nat, completed : Nat, told : Nat]
PeerReview == [reviewer : Learners, row : Nat, done : BOOLEAN]
Errand == [pc : WorkPcs, by : Learners \cup {Creator, Nobody}, review : Nat,
           row : Nat, todo : SUBSET Nat, ungraded : BOOLEAN, count : Nat]

WorkTyped ==
  /\ rows \in Seq(Work) /\ reviews \in Seq(PeerReview)
  /\ request \in [Slots -> Errand] /\ fails \in Nat
  /\ doubled \subseteq Learners

\* The completed reviews, among rv, of the work i.
Complete(i, rv) == {k \in 1..Len(rv) : rv[k].row = i /\ rv[k].done}
EnoughOf(i, rv) == Required <= Cardinality(Complete(i, rv))

\* A review is of another's work, and nobody but who looked twice at once, of
\* d, reviews a work twice.
Proper(rs, rv, d) ==
  /\ \A k \in 1..Len(rv) :
       rv[k].row \in 1..Len(rs) /\ rs[rv[k].row].author # rv[k].reviewer
  /\ \A k, m \in 1..Len(rv) :
       rv[k].reviewer \notin d /\ rv[k].reviewer = rv[m].reviewer
         /\ rv[k].row = rv[m].row => k = m

\* The work i can still be given to u.
Unseen(i, u, rs, rv, d) ==
  /\ i \in 1..Len(rs) /\ rs[i].author # u
  /\ u \notin d => \A k \in 1..Len(rv) : rv[k].reviewer = u => rv[k].row # i

\* The request x gives work to review.
Lists(x) == x.pc \in {"assign", "increment"}

\* What the request x knows of the rows and the reviews.
Informed(x, rs, rv, d) ==
  /\ x.pc \in {"increment", "mark", "count", "record", "grade", "write"} =>
       x.row \in 1..Len(rs)
  /\ x.pc \in {"mark", "count", "record", "write"} /\ ~x.ungraded =>
       rs[x.row].graded # Nobody
  /\ x.pc = "mark" => x.review \in 1..Len(rv) /\ rv[x.review].row = x.row
  /\ x.pc = "record" => x.count <= Cardinality(Complete(x.row, rv))
  /\ x.pc = "grade" => EnoughOf(x.row, rv)
  /\ x.pc = "create" \/ Lists(x) => x.by \in Learners
  /\ x.pc = "assign" => \A i \in x.todo : Unseen(i, x.by, rs, rv, d)
  /\ x.pc = "increment" => \A i \in x.todo \ {x.row} : Unseen(i, x.by, rs, rv, d)

\* No other request gives work to who asks in x, unless in d.
Apart(x, y, d) == Lists(x) /\ Lists(y) /\ x.by = y.by => x.by \in d

\* The request x will yet see that enough reviews of i are in, and grade it.
WillGrade(x, i) ==
  /\ x.row = i
  /\ \/ x.pc = "count" /\ x.ungraded
     \/ x.pc = "record" /\ x.ungraded /\ Required <= x.count
     \/ x.pc = "grade"

\* A graded work was told of, and peers grade what enough of them reviewed.
Judged(i, rs, rv) ==
  /\ rs[i].graded # Nobody => rs[i].told > 0
  /\ rs[i].graded = "peers" => EnoughOf(i, rv)

\* The work i is graded, or about to be, once enough reviews are in.
Attended(i, rs, rv, rq) ==
  EnoughOf(i, rv) =>
    rs[i].graded # Nobody \/ \E s \in Slots : WillGrade(rq[s], i)

WorkInv ==
  /\ WorkTyped
  /\ Proper(rows, reviews, doubled)
  /\ \A s \in Slots : Informed(request[s], rows, reviews, doubled)
  /\ \A s, t \in Slots : s # t => Apart(request[s], request[t], doubled)
  /\ \A i \in 1..Len(rows) : Judged(i, rows, reviews)
  /\ fails = 0 => \A i \in 1..Len(rows) : Attended(i, rows, reviews, request)

LEMMA CompleteIsFinite ==
  ASSUME NEW rv, Len(rv) \in Nat, NEW i
  PROVE  /\ IsFiniteSet(Complete(i, rv)) /\ Cardinality(Complete(i, rv)) \in Nat
<1>1. IsFiniteSet(1..Len(rv))
  BY FS_Interval
<1>2. Complete(i, rv) \subseteq 1..Len(rv)
  BY DEF Complete
<1>3. IsFiniteSet(Complete(i, rv))
  BY <1>1, <1>2, FS_Subset
<1>4. QED
  BY <1>3, FS_CardinalityType

\* Reviews join, and a review that is done stays so.
LEMMA CompleteGrows ==
  ASSUME NEW rv, NEW rw, Len(rv) \in Nat, Len(rw) \in Nat, NEW i,
         Complete(i, rv) \subseteq Complete(i, rw)
  PROVE  /\ Cardinality(Complete(i, rv)) \in Nat
         /\ Cardinality(Complete(i, rw)) \in Nat
         /\ Cardinality(Complete(i, rv)) <= Cardinality(Complete(i, rw))
         /\ EnoughOf(i, rv) => EnoughOf(i, rw)
<1>1. /\ IsFiniteSet(Complete(i, rw)) /\ Cardinality(Complete(i, rv)) \in Nat
      /\ Cardinality(Complete(i, rw)) \in Nat
  BY CompleteIsFinite
<1>2. Cardinality(Complete(i, rv)) <= Cardinality(Complete(i, rw))
  BY <1>1, FS_Subset
<1>3. Required \in Nat
  BY SubmissionsAssumption
<1>4. QED
  BY <1>1, <1>2, <1>3 DEF EnoughOf

\* The completed reviews of a work are by as many learners, unless one of them
\* looked twice at once.
LEMMA ReviewersDiffer ==
  ASSUME NEW rs, NEW d, NEW rv \in Seq(PeerReview), Proper(rs, rv, d), NEW i,
         EnoughOf(i, rv), {rv[k].reviewer : k \in Complete(i, rv)} \cap d = {}
  PROVE  Required <= Cardinality({rv[k].reviewer : k \in Complete(i, rv)})
<1> DEFINE C == Complete(i, rv)
           P == {rv[k].reviewer : k \in C}
           f == [k \in C |-> rv[k].reviewer]
<1>1. /\ Len(rv) \in Nat /\ C \subseteq 1..Len(rv)
      /\ \A k \in C : rv[k] \in PeerReview /\ rv[k].row = i
  BY DEF Complete
<1>2. \A k \in C : rv[k].reviewer \in Learners /\ rv[k].reviewer \notin d
  BY <1>1 DEF PeerReview
<1>3. IsFiniteSet(P)
  <2>1. P \subseteq Learners
    BY <1>2
  <2>2. QED
    BY <2>1, SubmissionsAssumption, FS_Subset
<1>4. f \in Injection(C, P)
  <2>1. f \in [C -> P]
    OBVIOUS
  <2>2. \A k, m \in C : f[k] = f[m] => k = m
    BY <1>1, <1>2 DEF Proper
  <2> HIDE DEF f, P, C
  <2>3. QED
    BY <2>1, <2>2 DEF Injection, IsInjective
<1>5. IsFiniteSet(C) /\ Cardinality(C) \in Nat
  BY <1>1, CompleteIsFinite
<1>6. Cardinality(C) <= Cardinality(P) /\ Cardinality(P) \in Nat
  <2> HIDE DEF f, P, C
  <2>1. QED
    BY <1>3, <1>4, FS_Injection, FS_CardinalityType
<1>7. Required \in Nat /\ Required <= Cardinality(C)
  BY SubmissionsAssumption DEF EnoughOf
<1> HIDE DEF P, C
<1>8. QED
  BY <1>5, <1>6, <1>7 DEF P, C

LEMMA WorkCounted ==
  ASSUME NEW T
  PROVE  S!Cardinality(T) = Cardinality(T)
BY DEF S!Cardinality, Cardinality

\* Rows join, keep their authors and stay graded; reviews join and stay done,
\* and work that the request x gives is not given by others, unless in d.
Grown(rs, ss) ==
  /\ Len(rs) \in Nat /\ Len(ss) \in Nat /\ 1..Len(rs) \subseteq 1..Len(ss)
  /\ \A i \in 1..Len(rs) : /\ ss[i].author = rs[i].author
                           /\ rs[i].graded # Nobody => ss[i].graded # Nobody
Joined(rv, rw) ==
  /\ Len(rv) \in Nat /\ Len(rw) \in Nat /\ 1..Len(rv) \subseteq 1..Len(rw)
  /\ \A k \in 1..Len(rv) : /\ rw[k].row = rv[k].row
                           /\ rw[k].reviewer = rv[k].reviewer
                           /\ rv[k].done => rw[k].done
Spared(x, rv, rw, d) ==
  Lists(x) /\ x.by \notin d =>
    \A k \in 1..Len(rw) : k \notin 1..Len(rv) => rw[k].reviewer # x.by

LEMMA JoinedGrows ==
  ASSUME NEW rv, NEW rw, Joined(rv, rw), NEW i
  PROVE  Complete(i, rv) \subseteq Complete(i, rw)
BY DEF Joined, Complete

LEMMA InformedStill ==
  ASSUME NEW x \in Errand, NEW rs, NEW ss, NEW rv, NEW rw, NEW d, NEW e,
         d \subseteq e, Grown(rs, ss), Joined(rv, rw), Spared(x, rv, rw, e),
         Informed(x, rs, rv, d)
  PROVE  Informed(x, ss, rw, e)
<1>1. x.pc \in {"increment", "mark", "count", "record", "grade", "write"} =>
        x.row \in 1..Len(rs) /\ x.row \in 1..Len(ss)
  BY DEF Informed, Grown
<1>2. x.pc \in {"mark", "count", "record", "write"} /\ ~x.ungraded =>
        ss[x.row].graded # Nobody
  BY <1>1 DEF Informed, Grown
<1>3. x.pc = "mark" => x.review \in 1..Len(rw) /\ rw[x.review].row = x.row
  BY DEF Informed, Joined
<1>4. /\ Cardinality(Complete(x.row, rv)) \in Nat
      /\ Cardinality(Complete(x.row, rw)) \in Nat
      /\ Cardinality(Complete(x.row, rv)) <= Cardinality(Complete(x.row, rw))
      /\ EnoughOf(x.row, rv) => EnoughOf(x.row, rw)
  BY JoinedGrows, CompleteGrows DEF Joined
<1>5. x.pc = "record" => x.count <= Cardinality(Complete(x.row, rw))
  BY <1>4 DEF Informed, Errand
<1>6. x.pc = "grade" => EnoughOf(x.row, rw)
  BY <1>4 DEF Informed
<1>7. Lists(x) => \A i : Unseen(i, x.by, rs, rv, d) => Unseen(i, x.by, ss, rw, e)
  BY DEF Unseen, Grown, Joined, Spared
<1>8. x.pc = "create" \/ Lists(x) => x.by \in Learners
  BY DEF Informed
<1>9. /\ x.pc = "assign" => \A i \in x.todo : Unseen(i, x.by, ss, rw, e)
      /\ x.pc = "increment" => \A i \in x.todo \ {x.row} : Unseen(i, x.by, ss, rw, e)
  BY <1>7 DEF Informed, Lists
<1>10. QED
  BY <1>1, <1>2, <1>3, <1>5, <1>6, <1>8, <1>9 DEF Informed

\* One request moves, and rows and reviews with it.
LEMMA WorkMoves ==
  ASSUME WorkInv, NEW s \in Slots, NEW x \in Errand,
         request' = [request EXCEPT ![s] = x],
         rows' \in Seq(Work), reviews' \in Seq(PeerReview),
         fails' \in Nat, fails' = 0 => fails = 0,
         doubled \subseteq doubled', doubled' \subseteq Learners,
         Grown(rows, rows'), Joined(reviews, reviews'),
         \A t \in Slots : t # s =>
           Spared(request[t], reviews, reviews', doubled'),
         Proper(rows', reviews', doubled'),
         Informed(x, rows', reviews', doubled'),
         \A t \in Slots : t # s => Apart(x, request[t], doubled'),
         \A i \in 1..Len(rows') : Judged(i, rows', reviews'),
         fails' = 0 => \A i \in 1..Len(rows') :
           EnoughOf(i, reviews') /\ rows'[i].graded = Nobody =>
             \/ WillGrade(x, i)
             \/ \E t \in Slots : t # s /\ WillGrade(request[t], i)
  PROVE  WorkInv'
<1>1. /\ request' \in [Slots -> Errand] /\ request'[s] = x
      /\ \A t \in Slots : t # s => request'[t] = request[t]
  BY DEF WorkInv, WorkTyped
<1>2. WorkTyped'
  BY <1>1 DEF WorkTyped, Work, PeerReview, Errand
<1>3. ASSUME NEW t \in Slots, t # s
      PROVE  Informed(request[t], rows', reviews', doubled')
  <2>1. request[t] \in Errand /\ Informed(request[t], rows, reviews, doubled)
    BY DEF WorkInv, WorkTyped
  <2>2. QED
    BY <1>3, <2>1, InformedStill
<1>4. \A t \in Slots : Informed(request'[t], rows', reviews', doubled')
  BY <1>1, <1>3
<1>5. \A t, v \in Slots : t # v => Apart(request'[t], request'[v], doubled')
  BY <1>1 DEF WorkInv, Apart
<1>6. fails' = 0 => \A i \in 1..Len(rows') : Attended(i, rows', reviews', request')
  BY <1>1 DEF Attended
<1>7. QED
  BY <1>2, <1>4, <1>5, <1>6 DEF WorkInv

LEMMA NothingGrown ==
  ASSUME WorkInv
  PROVE  /\ Grown(rows, rows) /\ Joined(reviews, reviews)
         /\ \A x, d : Spared(x, reviews, reviews, d)
BY DEF WorkInv, WorkTyped, Grown, Joined, Spared

\* A request that goes on giving work stays apart from the others.
LEMMA ApartStill ==
  ASSUME WorkInv, NEW s \in Slots, NEW x,
         Lists(x) => Lists(request[s]) /\ x.by = request[s].by
  PROVE  \A t \in Slots : t # s => Apart(x, request[t], doubled)
BY DEF WorkInv, Apart

\* Only the request moves.
LEMMA ErrandMoves ==
  ASSUME WorkInv, NEW s \in Slots, NEW x \in Errand,
         request' = [request EXCEPT ![s] = x],
         UNCHANGED <<rows, reviews, doubled, fails>>,
         Informed(x, rows, reviews, doubled),
         Lists(x) => Lists(request[s]) /\ x.by = request[s].by,
         \A i \in 1..Len(rows) :
           WillGrade(request[s], i) /\ EnoughOf(i, reviews)
             /\ rows[i].graded = Nobody => WillGrade(x, i)
  PROVE  WorkInv'
<1>1. /\ rows' \in Seq(Work) /\ reviews' \in Seq(PeerReview) /\ fails' \in Nat
      /\ Proper(rows', reviews', doubled') /\ Informed(x, rows', reviews', doubled')
      /\ \A i \in 1..Len(rows') : Judged(i, rows', reviews')
      /\ doubled \subseteq doubled' /\ doubled' \subseteq Learners
  BY DEF WorkInv, WorkTyped
<1>2. /\ Grown(rows, rows') /\ Joined(reviews, reviews')
      /\ \A t \in Slots : Spared(request[t], reviews, reviews', doubled')
  BY NothingGrown
<1>3. \A t \in Slots : t # s => Apart(x, request[t], doubled')
  BY ApartStill
<1>4. fails' = 0 => \A i \in 1..Len(rows') :
        EnoughOf(i, reviews') /\ rows'[i].graded = Nobody =>
          \/ WillGrade(x, i)
          \/ \E t \in Slots : t # s /\ WillGrade(request[t], i)
  BY DEF WorkInv, Attended
<1>5. QED
  BY <1>1, <1>2, <1>3, <1>4, WorkMoves

\* The request moves and the rows change or are joined.
LEMMA RowsMove ==
  ASSUME WorkInv, NEW s \in Slots, NEW x \in Errand,
         request' = [request EXCEPT ![s] = x],
         UNCHANGED <<reviews, doubled, fails>>, rows' \in Seq(Work),
         Grown(rows, rows'),
         Informed(x, rows', reviews, doubled),
         Lists(x) => Lists(request[s]) /\ x.by = request[s].by,
         \A i \in 1..Len(rows') : Judged(i, rows', reviews),
         \A i \in 1..Len(rows) :
           WillGrade(request[s], i) /\ EnoughOf(i, reviews)
             /\ rows'[i].graded = Nobody => WillGrade(x, i)
  PROVE  WorkInv'
<1>1. /\ reviews' \in Seq(PeerReview) /\ fails' \in Nat
      /\ doubled \subseteq doubled' /\ doubled' \subseteq Learners
  BY DEF WorkInv, WorkTyped
<1>2. /\ Joined(reviews, reviews')
      /\ \A t \in Slots : Spared(request[t], reviews, reviews', doubled')
  BY NothingGrown
<1>3. Proper(rows', reviews', doubled')
  BY DEF WorkInv, Proper, Grown
<1>4. ASSUME fails' = 0, NEW i \in 1..Len(rows'), EnoughOf(i, reviews),
             rows'[i].graded = Nobody
      PROVE  \/ WillGrade(x, i)
             \/ \E t \in Slots : t # s /\ WillGrade(request[t], i)
  <2>1. i \in 1..Len(rows)
    <3>1. Complete(i, reviews) # {}
      <4>1. Required \in Nat \ {0} /\ Required <= Cardinality(Complete(i, reviews))
        BY <1>4, SubmissionsAssumption DEF EnoughOf
      <4>2. Complete(i, reviews) = {} => Cardinality(Complete(i, reviews)) = 0
        BY FS_EmptySet, Zenon
      <4>3. QED
        BY <4>1, <4>2
    <3>2. PICK k \in 1..Len(reviews) : reviews[k].row = i
      BY <3>1 DEF Complete
    <3>3. QED
      BY <3>2 DEF WorkInv, Proper
  <2>2. rows[i].graded = Nobody
    BY <1>4, <2>1 DEF Grown
  <2>3. QED
    BY <1>4, <2>1, <2>2 DEF WorkInv, Attended
<1>5. \A t \in Slots : t # s => Apart(x, request[t], doubled')
  BY ApartStill
<1>6. QED
  BY <1>1, <1>2, <1>3, <1>4, <1>5, WorkMoves

LEMMA SpareErrand ==
  /\ S!Idle \in Errand /\ S!Idle.pc = "idle" /\ ~Lists(S!Idle)
  /\ \A rs, rv, d : Informed(S!Idle, rs, rv, d)
  /\ \A i : ~WillGrade(S!Idle, i)
<1>1. S!Idle \in Errand /\ S!Idle.pc = "idle"
  BY DEF S!Idle, Errand, WorkPcs
<1>2. QED
  BY <1>1 DEF Informed, WillGrade, Lists

LEMMA WorkInit == S!Init => WorkInv
<1> SUFFICES ASSUME S!Init PROVE WorkInv
  OBVIOUS
<1>1. /\ rows = <<>> /\ reviews = <<>> /\ fails = 0 /\ doubled = {}
      /\ request = [s \in Slots |-> S!Idle]
  BY DEF S!Init
<1>2. 1..Len(rows) = {} /\ 1..Len(reviews) = {}
  BY <1>1
<1>3. WorkTyped
  BY <1>1, SpareErrand DEF WorkTyped
<1>4. QED
  BY <1>1, <1>2, <1>3, SpareErrand DEF WorkInv, Proper, Apart

\* What the invariant says of a request.
LEMMA ErrandFits ==
  ASSUME WorkInv, NEW s \in Slots
  PROVE  /\ request[s] \in Errand /\ request[s].pc \in WorkPcs
         /\ request[s].row \in Nat /\ request[s].review \in Nat
         /\ request[s].todo \in SUBSET Nat /\ request[s].ungraded \in BOOLEAN
         /\ request[s].count \in Nat /\ request = [t \in Slots |-> request[t]]
         /\ Informed(request[s], rows, reviews, doubled)
BY DEF WorkInv, WorkTyped, Errand

LEMMA WorkSubmit ==
  ASSUME WorkInv, NEW s \in Slots, NEW l \in Learners, S!Submit(s, l)
  PROVE  WorkInv'
<1> DEFINE x == [S!Idle EXCEPT !.pc = "create", !.by = l]
<1>1. /\ request[s].pc = "idle" /\ UNCHANGED <<rows, reviews, doubled, fails>>
      /\ request' = [request EXCEPT ![s] = x]
  BY DEF S!Submit, S!At
<1>2. x \in Errand /\ x.pc = "create" /\ x.by = l
  BY SpareErrand DEF Errand, WorkPcs
<1> HIDE DEF x
<1>3. /\ Informed(x, rows, reviews, doubled) /\ ~Lists(x)
      /\ \A i : ~WillGrade(request[s], i)
  BY <1>1, <1>2 DEF Informed, WillGrade, Lists
<1>4. QED
  BY <1>1, <1>2, <1>3, ErrandMoves

LEMMA WorkCreateRow ==
  ASSUME WorkInv, NEW s \in Slots, S!CreateRow(s)
  PROVE  WorkInv'
<1> DEFINE x == S!Idle
           a == [author |-> request[s].by, graded |-> Nobody, passed |-> FALSE,
                 assigned |-> 0, completed |-> 0, told |-> 0]
<1>1. /\ request[s].pc = "create" /\ UNCHANGED <<reviews, doubled, fails>>
      /\ rows' = Append(rows, a) /\ request' = [request EXCEPT ![s] = x]
  BY DEF S!CreateRow, S!At, S!Done
<1>2. rows \in Seq(Work) /\ request[s].by \in Learners
  BY <1>1, ErrandFits DEF WorkInv, WorkTyped, Informed
<1>3. a \in Work /\ a.graded = Nobody
  BY <1>2 DEF Work
<1> HIDE DEF a, x
<1>4. /\ rows' \in Seq(Work) /\ Len(rows') = Len(rows) + 1 /\ Len(rows) \in Nat
      /\ rows'[Len(rows) + 1] = a
      /\ \A j \in 1..Len(rows) : rows'[j] = rows[j]
  BY <1>1, <1>2, <1>3, RowAppended
<1>5. Grown(rows, rows')
  BY <1>4 DEF Grown
<1>6. ASSUME NEW i \in 1..Len(rows') PROVE Judged(i, rows', reviews)
  <2>1. CASE i \in 1..Len(rows)
    BY <1>4, <2>1 DEF WorkInv, Judged
  <2>2. CASE i = Len(rows) + 1
    BY <1>3, <1>4, <2>2, SubmissionsAssumption DEF Judged
  <2>3. QED
    BY <1>4, <2>1, <2>2
<1>7. \A i : ~WillGrade(request[s], i)
  BY <1>1 DEF WillGrade
<1>8. x \in Errand /\ Informed(x, rows', reviews, doubled) /\ ~Lists(x)
  BY SpareErrand DEF x
<1>9. QED
  BY <1>1, <1>4, <1>5, <1>6, <1>7, <1>8, RowsMove

\* Who looks at the reviews while another request gives the same learner work
\* is doubled from now on.
LEMMA WorkListReviews ==
  ASSUME WorkInv, NEW s \in Slots, NEW l \in Learners, S!ListReviews(s, l)
  PROVE  WorkInv'
<1>1. PICK todo \in SUBSET S!Candidates(l) :
        request' = [request EXCEPT ![s] =
                      [S!Idle EXCEPT !.pc = "assign", !.by = l, !.todo = todo]]
  BY DEF S!ListReviews
<1> DEFINE x == [S!Idle EXCEPT !.pc = "assign", !.by = l, !.todo = todo]
<1>2. /\ request[s].pc = "idle" /\ UNCHANGED <<rows, reviews, fails>>
      /\ doubled' = IF S!ListedTwice(l) THEN doubled \cup {l} ELSE doubled
  BY DEF S!ListReviews, S!At
<1>3. DOMAIN reviews = 1..Len(reviews) /\ Len(rows) \in Nat
  BY LenProperties DEF WorkInv, WorkTyped
<1>4. \A i \in todo : Unseen(i, l, rows, reviews, doubled')
  BY <1>3 DEF Unseen, S!Candidates, S!Ids, S!Mine
<1>5. todo \in SUBSET Nat
  BY <1>3, <1>4 DEF Unseen
<1>6. x \in Errand /\ x.pc = "assign" /\ x.todo = todo /\ x.by = l
  BY <1>5, SpareErrand DEF Errand, WorkPcs
<1>7. request' = [request EXCEPT ![s] = x]
  BY <1>1
<1> HIDE DEF x
<1>8. Informed(x, rows', reviews', doubled')
  BY <1>2, <1>4, <1>6 DEF Informed
<1>9. \A i : ~WillGrade(request[s], i)
  BY <1>2 DEF WillGrade
<1>10. \A t \in Slots : t # s => Apart(x, request[t], doubled')
  BY <1>2, <1>6 DEF Apart, Lists, S!ListedTwice
<1>11. doubled \subseteq doubled' /\ doubled' \subseteq Learners
  BY <1>2 DEF WorkInv, WorkTyped
<1>12. /\ rows' \in Seq(Work) /\ reviews' \in Seq(PeerReview) /\ fails' \in Nat
       /\ \A i \in 1..Len(rows') : Judged(i, rows', reviews')
  BY <1>2 DEF WorkInv, WorkTyped
<1>13. Proper(rows', reviews', doubled')
  BY <1>2, <1>11 DEF WorkInv, Proper
<1>14. /\ Grown(rows, rows') /\ Joined(reviews, reviews')
       /\ \A t \in Slots : Spared(request[t], reviews, reviews', doubled')
  BY <1>2, NothingGrown
<1>15. fails' = 0 => \A i \in 1..Len(rows') :
         EnoughOf(i, reviews') /\ rows'[i].graded = Nobody =>
           \E t \in Slots : t # s /\ WillGrade(request[t], i)
  BY <1>2, <1>9 DEF WorkInv, Attended
<1>16. QED
  BY <1>2, <1>6, <1>7, <1>8, <1>10, <1>11, <1>12, <1>13, <1>14, <1>15, WorkMoves

\* A new review is of work that its reviewer did not review yet.
LEMMA WorkAssign ==
  ASSUME WorkInv, NEW s \in Slots, S!Assign(s)
  PROVE  WorkInv'
<1>1. PICK i \in request[s].todo :
        /\ reviews' = Append(reviews, [reviewer |-> request[s].by, row |-> i,
                                       done |-> FALSE])
        /\ request' = [request EXCEPT ![s].pc = "increment", ![s].row = i]
  BY DEF S!Assign
<1> DEFINE x == [request[s] EXCEPT !.pc = "increment", !.row = i]
           l == request[s].by
           a == [reviewer |-> l, row |-> i, done |-> FALSE]
<1>2. /\ request[s].pc = "assign" /\ UNCHANGED <<rows, doubled, fails>>
  BY DEF S!Assign, S!At
<1>3. /\ request[s] \in Errand /\ request = [t \in Slots |-> request[t]]
      /\ \A j \in request[s].todo : Unseen(j, l, rows, reviews, doubled)
      /\ request[s].todo \in SUBSET Nat
      /\ l \in Learners
  BY <1>2, ErrandFits DEF Informed, Lists
<1>4. /\ reviews' = Append(reviews, a) /\ request' = [request EXCEPT ![s] = x]
  BY <1>1, <1>3
<1>5. a \in PeerReview /\ a.reviewer = l /\ a.row = i /\ a.done = FALSE
  BY <1>3 DEF PeerReview
<1>6. x \in Errand /\ x.pc = "increment" /\ x.row = i /\ x.todo = request[s].todo
      /\ x.by = l
  BY <1>3 DEF Errand, WorkPcs
<1> HIDE DEF a, x
<1> DEFINE n == Len(reviews)
<1>7. /\ reviews \in Seq(PeerReview) /\ rows \in Seq(Work) /\ Proper(rows, reviews, doubled)
      /\ fails \in Nat
  BY DEF WorkInv, WorkTyped
<1>8. /\ reviews' \in Seq(PeerReview) /\ Len(reviews') = n + 1 /\ n \in Nat
      /\ reviews'[n + 1] = a
      /\ \A j \in 1..n : reviews'[j] = reviews[j]
  BY <1>4, <1>5, <1>7, RowAppended
<1>9. \A k \in 1..Len(reviews') : k \in 1..n \/ k = n + 1
  BY <1>8
<1> HIDE DEF n
<1>10. Joined(reviews, reviews')
  <2>1. 1..n \subseteq 1..Len(reviews')
    BY <1>8
  <2>2. QED
    BY <1>8, <2>1 DEF Joined, n
<1>11. Unseen(i, l, rows, reviews, doubled)
  BY <1>3
<1>20. \A t \in Slots : t # s => Apart(request[s], request[t], doubled)
  BY DEF WorkInv
<1>21. \A t \in Slots : t # s => Spared(request[t], reviews, reviews', doubled)
  BY <1>2, <1>5, <1>8, <1>9, <1>20 DEF Spared, Apart, Lists, n
<1>22. \A t \in Slots : t # s => Apart(x, request[t], doubled)
  BY <1>2, <1>6, <1>20 DEF Apart, Lists
<1>12. Proper(rows, reviews', doubled)
  <2>1. \A k \in 1..Len(reviews') :
          /\ reviews'[k].row \in 1..Len(rows)
          /\ rows[reviews'[k].row].author # reviews'[k].reviewer
    BY <1>5, <1>7, <1>8, <1>9, <1>11 DEF Proper, Unseen, n
  <2>2. ASSUME NEW k \in 1..Len(reviews'), NEW m \in 1..Len(reviews'),
               reviews'[k].reviewer \notin doubled,
               reviews'[k].reviewer = reviews'[m].reviewer,
               reviews'[k].row = reviews'[m].row
        PROVE  k = m
    <3>1. l \notin doubled => \A j \in 1..n : reviews[j].reviewer = l =>
                                               reviews[j].row # i
      BY <1>11 DEF Unseen, n
    <3>2. CASE k \in 1..n /\ m \in 1..n
      BY <1>7, <1>8, <2>2, <3>2 DEF Proper, n
    <3>3. CASE k = n + 1 /\ m \in 1..n
      BY <1>5, <1>8, <2>2, <3>1, <3>3
    <3>4. CASE k \in 1..n /\ m = n + 1
      BY <1>5, <1>8, <2>2, <3>1, <3>4
    <3>5. QED
      BY <1>9, <3>2, <3>3, <3>4
  <2>3. QED
    BY <2>1, <2>2 DEF Proper
<1>13. \A j : Complete(j, reviews') = Complete(j, reviews)
  <2>1. 1..n \subseteq 1..Len(reviews')
    BY <1>8
  <2>2. QED
    BY <1>5, <1>8, <1>9, <2>1 DEF Complete, n
<1>14. \A j : EnoughOf(j, reviews') <=> EnoughOf(j, reviews)
  BY <1>13 DEF EnoughOf
<1>15. Informed(x, rows, reviews', doubled)
  <2>1. ASSUME NEW j \in x.todo \ {i} PROVE Unseen(j, l, rows, reviews', doubled)
    <3>1. Unseen(j, l, rows, reviews, doubled)
      BY <1>3, <1>6, <2>1
    <3>2. QED
      BY <1>5, <1>8, <1>9, <2>1, <3>1 DEF Unseen, n
  <2>2. QED
    BY <1>3, <1>6, <1>11, <2>1 DEF Informed, Unseen
<1>16. \A j \in 1..Len(rows) : Judged(j, rows, reviews')
  BY <1>14 DEF WorkInv, Judged
<1>17. fails = 0 => \A j \in 1..Len(rows) :
         EnoughOf(j, reviews') /\ rows[j].graded = Nobody =>
           \E t \in Slots : t # s /\ WillGrade(request[t], j)
  BY <1>2, <1>14 DEF WorkInv, Attended, WillGrade
<1>18. Grown(rows, rows)
  BY NothingGrown
<1>23. doubled \subseteq doubled' /\ doubled' \subseteq Learners
  BY <1>2 DEF WorkInv, WorkTyped
<1>19. QED
  BY <1>2, <1>4, <1>6, <1>7, <1>8, <1>10, <1>12, <1>15, <1>16, <1>17, <1>18,
     <1>21, <1>22, <1>23, WorkMoves

\* One row is written; it keeps its author and its grade, or is graded.
LEMMA RowGrown ==
  ASSUME WorkInv, NEW i \in 1..Len(rows), NEW a \in Work,
         a.author = rows[i].author, rows[i].graded # Nobody => a.graded # Nobody,
         rows' = [rows EXCEPT ![i] = a]
  PROVE  /\ rows' \in Seq(Work) /\ Grown(rows, rows') /\ rows'[i] = a
         /\ Len(rows') = Len(rows) /\ Len(rows) \in Nat
         /\ \A j \in 1..Len(rows) : j # i => rows'[j] = rows[j]
<1>1. rows \in Seq(Work) /\ Len(rows) \in Nat
  BY DEF WorkInv, WorkTyped
<1>2. /\ rows' \in Seq(Work) /\ Len(rows') = Len(rows) /\ rows'[i] = a
      /\ \A j \in 1..Len(rows) : j # i => rows'[j] = rows[j]
  BY <1>1, RowWritten
<1>3. QED
  BY <1>1, <1>2 DEF Grown

LEMMA WorkIncrement ==
  ASSUME WorkInv, NEW s \in Slots, S!Increment(s)
  PROVE  WorkInv'
<1> DEFINE i == request[s].row
           left == request[s].todo \ {i}
           l == request[s].by
           w == [request[s] EXCEPT !.pc = "assign", !.row = 0, !.todo = left]
           x == IF left = {} THEN S!Idle ELSE w
           n == rows[i].assigned + 1
           a == [rows[i] EXCEPT !.assigned = n]
<1>1. /\ request[s].pc = "increment" /\ UNCHANGED <<reviews, doubled, fails>>
      /\ rows' = [rows EXCEPT ![i].assigned = @ + 1]
      /\ request' = [request EXCEPT ![s] = x]
  BY DEF S!Increment, S!At
<1>2. /\ i \in 1..Len(rows) /\ left \in SUBSET Nat
      /\ \A j \in left : Unseen(j, l, rows, reviews, doubled)
      /\ l \in Learners /\ request[s] \in Errand
  BY <1>1, ErrandFits DEF Informed, Lists
<1>3. rows \in Seq(Work) /\ rows[i] \in Work
  BY <1>2 DEF WorkInv, WorkTyped
<1> HIDE DEF i, left
<1>4. rows' = [rows EXCEPT ![i] = a]
  BY <1>1, <1>2, <1>3
<1>5. /\ a \in Work /\ a.author = rows[i].author /\ a.graded = rows[i].graded
      /\ a.told = rows[i].told
  <2>1. n \in Nat
    BY <1>3 DEF Work
  <2> HIDE DEF n
  <2>2. QED
    BY <1>3, <2>1 DEF Work
<1> HIDE DEF a
<1>6. /\ rows' \in Seq(Work) /\ Grown(rows, rows') /\ rows'[i] = a
      /\ Len(rows') = Len(rows) /\ Len(rows) \in Nat
      /\ \A j \in 1..Len(rows) : j # i => rows'[j] = rows[j]
  BY <1>2, <1>4, <1>5, RowGrown
<1>7. w \in Errand /\ w.pc = "assign" /\ w.todo = left /\ w.by = l
  BY <1>2 DEF Errand, WorkPcs
<1> HIDE DEF w
<1>8. x \in Errand /\ (x = S!Idle \/ x = w)
  BY <1>7, SpareErrand
<1> HIDE DEF x
<1>9. Informed(x, rows', reviews, doubled)
  <2>1. \A j \in left : Unseen(j, l, rows', reviews, doubled)
    BY <1>2, <1>6 DEF Unseen, Grown
  <2>2. Informed(w, rows', reviews, doubled)
    BY <1>2, <1>7, <2>1 DEF Informed
  <2>3. QED
    BY <1>8, <2>2, SpareErrand
<1>10. \A j \in 1..Len(rows') : Judged(j, rows', reviews)
  BY <1>5, <1>6 DEF WorkInv, Judged
<1>11. \A j : ~WillGrade(request[s], j)
  BY <1>1 DEF WillGrade
<1>13. Lists(x) => Lists(request[s]) /\ x.by = request[s].by
  BY <1>1, <1>7, <1>8, SpareErrand DEF Lists
<1>12. QED
  BY <1>1, <1>6, <1>8, <1>9, <1>10, <1>11, <1>13, RowsMove

LEMMA WorkReadReview ==
  ASSUME WorkInv, NEW s \in Slots, NEW l \in Learners,
         S!ReadReview(s, l)
  PROVE  WorkInv'
<1>1. PICK k \in S!Mine(l) :
        request' = [request EXCEPT ![s] =
          [S!Idle EXCEPT !.pc = "mark", !.by = l, !.review = k,
                         !.row = reviews[k].row,
                         !.ungraded = ~S!Graded(reviews[k].row)]]
  BY DEF S!ReadReview
<1>2. /\ request[s].pc = "idle" /\ UNCHANGED <<rows, reviews, doubled, fails>>
  BY DEF S!ReadReview, S!At
<1>3. k \in 1..Len(reviews) /\ Len(reviews) \in Nat /\ reviews[k] \in PeerReview
  <2>1. reviews \in Seq(PeerReview)
    BY DEF WorkInv, WorkTyped
  <2>2. DOMAIN reviews = 1..Len(reviews) /\ k \in DOMAIN reviews
    BY <2>1, LenProperties DEF S!Mine
  <2>3. QED
    BY <2>1, <2>2
<1> DEFINE i == reviews[k].row
           u == ~S!Graded(i)
           x == [S!Idle EXCEPT !.pc = "mark", !.by = l, !.review = k, !.row = i,
                               !.ungraded = u]
<1>4. i \in Nat /\ k \in Nat /\ u \in BOOLEAN /\ i \in 1..Len(rows)
  BY <1>3 DEF PeerReview, S!Graded, WorkInv, Proper
<1>5. ~u => rows[i].graded # Nobody
  BY DEF S!Graded
<1>6. request' = [request EXCEPT ![s] = x]
  BY <1>1
<1> HIDE DEF u
<1>7. /\ x \in Errand /\ x.pc = "mark" /\ x.review = k /\ x.row = i
      /\ x.ungraded = u
  BY <1>4, SpareErrand DEF Errand, WorkPcs
<1> HIDE DEF x
<1>8. Informed(x, rows, reviews, doubled) /\ ~Lists(x)
  BY <1>3, <1>4, <1>5, <1>7 DEF Informed, Lists
<1>9. \A j : ~WillGrade(request[s], j)
  BY <1>2 DEF WillGrade
<1>10. QED
  BY <1>2, <1>6, <1>7, <1>8, <1>9, ErrandMoves

\* The review that completes the set is counted by its own request, or the work
\* was graded when the request read it.
LEMMA WorkMarkDone ==
  ASSUME WorkInv, NEW s \in Slots, S!MarkDone(s)
  PROVE  WorkInv'
<1> DEFINE k == request[s].review
           x == [request[s] EXCEPT !.pc = "count"]
           a == [reviews[k] EXCEPT !.done = TRUE]
<1>1. /\ request[s].pc = "mark" /\ UNCHANGED <<rows, doubled, fails>>
      /\ reviews' = [reviews EXCEPT ![k].done = TRUE]
      /\ request' = [request EXCEPT ![s].pc = "count"]
  BY DEF S!MarkDone, S!At, S!Goto
<1>2. /\ request[s] \in Errand /\ request = [t \in Slots |-> request[t]]
      /\ k \in 1..Len(reviews) /\ reviews[k].row = request[s].row
      /\ request[s].row \in 1..Len(rows)
      /\ ~request[s].ungraded => rows[request[s].row].graded # Nobody
  BY <1>1, ErrandFits DEF Informed
<1>3. /\ reviews \in Seq(PeerReview) /\ reviews[k] \in PeerReview
      /\ Len(reviews) \in Nat
  BY <1>2 DEF WorkInv, WorkTyped
<1>4. request' = [request EXCEPT ![s] = x]
  BY <1>1, <1>2
<1>5. /\ x \in Errand /\ x.pc = "count" /\ x.row = request[s].row
      /\ x.ungraded = request[s].ungraded
  BY <1>2 DEF Errand, WorkPcs
<1> HIDE DEF k, x
<1>6. reviews' = [reviews EXCEPT ![k] = a]
  BY <1>1, <1>2, <1>3
<1>7. /\ a \in PeerReview /\ a.row = reviews[k].row
      /\ a.reviewer = reviews[k].reviewer /\ a.done = TRUE
  BY <1>3 DEF PeerReview
<1> HIDE DEF a
<1>8. /\ reviews' \in Seq(PeerReview) /\ Len(reviews') = Len(reviews)
      /\ reviews'[k] = a
      /\ \A j \in 1..Len(reviews) : j # k => reviews'[j] = reviews[j]
  BY <1>2, <1>3, <1>6, <1>7, RowWritten
<1>9. \A j \in 1..Len(reviews) :
        /\ reviews'[j].row = reviews[j].row
        /\ reviews'[j].reviewer = reviews[j].reviewer
        /\ reviews[j].done => reviews'[j].done
  BY <1>7, <1>8
<1>10. /\ Joined(reviews, reviews')
       /\ \A t \in Slots : Spared(request[t], reviews, reviews', doubled)
  BY <1>3, <1>8, <1>9 DEF Joined, Spared
<1>11. Proper(rows, reviews', doubled)
  BY <1>8, <1>9 DEF WorkInv, Proper
<1>12. /\ Informed(x, rows, reviews', doubled) /\ ~Lists(x)
       /\ \A t \in Slots : Apart(x, request[t], doubled)
  BY <1>2, <1>5 DEF Informed, Lists, Apart
<1>13. /\ Len(reviews') \in Nat
       /\ \A j : EnoughOf(j, reviews) => EnoughOf(j, reviews')
  <2>1. Len(reviews') \in Nat /\ Joined(reviews, reviews')
    BY <1>1, <1>3, <1>8, <1>10
  <2>2. ASSUME NEW j PROVE EnoughOf(j, reviews) => EnoughOf(j, reviews')
    <3>1. Complete(j, reviews) \subseteq Complete(j, reviews')
      BY <2>1, JoinedGrows
    <3>2. QED
      BY <1>3, <2>1, <3>1, CompleteGrows
  <2>3. QED
    BY <2>1, <2>2
<1>14. \A j \in 1..Len(rows) : Judged(j, rows, reviews')
  BY <1>13 DEF WorkInv, Judged
<1>15. ASSUME fails = 0, NEW j \in 1..Len(rows), EnoughOf(j, reviews'),
              rows[j].graded = Nobody
       PROVE  \/ WillGrade(x, j)
              \/ \E t \in Slots : t # s /\ WillGrade(request[t], j)
  <2>1. CASE j = x.row
    BY <1>2, <1>5, <1>15, <2>1 DEF WillGrade, Errand
  <2>2. CASE j # x.row
    <3>1. Complete(j, reviews') = Complete(j, reviews)
      BY <1>2, <1>5, <1>7, <1>8, <2>2 DEF Complete
    <3>2. EnoughOf(j, reviews)
      BY <1>15, <3>1 DEF EnoughOf
    <3>3. PICK t \in Slots : WillGrade(request[t], j)
      BY <1>15, <3>2 DEF WorkInv, Attended
    <3>4. t # s
      BY <1>1, <3>3 DEF WillGrade
    <3>5. QED
      BY <3>3, <3>4
  <2>3. QED
    BY <2>1, <2>2
<1>16. /\ Grown(rows, rows) /\ rows \in Seq(Work) /\ fails \in Nat
       /\ doubled \subseteq doubled' /\ doubled' \subseteq Learners
  BY <1>1, NothingGrown DEF WorkInv, WorkTyped
<1>17. QED
  BY <1>1, <1>4, <1>5, <1>8, <1>10, <1>11, <1>12, <1>14, <1>15, <1>16, WorkMoves

LEMMA WorkCountCompleted ==
  ASSUME WorkInv, NEW s \in Slots, S!CountCompleted(s)
  PROVE  WorkInv'
<1> DEFINE i == request[s].row
           n == Cardinality(Complete(i, reviews))
           x == [request[s] EXCEPT !.pc = "record", !.count = n]
<1>1. /\ request[s].pc = "count" /\ UNCHANGED <<rows, reviews, doubled, fails>>
      /\ request' = [request EXCEPT ![s].pc = "record",
                                    ![s].count = S!Cardinality(S!Completed(i))]
  BY DEF S!CountCompleted, S!At
<1>2. /\ request[s] \in Errand /\ request = [t \in Slots |-> request[t]]
      /\ i \in 1..Len(rows)
      /\ ~request[s].ungraded => rows[i].graded # Nobody
  BY <1>1, ErrandFits DEF Informed
<1>3. S!Completed(i) = Complete(i, reviews) /\ Len(reviews) \in Nat
  <2>1. reviews \in Seq(PeerReview)
    BY DEF WorkInv, WorkTyped
  <2>2. DOMAIN reviews = 1..Len(reviews) /\ Len(reviews) \in Nat
    BY <2>1, LenProperties
  <2>3. QED
    BY <2>2 DEF S!Completed, Complete
<1>4. S!Cardinality(S!Completed(i)) = n /\ n \in Nat
  BY <1>3, WorkCounted, CompleteIsFinite
<1> HIDE DEF n
<1>5. request' = [request EXCEPT ![s] = x]
  BY <1>1, <1>2, <1>4
<1>6. /\ x \in Errand /\ x.pc = "record" /\ x.count = n /\ x.row = i
      /\ x.ungraded = request[s].ungraded
  BY <1>2, <1>4 DEF Errand, WorkPcs
<1> HIDE DEF x, i
<1>7. n <= Cardinality(Complete(i, reviews))
  BY <1>4 DEF n
<1>8. Informed(x, rows, reviews, doubled) /\ ~Lists(x)
  BY <1>2, <1>6, <1>7 DEF Informed, Lists, i
<1>9. \A j \in 1..Len(rows) :
        WillGrade(request[s], j) /\ EnoughOf(j, reviews) => WillGrade(x, j)
  BY <1>1, <1>6 DEF WillGrade, EnoughOf, i, n
<1>10. QED
  BY <1>1, <1>5, <1>6, <1>8, <1>9, ErrandMoves

LEMMA WorkRecordCount ==
  ASSUME WorkInv, NEW s \in Slots, S!RecordCount(s)
  PROVE  WorkInv'
<1> DEFINE i == request[s].row
           n == request[s].count
           a == [rows[i] EXCEPT !.completed = n]
           g == [request[s] EXCEPT !.pc = "grade"]
           goes == Required <= n /\ request[s].ungraded
           x == IF goes THEN g ELSE S!Idle
<1>1. /\ request[s].pc = "record" /\ UNCHANGED <<reviews, doubled, fails>>
      /\ rows' = [rows EXCEPT ![i].completed = n]
  BY DEF S!RecordCount, S!At
<1>2. /\ request[s] \in Errand /\ request = [t \in Slots |-> request[t]]
      /\ i \in 1..Len(rows) /\ n \in Nat
      /\ n <= Cardinality(Complete(i, reviews)) /\ request[s].ungraded \in BOOLEAN
  BY <1>1, ErrandFits DEF Informed
<1>3. request' = [request EXCEPT ![s] = x]
  <2>1. Required \in Nat /\ (S!Enough(s) <=> Required <= n)
    BY <1>2, SubmissionsAssumption DEF S!Enough
  <2>2. CASE goes
    BY <1>2, <2>1, <2>2 DEF S!RecordCount, S!Goto
  <2>3. CASE ~goes
    BY <1>2, <2>1, <2>3 DEF S!RecordCount, S!Done
  <2>4. QED
    BY <2>2, <2>3
<1>4. rows \in Seq(Work) /\ rows[i] \in Work
  BY <1>2 DEF WorkInv, WorkTyped
<1>5. g \in Errand /\ g.pc = "grade" /\ g.row = i
  BY <1>2 DEF Errand, WorkPcs
<1> HIDE DEF g, i
<1>6. rows' = [rows EXCEPT ![i] = a]
  BY <1>1, <1>2, <1>4
<1>7. /\ a \in Work /\ a.author = rows[i].author /\ a.graded = rows[i].graded
      /\ a.told = rows[i].told
  BY <1>2, <1>4 DEF Work
<1> HIDE DEF a, n
<1>8. /\ rows' \in Seq(Work) /\ Grown(rows, rows') /\ rows'[i] = a
      /\ Len(rows') = Len(rows) /\ Len(rows) \in Nat
      /\ \A j \in 1..Len(rows) : j # i => rows'[j] = rows[j]
  BY <1>2, <1>6, <1>7, RowGrown
<1>9. Required <= n => EnoughOf(i, reviews)
  <2>1. Len(reviews) \in Nat /\ Required \in Nat
    BY SubmissionsAssumption DEF WorkInv, WorkTyped
  <2>2. QED
    BY <1>2, <2>1, CompleteIsFinite DEF EnoughOf
<1>10. /\ x \in Errand /\ (goes => x = g) /\ (~goes => x = S!Idle)
  BY <1>5, SpareErrand
<1>11. Informed(x, rows', reviews, doubled) /\ ~Lists(x)
  <2>1. goes => Informed(g, rows', reviews, doubled) /\ ~Lists(g)
    BY <1>2, <1>5, <1>8, <1>9 DEF Informed, Lists
  <2>2. QED
    BY <1>10, <2>1, SpareErrand
<1>12. \A j \in 1..Len(rows') : Judged(j, rows', reviews)
  BY <1>7, <1>8 DEF WorkInv, Judged
<1>13. \A j : WillGrade(request[s], j) => WillGrade(x, j)
  BY <1>1, <1>5, <1>10 DEF WillGrade, i, n
<1> HIDE DEF x
<1>14. QED
  BY <1>1, <1>3, <1>8, <1>10, <1>11, <1>12, <1>13, RowsMove

LEMMA WorkGradeByPeers ==
  ASSUME WorkInv, NEW s \in Slots, S!GradeByPeers(s)
  PROVE  WorkInv'
<1> DEFINE i == request[s].row
           n == rows[i].told + 1
           x == S!Idle
<1>1. PICK passed \in BOOLEAN :
        rows' = [rows EXCEPT ![i].graded = "peers", ![i].passed = passed,
                             ![i].told = @ + 1]
  BY DEF S!GradeByPeers
<1>2. /\ request[s].pc = "grade" /\ UNCHANGED <<reviews, doubled, fails>>
      /\ request' = [request EXCEPT ![s] = x]
  BY DEF S!GradeByPeers, S!At, S!Done
<1>3. i \in 1..Len(rows) /\ EnoughOf(i, reviews)
  BY <1>2, ErrandFits DEF Informed
<1>4. rows \in Seq(Work) /\ rows[i] \in Work
  BY <1>3 DEF WorkInv, WorkTyped
<1>5. n \in Nat /\ n > 0
  BY <1>4 DEF Work
<1> DEFINE a == [rows[i] EXCEPT !.graded = "peers", !.passed = passed, !.told = n]
<1>6. rows' = [rows EXCEPT ![i] = a]
  BY <1>1, <1>3, <1>4
<1> HIDE DEF n, i
<1>7. /\ a \in Work /\ a.author = rows[i].author /\ a.graded = "peers"
      /\ a.told = n
  BY <1>4, <1>5 DEF Work
<1> HIDE DEF a, x
<1>8. "peers" # Nobody
  BY SubmissionsAssumption
<1>9. /\ rows' \in Seq(Work) /\ Grown(rows, rows') /\ rows'[i] = a
      /\ Len(rows') = Len(rows) /\ Len(rows) \in Nat
      /\ \A j \in 1..Len(rows) : j # i => rows'[j] = rows[j]
  BY <1>3, <1>6, <1>7, <1>8, RowGrown
<1>10. x \in Errand /\ Informed(x, rows', reviews, doubled) /\ ~Lists(x)
  BY SpareErrand DEF x
<1>11. \A j \in 1..Len(rows') : Judged(j, rows', reviews)
  BY <1>3, <1>5, <1>7, <1>9 DEF WorkInv, Judged
<1>12. \A j \in 1..Len(rows) :
         WillGrade(request[s], j) => rows'[j].graded # Nobody
  BY <1>7, <1>8, <1>9 DEF WillGrade, i
<1>13. QED
  BY <1>2, <1>9, <1>10, <1>11, <1>12, RowsMove

LEMMA WorkReadToGrade ==
  ASSUME WorkInv, NEW s \in Slots, NEW i \in S!Ids, S!ReadToGrade(s, i)
  PROVE  WorkInv'
<1> DEFINE u == ~S!Graded(i)
           x == [S!Idle EXCEPT !.pc = "write", !.by = Creator, !.row = i, !.ungraded = u]
<1>1. /\ request[s].pc = "idle" /\ UNCHANGED <<rows, reviews, doubled, fails>>
      /\ request' = [request EXCEPT ![s] = x]
  BY DEF S!ReadToGrade, S!At
<1>2. i \in 1..Len(rows) /\ i \in Nat /\ u \in BOOLEAN
  BY DEF S!Ids, S!Graded, WorkInv, WorkTyped
<1>3. ~u => rows[i].graded # Nobody
  BY DEF S!Graded
<1> HIDE DEF u
<1>4. x \in Errand /\ x.pc = "write" /\ x.row = i /\ x.ungraded = u
  BY <1>2, SpareErrand DEF Errand, WorkPcs
<1> HIDE DEF x
<1>5. Informed(x, rows, reviews, doubled) /\ ~Lists(x)
  BY <1>2, <1>3, <1>4 DEF Informed, Lists
<1>6. \A j : ~WillGrade(request[s], j)
  BY <1>1 DEF WillGrade
<1>7. QED
  BY <1>1, <1>4, <1>5, <1>6, ErrandMoves

LEMMA WorkGradeByCreator ==
  ASSUME WorkInv, NEW s \in Slots, S!GradeByCreator(s)
  PROVE  WorkInv'
<1> DEFINE i == request[s].row
           n == IF request[s].ungraded THEN rows[i].told + 1 ELSE rows[i].told
           x == S!Idle
<1>1. PICK passed \in BOOLEAN :
        rows' = [rows EXCEPT ![i].graded = Creator, ![i].passed = passed,
                   ![i].told = IF request[s].ungraded THEN @ + 1 ELSE @]
  BY DEF S!GradeByCreator
<1>2. /\ request[s].pc = "write" /\ UNCHANGED <<reviews, doubled, fails>>
      /\ request' = [request EXCEPT ![s] = x]
  BY DEF S!GradeByCreator, S!At, S!Done
<1>3. /\ i \in 1..Len(rows)
      /\ ~request[s].ungraded => rows[i].graded # Nobody
  BY <1>2, ErrandFits DEF Informed
<1>4. /\ rows \in Seq(Work) /\ rows[i] \in Work
      /\ rows[i].graded # Nobody => rows[i].told > 0
  BY <1>3 DEF WorkInv, WorkTyped, Judged
<1>5. n \in Nat /\ n > 0
  BY <1>3, <1>4 DEF Work
<1> DEFINE a == [rows[i] EXCEPT !.graded = Creator, !.passed = passed, !.told = n]
<1>6. rows' = [rows EXCEPT ![i] = a]
  BY <1>1, <1>3, <1>4
<1> HIDE DEF n, i
<1>7. /\ a \in Work /\ a.author = rows[i].author /\ a.graded = Creator
      /\ a.told = n
  BY <1>4, <1>5 DEF Work
<1> HIDE DEF a, x
<1>8. Creator # Nobody /\ Creator # "peers"
  BY SubmissionsAssumption
<1>9. /\ rows' \in Seq(Work) /\ Grown(rows, rows') /\ rows'[i] = a
      /\ Len(rows') = Len(rows) /\ Len(rows) \in Nat
      /\ \A j \in 1..Len(rows) : j # i => rows'[j] = rows[j]
  BY <1>3, <1>6, <1>7, <1>8, RowGrown
<1>10. x \in Errand /\ Informed(x, rows', reviews, doubled) /\ ~Lists(x)
  BY SpareErrand DEF x
<1>11. \A j \in 1..Len(rows') : Judged(j, rows', reviews)
  BY <1>3, <1>5, <1>7, <1>8, <1>9 DEF WorkInv, Judged
<1>12. \A j : ~WillGrade(request[s], j)
  BY <1>2 DEF WillGrade
<1>13. QED
  BY <1>2, <1>9, <1>10, <1>11, <1>12, RowsMove

LEMMA WorkFail ==
  ASSUME WorkInv, NEW s \in Slots, S!Fail(s)
  PROVE  WorkInv'
<1> DEFINE x == S!Idle
<1>1. /\ UNCHANGED <<rows, reviews, doubled>> /\ fails' = fails + 1
      /\ request' = [request EXCEPT ![s] = x]
  BY DEF S!Fail, S!Done
<1> HIDE DEF x
<1>2. /\ rows' \in Seq(Work) /\ reviews' \in Seq(PeerReview)
      /\ fails' \in Nat /\ fails' # 0 /\ Proper(rows', reviews', doubled')
      /\ \A i \in 1..Len(rows') : Judged(i, rows', reviews')
      /\ doubled \subseteq doubled' /\ doubled' \subseteq Learners
  BY <1>1 DEF WorkInv, WorkTyped
<1>3. /\ Grown(rows, rows') /\ Joined(reviews, reviews')
      /\ \A t \in Slots : Spared(request[t], reviews, reviews', doubled')
  BY <1>1, NothingGrown
<1>4. /\ x \in Errand /\ Informed(x, rows', reviews', doubled')
      /\ \A t \in Slots : Apart(x, request[t], doubled')
  BY SpareErrand DEF x, Apart
<1>5. QED
  BY <1>1, <1>2, <1>3, <1>4, WorkMoves

LEMMA WorkNext == WorkInv /\ S!Next => WorkInv'
<1> SUFFICES ASSUME WorkInv, S!Next PROVE WorkInv'
  OBVIOUS
<1>1. PICK s \in Slots :
        \/ \E l \in Learners :
             S!Submit(s, l) \/ S!ListReviews(s, l) \/ S!ReadReview(s, l)
        \/ S!CreateRow(s) \/ S!Assign(s) \/ S!Increment(s)
        \/ S!MarkDone(s) \/ S!CountCompleted(s) \/ S!RecordCount(s)
        \/ S!GradeByPeers(s)
        \/ \E i \in S!Ids : S!ReadToGrade(s, i)
        \/ S!GradeByCreator(s) \/ S!Fail(s)
  BY DEF S!Next
<1>2. CASE \E l \in Learners :
             S!Submit(s, l) \/ S!ListReviews(s, l) \/ S!ReadReview(s, l)
  BY <1>2, WorkSubmit, WorkListReviews, WorkReadReview
<1>3. CASE S!CreateRow(s) \/ S!Assign(s) \/ S!Increment(s)
  BY <1>3, WorkCreateRow, WorkAssign, WorkIncrement
<1>4. CASE \/ S!MarkDone(s) \/ S!CountCompleted(s) \/ S!RecordCount(s)
           \/ S!GradeByPeers(s)
  BY <1>4, WorkMarkDone, WorkCountCompleted, WorkRecordCount, WorkGradeByPeers
<1>5. CASE \/ \E i \in S!Ids : S!ReadToGrade(s, i)
           \/ S!GradeByCreator(s) \/ S!Fail(s)
  BY <1>5, WorkReadToGrade, WorkGradeByCreator, WorkFail
<1>6. QED
  BY <1>1, <1>2, <1>3, <1>4, <1>5

ReviewsInv == part = "submissions" => WorkInv

LEMMA ReviewsAlways == LearningSpec => []ReviewsInv
<1>1. LearningInit => ReviewsInv
  BY WorkInit DEF LearningInit, ReviewsInv
<1>2. ReviewsInv /\ [LearningNext]_learningVars => ReviewsInv'
  <2> SUFFICES ASSUME ReviewsInv, [LearningNext]_learningVars PROVE ReviewsInv'
    OBVIOUS
  <2>1. CASE UNCHANGED learningVars
    BY <2>1 DEF learningVars, SubmissionsVars, RequestVars, ReviewsInv, WorkInv,
       WorkTyped
  <2>2. CASE LearningNext
    BY <2>2, WorkNext DEF LearningNext, ReviewsInv
  <2>3. QED
    BY <2>1, <2>2
<1>3. QED
  BY <1>1, <1>2, PTL DEF LearningSpec

\* However the reviews of a work interleave, a grade by peers rests on as many
\* reviews as the project asks for, none of them the author's, and by as many
\* different learners unless one of them looked at the reviews twice at once; and
\* without failures, when the requests are through, a work that enough reviews
\* are in for is graded and its author was told (submitReview and listMyReviews
\* in submissions.service.ts).
THEOREM PeersGradeRight == LearningSpec => []PeersGradeOnEnough
<1>1. ReviewsInv => PeersGradeOnEnough
  <2> SUFFICES ASSUME part = "submissions", WorkInv PROVE S!PeersGradeOnEnough
    BY DEF ReviewsInv, PeersGradeOnEnough
  <2>1. /\ reviews \in Seq(PeerReview) /\ Len(reviews) \in Nat
        /\ DOMAIN reviews = 1..Len(reviews) /\ Required \in Nat
        /\ Proper(rows, reviews, doubled)
    BY LenProperties, SubmissionsAssumption DEF WorkInv, WorkTyped
  <2>2. \A i : S!Completed(i) = Complete(i, reviews)
    BY <2>1 DEF S!Completed, Complete
  <2>3. ASSUME \A s \in Slots : S!At(s, "idle"), fails = 0, NEW i \in S!Ids,
               S!Cardinality(S!Completed(i)) >= Required
        PROVE  S!Graded(i) /\ rows[i].told > 0
    <3>1. i \in 1..Len(rows)
      BY DEF S!Ids
    <3>2. EnoughOf(i, reviews)
      BY <2>1, <2>2, <2>3, WorkCounted, CompleteIsFinite DEF EnoughOf
    <3>3. \A s \in Slots : ~WillGrade(request[s], i)
      BY <2>3 DEF S!At, WillGrade
    <3>4. rows[i].graded # Nobody
      BY <2>3, <3>1, <3>2, <3>3 DEF WorkInv, Attended
    <3>5. QED
      BY <3>1, <3>4 DEF WorkInv, Judged, S!Graded
  <2>4. ASSUME NEW i \in S!Ids, rows[i].graded = "peers"
        PROVE  /\ S!Cardinality(S!Completed(i)) >= Required
               /\ rows[i].author \notin S!Reviewers(i)
               /\ S!Reviewers(i) \cap doubled = {} =>
                    S!Cardinality(S!Reviewers(i)) >= Required
    <3> DEFINE P == {reviews[k].reviewer : k \in Complete(i, reviews)}
    <3>1. EnoughOf(i, reviews)
      BY <2>4 DEF S!Ids, WorkInv, Judged
    <3>2. S!Reviewers(i) = P
      BY <2>2 DEF S!Reviewers
    <3>3. Cardinality(P) \in Nat
      <4>1. P \subseteq Learners
        <5>1. \A k \in Complete(i, reviews) : reviews[k] \in PeerReview
          BY <2>1 DEF Complete
        <5>2. QED
          BY <5>1 DEF PeerReview
      <4>2. QED
        BY <4>1, SubmissionsAssumption, FS_Subset, FS_CardinalityType
    <3>4. rows[i].author \notin P
      BY <2>1 DEF Proper, Complete
    <3>5. P \cap doubled = {} => Required <= Cardinality(P)
      BY <2>1, <3>1, ReviewersDiffer
    <3>6. /\ S!Cardinality(P) = Cardinality(P)
          /\ S!Cardinality(S!Completed(i)) = Cardinality(Complete(i, reviews))
      BY <2>2, WorkCounted
    <3>7. Cardinality(Complete(i, reviews)) \in Nat
      BY <2>1, CompleteIsFinite
    <3> HIDE DEF P
    <3>8. QED
      BY <2>1, <3>1, <3>2, <3>3, <3>4, <3>5, <3>6, <3>7 DEF EnoughOf
  <2>5. QED
    BY <2>3, <2>4 DEF S!PeersGradeOnEnough
<1>2. QED
  BY <1>1, ReviewsAlways, PTL

----------------------------------------------------------------------------
(* Integrity: types.  Flags are counted over the log rows.                 *)

\* The count of the set s, from that of the set without its first event.
CountFrom(h, s, lg) ==
  IF s = {} THEN 0
  ELSE h[s \ {CHOOSE x \in s : TRUE}] + lg[CHOOSE x \in s : TRUE]

\* f counts the rows in lg of every part of T, an event at a time.
CountsOf(T, lg, f) ==
  f = [s \in SUBSET T |->
         IF s = {} THEN 0
         ELSE f[s \ {CHOOSE x \in s : TRUE}] + lg[CHOOSE x \in s : TRUE]]

\* h counts the parts of up to n events.
CountsTo(T, lg, n, h) ==
  /\ h = [s \in SUBSET T |-> h[s]]
  /\ \A s \in SUBSET T : Cardinality(s) <= n => h[s] = CountFrom(h, s, lg)

LEMMA CountIs ==
  ASSUME NEW T
  PROVE  I!Count(T) = (CHOOSE f : CountsOf(T, logs, f))[T]
BY Zenon DEF I!Count, I!ReduceSet, I!FoldSet, I!MapThenFoldSet, CountsOf

\* The set without its first event is smaller by one.
LEMMA WithoutFirst ==
  ASSUME NEW T, IsFiniteSet(T), NEW s \in SUBSET T, s # {}
  PROVE  LET x == CHOOSE x \in s : TRUE
         IN  /\ x \in s /\ s \ {x} \in SUBSET T
             /\ Cardinality(s) \in Nat /\ Cardinality(s) > 0
             /\ Cardinality(s \ {x}) = Cardinality(s) - 1
<1> DEFINE x == CHOOSE x \in s : TRUE
<1>1. x \in s
  OBVIOUS
<1> HIDE DEF x
<1>2. IsFiniteSet(s)
  BY FS_Subset
<1>3. /\ Cardinality(s) \in Nat
      /\ Cardinality(s \ {x}) = Cardinality(s) - 1
  BY <1>1, <1>2, FS_RemoveElement, FS_CardinalityType
<1>4. Cardinality(s) # 0
  BY <1>2, FS_EmptySet
<1> USE DEF x
<1>5. QED
  BY <1>1, <1>3, <1>4

LEMMA CountsGrow ==
  ASSUME NEW T, IsFiniteSet(T), NEW lg, NEW n \in Nat, NEW h, CountsTo(T, lg, n, h)
  PROVE  \E g : CountsTo(T, lg, n + 1, g)
<1> DEFINE g == [s \in SUBSET T |->
                   IF Cardinality(s) <= n THEN h[s] ELSE CountFrom(h, s, lg)]
<1>1. ASSUME NEW s \in SUBSET T, Cardinality(s) <= n + 1
      PROVE  g[s] = CountFrom(g, s, lg)
  <2>1. g[s] = CountFrom(h, s, lg)
    BY DEF CountsTo
  <2>2. CASE s = {}
    BY <2>1, <2>2 DEF CountFrom
  <2>3. CASE s # {}
    <3> DEFINE x == CHOOSE x \in s : TRUE
    <3>1. /\ s \ {x} \in SUBSET T /\ Cardinality(s) \in Nat
          /\ Cardinality(s \ {x}) = Cardinality(s) - 1
      BY <2>3, WithoutFirst
    <3>2. Cardinality(s \ {x}) <= n
      BY <1>1, <3>1
    <3>3. g[s \ {x}] = h[s \ {x}]
      BY <3>1, <3>2
    <3>4. QED
      BY <2>1, <2>3, <3>3 DEF CountFrom
  <2>4. QED
    BY <2>2, <2>3
<1>2. g = [s \in SUBSET T |-> g[s]]
  OBVIOUS
<1>3. CountsTo(T, lg, n + 1, g)
  BY <1>1, <1>2 DEF CountsTo
<1>4. QED
  BY <1>3

LEMMA CountsUpTo ==
  ASSUME NEW T, IsFiniteSet(T), NEW lg, NEW n \in Nat
  PROVE  \E h : CountsTo(T, lg, n, h)
<1> DEFINE N == {m \in Nat : ~ \E h : CountsTo(T, lg, m, h)}
<1> SUFFICES ASSUME N # {} PROVE FALSE
  OBVIOUS
<1>1. PICK k \in N : \A j \in N : k <= j
  <2>1. N \subseteq Nat
    OBVIOUS
  <2> HIDE DEF N
  <2>2. QED
    BY <2>1, SomeLeast
<1>2. k \in Nat /\ ~ \E h : CountsTo(T, lg, k, h)
  BY <1>1
<1>3. CASE k = 0
  <2> DEFINE h == [s \in SUBSET T |-> 0]
  <2>1. ASSUME NEW s \in SUBSET T, Cardinality(s) <= 0 PROVE s = {}
    <3>1. s # {} => Cardinality(s) \in Nat /\ Cardinality(s) > 0
      BY WithoutFirst
    <3>2. QED
      BY <2>1, <3>1
  <2>2. \A s \in SUBSET T : Cardinality(s) <= 0 => h[s] = CountFrom(h, s, lg)
    BY <2>1 DEF CountFrom
  <2>3. h = [s \in SUBSET T |-> h[s]]
    OBVIOUS
  <2>4. CountsTo(T, lg, 0, h)
    BY <2>2, <2>3 DEF CountsTo
  <2>5. QED
    BY <1>2, <1>3, <2>4
<1>4. CASE k # 0
  <2>1. k - 1 \in Nat /\ k - 1 \notin N /\ (k - 1) + 1 = k
    BY <1>1, <1>2, <1>4
  <2>2. PICK h : CountsTo(T, lg, k - 1, h)
    BY <2>1
  <2> HIDE DEF N
  <2>3. \E g : CountsTo(T, lg, (k - 1) + 1, g)
    BY <2>1, <2>2, CountsGrow
  <2>4. QED
    BY <1>2, <2>1, <2>3
<1>5. QED
  BY <1>3, <1>4

LEMMA CountsExist ==
  ASSUME NEW T, IsFiniteSet(T), NEW lg
  PROVE  \E f : CountsOf(T, lg, f)
<1>1. Cardinality(T) \in Nat
  BY FS_CardinalityType
<1>2. PICK h : CountsTo(T, lg, Cardinality(T), h)
  BY <1>1, CountsUpTo
<1>3. \A s \in SUBSET T : h[s] = CountFrom(h, s, lg)
  <2> SUFFICES ASSUME NEW s \in SUBSET T PROVE h[s] = CountFrom(h, s, lg)
    OBVIOUS
  <2>1. Cardinality(s) <= Cardinality(T)
    BY FS_Subset
  <2>2. QED
    BY <1>2, <2>1 DEF CountsTo
<1>4. h = [s \in SUBSET T |-> CountFrom(h, s, lg)]
  BY <1>2, <1>3 DEF CountsTo
<1>5. CountsOf(T, lg, h)
  BY <1>4, Zenon DEF CountsOf, CountFrom
<1>6. QED
  BY <1>5

\* Two rows at most are counted of each event.
LEMMA CountBounded ==
  ASSUME NEW T, IsFiniteSet(T), NEW lg, \A e \in T : lg[e] \in 0..2,
         NEW f, CountsOf(T, lg, f)
  PROVE  f[T] \in 0..2 * Cardinality(T)
<1>0. \A s \in SUBSET T : f[s] = CountFrom(f, s, lg)
  <2>1. f = [s \in SUBSET T |-> CountFrom(f, s, lg)]
    BY Zenon DEF CountsOf, CountFrom
  <2>2. QED
    BY <2>1, Zenon
<1> DEFINE Fits(s) == f[s] \in 0..2 * Cardinality(s)
           N == {n \in Nat : \E s \in SUBSET T : Cardinality(s) = n /\ ~Fits(s)}
<1>1. N = {}
  <2> SUFFICES ASSUME N # {} PROVE FALSE
    OBVIOUS
  <2>1. PICK k \in N : \A j \in N : k <= j
    <3>1. N \subseteq Nat
      OBVIOUS
    <3> HIDE DEF N
    <3>2. QED
      BY <3>1, SomeLeast
  <2>2. PICK s \in SUBSET T : Cardinality(s) = k /\ ~Fits(s)
    BY <2>1
  <2>3. CASE s = {}
    <3>1. f[s] = 0 /\ Cardinality(s) = 0
      BY <1>0, <2>3, FS_EmptySet DEF CountFrom
    <3>2. QED
      BY <2>2, <3>1
  <2>4. CASE s # {}
    <3> DEFINE x == CHOOSE x \in s : TRUE
    <3>1. /\ x \in T /\ s \ {x} \in SUBSET T
          /\ Cardinality(s) \in Nat /\ Cardinality(s) > 0
          /\ Cardinality(s \ {x}) = Cardinality(s) - 1
      BY <2>4, WithoutFirst
    <3>2. f[s] = f[s \ {x}] + lg[x]
      BY <1>0, <2>4 DEF CountFrom
    <3>3. lg[x] \in 0..2
      BY <3>1
    <3> HIDE DEF x
    <3>4. Fits(s \ {x})
      <4>1. Cardinality(s \ {x}) \in Nat /\ Cardinality(s \ {x}) < k
        BY <2>2, <3>1
      <4>2. Cardinality(s \ {x}) \notin N
        <5>1. \A j \in N : ~ (j < k)
          <6> HIDE DEF N
          <6>1. k \in Nat /\ \A j \in N : j \in Nat
            BY <2>1 DEF N
          <6>2. QED
            BY <2>1, <6>1
        <5> HIDE DEF N
        <5>2. QED
          BY <4>1, <5>1
      <4>3. QED
        BY <3>1, <4>1, <4>2
    <3>5. \A a, b, c \in Nat :
            c > 0 /\ a \in 0..2 * (c - 1) /\ b \in 0..2 => a + b \in 0..2 * c
      OBVIOUS
    <3>6. Fits(s)
      BY <3>1, <3>2, <3>3, <3>4, <3>5
    <3>7. QED
      BY <2>2, <3>6
  <2>5. QED
    BY <2>3, <2>4
<1>2. Cardinality(T) \in Nat
  BY FS_CardinalityType
<1>3. QED
  BY <1>1, <1>2

LEMMA CountOfLogs ==
  ASSUME NEW T, IsFiniteSet(T), \A e \in T : logs[e] \in 0..2
  PROVE  I!Count(T) \in 0..2 * Cardinality(T)
<1>1. CountsOf(T, logs, CHOOSE f : CountsOf(T, logs, f))
  BY CountsExist
<1>2. QED
  BY <1>1, CountIs, CountBounded

LEMMA AllFinite ==
  /\ IsFiniteSet(I!All) /\ I!Cardinality(I!All) \in Nat
  /\ I!Cardinality(I!All) = Cardinality(I!All)
<1>1. IsFiniteSet({Unmonitored}) /\ IsFiniteSet({FastAnswer})
  BY FS_Singleton
<1>2. IsFiniteSet(I!All)
  BY <1>1, IntegrityAssumption, FS_Union DEF I!All, I!Camera
<1>3. I!Cardinality(I!All) = Cardinality(I!All)
  BY DEF I!Cardinality, Cardinality
<1>4. QED
  BY <1>2, <1>3, FS_CardinalityType

LEMMA NoTallyFits == I!NoTally \in I!Tally
BY AllFinite DEF I!NoTally, I!Tally

\* The flags leave room for the fast answer, the camera's failure being none.
LEMMA FlagsFit ==
  ASSUME logs \in [I!All -> 0..2]
  PROVE  /\ I!Count(I!All \ {Unmonitored}) \in Nat
         /\ I!Count(I!All \ {Unmonitored}) + 1 <= 2 * I!Cardinality(I!All)
<1> DEFINE T == I!All \ {Unmonitored}
<1>1. /\ IsFiniteSet(T) /\ Cardinality(T) \in Nat
      /\ Cardinality(T) = Cardinality(I!All) - 1
  <2>1. Unmonitored \in I!All
    BY DEF I!All, I!Camera
  <2>2. T \subseteq I!All
    OBVIOUS
  <2>3. Cardinality(T) = Cardinality(I!All) - 1
    BY <2>1, AllFinite, FS_RemoveElement
  <2>4. QED
    BY <2>2, <2>3, AllFinite, FS_Subset, FS_CardinalityType
<1>2. I!Count(T) \in 0..2 * Cardinality(T)
  <2>1. \A e \in T : logs[e] \in 0..2
    OBVIOUS
  <2> HIDE DEF T
  <2>2. QED
    BY <1>1, <2>1, CountOfLogs
<1>3. \A a, b, n : a \in Nat /\ b \in Nat /\ a = b - 1 /\ n \in 0..2 * a =>
        n \in Nat /\ n + 1 <= 2 * b
  OBVIOUS
<1> DEFINE k == I!Count(T)
<1> HIDE DEF T, k
<1>4. k \in Nat /\ k + 1 <= 2 * I!Cardinality(I!All)
  <2>1. /\ Cardinality(T) \in Nat /\ I!Cardinality(I!All) \in Nat
        /\ Cardinality(T) = I!Cardinality(I!All) - 1
    BY <1>1, AllFinite
  <2>2. k \in 0..2 * Cardinality(T)
    BY <1>2 DEF k
  <2>3. QED
    BY <1>3, <2>1, <2>2
<1>5. QED
  BY <1>4 DEF k, T

LEMMA TalliedFits ==
  ASSUME logs \in [I!All -> 0..2], NEW fast \in BOOLEAN
  PROVE  /\ I!Tallied \in I!Tally
         /\ [I!Tallied EXCEPT !.flags = @ + (IF fast THEN 1 ELSE 0)] \in I!Tally
<1> DEFINE n == I!Count(I!All \ {Unmonitored})
           b == 2 * I!Cardinality(I!All)
           u == logs[Unmonitored] > 0
           o == I!Count(Switches) >= SwitchLimit \/ I!Count(Exits) >= 2
<1>1. n \in Nat /\ n + 1 <= b /\ b \in Nat
  BY FlagsFit, AllFinite
<1>2. u \in BOOLEAN /\ o \in BOOLEAN
  OBVIOUS
<1>3. I!Tallied = [flags |-> n, unmonitored |-> u, over |-> o]
  BY DEF I!Tallied
<1> HIDE DEF n, u, o
<1>4. n \in 0..b /\ n + (IF fast THEN 1 ELSE 0) \in 0..b
  <2> HIDE DEF b
  <2>1. QED
    BY <1>1
<1>5. QED
  BY <1>2, <1>3, <1>4 DEF I!Tally

\* The calls, the finalisation and the row of the attempt.
CallsOf == [pc : CallPcs, events : SUBSET I!All,
            sender : {"waits", "requeued", "left"}, tally : I!Tally]
FinalizerOf == [pc : {"none", "update", "done"}, tally : I!Tally, fast : BOOLEAN]
RowOf == [submitted : BOOLEAN, flags : 0..2 * I!Cardinality(I!All),
          monitored : {"unsaid", "no"}]

\* The page's types.
PageTyped ==
  /\ seen \subseteq I!All /\ buffer \subseteq Events /\ gone \subseteq Events
  /\ counted \in Nat /\ quiet \in BOOLEAN /\ open \in BOOLEAN
  /\ camera \in {"loading", "on", "off"}

\* The API's.
ApiTyped ==
  /\ finalizer \in FinalizerOf
  /\ logs \in [I!All -> 0..2]
  /\ row \in RowOf
  /\ fails \in 0..MaxFails

LEMMA IntegrityTypesAre ==
  I!TypeOK <=> PageTyped /\ call \in [Calls -> CallsOf] /\ ApiTyped
BY DEF I!TypeOK, PageTyped, ApiTyped, CallsOf, CallPcs, FinalizerOf, RowOf

LEMMA IntegrityTypesNow ==
  PageTyped' /\ call' \in [Calls -> CallsOf] /\ ApiTyped' => I!TypeOK'
BY DEF I!TypeOK, PageTyped, ApiTyped, CallsOf, CallPcs, FinalizerOf, RowOf,
       I!All, I!Camera, I!Tally

LEMMA FreeFits == I!Free \in CallsOf
BY NoTallyFits DEF I!Free, CallsOf, CallPcs

LEMMA CallGoes ==
  ASSUME NEW x \in CallsOf, NEW pc \in CallPcs
  PROVE  [x EXCEPT !.pc = pc] \in CallsOf
BY DEF CallsOf

LEMMA FinishedFits ==
  ASSUME NEW c \in Calls, call[c] \in CallsOf, NEW over \in BOOLEAN
  PROVE  I!Finished(c, over) \in CallsOf
<1> DEFINE t == [I!NoTally EXCEPT !.over = over]
<1>1. t \in I!Tally
  BY NoTallyFits DEF I!NoTally, I!Tally
<1> HIDE DEF t
<1>2. [call[c] EXCEPT !.pc = "ack", !.tally = t] \in CallsOf
  BY <1>1 DEF CallsOf, CallPcs
<1>3. QED
  BY <1>2, FreeFits DEF I!Finished, t

LEMMA ReportFitsType ==
  ASSUME NEW calls \in [Calls -> CallsOf], NEW c \in Calls,
         NEW events \in SUBSET I!All, NEW sender \in {"waits", "left"},
         I!Report(calls, c, events, sender)
  PROVE  call' \in [Calls -> CallsOf]
<1>1. I!Sent(events, sender) \in CallsOf
  BY NoTallyFits DEF I!Sent, I!Free, CallsOf, CallPcs
<1>2. QED
  BY <1>1 DEF I!Report

LEMMA DisownedFits ==
  ASSUME call \in [Calls -> CallsOf]
  PROVE  I!Disowned \in [Calls -> CallsOf]
<1>1. ASSUME NEW c \in Calls
      PROVE  [call[c] EXCEPT !.sender = "left"] \in CallsOf
  BY DEF CallsOf
<1>2. QED
  BY <1>1 DEF I!Disowned

LEMMA WrittenFits ==
  ASSUME NEW old \in RowOf, NEW t \in I!Tally
  PROVE  I!Written(old, t) \in RowOf
<1>1. t.flags \in 0..2 * I!Cardinality(I!All)
  BY DEF I!Tally
<1>2. QED
  BY <1>1 DEF I!Written, RowOf

\* Any call moves on.
LEMMA CallTyped ==
  ASSUME I!TypeOK, NEW c \in Calls, NEW x \in CallsOf,
         call' = [call EXCEPT ![c] = x], PageTyped', ApiTyped'
  PROVE  I!TypeOK'
<1>1. call' \in [Calls -> CallsOf]
  BY IntegrityTypesAre
<1>2. QED
  BY <1>1, IntegrityTypesNow

LEMMA PageStays == ASSUME I!TypeOK, UNCHANGED I!page PROVE PageTyped'
BY IntegrityTypesAre DEF I!page, PageTyped, I!All, I!Camera

LEMMA ApiStays ==
  ASSUME I!TypeOK, UNCHANGED <<finalizer, logs, row, fails>> PROVE ApiTyped'
BY IntegrityTypesAre DEF ApiTyped, FinalizerOf, RowOf, I!All, I!Camera, I!Tally

\* A failure more.
LEMMA ApiFails ==
  ASSUME I!TypeOK, UNCHANGED <<finalizer, logs, row>>,
         fails < MaxFails, fails' = fails + 1
  PROVE  ApiTyped'
<1>1. fails' \in 0..MaxFails
  BY IntegrityTypesAre, AttemptsAssumption DEF ApiTyped
<1>2. QED
  BY <1>1, IntegrityTypesAre
     DEF ApiTyped, FinalizerOf, RowOf, I!All, I!Camera, I!Tally

LEMMA TypesFlushBuffer ==
  ASSUME I!TypeOK, NEW events \in SUBSET Events, I!FlushBuffer(events)
  PROVE  call' \in [Calls -> CallsOf] /\ buffer' \subseteq Events
<1>1. call \in [Calls -> CallsOf] /\ events \subseteq I!All
  BY IntegrityTypesAre DEF I!All
<1>2. CASE quiet \/ events = {}
  BY <1>1, <1>2 DEF I!FlushBuffer
<1>3. CASE ~ (quiet \/ events = {})
  BY <1>1, <1>3, ReportFitsType DEF I!FlushBuffer
<1>4. QED
  BY <1>2, <1>3

LEMMA TypesObserve ==
  ASSUME I!TypeOK, NEW e \in I!All, I!Observe(e)
  PROVE  I!TypeOK'
<1>1. PageTyped /\ call \in [Calls -> CallsOf] /\ e \in Events
  BY IntegrityTypesAre DEF I!Observe
<1>2. call' \in [Calls -> CallsOf] /\ buffer' \subseteq Events
  <2>1. buffer \cup {e} \in SUBSET Events
    BY <1>1 DEF PageTyped
  <2>2. CASE e \in Switches \cup Exits
    BY <2>1, <2>2, TypesFlushBuffer DEF I!Observe
  <2>3. CASE e \notin Switches \cup Exits
    BY <1>1, <2>1, <2>3 DEF I!Observe
  <2>4. QED
    BY <2>2, <2>3
<1>3. seen' \subseteq I!All /\ counted' \in Nat /\ quiet' \in BOOLEAN
  BY <1>1 DEF PageTyped, I!Observe
<1>4. PageTyped'
  BY <1>1, <1>2, <1>3 DEF PageTyped, I!Observe, I!All, I!Camera
<1>5. QED
  BY <1>2, <1>4, ApiStays, IntegrityTypesNow DEF I!Observe

LEMMA TypesFlush == ASSUME I!TypeOK, I!Flush PROVE I!TypeOK'
<1>1. PageTyped
  BY IntegrityTypesAre
<1>2. call' \in [Calls -> CallsOf] /\ buffer' \subseteq Events
  BY <1>1, TypesFlushBuffer DEF I!Flush, PageTyped
<1>3. PageTyped'
  BY <1>1, <1>2 DEF PageTyped, I!Flush, I!All, I!Camera
<1>4. QED
  BY <1>2, <1>3, ApiStays, IntegrityTypesNow DEF I!Flush

LEMMA TypesCamera ==
  ASSUME I!TypeOK, NEW e \in I!All, I!ObserveCamera(e)
  PROVE  I!TypeOK'
<1>1. PageTyped /\ call \in [Calls -> CallsOf]
  BY IntegrityTypesAre
<1>2. call' \in [Calls -> CallsOf]
  <2>1. PICK c \in Calls : I!Report(call, c, {e}, "left")
    BY DEF I!ObserveCamera
  <2>2. {e} \in SUBSET I!All
    OBVIOUS
  <2>3. QED
    BY <1>1, <2>1, <2>2, ReportFitsType
<1>3. PageTyped'
  BY <1>1 DEF PageTyped, I!ObserveCamera, I!All, I!Camera
<1>4. QED
  BY <1>2, <1>3, ApiStays, IntegrityTypesNow DEF I!ObserveCamera

LEMMA TypesDropped ==
  ASSUME I!TypeOK, NEW c \in Calls, I!Dropped(c)
  PROVE  PageTyped'
<1>1. PageTyped
  BY IntegrityTypesAre
<1>2. buffer' \subseteq Events /\ gone' \subseteq Events
  BY <1>1 DEF I!Dropped, I!Requeue, PageTyped
<1>3. QED
  BY <1>1, <1>2 DEF I!Dropped, PageTyped, I!All, I!Camera

LEMMA TypesLose == ASSUME I!TypeOK, NEW c \in Calls, I!Lose(c) PROVE I!TypeOK'
<1>1. call[c] \in CallsOf
  BY IntegrityTypesAre
<1>2. [call[c] EXCEPT !.sender = "requeued"] \in CallsOf
  BY <1>1 DEF CallsOf
<1>3. PICK x \in CallsOf : call' = [call EXCEPT ![c] = x]
  BY <1>2, FreeFits, IntegrityTypesAre DEF I!Lose
<1>4. PageTyped' /\ ApiTyped'
  BY TypesDropped, ApiFails DEF I!Lose
<1>5. QED
  BY <1>3, <1>4, CallTyped

LEMMA TypesAcknowledge ==
  ASSUME I!TypeOK, NEW c \in Calls, I!Acknowledge(c)
  PROVE  I!TypeOK'
<1>1. PageTyped /\ call[c].tally.over \in BOOLEAN
  BY IntegrityTypesAre DEF CallsOf, I!Tally
<1>2. PageTyped'
  BY <1>1 DEF I!Acknowledge, PageTyped, I!All, I!Camera
<1>3. QED
  BY <1>2, FreeFits, ApiStays, CallTyped DEF I!Acknowledge

LEMMA TypesLeave == ASSUME I!TypeOK, I!Leave PROVE I!TypeOK'
<1>1. PageTyped /\ I!Disowned \in [Calls -> CallsOf]
  BY DisownedFits, IntegrityTypesAre
<1>2. call' \in [Calls -> CallsOf]
  <2>1. CASE call' = I!Disowned
    BY <1>1, <2>1
  <2>2. ASSUME NEW c \in Calls, I!Report(I!Disowned, c, buffer, "left")
        PROVE  call' \in [Calls -> CallsOf]
    <3>1. buffer \in SUBSET I!All
      BY <1>1 DEF PageTyped, I!All
    <3>2. QED
      BY <1>1, <2>2, <3>1, ReportFitsType
  <2>3. QED
    BY <2>1, <2>2 DEF I!Leave
<1>3. gone' \subseteq Events
  BY <1>1 DEF I!Leave, PageTyped
<1>4. PageTyped'
  BY <1>1, <1>3 DEF I!Leave, PageTyped, I!All, I!Camera
<1>5. QED
  BY <1>2, <1>4, ApiStays, IntegrityTypesNow DEF I!Leave

LEMMA TypesUnload == ASSUME I!TypeOK, I!Unload PROVE I!TypeOK'
<1>1. PageTyped /\ call' \in [Calls -> CallsOf]
  BY DisownedFits, IntegrityTypesAre DEF I!Unload
<1>2. PageTyped'
  BY <1>1 DEF I!Unload, PageTyped, I!All, I!Camera
<1>3. QED
  BY <1>1, <1>2, ApiStays, IntegrityTypesNow DEF I!Unload

LEMMA TypesResume == ASSUME I!TypeOK, I!Resume PROVE I!TypeOK'
<1>1. PageTyped /\ call' \in [Calls -> CallsOf]
  BY IntegrityTypesAre DEF I!Resume
<1>2. PageTyped'
  BY <1>1 DEF I!Resume, PageTyped, I!All, I!Camera
<1>3. QED
  BY <1>1, <1>2, ApiStays, IntegrityTypesNow DEF I!Resume

LEMMA TypesAccept ==
  ASSUME I!TypeOK, NEW c \in Calls, I!Accept(c)
  PROVE  I!TypeOK'
<1>1. call[c] \in CallsOf /\ "insert" \in CallPcs
  BY IntegrityTypesAre DEF CallPcs
<1>2. I!Finished(c, FALSE) \in CallsOf /\ [call[c] EXCEPT !.pc = "insert"] \in CallsOf
  BY <1>1, FinishedFits, CallGoes
<1>3. ApiTyped'
  BY ApiStays DEF I!Accept
<1>4. CASE I!Cardinality(call[c].events) > MaxBatch
  BY <1>3, <1>4, FreeFits, TypesDropped, CallTyped DEF I!Accept
<1>5. CASE ~ (I!Cardinality(call[c].events) > MaxBatch)
  <2>1. PICK x \in CallsOf : call' = [call EXCEPT ![c] = x]
    BY <1>2, <1>5, IntegrityTypesAre DEF I!Accept
  <2>2. QED
    BY <1>3, <1>5, <2>1, PageStays, CallTyped DEF I!Accept
<1>6. QED
  BY <1>4, <1>5

LEMMA TypesInsert ==
  ASSUME I!TypeOK, NEW c \in Calls, I!Insert(c)
  PROVE  I!TypeOK'
<1>1. call[c] \in CallsOf /\ "tally" \in CallPcs /\ ApiTyped
  BY IntegrityTypesAre DEF CallPcs
<1>2. [call[c] EXCEPT !.pc = "tally"] \in CallsOf
  BY <1>1, CallGoes
<1>3. call' = [call EXCEPT ![c] = [call[c] EXCEPT !.pc = "tally"]]
  BY IntegrityTypesAre DEF I!Insert
<1>4. logs' \in [I!All -> 0..2]
  BY <1>1 DEF I!Insert, ApiTyped
<1>5. ApiTyped'
  BY <1>1, <1>4 DEF I!Insert, ApiTyped, FinalizerOf, RowOf, I!All, I!Camera, I!Tally
<1>6. QED
  BY <1>2, <1>3, <1>5, PageStays, CallTyped DEF I!Insert

LEMMA TypesRecompute ==
  ASSUME I!TypeOK, NEW c \in Calls, I!Recompute(c)
  PROVE  I!TypeOK'
<1> DEFINE x == [call[c] EXCEPT !.pc = "update", !.tally = I!Tallied]
<1>1. call[c] \in CallsOf /\ "update" \in CallPcs /\ I!Tallied \in I!Tally
  BY TalliedFits, IntegrityTypesAre DEF CallPcs, ApiTyped
<1>2. x \in CallsOf
  BY <1>1 DEF CallsOf
<1>3. call' = [call EXCEPT ![c] = x]
  BY IntegrityTypesAre DEF I!Recompute
<1> HIDE DEF x
<1>4. QED
  BY <1>2, <1>3, PageStays, ApiStays, CallTyped DEF I!Recompute

LEMMA TypesUpdate ==
  ASSUME I!TypeOK, NEW c \in Calls, I!Update(c)
  PROVE  I!TypeOK'
<1>1. call[c] \in CallsOf /\ call[c].tally \in I!Tally
        /\ call[c].tally.over \in BOOLEAN
  BY IntegrityTypesAre DEF CallsOf, I!Tally
<1>2. I!Written(row, call[c].tally) \in RowOf
  BY <1>1, WrittenFits, IntegrityTypesAre DEF ApiTyped
<1>3. I!Finished(c, call[c].tally.over) \in CallsOf
  BY <1>1, FinishedFits
<1>4. call' = [call EXCEPT ![c] = I!Finished(c, call[c].tally.over)]
  BY IntegrityTypesAre DEF I!Update
<1>5. ApiTyped'
  BY <1>2, IntegrityTypesAre
     DEF I!Update, ApiTyped, FinalizerOf, RowOf, I!All, I!Camera, I!Tally
<1>6. QED
  BY <1>3, <1>4, <1>5, PageStays, CallTyped DEF I!Update

\* The calls and the page stay as they are.
LEMMA ApiMoves ==
  ASSUME I!TypeOK, UNCHANGED <<I!page, call>>, ApiTyped'
  PROVE  I!TypeOK'
BY PageStays, IntegrityTypesAre, IntegrityTypesNow

LEMMA TypesFinalizeSitting == ASSUME I!TypeOK, I!Finalize PROVE I!TypeOK'
<1>1. ApiTyped
  BY IntegrityTypesAre
<1>2. PICK fast \in BOOLEAN :
        finalizer' =
          [pc |-> "update", fast |-> fast,
           tally |-> [I!Tallied EXCEPT !.flags = @ + (IF fast THEN 1 ELSE 0)]]
  BY DEF I!Finalize
<1>3. [I!Tallied EXCEPT !.flags = @ + (IF fast THEN 1 ELSE 0)] \in I!Tally
  BY <1>1, TalliedFits DEF ApiTyped
<1>4. finalizer' \in FinalizerOf
  BY <1>2, <1>3 DEF FinalizerOf
<1>5. ApiTyped'
  BY <1>1, <1>4
     DEF I!Finalize, ApiTyped, FinalizerOf, RowOf, I!All, I!Camera, I!Tally
<1>6. QED
  BY <1>5, ApiMoves DEF I!Finalize

LEMMA TypesCommitSitting == ASSUME I!TypeOK, I!Commit PROVE I!TypeOK'
<1>1. ApiTyped /\ finalizer.tally \in I!Tally
  BY IntegrityTypesAre DEF FinalizerOf, ApiTyped
<1>2. finalizer' \in FinalizerOf
  BY NoTallyFits DEF I!Commit, I!NotFinalizing, FinalizerOf
<1>3. row' \in RowOf
  <2>1. I!Written(row, finalizer.tally) \in RowOf
    BY <1>1, WrittenFits DEF ApiTyped
  <2>2. QED
    BY <2>1 DEF RowOf, I!Commit
<1>4. logs' \in [I!All -> 0..2]
  <2>1. logs \in [I!All -> 0..2] /\ 1 \in 0..2
    BY <1>1 DEF ApiTyped
  <2>2. logs' = logs \/ logs' = [logs EXCEPT ![FastAnswer] = 1]
    BY DEF I!Commit
  <2>3. QED
    BY <2>1, <2>2
<1>5. fails' \in 0..MaxFails
  BY <1>1 DEF I!Commit, ApiTyped
<1>6. ApiTyped'
  BY <1>2, <1>3, <1>4, <1>5 DEF ApiTyped, FinalizerOf, RowOf, I!All, I!Camera, I!Tally
<1>7. QED
  BY <1>6, ApiMoves DEF I!Commit

LEMMA TypesAbortSitting == ASSUME I!TypeOK, I!Abort PROVE I!TypeOK'
<1>1. ApiTyped
  BY IntegrityTypesAre
<1>2. finalizer' \in FinalizerOf
  BY NoTallyFits DEF I!Abort, I!NotFinalizing, FinalizerOf
<1>3. fails' \in 0..MaxFails
  BY <1>1, AttemptsAssumption DEF I!Abort, ApiTyped
<1>4. ApiTyped'
  BY <1>1, <1>2, <1>3
     DEF I!Abort, ApiTyped, FinalizerOf, RowOf, I!All, I!Camera, I!Tally
<1>5. QED
  BY <1>4, ApiMoves DEF I!Abort

LEMMA TypesFailHandler ==
  ASSUME I!TypeOK, NEW c \in Calls, I!FailHandler(c)
  PROVE  I!TypeOK'
BY FreeFits, TypesDropped, ApiFails, CallTyped DEF I!FailHandler

LEMMA IntegrityTypesKept == I!TypeOK /\ I!Next => I!TypeOK'
BY TypesObserve, TypesFlush, TypesCamera, TypesLose, TypesAcknowledge, TypesLeave,
   TypesUnload, TypesResume, TypesFinalizeSitting, TypesCommitSitting,
   TypesAbortSitting, TypesAccept, TypesInsert, TypesRecompute, TypesUpdate,
   TypesFailHandler
   DEF I!Next, I!Handle

LEMMA IntegrityTypesInit == I!Init => I!TypeOK
<1> SUFFICES ASSUME I!Init PROVE I!TypeOK
  OBVIOUS
<1>1. call \in [Calls -> CallsOf]
  BY FreeFits DEF I!Init
<1>2. finalizer \in FinalizerOf
  BY NoTallyFits DEF I!Init, I!NotFinalizing, FinalizerOf
<1>3. row \in RowOf
  BY AllFinite DEF I!Init, RowOf
<1>4. fails \in 0..MaxFails
  BY AttemptsAssumption DEF I!Init
<1>5. logs \in [I!All -> 0..2]
  <2>1. 0 \in 0..2
    OBVIOUS
  <2>2. QED
    BY <2>1, Zenon DEF I!Init
<1>6. PageTyped
  BY DEF I!Init, PageTyped
<1>7. QED
  BY <1>1, <1>2, <1>3, <1>4, <1>5, <1>6, IntegrityTypesAre DEF ApiTyped

----------------------------------------------------------------------------
(* Submissions: types.                                                     *)

\* The request x names rows among n and reviews among m.
Placed(x, n, m) ==
  /\ x.pc = "create" => x.by \in Authors
  /\ x.row \in 0..n /\ x.review \in 0..m /\ x.todo \subseteq 1..n

WorkBounded ==
  /\ Len(rows) <= MaxRows
  /\ \A i \in 1..Len(rows) : rows[i].author \in Authors
  /\ \A s \in Slots : Placed(request[s], Len(rows), Len(reviews))
  /\ grades \in 0..MaxGrades /\ fails \in 0..MaxFails

LEMMA WorkConstants == MaxRows \in Nat /\ MaxGrades \in Nat /\ MaxFails \in Nat
BY BoundsAssumption, AttemptsAssumption

\* Rows that are written keep their number and their authors.
LEMMA RowsAsMany ==
  ASSUME NEW T, NEW rs \in Seq(T), NEW ss \in Seq(T), DOMAIN ss = DOMAIN rs
  PROVE  Len(ss) = Len(rs) /\ Len(rs) \in Nat
<1>1. /\ DOMAIN rs = 1..Len(rs) /\ Len(rs) \in Nat
      /\ DOMAIN ss = 1..Len(ss) /\ Len(ss) \in Nat
  BY LenProperties
<1>2. ASSUME NEW m \in Nat, NEW n \in Nat, 1..m = 1..n PROVE m <= n
  <2>1. CASE m = 0
    BY <2>1
  <2>2. CASE m # 0
    <3>1. m \in 1..m
      BY <2>2
    <3>2. m \in 1..n
      BY <1>2, <3>1
    <3>3. QED
      BY <3>2
  <2>3. QED
    BY <2>1, <2>2
<1>3. Len(ss) <= Len(rs) /\ Len(rs) <= Len(ss)
  BY <1>1, <1>2
<1>4. QED
  BY <1>1, <1>3

\* One request moves, and rows and reviews with it.
LEMMA BoundsMove ==
  ASSUME WorkInv, WorkBounded, NEW s \in Slots, NEW x,
         request' = [request EXCEPT ![s] = x],
         Len(rows') \in Nat, Len(reviews') \in Nat,
         Len(rows) <= Len(rows'), Len(rows') <= MaxRows,
         Len(reviews) <= Len(reviews'),
         \A i \in 1..Len(rows') : rows'[i].author \in Authors,
         Placed(x, Len(rows'), Len(reviews')),
         grades' \in 0..MaxGrades, fails' \in 0..MaxFails
  PROVE  WorkBounded'
<1>1. /\ request = [t \in Slots |-> request[t]]
      /\ Len(rows) \in Nat /\ Len(reviews) \in Nat
  BY LenProperties DEF WorkInv, WorkTyped
<1>2. request'[s] = x /\ \A t \in Slots : t # s => request'[t] = request[t]
  BY <1>1
<1>3. ASSUME NEW t \in Slots, t # s
      PROVE  Placed(request[t], Len(rows'), Len(reviews'))
  <2>1. Placed(request[t], Len(rows), Len(reviews))
    BY DEF WorkBounded
  <2>2. /\ 1..Len(rows) \subseteq 1..Len(rows')
        /\ 0..Len(rows) \subseteq 0..Len(rows')
        /\ 0..Len(reviews) \subseteq 0..Len(reviews')
    BY <1>1
  <2>3. QED
    BY <2>1, <2>2 DEF Placed
<1>4. \A t \in Slots : Placed(request'[t], Len(rows'), Len(reviews'))
  BY <1>2, <1>3
<1>5. QED
  BY <1>4 DEF WorkBounded

LEMMA WorkLengths ==
  ASSUME WorkInv, WorkBounded
  PROVE  /\ rows \in Seq(Work) /\ Len(rows) \in Nat /\ Len(rows) <= MaxRows
         /\ DOMAIN rows = 1..Len(rows)
         /\ reviews \in Seq(PeerReview) /\ Len(reviews) \in Nat
         /\ DOMAIN reviews = 1..Len(reviews)
         /\ \A i \in 1..Len(rows) : rows[i] \in Work /\ rows[i].author \in Authors
         /\ grades \in 0..MaxGrades /\ fails \in 0..MaxFails
<1>1. rows \in Seq(Work) /\ reviews \in Seq(PeerReview)
  BY DEF WorkInv, WorkTyped
<1>2. /\ rows \in [1..Len(rows) -> Work] /\ Len(rows) \in Nat
      /\ DOMAIN rows = 1..Len(rows)
      /\ Len(reviews) \in Nat /\ DOMAIN reviews = 1..Len(reviews)
  BY <1>1, LenProperties
<1>3. QED
  BY <1>1, <1>2 DEF WorkBounded

\* Rows and reviews are written at most.
LEMMA BoundsStay ==
  ASSUME WorkInv, WorkInv', WorkBounded, NEW s \in Slots, NEW x,
         request' = [request EXCEPT ![s] = x],
         DOMAIN rows' = DOMAIN rows, DOMAIN reviews' = DOMAIN reviews,
         \A i \in 1..Len(rows) : rows'[i].author = rows[i].author,
         Placed(x, Len(rows), Len(reviews)),
         grades' \in 0..MaxGrades, fails' \in 0..MaxFails
  PROVE  WorkBounded'
<1>1. /\ rows \in Seq(Work) /\ rows' \in Seq(Work)
      /\ reviews \in Seq(PeerReview) /\ reviews' \in Seq(PeerReview)
  BY DEF WorkInv, WorkTyped, Work, PeerReview
<1>2. /\ Len(rows') = Len(rows) /\ Len(rows) \in Nat
      /\ Len(reviews') = Len(reviews) /\ Len(reviews) \in Nat
  BY <1>1, RowsAsMany
<1>3. /\ Len(rows) <= MaxRows
      /\ \A i \in 1..Len(rows) : rows'[i].author \in Authors
  BY WorkLengths
<1>4. /\ Len(rows') \in Nat /\ Len(reviews') \in Nat
      /\ Len(rows) <= Len(rows') /\ Len(rows') <= MaxRows
      /\ Len(reviews) <= Len(reviews')
      /\ Placed(x, Len(rows'), Len(reviews'))
      /\ \A i \in 1..Len(rows') : rows'[i].author \in Authors
  BY <1>2, <1>3
<1>5. QED
  BY <1>4, BoundsMove

\* Only the request moves.
LEMMA BoundsErrand ==
  ASSUME WorkInv, WorkInv', WorkBounded, NEW s \in Slots, NEW x,
         request' = [request EXCEPT ![s] = x],
         UNCHANGED <<rows, reviews>>, Placed(x, Len(rows), Len(reviews)),
         grades' \in 0..MaxGrades, fails' \in 0..MaxFails
  PROVE  WorkBounded'
BY BoundsStay

LEMMA ErrandPlaced ==
  ASSUME WorkInv, WorkBounded, NEW s \in Slots
  PROVE  /\ request[s] \in Errand /\ request = [t \in Slots |-> request[t]]
         /\ Placed(request[s], Len(rows), Len(reviews))
         /\ Informed(request[s], rows, reviews, doubled)
         /\ \A n, m \in Nat : Placed(S!Idle, n, m)
<1>1. S!Idle.pc = "idle" /\ S!Idle.row = 0 /\ S!Idle.review = 0 /\ S!Idle.todo = {}
  BY DEF S!Idle
<1>2. \A n, m \in Nat : Placed(S!Idle, n, m)
  BY <1>1 DEF Placed
<1>3. QED
  BY <1>2, ErrandFits DEF WorkBounded

\* A request that goes on with what it knows.
LEMMA PlacedGoesOn ==
  ASSUME NEW x \in Errand, NEW n, NEW m, Placed(x, n, m),
         NEW pc, pc # "create", NEW count
  PROVE  /\ Placed([x EXCEPT !.pc = pc], n, m)
         /\ Placed([x EXCEPT !.pc = pc, !.count = count], n, m)
BY DEF Placed, Errand

LEMMA BoundsSubmit ==
  ASSUME WorkInv, WorkInv', WorkBounded, NEW s \in Slots, NEW l \in Learners,
         S!Submit(s, l)
  PROVE  WorkBounded'
<1> DEFINE x == [S!Idle EXCEPT !.pc = "create", !.by = l]
<1>1. /\ l \in Authors /\ UNCHANGED <<rows, reviews, grades, fails>>
      /\ request' = [request EXCEPT ![s] = x]
  BY DEF S!Submit
<1>2. Placed(x, Len(rows), Len(reviews))
  BY <1>1, WorkLengths DEF Placed, S!Idle
<1> HIDE DEF x
<1>3. QED
  BY <1>1, <1>2, BoundsErrand, WorkLengths

LEMMA BoundsCreateRow ==
  ASSUME WorkInv, WorkBounded, NEW s \in Slots, S!CreateRow(s)
  PROVE  WorkBounded'
<1> DEFINE l == request[s].by
           a == [author |-> l, graded |-> Nobody, passed |-> FALSE,
                 assigned |-> 0, completed |-> 0, told |-> 0]
<1>1. /\ request[s].pc = "create" /\ UNCHANGED <<reviews, grades, fails>>
      /\ rows' = Append(rows, a) /\ request' = [request EXCEPT ![s] = S!Idle]
      /\ Len(rows) < MaxRows
  BY DEF S!CreateRow, S!At, S!Done
<1>2. l \in Authors /\ l \in Learners /\ Placed(S!Idle, Len(rows) + 1, Len(reviews))
  <2>1. Len(rows) + 1 \in Nat /\ Len(reviews) \in Nat
    BY WorkLengths
  <2>2. QED
    BY <1>1, <2>1, ErrandPlaced DEF Placed, Informed
<1>3. a \in Work /\ a.author = l
  BY <1>2 DEF Work
<1> HIDE DEF a
<1>4. /\ Len(rows') = Len(rows) + 1 /\ Len(rows) \in Nat
      /\ rows'[Len(rows) + 1] = a
      /\ \A j \in 1..Len(rows) : rows'[j] = rows[j]
  BY <1>1, <1>3, RowAppended, WorkLengths
<1>5. \A i \in 1..Len(rows') : rows'[i].author \in Authors
  <2>1. \A i \in 1..Len(rows') : i \in 1..Len(rows) \/ i = Len(rows) + 1
    BY <1>4
  <2>2. QED
    BY <1>2, <1>3, <1>4, <2>1, WorkLengths
<1>6. /\ Len(rows') \in Nat /\ Len(reviews') \in Nat
      /\ Len(rows) <= Len(rows') /\ Len(rows') <= MaxRows
      /\ Len(reviews) <= Len(reviews')
      /\ Placed(S!Idle, Len(rows'), Len(reviews'))
      /\ grades' \in 0..MaxGrades /\ fails' \in 0..MaxFails
  BY <1>1, <1>2, <1>4, WorkLengths, WorkConstants
<1>7. QED
  BY <1>1, <1>5, <1>6, BoundsMove

LEMMA BoundsListReviews ==
  ASSUME WorkInv, WorkInv', WorkBounded, NEW s \in Slots, NEW l \in Learners,
         S!ListReviews(s, l)
  PROVE  WorkBounded'
<1>1. PICK todo \in SUBSET S!Candidates(l) :
        request' = [request EXCEPT ![s] =
                      [S!Idle EXCEPT !.pc = "assign", !.by = l, !.todo = todo]]
  BY DEF S!ListReviews
<1> DEFINE x == [S!Idle EXCEPT !.pc = "assign", !.by = l, !.todo = todo]
<1>2. UNCHANGED <<rows, reviews, grades, fails>>
  BY DEF S!ListReviews
<1>3. todo \subseteq 1..Len(rows)
  BY DEF S!Candidates, S!Ids
<1>4. x.pc = "assign" /\ x.row = 0 /\ x.review = 0 /\ x.todo = todo
  BY DEF S!Idle
<1>5. request' = [request EXCEPT ![s] = x]
  BY <1>1
<1> HIDE DEF x
<1>6. Placed(x, Len(rows), Len(reviews))
  BY <1>3, <1>4, WorkLengths DEF Placed
<1>7. QED
  BY <1>2, <1>5, <1>6, BoundsErrand, WorkLengths

LEMMA BoundsAssign ==
  ASSUME WorkInv, WorkBounded, NEW s \in Slots, S!Assign(s)
  PROVE  WorkBounded'
<1>1. PICK i \in request[s].todo :
        /\ reviews' = Append(reviews, [reviewer |-> request[s].by, row |-> i,
                                       done |-> FALSE])
        /\ request' = [request EXCEPT ![s].pc = "increment", ![s].row = i]
  BY DEF S!Assign
<1> DEFINE x == [request[s] EXCEPT !.pc = "increment", !.row = i]
           l == request[s].by
           a == [reviewer |-> l, row |-> i, done |-> FALSE]
<1>2. UNCHANGED <<rows, grades, fails>>
  BY DEF S!Assign
<1>3. /\ request[s] \in Errand /\ request = [t \in Slots |-> request[t]]
      /\ Placed(request[s], Len(rows), Len(reviews))
      /\ i \in 1..Len(rows) /\ l \in Learners
  BY <1>2, ErrandPlaced DEF Placed, Informed, Lists, S!Assign, S!At
<1>4. reviews' = Append(reviews, a) /\ request' = [request EXCEPT ![s] = x]
  BY <1>1, <1>3
<1>5. a \in PeerReview
  BY <1>3, WorkLengths DEF PeerReview
<1>6. /\ x.pc = "increment" /\ x.row = i /\ x.todo = request[s].todo
      /\ x.review = request[s].review
  BY <1>3 DEF Errand
<1> HIDE DEF a, x
<1>7. Len(reviews') = Len(reviews) + 1 /\ Len(reviews) \in Nat
  BY <1>4, <1>5, RowAppended, WorkLengths
<1>8. Placed(x, Len(rows'), Len(reviews'))
  BY <1>2, <1>3, <1>6, <1>7, WorkLengths DEF Placed
<1>9. /\ Len(rows') \in Nat /\ Len(reviews') \in Nat
      /\ Len(rows) <= Len(rows') /\ Len(rows') <= MaxRows
      /\ Len(reviews) <= Len(reviews')
      /\ \A j \in 1..Len(rows') : rows'[j].author \in Authors
      /\ grades' \in 0..MaxGrades /\ fails' \in 0..MaxFails
  BY <1>2, <1>7, WorkLengths
<1>10. QED
  BY <1>2, <1>4, <1>8, <1>9, BoundsMove

LEMMA BoundsIncrement ==
  ASSUME WorkInv, WorkInv', WorkBounded, NEW s \in Slots, S!Increment(s)
  PROVE  WorkBounded'
<1> DEFINE i == request[s].row
           left == request[s].todo \ {i}
           y == [request[s] EXCEPT !.pc = "assign", !.row = 0, !.todo = left]
           x == IF left = {} THEN S!Idle ELSE y
<1>1. /\ UNCHANGED <<reviews, grades, fails>>
      /\ rows' = [rows EXCEPT ![i].assigned = @ + 1]
      /\ request' = [request EXCEPT ![s] = x]
  BY DEF S!Increment
<1>2. left \subseteq 1..Len(rows)
  BY <1>1, ErrandPlaced DEF Placed
<1>3. Placed(y, Len(rows), Len(reviews))
  <2>1. /\ y.pc = "assign" /\ y.row = 0 /\ y.todo = left
        /\ y.review = request[s].review /\ y.review \in 0..Len(reviews)
    BY ErrandPlaced DEF Placed, Errand
  <2> HIDE DEF y, left
  <2>2. QED
    BY <1>2, <2>1, WorkLengths DEF Placed
<1>4. Placed(x, Len(rows), Len(reviews))
  BY <1>1, <1>3, ErrandPlaced, WorkLengths
<1> HIDE DEF x
<1>5. /\ DOMAIN rows' = DOMAIN rows /\ DOMAIN reviews' = DOMAIN reviews
      /\ \A j \in 1..Len(rows) : rows'[j].author = rows[j].author
  BY <1>1, WorkLengths DEF Work
<1>6. QED
  BY <1>1, <1>4, <1>5, BoundsStay, WorkLengths

LEMMA BoundsReadReview ==
  ASSUME WorkInv, WorkInv', WorkBounded, NEW s \in Slots, NEW l \in Learners,
         S!ReadReview(s, l)
  PROVE  WorkBounded'
<1>1. PICK k \in S!Mine(l) :
        request' = [request EXCEPT ![s] =
          [S!Idle EXCEPT !.pc = "mark", !.by = l, !.review = k,
                         !.row = reviews[k].row,
                         !.ungraded = ~S!Graded(reviews[k].row)]]
  BY DEF S!ReadReview
<1> DEFINE x == [S!Idle EXCEPT !.pc = "mark", !.by = l, !.review = k,
                               !.row = reviews[k].row,
                               !.ungraded = ~S!Graded(reviews[k].row)]
<1>2. UNCHANGED <<rows, reviews, grades, fails>>
  BY DEF S!ReadReview
<1>3. k \in 1..Len(reviews) /\ reviews[k].row \in 1..Len(rows)
  BY WorkLengths DEF S!Mine, WorkInv, Proper
<1>4. /\ x.pc = "mark" /\ x.review = k /\ x.row = reviews[k].row /\ x.todo = {}
      /\ request' = [request EXCEPT ![s] = x]
  BY <1>1 DEF S!Idle
<1> HIDE DEF x
<1>5. Placed(x, Len(rows), Len(reviews))
  BY <1>3, <1>4, WorkLengths DEF Placed
<1>6. QED
  BY <1>2, <1>4, <1>5, BoundsErrand, WorkLengths

LEMMA BoundsMarkDone ==
  ASSUME WorkInv, WorkInv', WorkBounded, NEW s \in Slots, S!MarkDone(s)
  PROVE  WorkBounded'
<1> DEFINE x == [request[s] EXCEPT !.pc = "count"]
<1>1. /\ UNCHANGED <<rows, grades, fails>>
      /\ reviews' = [reviews EXCEPT ![request[s].review].done = TRUE]
      /\ request' = [request EXCEPT ![s].pc = "count"]
  BY DEF S!MarkDone, S!Goto
<1>2. request' = [request EXCEPT ![s] = x] /\ DOMAIN reviews' = DOMAIN reviews
  BY <1>1, ErrandPlaced
<1>3. Placed(x, Len(rows), Len(reviews))
  BY <1>1, ErrandPlaced, PlacedGoesOn
<1> HIDE DEF x
<1>4. QED
  BY <1>1, <1>2, <1>3, BoundsStay, WorkLengths

LEMMA BoundsCountCompleted ==
  ASSUME WorkInv, WorkInv', WorkBounded, NEW s \in Slots, S!CountCompleted(s)
  PROVE  WorkBounded'
<1> DEFINE n == S!Cardinality(S!Completed(request[s].row))
           x == [request[s] EXCEPT !.pc = "record", !.count = n]
<1>1. /\ UNCHANGED <<rows, reviews, grades, fails>>
      /\ request' = [request EXCEPT ![s].pc = "record", ![s].count = n]
  BY DEF S!CountCompleted
<1> HIDE DEF n
<1>2. request' = [request EXCEPT ![s] = x]
  BY <1>1, ErrandPlaced
<1>3. Placed(x, Len(rows), Len(reviews))
  BY <1>1, ErrandPlaced, PlacedGoesOn
<1> HIDE DEF x
<1>4. QED
  BY <1>1, <1>2, <1>3, BoundsErrand, WorkLengths

LEMMA BoundsRecordCount ==
  ASSUME WorkInv, WorkInv', WorkBounded, NEW s \in Slots, S!RecordCount(s)
  PROVE  WorkBounded'
<1> DEFINE g == [request[s] EXCEPT !.pc = "grade"]
<1>1. /\ UNCHANGED <<reviews, grades, fails>>
      /\ rows' = [rows EXCEPT ![request[s].row].completed = request[s].count]
      /\ \/ request' = [request EXCEPT ![s].pc = "grade"]
         \/ request' = [request EXCEPT ![s] = S!Idle]
  BY DEF S!RecordCount, S!Goto, S!Done
<1>2. PICK x \in {g, S!Idle} : request' = [request EXCEPT ![s] = x]
  BY <1>1, ErrandPlaced
<1>3. Placed(x, Len(rows), Len(reviews))
  <2>1. Placed(g, Len(rows), Len(reviews))
    BY <1>1, ErrandPlaced, PlacedGoesOn
  <2>2. Placed(S!Idle, Len(rows), Len(reviews))
    BY <1>1, ErrandPlaced, WorkLengths
  <2>3. QED
    BY <2>1, <2>2
<1>4. /\ DOMAIN rows' = DOMAIN rows /\ DOMAIN reviews' = DOMAIN reviews
      /\ \A j \in 1..Len(rows) : rows'[j].author = rows[j].author
  BY <1>1, WorkLengths DEF Work
<1>5. QED
  BY <1>1, <1>2, <1>3, <1>4, BoundsStay, WorkLengths

\* The row that is graded keeps its author.
LEMMA BoundsGrade ==
  ASSUME WorkInv, WorkInv', WorkBounded, NEW s \in Slots, NEW i,
         NEW who, NEW passed, NEW told,
         rows' = [rows EXCEPT ![i].graded = who, ![i].passed = passed,
                              ![i].told = told],
         request' = [request EXCEPT ![s] = S!Idle],
         UNCHANGED <<reviews, grades, fails>>
  PROVE  WorkBounded'
<1>1. /\ DOMAIN rows' = DOMAIN rows /\ DOMAIN reviews' = DOMAIN reviews
      /\ \A j \in 1..Len(rows) : rows'[j].author = rows[j].author
  BY WorkLengths DEF Work
<1>2. Placed(S!Idle, Len(rows), Len(reviews))
  BY ErrandPlaced, WorkLengths
<1>3. QED
  BY <1>1, <1>2, BoundsStay, WorkLengths

LEMMA BoundsGradeByPeers ==
  ASSUME WorkInv, WorkInv', WorkBounded, NEW s \in Slots, S!GradeByPeers(s)
  PROVE  WorkBounded'
<1> DEFINE i == request[s].row
<1>1. PICK passed \in BOOLEAN :
        rows' = [rows EXCEPT ![i].graded = "peers", ![i].passed = passed,
                             ![i].told = @ + 1]
  BY DEF S!GradeByPeers
<1>2. rows' = [rows EXCEPT ![i].graded = "peers", ![i].passed = passed,
                           ![i].told = rows[i].told + 1]
  <2>1. i \in 1..Len(rows) /\ rows[i] \in Work
    <3>1. request[s].pc = "grade"
      BY DEF S!GradeByPeers, S!At
    <3>2. i \in 1..Len(rows)
      BY <3>1, ErrandPlaced DEF Informed
    <3>3. QED
      BY <3>2, WorkLengths
  <2>2. QED
    BY <1>1, <2>1, WorkLengths DEF Work
<1>3. /\ request' = [request EXCEPT ![s] = S!Idle]
      /\ UNCHANGED <<reviews, grades, fails>>
  BY DEF S!GradeByPeers, S!Done
<1>4. QED
  BY <1>2, <1>3, BoundsGrade

LEMMA BoundsReadToGrade ==
  ASSUME WorkInv, WorkInv', WorkBounded, NEW s \in Slots, NEW i \in S!Ids,
         S!ReadToGrade(s, i)
  PROVE  WorkBounded'
<1> DEFINE x == [S!Idle EXCEPT !.pc = "write", !.by = Creator, !.row = i,
                               !.ungraded = ~S!Graded(i)]
<1>1. /\ UNCHANGED <<rows, reviews, fails>>
      /\ grades < MaxGrades /\ grades' = grades + 1
      /\ request' = [request EXCEPT ![s] = x]
  BY DEF S!ReadToGrade
<1>2. /\ x.pc = "write" /\ x.review = 0 /\ x.row = i /\ x.todo = {}
      /\ i \in 1..Len(rows)
  BY DEF S!Idle, S!Ids
<1> HIDE DEF x
<1>3. Placed(x, Len(rows), Len(reviews))
  BY <1>2, WorkLengths DEF Placed
<1>4. grades' \in 0..MaxGrades /\ fails' \in 0..MaxFails
  BY <1>1, WorkLengths, WorkConstants
<1>5. QED
  BY <1>1, <1>3, <1>4, BoundsErrand

LEMMA BoundsGradeByCreator ==
  ASSUME WorkInv, WorkInv', WorkBounded, NEW s \in Slots, S!GradeByCreator(s)
  PROVE  WorkBounded'
<1> DEFINE i == request[s].row
           told == IF request[s].ungraded THEN rows[i].told + 1
                   ELSE rows[i].told
<1>1. PICK passed \in BOOLEAN :
        rows' = [rows EXCEPT ![i].graded = Creator, ![i].passed = passed,
          ![i].told = IF request[s].ungraded THEN @ + 1 ELSE @]
  BY DEF S!GradeByCreator
<1>2. rows' = [rows EXCEPT ![i].graded = Creator, ![i].passed = passed,
                           ![i].told = told]
  <2>1. i \in 1..Len(rows) /\ rows[i] \in Work
    <3>1. request[s].pc = "write"
      BY DEF S!GradeByCreator, S!At
    <3>2. i \in 1..Len(rows)
      BY <3>1, ErrandPlaced DEF Informed
    <3>3. QED
      BY <3>2, WorkLengths
  <2>2. QED
    BY <1>1, <2>1, WorkLengths DEF Work
<1>3. /\ request' = [request EXCEPT ![s] = S!Idle]
      /\ UNCHANGED <<reviews, grades, fails>>
  BY DEF S!GradeByCreator, S!Done
<1> HIDE DEF told
<1>4. QED
  BY <1>2, <1>3, BoundsGrade

LEMMA BoundsFail ==
  ASSUME WorkInv, WorkInv', WorkBounded, NEW s \in Slots, S!Fail(s)
  PROVE  WorkBounded'
<1>1. /\ UNCHANGED <<rows, reviews, grades>> /\ fails < MaxFails /\ fails' = fails + 1
      /\ request' = [request EXCEPT ![s] = S!Idle]
  BY DEF S!Fail, S!Done
<1>2. grades' \in 0..MaxGrades /\ fails' \in 0..MaxFails
  BY <1>1, WorkLengths, WorkConstants
<1>3. Placed(S!Idle, Len(rows), Len(reviews))
  BY ErrandPlaced, WorkLengths
<1>4. QED
  BY <1>1, <1>2, <1>3, BoundsErrand

LEMMA BoundsNext == WorkInv /\ WorkBounded /\ S!Next => WorkBounded'
<1> SUFFICES ASSUME WorkInv, WorkBounded, S!Next PROVE WorkBounded'
  OBVIOUS
<1>1. WorkInv'
  BY WorkNext
<1>2. PICK s \in Slots :
        \/ \E l \in Learners :
             S!Submit(s, l) \/ S!ListReviews(s, l) \/ S!ReadReview(s, l)
        \/ S!CreateRow(s) \/ S!Assign(s) \/ S!Increment(s)
        \/ S!MarkDone(s) \/ S!CountCompleted(s) \/ S!RecordCount(s)
        \/ S!GradeByPeers(s)
        \/ \E i \in S!Ids : S!ReadToGrade(s, i)
        \/ S!GradeByCreator(s) \/ S!Fail(s)
  BY DEF S!Next
<1>3. CASE \E l \in Learners :
             S!Submit(s, l) \/ S!ListReviews(s, l) \/ S!ReadReview(s, l)
  BY <1>1, <1>3, BoundsSubmit, BoundsListReviews, BoundsReadReview
<1>4. CASE S!CreateRow(s) \/ S!Assign(s) \/ S!Increment(s)
  BY <1>1, <1>4, BoundsCreateRow, BoundsAssign, BoundsIncrement
<1>5. CASE \/ S!MarkDone(s) \/ S!CountCompleted(s) \/ S!RecordCount(s)
           \/ S!GradeByPeers(s)
  BY <1>1, <1>5, BoundsMarkDone, BoundsCountCompleted, BoundsRecordCount,
     BoundsGradeByPeers
<1>6. CASE \/ \E i \in S!Ids : S!ReadToGrade(s, i)
           \/ S!GradeByCreator(s) \/ S!Fail(s)
  BY <1>1, <1>6, BoundsReadToGrade, BoundsGradeByCreator, BoundsFail
<1>7. QED
  BY <1>2, <1>3, <1>4, <1>5, <1>6

LEMMA BoundsInit == S!Init => WorkBounded
<1> SUFFICES ASSUME S!Init PROVE WorkBounded
  OBVIOUS
<1>1. rows = <<>> /\ reviews = <<>> /\ grades = 0 /\ fails = 0
        /\ request = [s \in Slots |-> S!Idle]
  BY DEF S!Init
<1>2. Len(rows) = 0 /\ Len(reviews) = 0 /\ 1..Len(rows) = {}
  BY <1>1
<1>3. S!Idle.pc = "idle" /\ S!Idle.row = 0 /\ S!Idle.review = 0 /\ S!Idle.todo = {}
  BY DEF S!Idle
<1>4. \A s \in Slots : Placed(request[s], Len(rows), Len(reviews))
  BY <1>1, <1>2, <1>3 DEF Placed
<1>5. QED
  BY <1>1, <1>2, <1>4, WorkConstants DEF WorkBounded

----------------------------------------------------------------------------
(* Types.                                                                  *)

\* What the requests of a peer-reviewed project know names rows that are there.
LEMMA WorkIsTyped == ASSUME WorkInv, WorkBounded PROVE S!TypeOK
<1> DEFINE As == [author : Authors, graded : {Nobody, Creator} \cup {"peers"},
                  passed : BOOLEAN, assigned : Nat, completed : Nat, told : Nat]
           Rs == [reviewer : Learners, row : S!Ids, done : BOOLEAN]
           Qs == [pc : WorkPcs, by : S!Users \cup {Nobody}, review : {0} \cup DOMAIN reviews,
                  row : {0} \cup S!Ids, todo : SUBSET S!Ids,
                  ungraded : BOOLEAN, count : Nat]
<1>1. rows \in Seq(As)
  <2>1. \A i \in 1..Len(rows) : rows[i] \in As
    BY WorkLengths DEF Work
  <2>2. rows = [i \in 1..Len(rows) |-> rows[i]]
    BY WorkLengths, LenProperties
  <2> HIDE DEF As
  <2>3. rows \in [1..Len(rows) -> As] /\ Len(rows) \in Nat
    BY <2>1, <2>2, WorkLengths
  <2>4. QED
    BY <2>3, SeqDef
<1>2. reviews \in Seq(Rs)
  <2>1. \A k \in 1..Len(reviews) : reviews[k] \in Rs
    <3>1. \A k \in 1..Len(reviews) :
            reviews[k] \in PeerReview /\ reviews[k].row \in S!Ids
      BY WorkLengths DEF WorkInv, Proper, S!Ids
    <3>2. QED
      BY <3>1 DEF PeerReview
  <2>2. reviews = [k \in 1..Len(reviews) |-> reviews[k]]
    BY WorkLengths, LenProperties
  <2> HIDE DEF Rs
  <2>3. reviews \in [1..Len(reviews) -> Rs] /\ Len(reviews) \in Nat
    BY <2>1, <2>2, WorkLengths
  <2>4. QED
    BY <2>3, SeqDef
<1>3. request \in [Slots -> Qs]
  <2>1. ASSUME NEW s \in Slots PROVE request[s] \in Qs
    <3>1. request[s] \in Errand /\ Placed(request[s], Len(rows), Len(reviews))
      BY ErrandPlaced
    <3>2. /\ request[s].review \in {0} \cup DOMAIN reviews
          /\ request[s].row \in {0} \cup S!Ids /\ request[s].todo \in SUBSET S!Ids
      BY <3>1, WorkLengths DEF Placed, S!Ids
    <3>3. QED
      BY <3>1, <3>2 DEF Errand, S!Users
  <2>2. request = [s \in Slots |-> request[s]]
    BY DEF WorkInv, WorkTyped
  <2> HIDE DEF Qs
  <2>3. QED
    BY <2>1, <2>2
<1>4. QED
  BY <1>1, <1>2, <1>3, WorkLengths DEF S!TypeOK, WorkPcs, WorkInv, WorkTyped

\* Each component's types, with what keeps them.
TypesInv ==
  /\ part = "attempts" => AttemptsTyped
  /\ part = "integrity" => I!TypeOK
  /\ part = "submissions" => WorkInv /\ WorkBounded

LEMMA TypesAlways == LearningSpec => []TypesInv
<1>1. LearningInit => TypesInv
  BY AttemptsTypesInit, IntegrityTypesInit, WorkInit, BoundsInit
     DEF LearningInit, TypesInv
<1>2. TypesInv /\ [LearningNext]_learningVars => TypesInv'
  <2> SUFFICES ASSUME TypesInv, [LearningNext]_learningVars PROVE TypesInv'
    OBVIOUS
  <2>1. CASE UNCHANGED learningVars
    <3>1. part = "attempts" => AttemptsTyped'
      BY <2>1 DEF learningVars, AttemptsVars, RequestVars, TypesInv, AttemptsTyped,
         TypeOK, Attempt, Local, Bound
    <3>2. part = "integrity" => I!TypeOK'
      BY <2>1 DEF learningVars, IntegrityVars, TypesInv, I!TypeOK, I!Tally, I!All
    <3>3. part = "submissions" => WorkInv' /\ WorkBounded'
      BY <2>1 DEF learningVars, SubmissionsVars, RequestVars, TypesInv, WorkInv,
         WorkTyped, WorkBounded
    <3>4. part' = part
      BY <2>1 DEF learningVars
    <3>5. QED
      BY <3>1, <3>2, <3>3, <3>4 DEF TypesInv
  <2>2. CASE LearningNext
    BY <2>2, AttemptsTypesKept, IntegrityTypesKept, WorkNext, BoundsNext
       DEF LearningNext, TypesInv
  <2>3. QED
    BY <2>1, <2>2
<1>3. QED
  BY <1>1, <1>2, PTL DEF LearningSpec

\* Every component keeps its types, for any learners, lessons, handlers, sweeps
\* and reports: a request that is about to write a row or to tell of one knows a
\* row that is there, a tally never counts more flags than there are log rows,
\* and a review is of work that was handed in.
THEOREM LearningTyped == LearningSpec => []TypesOK
<1>1. TypesInv /\ BadgesInv /\ RemindersInv => TypesOK
  <2> SUFFICES ASSUME TypesInv, BadgesInv, RemindersInv PROVE TypesOK
    OBVIOUS
  <2>1. part = "attempts" => TypeOK
    BY DEF TypesInv, AttemptsTyped
  <2>2. part = "submissions" => S!TypeOK
    BY WorkIsTyped DEF TypesInv
  <2>3. part = "engagement" => E!TypeOK
    BY DEF BadgesInv, EngagementInv, EngagementTyped, E!TypeOK, Handling,
       EngagementPcs
  <2>4. part = "reminders" => R!TypeOK
    BY DEF RemindersInv, NoticesTyped
  <2>5. QED
    BY <2>1, <2>2, <2>3, <2>4 DEF TypesOK, TypesInv
<1>2. QED
  BY <1>1, TypesAlways, BadgesAlways, RemindersAlways, PTL

-----------------------------------------------------------------------------
(* Attempts: a retry is not withheld.                                      *)

\* A retry is not withheld from a learner who has not passed: a first try, one
\* that is spaced while the tries made are fewer than a window holds, and one
\* that is spaced once a lockout has gone by since the last try, whatever the
\* tries before (computeRetryState in retry-policy.calculator.ts).
THEOREM RetryIsNotWithheld ==
  ASSUME NEW times \in Seq(Nat), NEW t \in Nat,
         times # <<>> =>
           /\ Spacing = None \/ t >= times[Len(times)] + Spacing
           /\ \/ MaxTries = None
              \/ Len(times) < MaxTries
              \/ Lockout # None /\ t >= times[Len(times)] + Lockout
  PROVE  CanRetry(times, FALSE, t)
<1> DEFINE w == Window(times)
<1>1. Walked(times, Len(times), w)
  BY WindowWalked
<1> HIDE DEF w
<1>2. /\ Len(times) \in Nat /\ Len(w) \in Nat /\ Len(w) <= Len(times)
      /\ times = <<>> => w = <<>>
      /\ times # <<>> => Len(w) > 0 /\ w # <<>>
  <2>1. Len(times) \in Nat /\ Len(w) \in Nat /\ w \in Seq(Nat)
    BY <1>1, LenProperties DEF Walked
  <2>2. times # <<>> => Len(times) > 0
    BY <2>1, EmptySeq
  <2>3. times = <<>> => w = <<>>
    BY <1>1, <2>1, EmptySeq DEF Walked
  <2>4. QED
    BY <1>1, <2>1, <2>2, <2>3 DEF Walked
<1>3. times # <<>> => w[Len(w)] = times[Len(times)]
  <2> SUFFICES ASSUME times # <<>> PROVE w[Len(w)] = times[Len(times)]
    OBVIOUS
  <2>1. Len(w) \in 1..Len(w)
    BY <1>2
  <2>2. (Len(times) - Len(w)) + Len(w) = Len(times)
    BY <1>2
  <2>3. QED
    BY <1>1, <2>1, <2>2 DEF Walked
<1>4. CASE times = <<>>
  <2>1. w = <<>> /\ ~Full(w)
    BY <1>2, <1>4, RetryAssumption DEF Full
  <2>2. QED
    BY <2>1 DEF CanRetry, w
<1>5. CASE times # <<>> /\ Full(w)
  <2>1. Lockout # None /\ t >= w[Len(w)] + Lockout
    BY <1>2, <1>3, <1>5, RetryAssumption DEF Full
  <2>2. Elapsed(w, t)
    BY <1>5, <2>1 DEF Elapsed, LockoutEnd
  <2>3. QED
    BY <2>2 DEF CanRetry, w
<1>6. CASE times # <<>> /\ ~Full(w)
  <2>1. Spacing = None \/ w[Len(w)] + Spacing <= t
    <3>1. times[Len(times)] \in Nat
      BY <1>2, <1>6, LenProperties
    <3>2. \A x, y \in Nat : t >= x + y => x + y <= t
      OBVIOUS
    <3>3. QED
      BY <1>3, <1>6, <3>1, <3>2, RetryAssumption
  <2>2. QED
    BY <1>6, <2>1 DEF CanRetry, w
<1>7. QED
  BY <1>4, <1>5, <1>6

\* The times that the calculator is given are those of the counted attempts.
LEMMA CountedTimes ==
  ASSUME TypeOK
  PROVE  LET s == CountedInOrder
             times == [n \in DOMAIN s |-> attempts[s[n]].submitted]
         IN  /\ times \in Seq(Nat) /\ Len(times) = Cardinality(Counted)
             /\ \A n \in 1..Len(times) : \E i \in Counted :
                  times[n] = attempts[i].submitted /\ attempts[i].submitted \in Nat
<1> DEFINE s == CountedInOrder
           times == [n \in DOMAIN s |-> attempts[s[n]].submitted]
           N == Cardinality(Counted)
<1>1. Len(attempts) \in Nat /\ attempts \in [1..Len(attempts) -> Attempt]
  BY LenProperties DEF TypeOK
<1>2. \A i \in Counted : attempts[i].submitted \in Nat
  <2>1. \A i \in Counted : attempts[i] \in Attempt /\ attempts[i].submitted # None
    BY <1>1 DEF Counted, Ids, Open
  <2>2. QED
    BY <2>1, AttemptsConstants DEF Attempt
<1>3. Counted \in SUBSET Nat /\ IsFiniteSet(Counted)
  <2>1. Counted \in SUBSET (1..Len(attempts))
    BY DEF Counted, Ids
  <2>2. 1 \in Int /\ Len(attempts) \in Int
    BY <1>1
  <2>3. IsFiniteSet(1..Len(attempts))
    BY <2>2, FS_Interval
  <2>4. \A j \in 1..Len(attempts) : j \in Nat
    OBVIOUS
  <2>5. QED
    BY <2>1, <2>3, <2>4, FS_Subset
<1>4. OrderOf(s, Counted)
  BY <1>2, <1>3, Ordered DEF CountedInOrder
<1> HIDE DEF s
<1>5. s \in [1..N -> Counted] /\ N \in Nat /\ DOMAIN s = 1..N
  BY <1>3, <1>4, LenProperties, FS_CardinalityType DEF OrderOf
<1>6. times \in [1..N -> Nat] /\ DOMAIN times = 1..N
  BY <1>2, <1>5
<1>7. times \in Seq(Nat)
  BY <1>5, <1>6, SeqDef
<1>8. Len(times) = N
  BY <1>5, <1>6, <1>7, LenProperties
<1>9. \A n \in 1..N : s[n] \in Counted /\ times[n] = attempts[s[n]].submitted
  BY <1>5
<1> HIDE DEF times, N
<1>10. \A n \in 1..Len(times) : \E i \in Counted :
         times[n] = attempts[i].submitted /\ attempts[i].submitted \in Nat
  BY <1>2, <1>8, <1>9
<1>11. QED
  BY <1>7, <1>8, <1>10 DEF times, N, s

\* No counted attempt was passed or waits for its grade, and the policy's waits
\* are over.
Waited ==
  /\ \A i \in Counted :
       /\ attempts[i].passed # TRUE /\ ~(attempts[i].passed = None /\ attempts[i].held)
       /\ Spacing = None \/ now >= attempts[i].submitted + Spacing
  /\ \/ MaxTries = None
     \/ Cardinality(Counted) < MaxTries
     \/ Lockout # None
          /\ \A i \in Counted : now >= attempts[i].submitted + Lockout

LEMMA WaitedMayStart == ASSUME TypeOK, Waited PROVE MayStart
<1> DEFINE s == CountedInOrder
           times == [n \in DOMAIN s |-> attempts[s[n]].submitted]
           passed == \E i \in Counted : attempts[i].passed = TRUE
<1>1. /\ times \in Seq(Nat) /\ Len(times) = Cardinality(Counted)
      /\ \A n \in 1..Len(times) : \E i \in Counted :
           times[n] = attempts[i].submitted /\ attempts[i].submitted \in Nat
  BY CountedTimes
<1>2. passed = FALSE
  BY DEF Waited
<1>3. now \in Nat
  BY AttemptsConstants DEF TypeOK
<1> HIDE DEF times
<1>4. times # <<>> =>
        \E i \in Counted : times[Len(times)] = attempts[i].submitted
  <2>1. times # <<>> => Len(times) \in 1..Len(times)
    <3>1. Len(times) \in Nat /\ (times # <<>> => Len(times) # 0)
      BY <1>1, EmptySeq, LenProperties
    <3>2. QED
      BY <3>1
  <2>2. QED
    BY <1>1, <2>1
<1>5. times # <<>> =>
        /\ Spacing = None \/ now >= times[Len(times)] + Spacing
        /\ \/ MaxTries = None
           \/ Len(times) < MaxTries
           \/ Lockout # None /\ now >= times[Len(times)] + Lockout
  BY <1>1, <1>4 DEF Waited
<1>6. CanRetry(times, FALSE, now)
  BY <1>1, <1>3, <1>5, RetryIsNotWithheld
<1>7. ~\E i \in Counted : attempts[i].passed = None /\ attempts[i].held
  BY DEF Waited
<1> HIDE DEF passed
<1>8. CanRetry(times, passed, now)
  BY <1>2, <1>6
<1>9. QED
  BY <1>7, <1>8 DEF MayStart, times, passed, s

\* Whatever was held, graded, invalidated or accepted, by however many requests
\* at once, a learner who has not passed and has waited as the policy asks may
\* start another attempt: no history of attempts locks anybody out for longer
\* (eligibility in attempts.service.ts, computeRetryState in
\* retry-policy.calculator.ts).
THEOREM RetryIsOffered ==
  LearningSpec => [](part = "attempts" /\ Waited => MayStart)
<1>1. TypesInv => (part = "attempts" /\ Waited => MayStart)
  BY WaitedMayStart DEF TypesInv, AttemptsTyped
<1>2. QED
  BY <1>1, TypesAlways, PTL
=============================================================================

---------------------------- MODULE SittingProofs ----------------------------
(***************************************************************************)
(* Sitting, for any questions, choices and concurrent requests, and any    *)
(* number of edits, outages and crashes: every variable keeps its type, a  *)
(* page that is open again shows what the learner chose, and an attempt    *)
(* handed in before its time was up is graded on a map that a submit       *)
(* carried.                                                                *)
(***************************************************************************)
EXTENDS Sitting, FiniteSetTheorems, WellFoundedInduction, TLAPS

----------------------------------------------------------------------------
(* The invariant: nothing that is in memory, queued, on its way or saved   *)
(* answers a question that the learner has not answered, so the mirror,    *)
(* put on top of the server's copy, hides all of it.                       *)

Requests ==
  [pc : {"free", "sent", "save", "finalize", "reply"},
   kind : {"save", "flush", "submit", "resume"}, carries : Answers,
   awaited : BOOLEAN, copy : Answers, late : BOOLEAN,
   answer : {"none", "saved", "refused", "state", "result"}]

Rows == [timed : BOOLEAN, submitted : BOOLEAN, auto : BOOLEAN,
         answers : Answers, graded : Answers]

Within(map, ch) == \A q \in Questions : map[q] # Blank => ch[q] # Blank

\* The map's answers are the graded ones.
Counted(map, graded) == \A q \in Questions : map[q] \in {Blank, graded[q]}

Asking(r) == r.kind = "resume" /\ r.awaited

CallFits(r, ch, hd) ==
  /\ r \in Requests
  /\ Within(r.carries, ch) /\ Within(r.copy, ch)
  /\ r.pc = "reply" => r.awaited
  /\ r.kind = "submit" => r.carries \in hd
  /\ r.pc = "finalize" /\ ~r.late
       => r.kind = "submit" /\ Counted(r.carries, r.copy)

\* At most one request resumes the attempt, and only for a page that is away.
CallsFit(cs, pg, ch, hd) ==
  /\ cs \in [Calls -> Requests]
  /\ \A c \in Calls : CallFits(cs[c], ch, hd)
  /\ \A c \in Calls : Asking(cs[c]) => pg = "away"
  /\ \A c, d \in Calls : Asking(cs[c]) /\ Asking(cs[d]) => c = d

PageFits(pg, an, mi, pe, fl, ch) ==
  /\ pg \in {"taking", "away", "done"}
  /\ an \in Answers /\ mi \in Answers /\ pe \in Answers /\ ch \in Answers
  /\ fl \in [on : BOOLEAN, left : Answers]
  /\ Within(pe, ch) /\ Within(fl.left, ch)
  /\ pg # "done" => mi = ch
  /\ pg = "taking" => an = ch

RowFits(rw, ch, hd) ==
  /\ rw \in Rows
  /\ Within(rw.answers, ch)
  /\ rw.submitted /\ ~rw.auto => \E h \in hd : Counted(h, rw.graded)

Switches ==
  /\ submit \in {"none", "paused", "sent"}
  /\ wants \in BOOLEAN /\ countdown \in BOOLEAN
  /\ online \in BOOLEAN /\ late \in BOOLEAN
  /\ handed \subseteq Answers
  /\ edits \in 0..MaxEdits /\ fails \in 0..MaxFails

SInv ==
  /\ Switches
  /\ PageFits(page, answers, mirror, pending, flushing, chosen)
  /\ CallsFit(call, page, chosen, handed)
  /\ RowFits(row, chosen, handed)

LEMMA SInvTypes == SInv => TypeOK
BY DEF SInv, Switches, PageFits, CallsFit, RowFits, TypeOK, Requests, Rows

----------------------------------------------------------------------------
(* Maps of answers.                                                        *)

LEMMA NothingAnswers == Nothing \in Answers /\ \A ch : Within(Nothing, ch)
BY DEF Nothing, Answers, Within

LEMMA OnlyAnswers ==
  ASSUME NEW q \in Questions, NEW v \in Choices \cup {Blank},
         NEW ch, v # Blank => ch[q] # Blank
  PROVE  Only(q, v) \in Answers /\ Within(Only(q, v), ch)
BY DEF Only, Nothing, Answers, Within

LEMMA OverAnswers ==
  ASSUME NEW m \in Answers, NEW n \in Answers
  PROVE  /\ Over(m, n) \in Answers
         /\ Counted(m, Over(m, n))
         /\ \A ch : Within(m, ch) /\ Within(n, ch) => Within(Over(m, n), ch)
BY DEF Over, Answers, Within, Counted

\* What is on top hides a copy that answers nothing else.
LEMMA OverHides ==
  ASSUME NEW m \in Answers, NEW n \in Answers, Within(n, m)
  PROVE  Over(m, n) = m
<1>1. \A q \in Questions : Over(m, n)[q] = m[q]
  BY DEF Over, Within
<1>2. Over(m, n) \in Answers
  BY OverAnswers
<1>3. QED
  BY <1>1, <1>2 DEF Answers

LEMMA WithinTrans ==
  ASSUME NEW m, NEW ch, NEW ch2, Within(m, ch), Within(ch, ch2)
  PROVE  Within(m, ch2)
BY DEF Within

----------------------------------------------------------------------------
(* The requests.                                                           *)

Sent(kind, carries) ==
  [Free EXCEPT !.pc = "sent", !.kind = kind, !.carries = carries,
               !.awaited = TRUE]

\* A request takes the first slot that is free.
LEMMA SendTakesASlot ==
  ASSUME NEW cs, NEW kind, NEW carries, Slots(cs) # {}
  PROVE  \E f \in Slots(cs) :
           Send(cs, kind, carries) = [cs EXCEPT ![f] = Sent(kind, carries)]
<1> DEFINE c == CHOOSE s \in Slots(cs) : \A t \in Slots(cs) : s <= t
<1>1. Slots(cs) \subseteq Nat
  BY SittingAssumption DEF Slots
<1>2. \E s \in Slots(cs) : \A t \in Slots(cs) : <<t, s>> \notin OpToRel(<, Nat)
  <2>1. IsWellFoundedOn(OpToRel(<, Nat), Nat)
    BY NatLessThanWellFounded
  <2> HIDE DEF OpToRel
  <2>2. QED
    BY <1>1, <2>1, WFMin
<1>3. \E s \in Slots(cs) : \A t \in Slots(cs) : s <= t
  <2>1. PICK s \in Slots(cs) :
          \A t \in Slots(cs) : <<t, s>> \notin OpToRel(<, Nat)
    BY <1>2
  <2>2. ASSUME NEW t \in Slots(cs) PROVE s <= t
    <3>1. s \in Nat /\ t \in Nat
      BY <1>1
    <3>2. ~ (t < s)
      BY <2>1, <3>1 DEF OpToRel
    <3>3. QED
      BY <3>1, <3>2
  <2>3. QED
    BY <2>2
<1>4. c \in Slots(cs)
  BY <1>3
<1>5. Send(cs, kind, carries) = [cs EXCEPT ![c] = Sent(kind, carries)]
  BY Zenon DEF Send, Sent
<1>6. QED
  BY <1>4, <1>5

LEMMA SentFits ==
  ASSUME NEW ch, NEW hd,
         NEW kind \in {"save", "flush", "submit", "resume"},
         NEW carries \in Answers, Within(carries, ch),
         kind = "submit" => carries \in hd
  PROVE  CallFits(Sent(kind, carries), ch, hd)
<1> DEFINE r == Sent(kind, carries)
<1>1. /\ r \in Requests
      /\ r.pc = "sent" /\ r.kind = kind /\ r.carries = carries
      /\ r.copy = Nothing
  BY NothingAnswers DEF Sent, Free, Requests
<1>2. Within(Nothing, ch)
  BY NothingAnswers
<1> HIDE DEF r
<1>3. CallFits(r, ch, hd)
  BY <1>1, <1>2 DEF CallFits
<1>4. QED
  BY <1>3 DEF r

LEMMA FreeFits ==
  ASSUME NEW ch, NEW hd
  PROVE  CallFits(Free, ch, hd) /\ ~Asking(Free)
<1>1. Free \in Requests
  BY NothingAnswers DEF Free, Requests
<1>2. QED
  BY <1>1, NothingAnswers DEF CallFits, Free, Asking

\* One request changes, and does not start to ask.
LEMMA OneFits ==
  ASSUME NEW cs, NEW pg, NEW ch, NEW hd, CallsFit(cs, pg, ch, hd),
         NEW c \in Calls, NEW r, CallFits(r, ch, hd),
         Asking(r) => Asking(cs[c])
  PROVE  CallsFit([cs EXCEPT ![c] = r], pg, ch, hd)
<1> DEFINE ds == [cs EXCEPT ![c] = r]
<1>1. cs \in [Calls -> Requests] /\ r \in Requests
  BY DEF CallsFit, CallFits
<1>2. /\ ds \in [Calls -> Requests]
      /\ \A d \in Calls : ds[d] = IF d = c THEN r ELSE cs[d]
  BY <1>1
<1>3. \A d \in Calls : Asking(ds[d]) => Asking(cs[d])
  BY <1>2
<1> HIDE DEF ds
<1>4. \A d \in Calls : CallFits(ds[d], ch, hd)
  BY <1>2 DEF CallsFit
<1>5. CallsFit(ds, pg, ch, hd)
  BY <1>2, <1>3, <1>4 DEF CallsFit
<1>6. QED
  BY <1>5 DEF ds

LEMMA SendFits ==
  ASSUME NEW cs, NEW pg, NEW ch, NEW hd, CallsFit(cs, pg, ch, hd),
         Slots(cs) # {},
         NEW kind \in {"save", "flush", "submit"}, NEW carries \in Answers,
         Within(carries, ch), kind = "submit" => carries \in hd
  PROVE  CallsFit(Send(cs, kind, carries), pg, ch, hd)
<1>1. PICK f \in Slots(cs) :
        Send(cs, kind, carries) = [cs EXCEPT ![f] = Sent(kind, carries)]
  BY SendTakesASlot
<1>2. CallFits(Sent(kind, carries), ch, hd) /\ ~Asking(Sent(kind, carries))
  <2>1. CallFits(Sent(kind, carries), ch, hd)
    BY SentFits
  <2>2. Sent(kind, carries).kind = kind
    BY DEF Sent, Free
  <2>3. QED
    BY <2>1, <2>2 DEF Asking
<1>3. f \in Calls
  BY DEF Slots
<1> DEFINE r == Sent(kind, carries)
<1>4. CallFits(r, ch, hd) /\ ~Asking(r)
  BY <1>2
<1> HIDE DEF r
<1>5. CallsFit([cs EXCEPT ![f] = r], pg, ch, hd)
  BY <1>3, <1>4, OneFits
<1>6. QED
  BY <1>1, <1>5 DEF r

LEMMA ResumeFits ==
  ASSUME NEW cs, NEW ch, NEW hd, CallsFit(cs, "away", ch, hd),
         Slots(cs) # {}, \A c \in Calls : ~cs[c].awaited
  PROVE  CallsFit(Send(cs, "resume", Nothing), "away", ch, hd)
<1>1. PICK f \in Slots(cs) :
        Send(cs, "resume", Nothing) = [cs EXCEPT ![f] = Sent("resume", Nothing)]
  BY SendTakesASlot
<1> DEFINE r == Sent("resume", Nothing)
           ds == [cs EXCEPT ![f] = r]
<1>2. CallFits(r, ch, hd)
  BY SentFits, NothingAnswers
<1>3. f \in Calls /\ cs \in [Calls -> Requests] /\ r \in Requests
  BY <1>2 DEF Slots, CallsFit, CallFits
<1> HIDE DEF r
<1>4. /\ ds \in [Calls -> Requests]
      /\ \A d \in Calls : ds[d] = IF d = f THEN r ELSE cs[d]
  BY <1>3
<1>5. \A d \in Calls : Asking(ds[d]) => d = f
  BY <1>4 DEF Asking
<1> HIDE DEF ds
<1>6. CallsFit(ds, "away", ch, hd)
  BY <1>2, <1>4, <1>5 DEF CallsFit
<1>7. QED
  BY <1>1, <1>6 DEF ds, r

\* The learner chooses, and the page hands in: no request minds.
LEMMA GrowFits ==
  ASSUME NEW cs, NEW pg, NEW ch, NEW hd, CallsFit(cs, pg, ch, hd),
         NEW ch2, NEW hd2, Within(ch, ch2), hd \subseteq hd2
  PROVE  CallsFit(cs, pg, ch2, hd2)
<1>1. ASSUME NEW c \in Calls PROVE CallFits(cs[c], ch2, hd2)
  <2>1. CallFits(cs[c], ch, hd)
    BY DEF CallsFit
  <2>2. Within(cs[c].carries, ch2) /\ Within(cs[c].copy, ch2)
    BY <2>1, WithinTrans DEF CallFits
  <2>3. QED
    BY <2>1, <2>2 DEF CallFits
<1>2. QED
  BY <1>1 DEF CallsFit

\* A page that is gone waits for nothing.
LEMMA DisownFits ==
  ASSUME NEW cs, NEW pg, NEW ch, NEW hd, CallsFit(cs, pg, ch, hd), NEW pg2
  PROVE  CallsFit(Disown(cs), pg2, ch, hd)
<1>1. ASSUME NEW c \in Calls
      PROVE  CallFits(Disown(cs)[c], ch, hd) /\ ~Asking(Disown(cs)[c])
  <2>1. CallFits(cs[c], ch, hd)
    BY DEF CallsFit
  <2>2. CASE cs[c].pc = "reply"
    <3>1. Disown(cs)[c] = Free
      BY <2>2 DEF Disown
    <3>2. QED
      BY <3>1, FreeFits
  <2>3. CASE cs[c].pc # "reply"
    <3>1. Disown(cs)[c] = [cs[c] EXCEPT !.awaited = FALSE]
      BY <2>3 DEF Disown
    <3>2. [cs[c] EXCEPT !.awaited = FALSE] \in Requests
      BY <2>1 DEF CallFits, Requests
    <3>3. QED
      BY <2>1, <2>3, <3>1, <3>2 DEF CallFits, Asking, Requests
  <2>4. QED
    BY <2>2, <2>3
<1>2. Disown(cs) \in [Calls -> Requests]
  <2>1. \A c \in Calls : Disown(cs)[c] \in Requests
    BY <1>1 DEF CallFits
  <2>2. QED
    BY <2>1 DEF Disown
<1>3. QED
  BY <1>1, <1>2 DEF CallsFit

\* Nobody asks: the page may become anything.
LEMMA UnaskedFits ==
  ASSUME NEW cs, NEW pg, NEW ch, NEW hd, CallsFit(cs, pg, ch, hd),
         \A c \in Calls : ~Asking(cs[c]), NEW pg2
  PROVE  CallsFit(cs, pg2, ch, hd)
BY DEF CallsFit

\* The page stops waiting for a request: answered, given up, or lost with it.
LEMMA SettledFits ==
  ASSUME NEW cs, NEW pg, NEW ch, NEW hd, CallsFit(cs, pg, ch, hd),
         NEW c \in Calls,
         NEW r \in {Free, [cs[c] EXCEPT !.awaited = FALSE]},
         r # Free => cs[c].pc # "reply"
  PROVE  /\ CallsFit([cs EXCEPT ![c] = r], pg, ch, hd)
         /\ Asking(cs[c]) =>
              \A d \in Calls : ~Asking([cs EXCEPT ![c] = r][d])
<1>1. CallFits(cs[c], ch, hd)
  BY DEF CallsFit
<1>2. CallFits(r, ch, hd) /\ ~Asking(r)
  <2>1. CASE r = Free
    BY <2>1, FreeFits
  <2>2. CASE r # Free
    <3>1. r = [cs[c] EXCEPT !.awaited = FALSE] /\ cs[c].pc # "reply"
      BY <2>2
    <3>2. r \in Requests
      BY <1>1, <3>1 DEF CallFits, Requests
    <3>3. QED
      BY <1>1, <3>1, <3>2 DEF CallFits, Asking, Requests
  <2>3. QED
    BY <2>1, <2>2
<1>3. CallsFit([cs EXCEPT ![c] = r], pg, ch, hd)
  BY <1>2, OneFits
<1>4. cs \in [Calls -> Requests]
  BY DEF CallsFit
<1>5. ASSUME Asking(cs[c]), NEW d \in Calls
      PROVE  ~Asking([cs EXCEPT ![c] = r][d])
  <2>1. [cs EXCEPT ![c] = r][d] = IF d = c THEN r ELSE cs[d]
    BY <1>4
  <2>2. Asking(cs[d]) => d = c
    BY <1>5 DEF CallsFit
  <2>3. QED
    BY <1>2, <2>1, <2>2
<1>6. QED
  BY <1>3, <1>5

----------------------------------------------------------------------------
(* The flush.                                                              *)

Flushed(left, cs, fl, cs2) ==
  IF Queued(left) = {}
  THEN fl = Quiet /\ cs2 = cs
  ELSE \E q \in Queued(left) :
         /\ fl = [on |-> TRUE, left |-> [left EXCEPT ![q] = Blank]]
         /\ cs2 = Send(cs, "flush", Only(q, left[q]))

QueueFits(fl, ch) == fl \in [on : BOOLEAN, left : Answers] /\ Within(fl.left, ch)

LEMMA QuietFits == \A ch : QueueFits(Quiet, ch)
<1>1. Quiet.left = Nothing /\ Quiet \in [on : BOOLEAN, left : Answers]
  BY NothingAnswers DEF Quiet
<1>2. QED
  BY <1>1, NothingAnswers DEF QueueFits

LEMMA FlushFits ==
  ASSUME NEW cs, NEW pg, NEW ch, NEW hd, CallsFit(cs, pg, ch, hd),
         Slots(cs) # {}, NEW left \in Answers, Within(left, ch),
         NEW fl, NEW cs2, Flushed(left, cs, fl, cs2)
  PROVE  QueueFits(fl, ch) /\ CallsFit(cs2, pg, ch, hd)
<1>1. CASE Queued(left) = {}
  BY <1>1, QuietFits DEF Flushed
<1>2. CASE Queued(left) # {}
  <2>1. PICK q \in Queued(left) :
          /\ fl = [on |-> TRUE, left |-> [left EXCEPT ![q] = Blank]]
          /\ cs2 = Send(cs, "flush", Only(q, left[q]))
    BY <1>2 DEF Flushed
  <2>2. q \in Questions /\ left[q] \in Choices \cup {Blank} /\ ch[q] # Blank
    BY DEF Queued, Within, Answers
  <2>3. Only(q, left[q]) \in Answers /\ Within(Only(q, left[q]), ch)
    BY <2>2, OnlyAnswers
  <2>4. CallsFit(cs2, pg, ch, hd)
    BY <2>1, <2>3, SendFits
  <2>5. [left EXCEPT ![q] = Blank] \in Answers
    BY DEF Answers
  <2>6. Within([left EXCEPT ![q] = Blank], ch)
    BY DEF Within, Answers
  <2>7. QueueFits(fl, ch)
    BY <2>1, <2>5, <2>6 DEF QueueFits
  <2>8. QED
    BY <2>4, <2>7
<1>3. QED
  BY <1>1, <1>2

----------------------------------------------------------------------------
(* The steps.                                                              *)

LEMMA SInvInit == Init => SInv
<1> SUFFICES ASSUME Init PROVE SInv
  OBVIOUS
<1>1. Switches
  <2>1. edits \in 0..MaxEdits /\ fails \in 0..MaxFails
    BY SittingAssumption DEF Init
  <2>2. /\ submit \in {"none", "paused", "sent"}
        /\ wants \in BOOLEAN /\ countdown \in BOOLEAN
        /\ online \in BOOLEAN /\ late \in BOOLEAN
        /\ handed \subseteq Answers
    BY DEF Init
  <2>3. QED
    BY <2>1, <2>2 DEF Switches
<1>2. PageFits(page, answers, mirror, pending, flushing, chosen)
  <2>1. QueueFits(flushing, chosen)
    BY QuietFits DEF Init
  <2>2. QED
    BY <2>1, NothingAnswers DEF Init, PageFits, QueueFits
<1>3. CallsFit(call, page, chosen, handed)
  <2>1. \A c \in Calls : CallFits(call[c], chosen, handed) /\ ~Asking(call[c])
    BY FreeFits DEF Init
  <2>2. call \in [Calls -> Requests]
    <3>1. Free \in Requests
      BY NothingAnswers DEF Free, Requests
    <3>2. QED
      BY <3>1 DEF Init
  <2>3. QED
    BY <2>1, <2>2 DEF CallsFit
<1>4. RowFits(row, chosen, handed)
  BY NothingAnswers DEF Init, RowFits, Rows
<1>5. QED
  BY <1>1, <1>2, <1>3, <1>4 DEF SInv

LEMMA StepChoose ==
  ASSUME SInv, NEW q \in Questions, NEW v \in Choices, Choose(q, v)
  PROVE  SInv'
<1>1. /\ page = "taking" /\ page' = page
      /\ chosen \in Answers /\ answers = chosen /\ mirror = chosen
      /\ pending \in Answers /\ Within(pending, chosen)
      /\ QueueFits(flushing, chosen)
  BY DEF Choose, Taking, SInv, PageFits, QueueFits
<1>2. /\ chosen' = [chosen EXCEPT ![q] = v] /\ answers' = chosen'
      /\ mirror' = chosen'
  BY <1>1 DEF Choose
<1>3. v # Blank
  BY SittingAssumption
<1>4. chosen' \in Answers /\ Within(chosen, chosen') /\ chosen'[q] = v
  BY <1>1, <1>2, <1>3 DEF Answers, Within
<1>5. Only(q, v) \in Answers /\ Within(Only(q, v), chosen')
  BY <1>3, <1>4, OnlyAnswers
<1>6. PageFits(page', answers', mirror', pending', flushing', chosen')
  <2>1. QueueFits(flushing', chosen')
    BY <1>1, <1>4, WithinTrans DEF Choose, QueueFits
  <2>2. pending' \in Answers /\ Within(pending', chosen')
    <3>1. CASE online
      BY <1>1, <1>4, <3>1, WithinTrans DEF Choose
    <3>2. CASE ~online
      <4>1. pending' = [pending EXCEPT ![q] = v]
        BY <3>2 DEF Choose
      <4>2. Within(pending, chosen')
        BY <1>1, <1>4, WithinTrans
      <4>3. QED
        BY <1>1, <1>3, <1>4, <4>1, <4>2 DEF Within, Answers
    <3>3. QED
      BY <3>1, <3>2
  <2>3. QED
    BY <1>1, <1>2, <1>4, <2>1, <2>2 DEF PageFits, QueueFits
<1>7. CallsFit(call', page', chosen', handed')
  <2>1. CallsFit(call, page, chosen', handed)
    BY <1>4, GrowFits DEF SInv
  <2>2. handed' = handed
    BY DEF Choose
  <2>3. CASE online
    <3>1. Slots(call) # {} /\ call' = Send(call, "save", Only(q, v))
      BY <2>3 DEF Choose
    <3>2. CallsFit(call', page, chosen', handed)
      BY <1>5, <2>1, <3>1, SendFits
    <3>3. QED
      BY <1>1, <2>2, <3>2
  <2>4. CASE ~online
    <3>1. call' = call
      BY <2>4 DEF Choose
    <3>2. QED
      BY <1>1, <2>1, <2>2, <3>1
  <2>5. QED
    BY <2>3, <2>4
<1>8. RowFits(row', chosen', handed')
  <2>1. row' = row /\ handed' = handed
    BY DEF Choose
  <2>2. Within(row.answers, chosen')
    BY <1>4, WithinTrans DEF SInv, RowFits
  <2>3. QED
    BY <2>1, <2>2 DEF SInv, RowFits
<1>9. Switches'
  BY SittingAssumption DEF SInv, Switches, Choose
<1>10. QED
  BY <1>6, <1>7, <1>8, <1>9 DEF SInv

LEMMA StepSweep == SInv /\ Sweep => SInv'
<1> SUFFICES ASSUME SInv, Sweep PROVE SInv'
  OBVIOUS
<1>1. Flushed(pending, call, flushing', call') /\ Slots(call) # {}
  BY DEF Sweep, FlushFrom, Flushed
<1>2. pending \in Answers /\ Within(pending, chosen)
  BY DEF SInv, PageFits
<1>3. CallsFit(call, page, chosen, handed)
  BY DEF SInv
<1>4. QueueFits(flushing', chosen) /\ CallsFit(call', page, chosen, handed)
  BY <1>1, <1>2, <1>3, FlushFits
<1>5. UNCHANGED <<page, answers, mirror, pending, submit, wants, countdown,
                  online, row, late, chosen, handed, edits, fails>>
  BY DEF Sweep, history
<1>6. PageFits(page', answers', mirror', pending', flushing', chosen')
  BY <1>4, <1>5 DEF SInv, PageFits, QueueFits
<1>7. QED
  BY <1>4, <1>5, <1>6 DEF SInv, Switches, RowFits

\* A submit carries the page's answers, which are then handed in.
LEMMA SubmitSent ==
  ASSUME NEW cs, NEW ch \in Answers, NEW hd,
         CallsFit(cs, "taking", ch, hd), Slots(cs) # {}
  PROVE  CallsFit(Send(cs, "submit", ch), "taking", ch, hd \cup {ch})
<1>1. Within(ch, ch) /\ hd \subseteq hd \cup {ch}
  BY DEF Within
<1>2. CallsFit(cs, "taking", ch, hd \cup {ch})
  BY <1>1, GrowFits
<1>3. QED
  BY <1>1, <1>2, SendFits

LEMMA RowStays ==
  ASSUME NEW rw, NEW ch, NEW hd, RowFits(rw, ch, hd), NEW hd2, hd \subseteq hd2
  PROVE  RowFits(rw, ch, hd2)
BY DEF RowFits

LEMMA StepDoSubmit == SInv /\ DoSubmit => SInv'
<1> SUFFICES ASSUME SInv, DoSubmit PROVE SInv'
  OBVIOUS
<1>1. /\ page = "taking" /\ answers = chosen /\ chosen \in Answers
      /\ CallsFit(call, "taking", chosen, handed)
      /\ RowFits(row, chosen, handed)
  BY DEF DoSubmit, Taking, SInv, PageFits
<1>2. UNCHANGED <<page, answers, mirror, pending, flushing, countdown, online,
                  row, late, chosen, edits, fails>>
  BY DEF DoSubmit
<1>3. CallsFit(call', "taking", chosen, handed') /\ handed \subseteq handed'
        /\ handed' \subseteq Answers
  <2>1. CASE online
    <3>1. /\ Slots(call) # {} /\ call' = Send(call, "submit", chosen)
          /\ handed' = handed \cup {chosen}
      BY <1>1, <2>1 DEF DoSubmit
    <3>2. QED
      BY <1>1, <3>1, SubmitSent DEF SInv, Switches
  <2>2. CASE ~online
    BY <1>1, <2>2 DEF DoSubmit, SInv, Switches
  <2>3. QED
    BY <2>1, <2>2
<1>4. RowFits(row', chosen', handed')
  BY <1>1, <1>2, <1>3, RowStays
<1>5. Switches'
  BY <1>2, <1>3 DEF SInv, Switches, DoSubmit
<1>6. QED
  BY <1>1, <1>2, <1>3, <1>4, <1>5 DEF SInv

LEMMA SecondSlot ==
  ASSUME NEW cs, Cardinality(Slots(cs)) >= 2, NEW kind, NEW carries,
         cs \in [Calls -> Requests]
  PROVE  Slots(cs) # {} /\ Slots(Send(cs, kind, carries)) # {}
<1>1. IsFiniteSet(Slots(cs))
  BY SittingAssumption, FS_Subset DEF Slots
<1>2. Slots(cs) # {}
  BY FS_EmptySet
<1>3. PICK f \in Slots(cs) :
        Send(cs, kind, carries) = [cs EXCEPT ![f] = Sent(kind, carries)]
  BY <1>2, SendTakesASlot
<1>4. PICK g \in Slots(cs) : g # f
  <2>1. Cardinality(Slots(cs) \ {f}) = Cardinality(Slots(cs)) - 1
    BY <1>1, FS_RemoveElement
  <2>2. Cardinality(Slots(cs)) \in Nat
    BY <1>1, FS_CardinalityType
  <2>3. Slots(cs) \ {f} # {}
    BY <2>1, <2>2, FS_EmptySet
  <2>4. QED
    BY <2>3
<1>5. Send(cs, kind, carries)[g] = cs[g] /\ g \in Calls
  BY <1>3, <1>4 DEF Slots
<1>6. g \in Slots(Send(cs, kind, carries))
  BY <1>4, <1>5 DEF Slots
<1>7. QED
  BY <1>2, <1>6

LEMMA StepReconnect == SInv /\ Reconnect => SInv'
<1> SUFFICES ASSUME SInv, Reconnect PROVE SInv'
  OBVIOUS
<1> DEFINE resubmits == Taking /\ wants /\ submit # "sent"
           calls == IF resubmits THEN Send(call, "submit", answers) ELSE call
<1>1. /\ chosen \in Answers /\ pending \in Answers /\ Within(pending, chosen)
      /\ QueueFits(flushing, chosen)
      /\ CallsFit(call, page, chosen, handed)
      /\ RowFits(row, chosen, handed)
      /\ Taking => page = "taking" /\ answers = chosen
  BY DEF Taking, SInv, PageFits, QueueFits
<1>2. UNCHANGED <<page, answers, mirror, pending, wants, countdown, row, late,
                  chosen, edits, fails>>
  BY DEF Reconnect
<1>3. Slots(call) # {} /\ Slots(calls) # {}
  <2>1. Cardinality(Slots(call)) >= 2 /\ call \in [Calls -> Requests]
    BY <1>1 DEF Reconnect, CallsFit
  <2>2. Slots(call) # {} /\ Slots(Send(call, "submit", answers)) # {}
    BY <2>1, SecondSlot
  <2>3. QED
    BY <2>2
<1>4. /\ CallsFit(calls, page, chosen, handed')
      /\ handed \subseteq handed' /\ handed' \subseteq Answers
      /\ submit' \in {"none", "paused", "sent"}
  <2>1. CASE resubmits
    <3>1. handed' = handed \cup {chosen} /\ submit' = "sent"
      BY <1>1, <2>1 DEF Reconnect
    <3>2. calls = Send(call, "submit", chosen) /\ page = "taking"
      BY <1>1, <2>1
    <3> HIDE DEF calls
    <3>3. CallsFit(Send(call, "submit", chosen), "taking", chosen,
                   handed \cup {chosen})
      BY <1>1, <1>3, <3>2, SubmitSent
    <3>4. QED
      BY <1>1, <3>1, <3>2, <3>3 DEF SInv, Switches
  <2>2. CASE ~resubmits
    <3>1. handed' = handed /\ submit' = submit
      BY <2>2 DEF Reconnect
    <3>2. calls = call
      BY <2>2
    <3> HIDE DEF calls
    <3>3. QED
      BY <1>1, <3>1, <3>2 DEF SInv, Switches
  <2>3. QED
    BY <2>1, <2>2
<1>5. QueueFits(flushing', chosen) /\ CallsFit(call', page, chosen, handed')
  <2>1. CASE Taking /\ ~flushing.on
    <3>1. Flushed(pending, calls, flushing', call')
      BY <2>1 DEF Reconnect, FlushFrom, Flushed
    <3> HIDE DEF calls
    <3>2. QED
      BY <1>1, <1>3, <1>4, <3>1, FlushFits
  <2>2. CASE ~(Taking /\ ~flushing.on)
    <3>1. call' = calls /\ flushing' = flushing
      BY <2>2 DEF Reconnect
    <3> HIDE DEF calls
    <3>2. QED
      BY <1>1, <1>4, <3>1
  <2>3. QED
    BY <2>1, <2>2
<1> HIDE DEF calls, resubmits
<1>6. PageFits(page', answers', mirror', pending', flushing', chosen')
  BY <1>2, <1>5 DEF SInv, PageFits, QueueFits
<1>7. RowFits(row', chosen', handed')
  BY <1>1, <1>2, <1>4, RowStays
<1>8. Switches'
  BY <1>2, <1>4 DEF SInv, Switches, Reconnect
<1>9. QED
  BY <1>2, <1>5, <1>6, <1>7, <1>8 DEF SInv

LEMMA StepResume == SInv /\ Resume => SInv'
<1> SUFFICES ASSUME SInv, Resume PROVE SInv'
  OBVIOUS
<1>1. /\ page = "away" /\ Slots(call) # {} /\ \A c \in Calls : ~call[c].awaited
      /\ call' = Send(call, "resume", Nothing)
      /\ UNCHANGED <<page, answers, mirror, pending, flushing, submit, wants,
                     countdown, online, row, late, chosen, handed, edits, fails>>
  BY DEF Resume, pageVars, history
<1>2. CallsFit(call, "away", chosen, handed)
  BY <1>1 DEF SInv
<1>3. CallsFit(call', "away", chosen, handed)
  BY <1>1, <1>2, ResumeFits
<1>4. QED
  BY <1>1, <1>3 DEF SInv, Switches

----------------------------------------------------------------------------
(* Answers and errors.                                                     *)

AnswerKinds == {"none", "saved", "refused", "state", "result", "lost"}

\* The page learns how a request that it waits for ended; one that was saved
\* leaves its slot.
Settles(c) ==
  /\ call[c].awaited
  /\ \E r \in {Free, [call[c] EXCEPT !.awaited = FALSE]}, answer \in AnswerKinds :
       /\ r # Free => call[c].pc # "reply"
       /\ answer = "saved" => r = Free
       /\ Settle(c, answer, [call EXCEPT ![c] = r])

LEMMA AnsweredSettles ==
  ASSUME SInv, NEW c \in Calls, Answered(c)
  PROVE  Settles(c)
<1>1. CallFits(call[c], chosen, handed)
  BY DEF SInv, CallsFit
<1>2. call[c].awaited /\ call[c].answer \in AnswerKinds
  BY <1>1 DEF Answered, CallFits, Requests, AnswerKinds
<1>3. Settle(c, call[c].answer, [call EXCEPT ![c] = Free])
  BY DEF Answered
<1>4. QED
  BY <1>2, <1>3 DEF Settles

LEMMA LoseSettles ==
  ASSUME SInv, NEW c \in Calls, Lose(c)
  PROVE  Settles(c)
<1>1. PICK arrives \in BOOLEAN :
        /\ arrives => call[c].pc # "reply"
        /\ ~arrives => call[c].pc \in {"sent", "reply"}
        /\ Settle(c, "lost", IF arrives THEN [call EXCEPT ![c].awaited = FALSE]
                             ELSE [call EXCEPT ![c] = Free])
  BY DEF Lose
<1>2. call[c].awaited /\ "lost" \in AnswerKinds
  BY DEF Lose, AnswerKinds
<1>3. CASE arrives
  <2>1. Settle(c, "lost", [call EXCEPT ![c] = [call[c] EXCEPT !.awaited = FALSE]])
    BY <1>1, <1>3
  <2>2. QED
    BY <1>1, <1>2, <1>3, <2>1 DEF Settles
<1>4. CASE ~arrives
  <2>1. Settle(c, "lost", [call EXCEPT ![c] = Free])
    BY <1>1, <1>4
  <2>2. QED
    BY <1>2, <2>1 DEF Settles
<1>5. QED
  BY <1>3, <1>4

\* What Unmount leaves.
LEMMA UnmountFits ==
  ASSUME PageFits(page, answers, mirror, pending, flushing, chosen), Unmount,
         NEW pg \in {"away", "done"}, NEW mi \in Answers,
         pg # "done" => mi = chosen
  PROVE  /\ PageFits(pg, answers', mi, pending', flushing', chosen)
         /\ submit' \in {"none", "paused", "sent"}
         /\ wants' \in BOOLEAN /\ countdown' \in BOOLEAN
<1>1. QueueFits(flushing', chosen)
  BY QuietFits DEF Unmount
<1>2. QED
  BY <1>1, NothingAnswers DEF PageFits, Unmount, QueueFits

LEMMA SettleFits ==
  ASSUME SInv, NEW c \in Calls, Settles(c)
  PROVE  /\ PageFits(page', answers', mirror', pending', flushing', chosen)
         /\ CallsFit(call', page', chosen, handed)
         /\ submit' \in {"none", "paused", "sent"}
         /\ wants' \in BOOLEAN /\ countdown' \in BOOLEAN
<1>1. PICK r \in {Free, [call[c] EXCEPT !.awaited = FALSE]},
           answer \in AnswerKinds :
        /\ r # Free => call[c].pc # "reply"
        /\ answer = "saved" => r = Free
        /\ Settle(c, answer, [call EXCEPT ![c] = r])
  BY DEF Settles
<1> DEFINE calls == [call EXCEPT ![c] = r]
<1>2. /\ PageFits(page, answers, mirror, pending, flushing, chosen)
      /\ CallsFit(call, page, chosen, handed)
      /\ CallFits(call[c], chosen, handed)
      /\ submit \in {"none", "paused", "sent"}
      /\ wants \in BOOLEAN /\ countdown \in BOOLEAN
      /\ call[c].awaited
  BY DEF SInv, Switches, CallsFit, Settles
<1>3. /\ CallsFit(calls, page, chosen, handed)
      /\ Asking(call[c]) => \A d \in Calls : ~Asking(calls[d])
  BY <1>1, <1>2, SettledFits
<1>4. answer = "saved" => Slots(calls) # {}
  <2>1. ASSUME answer = "saved" PROVE c \in Slots(calls)
    BY <1>1, <1>2, <2>1 DEF CallsFit, Slots, Free
  <2>2. QED
    BY <2>1
<1>5. Settle(c, answer, calls)
  BY <1>1
<1> HIDE DEF calls
<1>6. CASE call[c].kind = "save" /\ SaveSettles(c, answer, calls)
  <2>1. pending' \in Answers /\ Within(pending', chosen)
    BY <1>2, <1>6, OverAnswers DEF SaveSettles, PageFits, CallFits, Requests
  <2>2. QED
    BY <1>2, <1>3, <1>6, <2>1 DEF SaveSettles, PageFits
<1>7. CASE call[c].kind = "flush" /\ FlushSettles(c, answer, calls)
  <2>1. CASE answer = "saved"
    <3>1. /\ pending' = [q \in Questions |->
                          IF pending[q] = call[c].carries[q] THEN Blank
                                                             ELSE pending[q]]
          /\ Flushed(flushing.left, calls, flushing', call')
          /\ UNCHANGED <<page, answers, mirror, submit, wants, countdown>>
      BY <1>7, <2>1 DEF FlushSettles, FlushFrom, Flushed
    <3>2. pending' \in Answers /\ Within(pending', chosen)
      BY <1>2, <3>1 DEF PageFits, Answers, Within
    <3>3. flushing.left \in Answers /\ Within(flushing.left, chosen)
      BY <1>2 DEF PageFits
    <3>4. QueueFits(flushing', chosen) /\ CallsFit(call', page, chosen, handed)
      BY <1>3, <1>4, <2>1, <3>1, <3>3, FlushFits
    <3>5. QED
      BY <1>2, <3>1, <3>2, <3>4 DEF PageFits, QueueFits
  <2>2. CASE answer # "saved"
    BY <1>2, <1>3, <1>7, <2>2, QuietFits DEF FlushSettles, PageFits, QueueFits
  <2>3. QED
    BY <2>1, <2>2
<1>8. CASE call[c].kind = "submit" /\ SubmitSettles(c, answer, calls)
  <2>1. CASE answer = "result"
    <3>1. /\ page' = "done" /\ mirror' = Nothing
          /\ call' = Disown(calls) /\ Unmount
      BY <1>8, <2>1 DEF SubmitSettles
    <3>2. CallsFit(call', page', chosen, handed)
      BY <1>3, <3>1, DisownFits
    <3>3. QED
      BY <1>2, <3>1, <3>2, UnmountFits, NothingAnswers
  <2>2. CASE answer # "result"
    BY <1>2, <1>3, <1>8, <2>2 DEF SubmitSettles
  <2>3. QED
    BY <2>1, <2>2
<1>9. CASE call[c].kind = "resume" /\ ResumeSettles(c, answer, calls)
  <2>1. Asking(call[c]) /\ page = "away"
    BY <1>2, <1>9 DEF Asking, CallsFit
  <2>2. /\ call' = calls
        /\ \A pg : CallsFit(calls, pg, chosen, handed)
    BY <1>3, <1>9, <2>1, UnaskedFits DEF ResumeSettles
  <2>3. CASE answer = "state"
    <3>1. /\ page' = "taking"
          /\ answers' = Over(mirror, call[c].copy)
          /\ UNCHANGED <<mirror, pending, flushing, submit, wants, countdown>>
      BY <1>9, <2>3 DEF ResumeSettles, Restore
    <3>2. /\ mirror = chosen /\ mirror \in Answers
          /\ call[c].copy \in Answers /\ Within(call[c].copy, mirror)
      BY <1>2, <2>1 DEF PageFits, CallFits, Requests
    <3>3. answers' = chosen
      BY <3>1, <3>2, OverHides
    <3>4. QED
      BY <1>2, <2>2, <3>1, <3>2, <3>3 DEF PageFits
  <2>4. CASE answer = "result"
    <3>1. page' = "done" /\ mirror' = mirror /\ Unmount
      BY <1>9, <2>4 DEF ResumeSettles
    <3>2. mirror \in Answers
      BY <1>2 DEF PageFits
    <3>3. QED
      BY <1>2, <2>2, <3>1, <3>2, UnmountFits
  <2>5. CASE answer \notin {"state", "result"}
    <3>1. UNCHANGED pageVars
      BY <1>9, <2>5 DEF ResumeSettles
    <3>2. QED
      BY <1>2, <2>2, <3>1 DEF pageVars
  <2>6. QED
    BY <2>3, <2>4, <2>5
<1>10. QED
  BY <1>5, <1>6, <1>7, <1>8, <1>9 DEF Settle

LEMMA StepAnswered ==
  ASSUME SInv, NEW c \in Calls, Answered(c)
  PROVE  SInv'
<1>1. Settles(c)
  BY AnsweredSettles
<1>2. /\ PageFits(page', answers', mirror', pending', flushing', chosen)
      /\ CallsFit(call', page', chosen, handed)
      /\ submit' \in {"none", "paused", "sent"}
      /\ wants' \in BOOLEAN /\ countdown' \in BOOLEAN
  BY <1>1, SettleFits
<1>3. UNCHANGED <<online, row, late, chosen, handed, edits, fails>>
  BY DEF Answered, history
<1>4. QED
  BY <1>2, <1>3 DEF SInv, Switches

LEMMA StepLose ==
  ASSUME SInv, NEW c \in Calls, Lose(c)
  PROVE  SInv'
<1>1. Settles(c)
  BY LoseSettles
<1>2. /\ PageFits(page', answers', mirror', pending', flushing', chosen)
      /\ CallsFit(call', page', chosen, handed)
      /\ submit' \in {"none", "paused", "sent"}
      /\ wants' \in BOOLEAN /\ countdown' \in BOOLEAN
  BY <1>1, SettleFits
<1>3. /\ UNCHANGED <<online, row, late, chosen, handed, edits>>
      /\ fails' = fails \/ (fails < MaxFails /\ fails' = fails + 1)
  BY DEF Lose, history
<1>4. fails' \in 0..MaxFails
  BY <1>3, SittingAssumption DEF SInv, Switches
<1>5. QED
  BY <1>2, <1>3, <1>4 DEF SInv, Switches

LEMMA StepCrash == SInv /\ Crash => SInv'
<1> SUFFICES ASSUME SInv, Crash PROVE SInv'
  OBVIOUS
<1>1. /\ page = "taking" /\ page' = "away" /\ Unmount /\ call' = Disown(call)
      /\ UNCHANGED <<mirror, online, row, late, chosen, handed, edits>>
      /\ fails < MaxFails /\ fails' = fails + 1
  BY DEF Crash, Taking, history
<1>2. /\ PageFits(page, answers, mirror, pending, flushing, chosen)
      /\ mirror \in Answers /\ mirror = chosen
      /\ CallsFit(call, page, chosen, handed)
  BY <1>1 DEF SInv, PageFits
<1>3. /\ PageFits("away", answers', mirror, pending', flushing', chosen)
      /\ submit' \in {"none", "paused", "sent"}
      /\ wants' \in BOOLEAN /\ countdown' \in BOOLEAN
  BY <1>1, <1>2, UnmountFits
<1>4. CallsFit(call', page', chosen, handed)
  BY <1>1, <1>2, DisownFits
<1>5. fails' \in 0..MaxFails
  BY <1>1, SittingAssumption DEF SInv, Switches
<1>6. QED
  BY <1>1, <1>3, <1>4, <1>5 DEF SInv, Switches

----------------------------------------------------------------------------
(* The handlers.                                                           *)

\* A reply carries on what the request did, or leaves the slot.
LEMMA ReplyFits ==
  ASSUME NEW r, NEW ch, NEW hd, r \in Requests,
         Within(r.carries, ch), Within(r.copy, ch),
         r.kind = "submit" => r.carries \in hd,
         NEW answer \in {"saved", "refused", "state", "result"}
  PROVE  /\ CallFits(Reply(r, answer), ch, hd)
         /\ Asking(Reply(r, answer)) => Asking(r)
<1>1. CASE ~r.awaited
  <2>1. Reply(r, answer) = Free
    BY <1>1 DEF Reply
  <2>2. QED
    BY <2>1, FreeFits
<1>2. CASE r.awaited
  <2> DEFINE cp == IF answer = "state" THEN r.copy ELSE Nothing
             s == [r EXCEPT !.pc = "reply", !.answer = answer, !.late = FALSE,
                            !.copy = cp]
  <2>1. Reply(r, answer) = s
    BY <1>2 DEF Reply
  <2>2. cp \in Answers /\ Within(cp, ch)
    BY NothingAnswers DEF Requests
  <2> HIDE DEF cp
  <2>3. /\ s \in Requests /\ s.pc = "reply" /\ s.kind = r.kind
        /\ s.carries = r.carries /\ s.awaited = r.awaited /\ s.copy = cp
    BY <2>2 DEF Requests
  <2> HIDE DEF s
  <2>4. QED
    BY <1>2, <2>1, <2>2, <2>3 DEF CallFits, Asking
<1>3. QED
  BY <1>1, <1>2

LEMMA StepLoad ==
  ASSUME SInv, NEW c \in Calls, Load(c)
  PROVE  SInv'
<1> DEFINE r == [call[c] EXCEPT !.copy = CopyOf(c), !.late = late]
           saves == r.kind \in {"save", "flush"}
           s == IF row.submitted
                THEN Reply(r, IF saves THEN "refused" ELSE "result")
                ELSE IF late \/ r.kind = "submit"
                     THEN [r EXCEPT !.pc = "finalize"]
                     ELSE IF saves THEN [r EXCEPT !.pc = "save"]
                                   ELSE Reply(r, "state")
<1>1. /\ CallFits(call[c], chosen, handed) /\ call[c] \in Requests
      /\ CallsFit(call, page, chosen, handed)
      /\ row.answers \in Answers /\ Within(row.answers, chosen)
      /\ late \in BOOLEAN /\ call \in [Calls -> Requests]
  BY DEF SInv, Switches, CallsFit, CallFits, RowFits, Rows
<1>2. /\ call' = [call EXCEPT ![c] = s]
      /\ UNCHANGED <<page, answers, mirror, pending, flushing, submit, wants,
                     countdown, online, row, late, chosen, handed, edits, fails>>
  BY DEF Load, pageVars, history
<1>3. /\ CopyOf(c) \in Answers /\ Within(CopyOf(c), chosen)
      /\ call[c].kind = "submit" => Counted(call[c].carries, CopyOf(c))
  BY <1>1, OverAnswers DEF CopyOf, CallFits, Requests
<1>4. /\ r \in Requests /\ r.pc = "sent" /\ r.kind = call[c].kind
      /\ r.carries = call[c].carries /\ r.awaited = call[c].awaited
      /\ r.copy = CopyOf(c) /\ r.late = late
  BY <1>1, <1>3 DEF Load, Requests
<1> HIDE DEF r
<1>5. CallFits(s, chosen, handed) /\ (Asking(s) => Asking(call[c]))
  <2>0. /\ Within(r.carries, chosen) /\ Within(r.copy, chosen)
        /\ r.kind = "submit" => r.carries \in handed
        /\ Asking(r) => Asking(call[c])
    BY <1>1, <1>3, <1>4 DEF CallFits, Asking
  <2>1. ASSUME NEW answer \in {"saved", "refused", "state", "result"}
        PROVE  /\ CallFits(Reply(r, answer), chosen, handed)
               /\ Asking(Reply(r, answer)) => Asking(call[c])
    BY <1>4, <2>0, ReplyFits
  <2>2. ASSUME late \/ r.kind = "submit"
        PROVE  LET f == [r EXCEPT !.pc = "finalize"]
               IN  CallFits(f, chosen, handed) /\ (Asking(f) => Asking(call[c]))
    <3> DEFINE f == [r EXCEPT !.pc = "finalize"]
    <3>1. /\ f \in Requests /\ f.pc = "finalize" /\ f.kind = r.kind
          /\ f.carries = r.carries /\ f.awaited = r.awaited
          /\ f.copy = r.copy /\ f.late = r.late
      BY <1>4 DEF Requests
    <3>2. r.kind = "submit" => Counted(r.carries, r.copy)
      BY <1>3, <1>4
    <3>3. ~f.late => r.kind = "submit"
      BY <1>4, <2>2, <3>1
    <3> HIDE DEF f
    <3>4. CallFits(f, chosen, handed) /\ (Asking(f) => Asking(call[c]))
      BY <2>0, <3>1, <3>2, <3>3 DEF CallFits, Asking
    <3>5. QED
      BY <3>4 DEF f
  <2>3. LET f == [r EXCEPT !.pc = "save"]
        IN  CallFits(f, chosen, handed) /\ (Asking(f) => Asking(call[c]))
    <3> DEFINE f == [r EXCEPT !.pc = "save"]
    <3>1. /\ f \in Requests /\ f.pc = "save" /\ f.kind = r.kind
          /\ f.carries = r.carries /\ f.awaited = r.awaited /\ f.copy = r.copy
      BY <1>4 DEF Requests
    <3> HIDE DEF f
    <3>2. CallFits(f, chosen, handed) /\ (Asking(f) => Asking(call[c]))
      BY <2>0, <3>1 DEF CallFits, Asking
    <3>3. QED
      BY <3>2 DEF f
  <2>4. CASE row.submitted
    <3>1. s \in {Reply(r, "refused"), Reply(r, "result")}
      BY <2>4
    <3> HIDE DEF s
    <3>2. QED
      BY <2>1, <3>1
  <2>5. CASE ~row.submitted /\ (late \/ r.kind = "submit")
    <3>1. s = [r EXCEPT !.pc = "finalize"]
      BY <2>5
    <3> HIDE DEF s
    <3>2. QED
      BY <2>2, <2>5, <3>1
  <2>6. CASE ~row.submitted /\ ~(late \/ r.kind = "submit")
    <3>1. s \in {[r EXCEPT !.pc = "save"], Reply(r, "state")}
      BY <2>6
    <3> HIDE DEF s
    <3>2. QED
      BY <2>1, <2>3, <3>1
  <2>7. QED
    BY <2>4, <2>5, <2>6
<1> HIDE DEF s
<1>6. CallsFit(call', page, chosen, handed)
  BY <1>1, <1>2, <1>5, OneFits
<1>7. QED
  BY <1>2, <1>6 DEF SInv, Switches

\* A save writes its snapshot, which answers only what was answered, and
\* leaves what was graded.
LEMMA StepSave ==
  ASSUME SInv, NEW c \in Calls, Save(c)
  PROVE  SInv'
<1>1. /\ CallFits(call[c], chosen, handed) /\ call[c] \in Requests
      /\ CallsFit(call, page, chosen, handed)
      /\ RowFits(row, chosen, handed)
  BY DEF SInv, CallsFit, CallFits
<1>2. /\ row' = [row EXCEPT !.answers = call[c].copy]
      /\ call' = [call EXCEPT ![c] = Reply(call[c], "saved")]
      /\ UNCHANGED <<page, answers, mirror, pending, flushing, submit, wants,
                     countdown, online, late, chosen, handed, edits, fails>>
  BY <1>1 DEF Save, pageVars, history, CallsFit
<1>3. /\ CallFits(Reply(call[c], "saved"), chosen, handed)
      /\ Asking(Reply(call[c], "saved")) => Asking(call[c])
  <2>1. /\ Within(call[c].carries, chosen) /\ Within(call[c].copy, chosen)
        /\ call[c].kind = "submit" => call[c].carries \in handed
    BY <1>1 DEF CallFits
  <2>2. QED
    BY <1>1, <2>1, ReplyFits
<1>4. CallsFit(call', page, chosen, handed)
  BY <1>1, <1>2, <1>3, OneFits
<1>5. RowFits(row', chosen, handed)
  <2>1. row \in Rows /\ call[c].copy \in Answers
    BY <1>1 DEF RowFits, Requests
  <2>2. /\ row' \in Rows /\ row'.answers = call[c].copy
        /\ row'.submitted = row.submitted /\ row'.auto = row.auto
        /\ row'.graded = row.graded
    BY <1>2, <2>1 DEF Rows
  <2>3. QED
    BY <1>1, <2>2 DEF RowFits, CallFits
<1>6. QED
  BY <1>2, <1>4, <1>5 DEF SInv, Switches

\* A handler that found time left finalises for a submit, on a copy that
\* counts what the submit carried.
LEMMA StepFinalize ==
  ASSUME SInv, NEW c \in Calls, Finalize(c)
  PROVE  SInv'
<1> DEFINE answer == IF call[c].kind \in {"save", "flush"} THEN "refused"
                                                           ELSE "result"
<1>1. /\ CallFits(call[c], chosen, handed) /\ call[c] \in Requests
      /\ CallsFit(call, page, chosen, handed)
      /\ row \in Rows
  BY DEF SInv, CallsFit, CallFits, RowFits
<1>2. /\ row' = [row EXCEPT !.submitted = TRUE, !.auto = call[c].late,
                            !.answers = call[c].copy, !.graded = call[c].copy]
      /\ call' = [call EXCEPT ![c] = Reply(call[c], answer)]
      /\ UNCHANGED <<page, answers, mirror, pending, flushing, submit, wants,
                     countdown, online, late, chosen, handed, edits, fails>>
      /\ call[c].pc = "finalize"
  BY <1>1 DEF Finalize, pageVars, history, CallsFit
<1>3. answer \in {"saved", "refused", "state", "result"}
  OBVIOUS
<1> HIDE DEF answer
<1>4. /\ CallFits(Reply(call[c], answer), chosen, handed)
      /\ Asking(Reply(call[c], answer)) => Asking(call[c])
  <2>1. /\ Within(call[c].carries, chosen) /\ Within(call[c].copy, chosen)
        /\ call[c].kind = "submit" => call[c].carries \in handed
    BY <1>1 DEF CallFits
  <2>2. QED
    BY <1>1, <1>3, <2>1, ReplyFits
<1>5. CallsFit(call', page, chosen, handed)
  BY <1>1, <1>2, <1>4, OneFits
<1>6. RowFits(row', chosen, handed)
  <2>1. call[c].copy \in Answers /\ call[c].late \in BOOLEAN
    BY <1>1 DEF Requests
  <2>2. /\ row' \in Rows /\ row'.answers = call[c].copy
        /\ row'.auto = call[c].late /\ row'.graded = call[c].copy
    BY <1>1, <1>2, <2>1 DEF Rows
  <2>3. ~call[c].late => /\ call[c].carries \in handed
                         /\ Counted(call[c].carries, call[c].copy)
    BY <1>1, <1>2 DEF CallFits
  <2>4. QED
    BY <1>1, <2>2, <2>3 DEF RowFits, CallFits
<1>7. QED
  BY <1>2, <1>5, <1>6 DEF SInv, Switches

----------------------------------------------------------------------------
(* The theorems.                                                           *)

LEMMA SInvNext == SInv /\ [Next]_vars => SInv'
<1> SUFFICES ASSUME SInv, [Next]_vars PROVE SInv'
  OBVIOUS
<1>1. ASSUME NEW q \in Questions, NEW v \in Choices, Choose(q, v) PROVE SInv'
  BY <1>1, StepChoose
<1>2. CASE Sweep
  BY <1>2, StepSweep
<1>3. CASE DoSubmit
  BY <1>3, StepDoSubmit
<1>4. CASE Tick
  BY <1>4 DEF Tick, SInv, Switches, history
<1>5. CASE Reconnect
  BY <1>5, StepReconnect
<1>6. CASE Resume
  BY <1>6, StepResume
<1>7. ASSUME NEW c \in Calls, Answered(c) \/ Lose(c) \/ Handle(c) PROVE SInv'
  BY <1>7, StepAnswered, StepLose, StepLoad, StepSave, StepFinalize DEF Handle
<1>8. CASE Disconnect
  <2>1. fails' \in 0..MaxFails
    BY <1>8, SittingAssumption DEF Disconnect, SInv, Switches
  <2>2. QED
    BY <1>8, <2>1 DEF Disconnect, SInv, Switches, pageVars, history
<1>9. CASE Crash
  BY <1>9, StepCrash
<1>10. CASE Expire
  BY <1>10 DEF Expire, SInv, Switches, pageVars, history
<1>11. CASE UNCHANGED vars
  BY <1>11 DEF vars, pageVars, history, SInv, Switches
<1>12. QED
  BY <1>1, <1>2, <1>3, <1>4, <1>5, <1>6, <1>7, <1>8, <1>9, <1>10, <1>11 DEF Next

LEMMA SInvAlways == Spec => []SInv
<1>1. Init => SInv
  BY SInvInit
<1>2. SInv /\ [Next]_vars => SInv'
  BY SInvNext
<1>3. QED
  BY <1>1, <1>2, PTL DEF Spec

\* Every variable of the attempt being taken keeps its type
\* (use-attempt-resilience.ts, attempts.service.ts).
THEOREM SittingTyped == Spec => []TypeOK
<1>1. SInv => TypeOK
  BY SInvTypes
<1>2. QED
  BY <1>1, SInvAlways, PTL

\* However many saves, outages, flushes and crashes, a page that takes the
\* attempt shows what the learner chose last: the mirror written at once, put
\* on top of a copy that the server made from older saves, hides all of it
\* (hydrate and the mirror in use-attempt-resilience.ts, resume in
\* attempts.service.ts).
THEOREM CrashRestores == Spec => []CrashRestoresChoice
<1>1. SInv => CrashRestoresChoice
  BY DEF SInv, PageFits, CrashRestoresChoice, Taking
<1>2. QED
  BY <1>1, SInvAlways, PTL

\* Whatever saves, flushes and other submits race with it, an attempt that was
\* not finalised late is graded on every answer of a map that a submit carried
\* (saveAnswer, submit and finalize in attempts.service.ts).
THEOREM GradedOnASubmit == Spec => []ScoreIsOfASubmit
<1>1. SInv => ScoreIsOfASubmit
  BY DEF SInv, RowFits, Counted, ScoreIsOfASubmit
<1>2. QED
  BY <1>1, SInvAlways, PTL
=============================================================================

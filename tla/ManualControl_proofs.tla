------------------------- MODULE ManualControl_proofs -------------------------
(***************************************************************************)
(* Theorems about ManualControl: no more is on its way than the operators' *)
(* clicks account for, and the ground gives a drone up on telemetry only   *)
(* when its edge is out of manual control to stay.                         *)
(***************************************************************************)
EXTENDS ManualControl, SetInduction

\* The types, without the bound on what is on its way.
ControlTyped ==
    /\ controlled \in {"this", "other", None}
    /\ recent \in BOOLEAN /\ orphan \in BOOLEAN /\ overtaken \in BOOLEAN
    /\ unanswered \subseteq Holds
    /\ seen \in Telemetry \cup {None} /\ tele \in Telemetry \cup {None}
    /\ handler \in Types \cup {None}
    /\ queue \in Seq(Message) /\ down \in Seq(Message) /\ up \in Seq(Answer)
    /\ hand \in Message \cup {None}
    /\ dispatcher \in {"idle", "cancel", "lose"} /\ monitor \in {"idle", "land"}
    /\ clicks \in 0..MaxClicks /\ landedAll \in {"no", "pressed", "sent"}
    /\ taken \in BOOLEAN /\ flying \in BOOLEAN /\ landing \in BOOLEAN

One(b) == IF b THEN 1 ELSE 0

\* What is on its way, and what may yet become a command: the handler's command, a
\* land-all that was pressed, and the landing of a drone whose controller goes,
\* which is a controller, then a countdown, then the monitor's decision.
Held == One(hand # None) + One(handler # None) + One(controlled # None) + One(monitor = "land")

Asked == Len(queue) + Len(down) + Held + One(landedAll = "pressed") + One(orphan)

\* A click asks for a command and, by a controller, for one landing.
Counted == Asked <= 2 * clicks

ControlInv == ControlTyped /\ Counted

\* Within _RELEASE_GRACE_S of the last take_control its hold may be on its way, and
\* telemetry be older than it; after that, unless the grace was too short or a hover
\* took the drone, no such hold is on its way, and what the drone's edge holds is not
\* reported to be out of manual control.
GraceInv ==
    controlled = "this" /\ ~recent /\ ~overtaken =>
        /\ handler # "hold" /\ ~HoldIn(queue) /\ ~HoldIn(down)
        /\ hand # None => hand.type # "hold"
        /\ taken /\ tele # None => tele.mode = "manual"

----------------------------------------------------------------------------
(* Sequences of messages.                                                  *)

\* One more message, or one less.
LEMMA MessageSteps ==
    ASSUME NEW S, NEW q \in Seq(S)
    PROVE  /\ Len(q) \in Nat
           /\ \A x \in S : Append(q, x) \in Seq(S) /\ Len(Append(q, x)) = Len(q) + 1
           /\ q # <<>> => /\ Head(q) \in S /\ Tail(q) \in Seq(S) /\ Len(Tail(q)) = Len(q) - 1
                          /\ Len(q) > 0
<1>1. Len(q) \in Nat
  BY LenProperties
<1>2. ASSUME NEW x \in S PROVE Append(q, x) \in Seq(S) /\ Len(Append(q, x)) = Len(q) + 1
  BY AppendProperties
<1>3. ASSUME q # <<>> PROVE Head(q) \in S /\ Tail(q) \in Seq(S) /\ Len(Tail(q)) = Len(q) - 1 /\ Len(q) > 0
  BY <1>1, <1>3, HeadTailProperties, EmptySeq
<1>. QED
  BY <1>1, <1>2, <1>3

\* Where a hold can be after one more message, or one less.
LEMMA HoldSteps ==
    ASSUME NEW q \in Seq(Message)
    PROVE  /\ \A x \in Message : HoldIn(Append(q, x)) => HoldIn(q) \/ x.type = "hold"
           /\ q # <<>> /\ HoldIn(Tail(q)) => HoldIn(q)
           /\ q # <<>> /\ Head(q).type = "hold" => HoldIn(q)
           /\ ~HoldIn(<<>>)
<1>1. ASSUME NEW x \in Message, HoldIn(Append(q, x)) PROVE HoldIn(q) \/ x.type = "hold"
  <2>1. PICK i \in 1..(Len(q) + 1) : Append(q, x)[i].type = "hold"
    BY <1>1, AppendProperties, LenProperties DEF HoldIn
  <2>2. CASE i = Len(q) + 1
    BY <2>1, <2>2, AppendProperties
  <2>3. CASE i # Len(q) + 1
    <3>1. i \in 1..Len(q) /\ i \in DOMAIN q
      BY <2>3, LenProperties
    <3>2. Append(q, x)[i] = q[i]
      BY <3>1, AppendProperties
    <3>. QED
      BY <2>1, <3>1, <3>2 DEF HoldIn
  <2>. QED
    BY <2>2, <2>3
<1>2. ASSUME q # <<>>, HoldIn(Tail(q)) PROVE HoldIn(q)
  <2>1. PICK i \in DOMAIN Tail(q) : Tail(q)[i].type = "hold"
    BY <1>2 DEF HoldIn
  <2>2. i + 1 \in DOMAIN q /\ Tail(q)[i] = q[i + 1]
    BY <1>2, <2>1
  <2>. QED
    BY <2>1, <2>2 DEF HoldIn
<1>3. ASSUME q # <<>>, Head(q).type = "hold" PROVE HoldIn(q)
  <2>1. 1 \in DOMAIN q /\ Head(q) = q[1]
    BY <1>3
  <2>. QED
    BY <1>3, <2>1 DEF HoldIn
<1>4. ~HoldIn(<<>>)
  BY DEF HoldIn
<1>. QED
  BY <1>1, <1>2, <1>3, <1>4

\* Giving up an answer changes nothing but who waits for it.
LEMMA UnwaitedKeeps ==
    ASSUME NEW q \in Seq(Message), NEW type
    PROVE  /\ Unwaited(type, q) \in Seq(Message) /\ Len(Unwaited(type, q)) = Len(q)
           /\ HoldIn(Unwaited(type, q)) => HoldIn(q)
<1> DEFINE u == Unwaited(type, q)
<1>1. Len(q) \in Nat /\ DOMAIN q = 1..Len(q) /\ \A i \in 1..Len(q) : q[i] \in Message
  BY LenProperties, ElementOfSeq
<1>2. DOMAIN u = 1..Len(q)
  BY <1>1 DEF Unwaited
<1>3. ASSUME NEW i \in 1..Len(q) PROVE u[i] \in Message /\ u[i].type = q[i].type
  <2>1. q[i] \in Message
    BY <1>1
  <2>2. u[i] = q[i] \/ u[i] = [q[i] EXCEPT !.waited = FALSE]
    BY <1>1 DEF Unwaited
  <2>. QED
    BY <2>1, <2>2 DEF Message
<1>4. u = [i \in 1..Len(q) |-> u[i]]
  BY <1>1 DEF Unwaited
<1> HIDE DEF u
<1>5. u \in [1..Len(q) -> Message]
  BY <1>3, <1>4
<1>6. u \in Seq(Message) /\ Len(u) = Len(q)
  BY <1>1, <1>5, LenProperties, SeqDef
<1>7. HoldIn(u) => HoldIn(q)
  BY <1>1, <1>2, <1>3 DEF HoldIn
<1>. QED
  BY <1>6, <1>7 DEF u

\* The answers that stay are answers.
LEMMA ExceptKeeps ==
    ASSUME NEW answers \in Seq(Answer), NEW type
    PROVE  Except(type, answers) \in Seq(Answer)
<1> DEFINE s == [i \in DOMAIN answers |-> IF answers[i].type = type THEN <<>> ELSE <<answers[i]>>]
<1>1. Len(answers) \in Nat /\ DOMAIN answers = 1..Len(answers)
      /\ \A i \in 1..Len(answers) : answers[i] \in Answer
  BY LenProperties, ElementOfSeq
<1>2. ASSUME NEW i \in 1..Len(answers) PROVE s[i] \in Seq(Answer)
  <2>1. <<>> \in Seq(Answer) /\ <<answers[i]>> \in Seq(Answer)
    BY <1>1, EmptySeq
  <2>. QED
    BY <1>1, <2>1
<1>3. s = [i \in 1..Len(answers) |-> s[i]]
  BY <1>1
<1>4. Except(type, answers) = FlattenSeq(s)
  BY DEF Except
<1> HIDE DEF s
<1>5. s \in [1..Len(answers) -> Seq(Answer)]
  BY <1>2, <1>3
<1>6. s \in Seq(Seq(Answer))
  BY <1>1, <1>5, SeqDef
<1>7. CASE s = <<>>
  BY <1>4, <1>7, EmptySeq DEF FlattenSeq
<1>8. CASE s # <<>>
  <2>1. PICK f \in [1..Len(s) -> Seq(Answer)] : FlattenSeq(s) = f[Len(s)]
    BY <1>6, <1>8, FlattenDef
  <2>2. Len(s) \in 1..Len(s)
    BY <1>6, <1>8, LenProperties, EmptySeq
  <2>. QED
    BY <1>4, <2>1, <2>2
<1>. QED
  BY <1>7, <1>8

----------------------------------------------------------------------------
(* Type correctness.                                                       *)

\* What the operator asks for is queued with its answer waited for, a landing of the
\* ground's own without.
LEMMA Messages ==
    ASSUME NEW type \in Types
    PROVE  /\ [type |-> type, waited |-> type \in Waitable] \in Message
           /\ [type |-> "land", waited |-> FALSE] \in Message
<1>1. (type \in Waitable) \in BOOLEAN /\ FALSE \in BOOLEAN
  OBVIOUS
<1> DEFINE waited == type \in Waitable
<1>2. waited \in BOOLEAN
  BY <1>1
<1> HIDE DEF waited
<1>3. [type |-> type, waited |-> waited] \in Message
  BY <1>2 DEF Message
<1>4. [type |-> "land", waited |-> FALSE] \in Message
  BY <1>1 DEF Message, Types
<1>. QED
  BY <1>3, <1>4 DEF waited

\* What the handlers of the edge write.
LEMMA EdgeWrites ==
    ASSUME ControlTyped, EdgeNext
    PROVE  /\ taken' \in BOOLEAN /\ flying' \in BOOLEAN /\ landing' \in BOOLEAN
           /\ tele' = tele \/ (tele' \in Telemetry /\ (tele'.mode = "autonomous" => ~taken'))
           /\ tele' # tele => taken' = taken
           /\ overtaken' \in BOOLEAN /\ (overtaken => overtaken')
           /\ taken' /\ controlled = "this" => taken \/ overtaken' \/ (down # <<>> /\ Head(down).type = "hold")
           /\ up' \in Seq(Answer)
           /\ down' = down \/ (down # <<>> /\ down' = Tail(down))
           /\ UNCHANGED <<ground, threads, sending>>
<1> USE DEF ControlTyped
<1>1. ASSUME NEW type \in Waitable, NEW ok \in BOOLEAN, Handles(type), Answers(ok) PROVE up' \in Seq(Answer)
  <2>1. down # <<>> /\ Head(down).type = type
    BY <1>1 DEF Handles
  <2>2. [type |-> Head(down).type, ok |-> ok] \in Answer
    BY <2>1 DEF Answer
  <2>. QED
    BY <1>1, <2>2, MessageSteps DEF Answers
<1> DEFINE BooleanEdge == taken' \in BOOLEAN /\ flying' \in BOOLEAN /\ landing' \in BOOLEAN
<1>2. CASE HandleHold
  <2>1. PICK type \in Holds : Handles(type)
    BY <1>2 DEF HandleHold, Holds
  <2>2. up' \in Seq(Answer)
    BY <1>1, <1>2, <2>1 DEF HandleHold, Waitable, Holds
  <2>3. BooleanEdge
    BY <1>2, Zenon DEF HandleHold, edge, Edge!Take
  <2>4. overtaken' = (overtaken \/ HoverTakes)
    BY <1>2, Zenon DEF HandleHold
  <2>5. overtaken' \in BOOLEAN
    BY <2>4, Zenon
  <2>6. tele' = tele /\ down # <<>> /\ down' = Tail(down) /\ UNCHANGED <<ground, threads, sending>>
    BY <2>1 DEF Handles
  <2>7. taken' /\ controlled = "this" => taken \/ overtaken' \/ (down # <<>> /\ Head(down).type = "hold")
    BY <1>2, <2>1, <2>4 DEF HandleHold, Handles, HoverTakes, Holds, edge, Edge!Take
  <2> HIDE DEF BooleanEdge
  <2>8. taken' \in BOOLEAN /\ flying' \in BOOLEAN /\ landing' \in BOOLEAN
    BY <2>3 DEF BooleanEdge
  <2>. QED
    BY <2>2, <2>4, <2>5, <2>6, <2>7, <2>8
<1>3. CASE HandleResume
  <2>1. up' \in Seq(Answer)
    BY <1>1, <1>3 DEF HandleResume, Waitable
  <2>2. BooleanEdge
    BY <1>3, Zenon DEF HandleResume, edge, Edge!GiveBack
  <2>3. Handles("resume") /\ UNCHANGED overtaken
    BY <1>3 DEF HandleResume
  <2>4. taken' => taken
    <3>1. taken' = taken \/ taken' = FALSE
      BY <1>3, Zenon DEF HandleResume, edge, Edge!GiveBack
    <3>. QED
      BY <3>1
  <2>. QED
    BY <2>1, <2>2, <2>3, <2>4 DEF Handles
<1>4. CASE HandleTakeoff
  <2>1. BooleanEdge
    BY <1>4, Zenon DEF HandleTakeoff, edge, Edge!TakeOff
  <2>2. UNCHANGED <<up, taken, overtaken>> /\ Handles("takeoff")
    BY <1>4 DEF HandleTakeoff, edge, Edge!TakeOff
  <2>. QED
    BY <2>1, <2>2 DEF Handles
<1>5. CASE HandleLand
  BY <1>5 DEF HandleLand, Handles, edge, Edge!Land
<1>6. CASE Report
  BY <1>6 DEF Report, edge, Telemetry
<1>7. CASE EdgeAlone
  <2>1. BooleanEdge
    BY <1>7, Zenon DEF EdgeAlone, Edge!NewPlan, Edge!TakeOff, Edge!Land, Edge!Down
  <2>2. UNCHANGED <<overtaken, up, down, tele>> /\ UNCHANGED <<ground, threads, sending>> /\ (taken' => taken)
    BY <1>7 DEF EdgeAlone, link, Edge!NewPlan, Edge!TakeOff, Edge!Land, Edge!Down
  <2>. QED
    BY <2>1, <2>2
<1>. QED
  BY <1>2, <1>3, <1>4, <1>5, <1>6, <1>7 DEF EdgeNext

\* Giving up an answer keeps the number of commands and their kinds.
LEMMA GiveUpWrites ==
    ASSUME ControlTyped, NEW type, GiveUpWaiting(type)
    PROVE  /\ queue' \in Seq(Message) /\ down' \in Seq(Message) /\ up' \in Seq(Answer)
           /\ hand' \in Message \cup {None} /\ unanswered' \subseteq Holds
           /\ Len(queue') = Len(queue) /\ Len(down') = Len(down)
           /\ hand' # None => hand # None /\ hand'.type = hand.type
           /\ HoldIn(queue') => HoldIn(queue)
           /\ HoldIn(down') => HoldIn(down)
           /\ UNCHANGED <<overtaken, controlled, recent, orphan, seen, clicks, landedAll, threads, tele, edge>>
<1> USE DEF ControlTyped
<1>1. queue' = Unwaited(type, queue) /\ down' = Unwaited(type, down) /\ up' = Except(type, up)
  BY DEF GiveUpWaiting
<1>2. hand' \in Message \cup {None} /\ (hand' # None => hand # None /\ hand'.type = hand.type)
  <2>1. hand' = hand \/ (hand # None /\ hand' = [hand EXCEPT !.waited = FALSE])
    BY DEF GiveUpWaiting
  <2>. QED
    BY <2>1 DEF Message
<1>3. unanswered' \subseteq Holds
  BY DEF GiveUpWaiting, HoldGivenUp
<1>4. UNCHANGED <<overtaken, controlled, recent, orphan, seen, clicks, landedAll, threads, tele, edge>>
  BY DEF GiveUpWaiting
<1>. QED
  BY <1>1, <1>2, <1>3, <1>4, UnwaitedKeeps, ExceptKeeps

\* What is remembered of the grace stays a pair of flags.
LEMMA GraceTyped ==
    ASSUME ControlTyped, GraceKept
    PROVE  recent' \in BOOLEAN /\ overtaken' \in BOOLEAN
<1>1. CASE controlled' = "this"
  BY <1>1 DEF GraceKept, ControlTyped
<1>2. CASE controlled' # "this"
  <2>1. recent' = FALSE /\ overtaken' = FALSE
    BY <1>2, Zenon DEF GraceKept
  <2>. QED
    BY <2>1
<1>. QED
  BY <1>1, <1>2

\* Every step keeps the types.
LEMMA TypeStep ==
    ASSUME ControlTyped, [Next]_vars
    PROVE  ControlTyped'
<1> USE ControlAssumption DEF ControlTyped, ground, threads, sending, link, edge
<1>1. CASE UNCHANGED vars
  BY <1>1 DEF vars
<1>2. CASE TakeControl
  <2>1. recent' \in BOOLEAN /\ overtaken' \in BOOLEAN
    BY <1>2, Zenon DEF TakeControl
  <2>. QED
    BY <1>2, <2>1 DEF TakeControl, Clicks, Types
<1>3. CASE TakeOther
  <2>1. recent' \in BOOLEAN /\ overtaken' \in BOOLEAN
    BY <1>3, GraceTyped DEF TakeOther
  <2>. QED
    BY <1>3, <2>1 DEF TakeOther, Clicks, Types
<1>4. CASE ResumeSearch
  <2>1. recent' \in BOOLEAN /\ overtaken' \in BOOLEAN
    BY <1>4, GraceTyped DEF ResumeSearch
  <2>. QED
    BY <1>4, <2>1 DEF ResumeSearch, Clicks, Types
<1>5. CASE HandlerGoesOn
  <2>1. handler \in Types
    BY <1>5 DEF HandlerGoesOn
  <2>. QED
    BY <1>5, <2>1, Messages, MessageSteps DEF HandlerGoesOn
<1>6. CASE Disconnect
  <2>1. recent' \in BOOLEAN /\ overtaken' \in BOOLEAN
    BY <1>6, GraceTyped DEF Disconnect
  <2>2. orphan' \in BOOLEAN
    BY <1>6, Zenon DEF Disconnect
  <2>. QED
    BY <1>6, <2>1, <2>2 DEF Disconnect
<1>7. CASE LandAll
  <2>1. queue' = <<>> /\ clicks' \in 0..MaxClicks
    BY <1>7 DEF LandAll
  <2>2. orphan' \in BOOLEAN
    BY <1>7, Zenon DEF LandAll
  <2>. QED
    BY <1>7, <2>1, <2>2, EmptySeq DEF LandAll
<1>8. CASE SendLandAll
  <2>1. [type |-> "land", waited |-> FALSE] \in Message
    BY Messages DEF Types
  <2>2. down' = down \/ down' = Append(down, [type |-> "land", waited |-> FALSE])
    BY <1>8 DEF SendLandAll
  <2>3. down' \in Seq(Message)
    BY <2>1, <2>2, MessageSteps
  <2>4. landedAll' = "sent" /\ UNCHANGED <<overtaken, controlled, recent, orphan, seen, unanswered, clicks, threads, sending, up, tele, edge>>
    BY <1>8 DEF SendLandAll
  <2>. QED
    BY <2>3, <2>4
<1>9. CASE TakeNext
  BY <1>9, MessageSteps DEF TakeNext
<1>10. CASE LoseAnswer
  BY <1>10, MessageSteps DEF LoseAnswer
<1>11. CASE OnReply
  BY <1>11, MessageSteps DEF OnReply
<1>12. CASE ObserveTelemetry
  <2>1. recent' \in BOOLEAN /\ overtaken' \in BOOLEAN
    BY <1>12, GraceTyped DEF ObserveTelemetry
  <2>. QED
    BY <1>12, <2>1 DEF ObserveTelemetry, Released
<1>13. CASE DispatcherGoesOn
  <2>1. recent' \in BOOLEAN /\ overtaken' \in BOOLEAN
    BY <1>13, GraceTyped DEF DispatcherGoesOn
  <2>2. orphan' \in BOOLEAN
    BY <1>13, Zenon DEF DispatcherGoesOn
  <2>. QED
    BY <1>13, <2>1, <2>2 DEF DispatcherGoesOn
<1>14. CASE OrphanDue
  <2>1. orphan' \in BOOLEAN
    BY <1>14, Zenon DEF OrphanDue
  <2>. QED
    BY <1>14, <2>1 DEF OrphanDue
<1>15. CASE SendOrphanLand
  BY <1>15, Messages, MessageSteps DEF SendOrphanLand, Types
<1>16. CASE OrphanLandFails
  BY <1>16 DEF OrphanLandFails, Rearm
<1>17. CASE GraceOver
  <2>1. recent' \in BOOLEAN /\ overtaken' \in BOOLEAN
    BY <1>17, Zenon DEF GraceOver
  <2>. QED
    BY <1>17, <2>1 DEF GraceOver
<1>18. ASSUME NEW type \in {"hover", "takeoff", "land"}, Command(type) PROVE ControlTyped'
  BY <1>18 DEF Command, Clicks, Types
<1>19. ASSUME NEW arrives \in BOOLEAN, Deliver(arrives) PROVE ControlTyped'
  BY <1>19, MessageSteps DEF Deliver
<1>20. ASSUME NEW type \in Waitable, GiveUpWaiting(type) PROVE ControlTyped'
  BY <1>20, GiveUpWrites
<1>21. CASE EdgeNext
  <2>1. down' \in Seq(Message)
    BY <1>21, EdgeWrites, MessageSteps
  <2>2. tele' \in Telemetry \cup {None}
    BY <1>21, EdgeWrites
  <2>. QED
    BY <1>21, <2>1, <2>2, EdgeWrites
<1>. QED
  BY <1>1, <1>2, <1>3, <1>4, <1>5, <1>6, <1>7, <1>8, <1>9, <1>10, <1>11, <1>12, <1>13, <1>14, <1>15, <1>16, <1>17, <1>18, <1>19, <1>20, <1>21 DEF Next, HandlerNext, GroundNext, Tries, GivesUp

----------------------------------------------------------------------------
(* No more is on its way than was asked for.                               *)

\* What the handler and the ground's own landings add to a sequence.
LEMMA Queues ==
    ASSUME ControlTyped
    PROVE  /\ HandlerGoesOn => Len(queue') = Len(queue) + 1
           /\ Len(Append(down, [type |-> "land", waited |-> FALSE])) = Len(down) + 1
           /\ LandAll => Len(queue') = 0
<1>1. ASSUME HandlerGoesOn PROVE Len(queue') = Len(queue) + 1
  <2>1. handler \in Types
    BY <1>1 DEF HandlerGoesOn, ControlTyped
  <2>. QED
    BY <1>1, <2>1, Messages, MessageSteps DEF HandlerGoesOn, ControlTyped
<1>2. Len(Append(down, [type |-> "land", waited |-> FALSE])) = Len(down) + 1
  <2>1. [type |-> "land", waited |-> FALSE] \in Message
    BY Messages DEF Types
  <2>. QED
    BY <2>1, MessageSteps DEF ControlTyped
<1>3. LandAll => Len(queue') = 0
  BY EmptySeq DEF LandAll
<1>. QED
  BY <1>1, <1>2, <1>3

\* Every step asks for no more than its click allows.
LEMMA CountStep ==
    ASSUME ControlTyped, Counted, [Next]_vars
    PROVE  Counted'
<1> DEFINE q == Len(queue)
           d == Len(down)
<1> USE DEF Counted, Asked, Held, One
<1>len. q \in Nat /\ d \in Nat /\ clicks \in Nat /\ orphan \in BOOLEAN
  BY ControlAssumption, MessageSteps DEF ControlTyped
<1> USE <1>len DEF ground, threads, sending, link, edge
<1>1. CASE UNCHANGED vars
  BY <1>1 DEF vars
<1>2. CASE TakeControl
  BY <1>2 DEF TakeControl, Clicks
<1>3. CASE TakeOther
  BY <1>3 DEF TakeOther, Clicks
<1>4. CASE ResumeSearch
  BY <1>4 DEF ResumeSearch, Clicks
<1>5. ASSUME NEW type \in {"hover", "takeoff", "land"}, Command(type) PROVE Counted'
  BY <1>5 DEF Command, Clicks
<1>6. CASE HandlerGoesOn
  BY <1>6, Queues DEF HandlerGoesOn
<1>7. CASE Disconnect
  BY <1>7 DEF Disconnect
<1>8. CASE LandAll
  <2>1. Len(queue') = 0
    BY <1>8, Queues
  <2>2. ~orphan' /\ clicks' = clicks + 1 /\ landedAll # "pressed"
    BY <1>8 DEF LandAll
  <2>3. UNCHANGED <<controlled, handler, monitor, hand, down>>
    BY <1>8 DEF LandAll
  <2>4. Held' = Held /\ Held \in Nat
    BY <2>3
  <2>5. One(landedAll' = "pressed") \in 0..1 /\ One(orphan') = 0 /\ One(landedAll = "pressed") = 0 /\ One(orphan) \in 0..1
    BY <2>2
  <2> HIDE DEF Held, One
  <2>. QED
    BY <2>1, <2>2, <2>3, <2>4, <2>5
<1>9. CASE SendLandAll
  BY <1>9, Queues DEF SendLandAll
<1>10. CASE TakeNext
  BY <1>10, MessageSteps DEF TakeNext, ControlTyped
<1>11. ASSUME NEW arrives \in BOOLEAN, Deliver(arrives) PROVE Counted'
  <2>1. hand # None /\ hand' = None /\ hand \in Message
    BY <1>11 DEF Deliver, ControlTyped
  <2>2. Len(down') <= Len(down) + 1 /\ Len(down') \in Nat
    BY <1>11, <2>1, MessageSteps DEF Deliver, ControlTyped
  <2>3. UNCHANGED <<controlled, handler, monitor, queue, orphan, landedAll, clicks>>
    BY <1>11 DEF Deliver
  <2>. QED
    BY <2>1, <2>2, <2>3
<1>12. CASE LoseAnswer
  BY <1>12 DEF LoseAnswer
<1>13. CASE OnReply
  BY <1>13 DEF OnReply
<1>14. CASE ObserveTelemetry
  BY <1>14 DEF ObserveTelemetry
<1>15. CASE DispatcherGoesOn
  BY <1>15 DEF DispatcherGoesOn
<1>16. CASE OrphanDue
  BY <1>16 DEF OrphanDue
<1>17. CASE SendOrphanLand
  BY <1>17, Queues DEF SendOrphanLand
<1>18. CASE OrphanLandFails
  BY <1>18 DEF OrphanLandFails, Rearm
<1>19. ASSUME NEW type \in Waitable, GiveUpWaiting(type) PROVE Counted'
  BY <1>19, GiveUpWrites
<1>20. CASE GraceOver
  BY <1>20 DEF GraceOver
<1>21. CASE EdgeNext
  BY <1>21, MessageSteps, EdgeWrites DEF ControlTyped
<1>. QED
  BY <1>1, <1>2, <1>3, <1>4, <1>5, <1>6, <1>7, <1>8, <1>9, <1>10, <1>11, <1>12, <1>13, <1>14, <1>15, <1>16, <1>17, <1>18, <1>19, <1>20, <1>21 DEF Next, HandlerNext, GroundNext, Tries, GivesUp

\* The invariant holds of every state.
LEMMA AlwaysCounted == Spec => [](ControlTyped /\ Counted)
<1>1. Init => ControlTyped /\ Counted
  <2> SUFFICES ASSUME Init PROVE ControlTyped /\ Counted
    OBVIOUS
  <2>1. queue = <<>> /\ down = <<>> /\ up = <<>> /\ Len(queue) = 0 /\ Len(down) = 0
    BY DEF Init
  <2>2. recent \in BOOLEAN /\ orphan \in BOOLEAN /\ overtaken \in BOOLEAN
        /\ taken \in BOOLEAN /\ flying \in BOOLEAN /\ landing \in BOOLEAN
    BY Zenon DEF Init, Edge!Init
  <2>3. ControlTyped
    BY <2>1, <2>2, ControlAssumption, EmptySeq DEF Init, ControlTyped
  <2>4. Counted
    BY <2>1 DEF Init, Counted, Asked, Held, One
  <2>. QED
    BY <2>3, <2>4
<1>2. ControlTyped /\ Counted /\ [Next]_vars => ControlTyped' /\ Counted'
  BY TypeStep, CountStep
<1>. QED
  BY <1>1, <1>2, PTL DEF Spec

\* Every variable keeps its type, and no more commands wait to be sent or handled
\* than the clicks and the landings they can lead to account for.
THEOREM ControlIsTyped == Spec => []ControlTypeOK
<1>1. ControlTyped /\ Counted => ControlTypeOK
  <2> SUFFICES ASSUME ControlTyped, Counted PROVE ControlTypeOK
    OBVIOUS
  <2>1. Len(queue) \in Nat /\ Len(down) \in Nat /\ clicks \in 0..MaxClicks
    BY MessageSteps DEF ControlTyped
  <2>2. Held \in Nat /\ One(landedAll = "pressed") \in Nat /\ One(orphan) \in Nat
    BY DEF Held, One
  <2>3. Len(queue) + Len(down) <= 2 * MaxClicks
    <3>1. Len(queue) + Len(down) <= 2 * clicks
      <4> HIDE DEF Held, One
      <4>. QED
        BY <2>1, <2>2 DEF Counted, Asked
    <3>. QED
      BY <2>1, <3>1, ControlAssumption
  <2>. QED
    BY <2>3 DEF ControlTypeOK, ControlTyped
<1>. QED
  BY <1>1, AlwaysCounted, PTL

----------------------------------------------------------------------------
(* A release on telemetry is real.                                         *)

\* Every step keeps what a drone taken is known by once the grace is over.
LEMMA GraceStep ==
    ASSUME ControlTyped, GraceInv, [Next]_vars
    PROVE  GraceInv'
<1> USE NoneAssumption DEF GraceInv, ground, threads, sending, link, edge
<1>1. CASE UNCHANGED vars
  BY <1>1 DEF vars, HoldIn
<1>2. CASE TakeControl
  BY <1>2 DEF TakeControl, Clicks
<1>3. CASE TakeOther
  BY <1>3 DEF TakeOther
<1>4. CASE ResumeSearch
  BY <1>4 DEF ResumeSearch, GraceKept, Clicks, HoldIn
<1>5. ASSUME NEW type \in {"hover", "takeoff", "land"}, Command(type) PROVE GraceInv'
  BY <1>5 DEF Command, Clicks, HoldIn
<1>6. CASE HandlerGoesOn
  <2> DEFINE m == [type |-> handler, waited |-> handler \in Waitable]
  <2>1. handler \in Types /\ queue' = Append(queue, m) /\ m.type = handler
    BY <1>6 DEF HandlerGoesOn, ControlTyped
  <2>2. m \in Message
    BY <2>1, Messages
  <2> HIDE DEF m
  <2>3. HoldIn(queue') => HoldIn(queue) \/ handler = "hold"
    BY <2>1, <2>2, HoldSteps DEF ControlTyped
  <2>4. handler' = None /\ UNCHANGED <<controlled, recent, overtaken, hand, down, tele, taken>>
    BY <1>6 DEF HandlerGoesOn
  <2>5. HoldIn(down') => HoldIn(down)
    BY <2>4
  <2>6. handler' # "hold"
    BY <2>4 DEF Types
  <2>. QED
    BY <2>3, <2>4, <2>5, <2>6
<1>7. CASE Disconnect
  BY <1>7 DEF Disconnect
<1>8. CASE LandAll
  BY <1>8, HoldSteps DEF LandAll, HoldIn
<1>9. CASE SendLandAll
  BY <1>9, HoldSteps, Messages DEF SendLandAll, ControlTyped, Types
<1>10. CASE TakeNext
  BY <1>10, HoldSteps DEF TakeNext, ControlTyped
<1>11. ASSUME NEW arrives \in BOOLEAN, Deliver(arrives) PROVE GraceInv'
  BY <1>11, HoldSteps DEF Deliver, ControlTyped
<1>12. CASE LoseAnswer
  BY <1>12 DEF LoseAnswer
<1>13. CASE OnReply
  BY <1>13 DEF OnReply
<1>14. CASE ObserveTelemetry
  BY <1>14 DEF ObserveTelemetry, GraceKept
<1>15. CASE DispatcherGoesOn
  BY <1>15 DEF DispatcherGoesOn, GraceKept
<1>16. CASE OrphanDue
  BY <1>16 DEF OrphanDue
<1>17. CASE SendOrphanLand
  BY <1>17, HoldSteps, Messages DEF SendOrphanLand, ControlTyped, Types
<1>18. CASE OrphanLandFails
  BY <1>18 DEF OrphanLandFails, Rearm
<1>19. ASSUME NEW type \in Waitable, GiveUpWaiting(type) PROVE GraceInv'
  BY <1>19, GiveUpWrites
<1>20. CASE GraceOver
  BY <1>20 DEF GraceOver, Timely, HoldOnItsWay
<1>21. CASE EdgeNext
  <2>1. HoldIn(down') => HoldIn(down)
    BY <1>21, HoldSteps, EdgeWrites DEF ControlTyped
  <2>2. UNCHANGED <<controlled, recent, handler, queue, hand>>
    BY <1>21, EdgeWrites
  <2>3. HoldIn(queue') => HoldIn(queue)
    BY <2>2
  <2>4. ASSUME controlled' = "this", ~recent', ~overtaken', taken', tele' # None PROVE tele'.mode = "manual"
    <3>1. taken
      BY <1>21, <2>2, <2>4, HoldSteps, EdgeWrites DEF ControlTyped
    <3>2. CASE tele' = tele
      <4>1. ~overtaken
        BY <1>21, <2>4, EdgeWrites
      <4>. QED
        BY <2>2, <2>4, <3>1, <3>2, <4>1
    <3>3. CASE tele' # tele
      BY <1>21, <2>4, <3>3, EdgeWrites DEF Telemetry
    <3>. QED
      BY <3>2, <3>3
  <2>. QED
    BY <1>21, <2>1, <2>2, <2>3, <2>4, EdgeWrites
<1>. QED
  BY <1>1, <1>2, <1>3, <1>4, <1>5, <1>6, <1>7, <1>8, <1>9, <1>10, <1>11, <1>12, <1>13, <1>14, <1>15, <1>16, <1>17, <1>18, <1>19, <1>20, <1>21 DEF Next, HandlerNext, GroundNext, Tries, GivesUp

\* The ground gives a drone up on telemetry only when the edge is out of manual
\* control and no take_control's hold is on its way that would take it again, unless
\* the grace was too short for that hold or a hover took the drone.
THEOREM ReleasesAreReal == Spec => ReleaseIsReal
<1> DEFINE Inv == ControlTyped /\ GraceInv
           Drop == ObserveTelemetry /\ controlled = "this" /\ controlled' = None /\ ~overtaken
<1>1. Init => GraceInv
  <2>1. ~HoldIn(<<>>)
    BY HoldSteps, EmptySeq
  <2>. QED
    BY <2>1, NoneAssumption DEF Init, GraceInv, Types
<1>2. ControlTyped /\ GraceInv /\ [Next]_vars => GraceInv'
  BY GraceStep
<1>3. Inv /\ [Next]_vars => [Drop => ~taken /\ ~HoldOnItsWay]_vars
  <2> SUFFICES ASSUME Inv, Drop
               PROVE  ~taken /\ ~HoldOnItsWay
    OBVIOUS
  <2>1. tele # None /\ Released
    BY NoneAssumption DEF ObserveTelemetry
  <2>2. tele.mode = "autonomous" /\ ~recent
    BY <2>1 DEF Released
  <2>. QED
    BY <2>1, <2>2 DEF GraceInv, HoldOnItsWay
<1>4. Spec => [](ControlTyped /\ Counted)
  BY AlwaysCounted
<1>. QED
  BY <1>1, <1>2, <1>3, <1>4, PTL DEF Spec, ReleaseIsReal
=============================================================================

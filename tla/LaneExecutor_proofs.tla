-------------------------- MODULE LaneExecutor_proofs --------------------------
(***************************************************************************)
(* Theorems about LaneExecutor, for plans of any length and any threads    *)
(* that may call land_now.                                                 *)
(***************************************************************************)
EXTENDS LaneExecutor, TLAPS

\* The owner of an unannounced landing is the worker at the end of its lanes or the
\* monitor between two ticks, so what it recorded is not taken for over yet.
UncountedInv ==
    /\ \A l \in Landers : lander[l] = "uncounted" => l \in {"worker", "monitor"} /\ landReason
    /\ lander["worker"] = "uncounted" => At("landing")
    /\ lander["monitor"] = "uncounted" => mon.at = "idle"

\* A landing that has set the abort flag and is not over: the flag stays set, as
\* no sequence is launched while it is counted or recorded.
Stopping == {"aborted", "owner", "follower", "uncounted"}
AbortInv == \A l \in Landers : lander[l] \in Stopping => abort

\* A takeoff that was claimed and not aborted: no landing has begun since.
ClaimInv ==
    At("claimed") /\ ~abort => \A l \in Landers : lander[l] \in {"idle", "counted"}

\* A drone that may still lift is one whose takeoff is unanswered, or failed and
\* about to be landed; once a landing of it began, it counts as flying.
Owned == \E l \in Landers : lander[l] \in {"owner", "uncounted"}
LiftInv ==
    /\ At("ascending") => lift
    /\ lift /\ (\E l \in Landers : lander[l] \in {"landing", "landed"}) => flying
    /\ lift /\ ~flying =>
         \/ Owned \/ At("ascending") \/ At("failing")
         \/ At("landing") /\ lander["worker"] \in {"counted", "aborted"}
    /\ At("preflight") \/ At("claimed") => ~lift

\* A recorded landing of a drone that flies, may lift or is being landed has
\* ended the plan; of a takeoff that may yet be sent, none is recorded; unless the
\* landing recorded was confirmed wrongly.
Standing == landReason /\ record # "disproved"
PlanInv ==
    /\ At("claimed") /\ ~abort => ~Standing
    /\ At("preflight") /\ ~abort /\ flying => ~Standing
    /\ Standing /\ lift => flying \/ Owned
    /\ Standing /\ (LandInflight \/ flying \/ lift) => ~planValid

\* What is recorded under the condition that the lanes are over is recorded, and
\* not of a drone that is taking off.
EndInv ==
    /\ record = "conditional" => landReason
    /\ At("claimed") \/ At("ascending") => record # "conditional"
    /\ EndLandingUncontested

TakeoffInv == LaneTypeOK /\ UncountedInv /\ AbortInv /\ ClaimInv
TouchdownInv == TakeoffInv /\ LiftInv /\ PlanInv
LandingInv == TouchdownInv /\ EndInv

----------------------------------------------------------------------------
(* Types.                                                                  *)

\* None is no worker, no step of a sequence and nothing a hold parks.
LEMMA NoneIsNothing == None \notin Worker /\ None \notin {"lanes", "climb", "hover"}
BY WorkerAssumption, ExecutorAssumption

\* What the actions write into a worker is a worker, at the point they name.
LEMMA WorkerWrites ==
    ASSUME NEW w \in Worker
    PROVE  /\ \A q \in Points : /\ [w EXCEPT !.at = q] \in Worker
                                /\ [w EXCEPT !.at = q].at = q /\ [w EXCEPT !.at = q].kind = w.kind
           /\ \A k \in Kinds, q \in Points :
                 /\ [w EXCEPT !.kind = k, !.at = q] \in Worker
                 /\ [w EXCEPT !.kind = k, !.at = q].at = q
           /\ \A q \in Points : /\ [w EXCEPT !.at = q, !.climbed = TRUE] \in Worker
                                /\ [w EXCEPT !.at = q, !.climbed = TRUE].at = q
                                /\ [w EXCEPT !.at = q, !.counts = TRUE] \in Worker
                                /\ [w EXCEPT !.at = q, !.counts = TRUE].at = q
           /\ \A b \in BOOLEAN : /\ [w EXCEPT !.climbed = FALSE, !.counts = @ /\ b] \in Worker
                                 /\ [w EXCEPT !.climbed = FALSE, !.counts = @ /\ b].at = w.at
<1>1. \A q \in Points : /\ [w EXCEPT !.at = q] \in Worker
                        /\ [w EXCEPT !.at = q].at = q /\ [w EXCEPT !.at = q].kind = w.kind
  BY DEF Worker
<1>2. \A k \in Kinds, q \in Points :
         /\ [w EXCEPT !.kind = k, !.at = q] \in Worker
         /\ [w EXCEPT !.kind = k, !.at = q].at = q
  BY DEF Worker
<1>3. \A q \in Points : /\ [w EXCEPT !.at = q, !.climbed = TRUE] \in Worker
                        /\ [w EXCEPT !.at = q, !.climbed = TRUE].at = q
                        /\ [w EXCEPT !.at = q, !.counts = TRUE] \in Worker
                        /\ [w EXCEPT !.at = q, !.counts = TRUE].at = q
  BY DEF Worker
<1>4. ASSUME NEW b \in BOOLEAN
      PROVE  /\ [w EXCEPT !.climbed = FALSE, !.counts = @ /\ b] \in Worker
             /\ [w EXCEPT !.climbed = FALSE, !.counts = @ /\ b].at = w.at
  <2>1. (w.counts /\ b) \in BOOLEAN
    OBVIOUS
  <2>. QED
    BY <2>1 DEF Worker
<1>. QED
  BY <1>1, <1>2, <1>3, <1>4

\* A sequence begins at the first point of its kind.
LEMMA SequenceType ==
    ASSUME NEW k \in Kinds, NEW h \in BOOLEAN
    PROVE  /\ Sequence(k, h) \in Worker /\ Sequence(k, h).at = FirstPoint[k]
           /\ FirstPoint[k] \in {"waiting", "preflight", "begin_plan", "climb", "nudge"}
           /\ FirstPoint[k] = "preflight" <=> k = "takeoff"
<1>1. /\ FirstPoint[k] \in {"waiting", "preflight", "begin_plan", "climb", "nudge"}
      /\ FirstPoint[k] = "preflight" <=> k = "takeoff"
  BY DEF FirstPoint, Kinds
<1>2. FirstPoint[k] \in Points
  BY <1>1 DEF Points
<1> HIDE DEF FirstPoint
<1>. QED
  BY <1>1, <1>2 DEF Sequence, Worker

\* The sequence goes to another point.
LEMMA GoesTo ==
    ASSUME LaneTypeOK, worker # None, NEW q \in Points, Goes(q)
    PROVE  worker' \in Worker /\ worker'.at = q /\ worker'.kind = worker.kind
<1>1. worker \in Worker /\ worker' = [worker EXCEPT !.at = q]
  BY DEF LaneTypeOK, Goes
<1>. QED
  BY <1>1, WorkerWrites

\* A launch writes a new sequence, and no landing is wanted.
LEMMA Launched ==
    ASSUME NEW k \in Kinds, NEW h \in BOOLEAN, Launch(k, h)
    PROVE  /\ worker' \in Worker /\ worker'.at = FirstPoint[k] /\ worker' = Sequence(k, h)
           /\ worker'.at \in {"waiting", "preflight", "begin_plan", "climb", "nudge"}
           /\ abort' = FALSE /\ hover' = FALSE /\ ~LandRequested
BY SequenceType DEF Launch, LandingWanted

\* Every point of a sequence is one of Points.
LEMMA PointNames ==
    {"waiting", "preflight", "claimed", "ascending", "lifted", "begin_plan", "plan", "climb",
     "climbing", "move", "moving", "moved", "complete", "nudge", "nudging", "failing",
     "landing", "ending"} \subseteq Points
BY DEF Points

\* The first steps of the worker keep the types.
LEMMA TakeoffTypes ==
    ASSUME LaneTypeOK, WaitOver \/ ClaimTakeoff \/ SendTakeoff \/ TakeoffAnswered \/ NoteTakeoff
    PROVE  LaneTypeOK'
<1> USE NoneIsNothing, PointNames DEF drone, plan, flight
<1>0. worker \in Worker /\ worker # None
  BY DEF WaitOver, ClaimTakeoff, SendTakeoff, TakeoffAnswered, NoteTakeoff, At, LaneTypeOK
<1>1. CASE WaitOver
  <2>1. parked' \in {"lanes", "climb", "hover", None}
    BY <1>1 DEF WaitOver, Release, LaneTypeOK
  <2>2. worker' \in Worker \cup {None}
    <3>1. [worker EXCEPT !.kind = "lanes", !.at = "begin_plan"] \in Worker
      BY <1>0, WorkerWrites DEF Kinds
    <3>. QED
      BY <1>0, <1>1, <3>1, GoesTo DEF WaitOver, Release
  <2>. QED
    BY <1>1, <2>1, <2>2 DEF WaitOver, LaneTypeOK
<1>2. CASE ClaimTakeoff
  <2>1. parked' \in {"lanes", "climb", "hover", None} /\ worker' \in Worker \cup {None}
    BY <1>0, <1>2, GoesTo DEF ClaimTakeoff, Release, LaneTypeOK
  <2>2. /\ landReason' \in BOOLEAN /\ wasFlying' \in BOOLEAN /\ flyingLanes' \in BOOLEAN
        /\ record' \in {"announced", "conditional", "disproved"}
    <3>1. (landReason /\ flying) \in BOOLEAN /\ (wasFlying /\ flying) \in BOOLEAN
      OBVIOUS
    <3>. QED
      BY <1>2, <3>1 DEF ClaimTakeoff, LaneTypeOK
  <2>. QED
    BY <1>2, <2>1, <2>2 DEF ClaimTakeoff, LaneTypeOK
<1>3. CASE SendTakeoff
  <2>1. worker' \in Worker
    BY <1>0, <1>3, GoesTo DEF SendTakeoff
  <2>2. lift' \in BOOLEAN /\ flying' = flying
        /\ landing' \in {"none", "unconfirmed", "confirmed", "flagged"}
    BY <1>3 DEF SendTakeoff, LaneTypeOK
  <2>. QED
    BY <1>3, <2>1, <2>2 DEF SendTakeoff, LaneTypeOK
<1>4. CASE TakeoffAnswered
  <2>1. worker' \in Worker
    BY <1>0, <1>4, GoesTo DEF TakeoffAnswered
  <2>2. flying' \in BOOLEAN /\ lift' \in BOOLEAN
        /\ landing' \in {"none", "unconfirmed", "confirmed", "flagged"}
    BY <1>4 DEF TakeoffAnswered, LaneTypeOK
  <2>. QED
    BY <1>4, <2>1, <2>2 DEF TakeoffAnswered, LaneTypeOK
<1>5. CASE NoteTakeoff
  <2>1. worker' \in Worker
    <3>1. [worker EXCEPT !.kind = "climb", !.at = "climb"] \in Worker
      BY <1>0, WorkerWrites DEF Kinds
    <3>. QED
      BY <1>0, <1>5, <3>1, GoesTo DEF NoteTakeoff
  <2>. QED
    BY <1>5, <2>1 DEF NoteTakeoff, LaneTypeOK
<1>. QED
  BY <1>1, <1>2, <1>3, <1>4, <1>5

\* A claim and the return of a move leave the sequence at a point, or free the slot.
LEMMA ClaimType ==
    ASSUME LaneTypeOK, worker # None, NEW q \in Points, Claim(q)
    PROVE  /\ worker' \in Worker \cup {None} /\ parked' \in {"lanes", "climb", "hover", None}
           /\ worker' \in Worker => worker'.at \in {q, "ending"} 
BY GoesTo, PointNames, NoneIsNothing DEF Claim, Release, LaneTypeOK

\* A move that returns goes on, or ends its sequence by the way it failed.
LEMMA MoveReturnsType ==
    ASSUME LaneTypeOK, worker # None, NEW q \in Points, MoveReturns(q)
    PROVE  worker' \in Worker /\ worker'.at \in {q, "ending", "failing"}
BY GoesTo, PointNames DEF MoveReturns

\* Climbing, flying the plan and nudging keep the types, and go neither to nor
\* from the points of a takeoff.
MoveSteps ==
    \/ Climb \/ ClimbReturns \/ BeginPlan \/ PlanStep \/ Move \/ MoveEnds \/ CountMove
    \/ Nudge \/ NudgeReturns

OnTheWay == {"begin_plan", "plan", "climb", "climbing", "move", "moving", "moved",
             "nudge", "nudging"}

\* The types of what climbing, flying a plan and nudging write.
LEMMA MoveTypes ==
    ASSUME LaneTypeOK, MoveSteps
    PROVE  /\ worker \in Worker /\ worker.at \in OnTheWay
           /\ worker' \in Worker \cup {None} /\ parked' \in {"lanes", "climb", "hover", None}
           /\ worker' \in Worker => worker'.at \in OnTheWay \cup {"complete", "failing", "ending"}
           /\ left' \in 0..MaxMoves /\ flyingLanes' \in BOOLEAN
           /\ UNCHANGED <<drone, abort, lander, mon, planValid, onComplete, landReason, record, wasFlying, hover>>
<1> USE NoneIsNothing, PointNames DEF drone, plan, flight
<1>1. worker \in Worker /\ worker # None /\ worker.at \in OnTheWay
  BY DEF MoveSteps, Climb, ClimbReturns, BeginPlan, PlanStep, Move, MoveEnds, CountMove, Nudge,
         NudgeReturns, At, LaneTypeOK, OnTheWay
<1>2. /\ left' \in 0..MaxMoves /\ flyingLanes' \in BOOLEAN
      /\ UNCHANGED <<drone, abort, lander, mon, planValid, onComplete, landReason, record, wasFlying, hover>>
  <2>1. left > 0 => left - 1 \in 0..MaxMoves
    BY ExecutorAssumption DEF LaneTypeOK
  <2>. QED
    BY <2>1 DEF MoveSteps, Climb, ClimbReturns, BeginPlan, PlanStep, Move, MoveEnds, CountMove,
                Nudge, NudgeReturns, LaneTypeOK
<1> DEFINE Good == /\ worker' \in Worker \cup {None} /\ parked' \in {"lanes", "climb", "hover", None}
                   /\ worker' \in Worker =>
                         worker'.at \in OnTheWay \cup {"complete", "failing", "ending"}
<1>3. parked \in {"lanes", "climb", "hover", None}
  BY DEF LaneTypeOK
<1>4. ASSUME NEW q \in {"plan", "ending", "failing"}, Goes(q) PROVE worker' \in Worker /\ worker'.at = q
  BY <1>1, <1>4, GoesTo
<1>5. CASE Climb
  <2>1. ClimbDone => worker' \in Worker /\ worker'.at \in {"plan", "ending"}
    BY <1>4 DEF ClimbDone
  <2>2. Claim("climbing") => Good
    BY <1>1, ClaimType DEF OnTheWay
  <2>. QED
    BY <1>2, <1>1, <1>3, <1>4, <1>5, <2>1, <2>2 DEF Climb, OnTheWay
<1>6. CASE ClimbReturns
  <2>1. worker' \in Worker /\ worker'.at \in {"plan", "ending", "failing"}
    <3> DEFINE q == IF worker.kind = "lanes" THEN "plan" ELSE "ending"
    <3>1. q \in Points /\ q \in {"plan", "ending"}
      OBVIOUS
    <3>2. MoveReturns(q)
      BY <1>6 DEF ClimbReturns
    <3> HIDE DEF q
    <3>. QED
      BY <1>1, <3>1, <3>2, MoveReturnsType
  <2>. QED
    BY <1>1, <1>2, <1>3, <1>6, <2>1 DEF ClimbReturns, OnTheWay
<1>7. CASE BeginPlan
  <2>1. /\ [worker EXCEPT !.kind = "lanes", !.at = "plan"] \in Worker
        /\ [worker EXCEPT !.kind = "lanes", !.at = "plan"].at = "plan"
    BY <1>1 DEF Worker, Kinds, Points
  <2>. QED
    BY <1>1, <1>2, <1>3, <1>4, <1>7, <2>1 DEF BeginPlan, OnTheWay
<1>8. CASE PlanStep
  <2>1. /\ [worker EXCEPT !.at = "climb", !.climbed = TRUE] \in Worker
        /\ [worker EXCEPT !.at = "climb", !.climbed = TRUE].at = "climb"
        /\ [worker EXCEPT !.at = "move", !.counts = TRUE] \in Worker
        /\ [worker EXCEPT !.at = "move", !.counts = TRUE].at = "move"
    BY <1>1 DEF Worker, Points
  <2>2. Goes("complete") => worker' \in Worker /\ worker'.at = "complete"
    BY <1>1, GoesTo
  <2>3. Release => worker' = None /\ parked' \in {"lanes", "climb", "hover", None}
    BY <1>3 DEF Release
  <2>4. Good
    BY <1>3, <1>4, <1>8, <2>1, <2>2, <2>3 DEF PlanStep, OnTheWay
  <2> HIDE DEF Good
  <2>. QED
    BY <1>1, <1>2, <2>4 DEF Good
<1>9. CASE Move
  <2>1. Claim("moving") => Good
    BY <1>1, ClaimType DEF OnTheWay
  <2>. QED
    BY <1>1, <1>2, <1>3, <1>4, <1>9, <2>1 DEF Move
<1>10. CASE MoveEnds
  <2>1. worker' \in Worker /\ worker'.at \in {"moved", "ending", "failing"}
    BY <1>1, <1>10, MoveReturnsType DEF MoveEnds
  <2>. QED
    BY <1>1, <1>2, <1>3, <1>10, <2>1 DEF MoveEnds, OnTheWay
<1>11. CASE CountMove
  BY <1>1, <1>2, <1>3, <1>4, <1>11 DEF CountMove, OnTheWay
<1>12. CASE Nudge
  <2>1. Claim("nudging") => Good
    BY <1>1, ClaimType DEF OnTheWay
  <2>. QED
    BY <1>1, <1>2, <1>12, <2>1 DEF Nudge
<1>13. CASE NudgeReturns
  BY <1>1, <1>2, <1>3, <1>4, <1>13 DEF NudgeReturns, OnTheWay
<1>. QED
  BY <1>5, <1>6, <1>7, <1>8, <1>9, <1>10, <1>11, <1>12, <1>13 DEF MoveSteps

\* The other steps of the worker keep the types.
LEMMA EndTypes ==
    ASSUME LaneTypeOK, SequenceEnds \/ WorkerFails \/ WorkerCompletes \/ WorkerLanded
    PROVE  LaneTypeOK'
<1> USE NoneIsNothing, PointNames DEF drone, plan, flight
<1>0. worker \in Worker /\ worker # None /\ "worker" \in Landers
  BY DEF SequenceEnds, WorkerFails, WorkerCompletes, WorkerLanded, At, LaneTypeOK, Landers
<1>1. CASE SequenceEnds
  <2>1. Launch("lanes", FALSE) => worker' \in Worker /\ abort' = FALSE /\ hover' = FALSE
    BY Launched DEF Kinds
  <2>2. worker' \in Worker \cup {None} /\ parked' \in {"lanes", "climb", "hover", None}
        /\ abort' \in BOOLEAN /\ hover' \in BOOLEAN
    BY <1>1, <2>1 DEF SequenceEnds, Release, LaunchRefused, LaneTypeOK
  <2>. QED
    BY <1>1, <2>2 DEF SequenceEnds, LaneTypeOK
<1>2. CASE WorkerFails
  <2>1. worker' \in Worker
    BY <1>0, <1>2, GoesTo DEF WorkerFails
  <2>. QED
    BY <1>0, <1>2, <2>1 DEF WorkerFails, Request, Steps, LandSteps, LaneTypeOK
<1>3. CASE WorkerCompletes
  <2>1. worker' \in Worker
    BY <1>0, <1>3, GoesTo DEF WorkerCompletes
  <2>3. CASE RecordUnannounced("worker")
    <3>1. lander' \in [Landers -> LandSteps]
      BY <1>0, <2>3 DEF RecordUnannounced, Steps, LandSteps, LaneTypeOK
    <3>. QED
      BY <1>3, <2>1, <2>3, <3>1 DEF WorkerCompletes, RecordUnannounced, RecordedState, LaneTypeOK
  <2>4. CASE UNCHANGED <<drone, abort, lander, parked, plan, flight>>
    BY <1>3, <2>1, <2>4 DEF WorkerCompletes, LaneTypeOK
  <2>. QED
    BY <1>3, <2>3, <2>4 DEF WorkerCompletes
<1>4. CASE WorkerLanded
  <2>1. worker' \in Worker
    BY <1>0, <1>4, GoesTo DEF WorkerLanded
  <2>. QED
    BY <1>4, <2>1 DEF WorkerLanded, LaneTypeOK
<1>. QED
  BY <1>1, <1>2, <1>3, <1>4

\* The steps of land_now keep the types.
LEMMA LandTypes ==
    ASSUME LaneTypeOK, NEW l \in Landers, RequestLanding(l) \/ LandNext(l)
    PROVE  LaneTypeOK'
<1> USE DEF drone, plan, flight
<1>1. \A step \in LandSteps : Steps(l, step) => lander' \in [Landers -> LandSteps]
  BY DEF Steps, LaneTypeOK
<1>2. {"idle", "counted", "aborted", "owner", "follower", "landing", "landed"} \subseteq LandSteps
  BY DEF LandSteps
<1>3. CASE RequestLanding(l)
  BY <1>1, <1>2, <1>3 DEF RequestLanding, Request, LaneTypeOK
<1>4. CASE SetAbort(l)
  BY <1>1, <1>2, <1>4 DEF SetAbort, LaneTypeOK
<1>5. CASE Record(l)
  <2>1. lander' \in [Landers -> LandSteps]
    BY <1>1, <1>2, <1>5 DEF Record
  <2>. QED
    BY <1>5, <2>1 DEF Record, RecordedState, LaneTypeOK
<1>6. CASE Proceed(l)
  <2>1. lander' \in [Landers -> LandSteps]
    BY <1>1, <1>2, <1>6 DEF Proceed
  <2>2. (flying \/ lift) \in BOOLEAN
    OBVIOUS
  <2>3. /\ flying' \in BOOLEAN /\ lift' \in BOOLEAN
        /\ landing' \in {"none", "unconfirmed", "confirmed", "flagged"}
    BY <1>6, <2>2 DEF Proceed, DroneLands, LaneTypeOK
  <2>. QED
    BY <1>6, <2>1, <2>3 DEF Proceed, LaneTypeOK
<1>7. CASE LandConfirmed(l)
  <2>1. lander' \in [Landers -> LandSteps]
    BY <1>1, <1>2, <1>7 DEF LandConfirmed
  <2>2. flying' \in BOOLEAN /\ lift' \in BOOLEAN /\ landing' \in {"none", "confirmed"}
    BY <1>7 DEF LandConfirmed
  <2>. QED
    BY <1>7, <2>1, <2>2 DEF LandConfirmed, LaneTypeOK
<1>8. CASE LandFailed(l) \/ LandOver(l)
  BY <1>1, <1>2, <1>8 DEF LandFailed, LandOver, LaneTypeOK
<1>. QED
  BY <1>3, <1>4, <1>5, <1>6, <1>7, <1>8 DEF LandNext

Ticks == [at : {"idle", "sampled", "land", "hover"}, flying : BOOLEAN]

\* The steps of the monitor keep the types.
LEMMA MonitorTypes ==
    ASSUME LaneTypeOK, MonitorNext
    PROVE  LaneTypeOK'
<1> USE NoneIsNothing DEF drone, plan, flight
<1>1. mon \in Ticks /\ "monitor" \in Landers /\ Tick0 \in Ticks
  BY DEF LaneTypeOK, Ticks, Landers, Tick0
<1>2. CASE TickSample
  <2>1. mon' \in Ticks
    BY <1>2 DEF TickSample, LaneTypeOK, Ticks
  <2>. QED
    BY <1>2, <2>1 DEF TickSample, LaneTypeOK, Ticks
<1>3. CASE TickLocked
  <2> DEFINE up == mon.flying
  <2>1. up \in BOOLEAN
    BY <1>1 DEF Ticks
  <2>2. mon' \in Ticks
    <3>1. Decision(up) \subseteq {"idle", "land", "hover"}
      BY DEF Decision
    <3>. QED
      BY <1>3, <3>1 DEF TickLocked, Ticks
  <2>3. /\ (landReason /\ ~LandingSeenOver(up)) \in BOOLEAN
        /\ IdleAfterLanes(up) \in BOOLEAN
        /\ (flyingLanes /\ ~Unplanned(up)) \in BOOLEAN
        /\ (planValid /\ ~Unplanned(up)) \in BOOLEAN
    BY DEF IdleAfterLanes
  <2>4. /\ landReason' \in BOOLEAN /\ hover' \in BOOLEAN /\ flyingLanes' \in BOOLEAN
        /\ planValid' \in BOOLEAN
    BY <1>3, <2>3 DEF TickLocked
  <2>6. record' \in {"announced", "conditional", "disproved"}
    BY <1>3 DEF TickLocked, LaneTypeOK
  <2>5. parked' \in {"lanes", "climb", "hover", None} /\ wasFlying' \in BOOLEAN
    BY <1>3, <2>1 DEF TickLocked, LaneTypeOK
  <2>. QED
    BY <1>3, <2>2, <2>4, <2>5, <2>6 DEF TickLocked, LaneTypeOK, Ticks
<1>4. CASE MonitorLands
  <2>1. lander' \in [Landers -> LandSteps]
    BY <1>1, <1>4 DEF MonitorLands, Request, Steps, LandSteps, LaneTypeOK
  <2>. QED
    BY <1>1, <1>4, <2>1 DEF MonitorLands, Request, LaneTypeOK, Ticks
<1>5. CASE MonitorEndsHover
  <2>1. IdleAfterLanes(flying) \in BOOLEAN
    BY DEF IdleAfterLanes
  <2>2. mon' \in Ticks /\ worker' = worker
    BY <1>1, <1>5 DEF MonitorEndsHover
  <2>3. CASE RecordUnannounced("monitor")
    <3>1. lander' \in [Landers -> LandSteps]
      BY <1>1, <2>3 DEF RecordUnannounced, Steps, LandSteps, LaneTypeOK
    <3>. QED
      BY <2>2, <2>3, <3>1 DEF RecordUnannounced, RecordedState, LaneTypeOK, Ticks
  <2>4. CASE ~HoverDue
    BY <1>5, <2>1, <2>2, <2>4 DEF MonitorEndsHover, LaneTypeOK, Ticks
  <2>. QED
    BY <1>5, <2>3, <2>4 DEF MonitorEndsHover
<1>. QED
  BY <1>2, <1>3, <1>4, <1>5 DEF MonitorNext

\* The handlers keep the types: what a hold parks is one of the kinds resume can
\* start again.
LEMMA ControlTypes ==
    ASSUME LaneTypeOK, ControlNext
    PROVE  LaneTypeOK'
<1> USE NoneIsNothing DEF drone, plan, flight
<1>1. CASE HandlerTooLate \/ FailSafeIdle \/ InvalidatePlan
  <2>1. abort' \in BOOLEAN /\ planValid' \in BOOLEAN
    BY <1>1 DEF HandlerTooLate, LaunchRefused, FailSafeIdle, InvalidatePlan, LaneTypeOK
  <2>. QED
    BY <1>1, <2>1 DEF HandlerTooLate, FailSafeIdle, InvalidatePlan, LaneTypeOK
<1>2. CASE HandleTakeoff
  <2>1. worker' \in Worker /\ abort' = FALSE /\ hover' = FALSE
    BY <1>2, Launched DEF HandleTakeoff, Kinds
  <2>2. abort' \in BOOLEAN /\ hover' \in BOOLEAN
    BY <2>1
  <2>. QED
    BY <1>2, <2>1, <2>2 DEF HandleTakeoff, LaneTypeOK
<1>3. CASE HandleStartAt
  <2>1. worker' \in Worker /\ abort' = FALSE /\ hover' = FALSE
    BY <1>3, Launched DEF HandleStartAt, Kinds
  <2>2. abort' \in BOOLEAN /\ hover' \in BOOLEAN
    BY <2>1
  <2>. QED
    BY <1>3, <2>1, <2>2 DEF HandleStartAt, LaneTypeOK
<1>4. CASE HandleNudge
  <2>1. Held \in BOOLEAN
    BY DEF Held
  <2>2. worker' \in Worker /\ abort' = FALSE /\ hover' = FALSE
    BY <1>4, <2>1, Launched DEF HandleNudge, Kinds
  <2>3. abort' \in BOOLEAN /\ hover' \in BOOLEAN
    BY <2>2
  <2>. QED
    BY <1>4, <2>2, <2>3 DEF HandleNudge, LaneTypeOK
<1>5. CASE HandleHold
  <2>1. ResumeKind \in {"lanes", "climb", "hover"}
    BY DEF ResumeKind
  <2>2. parked' \in {"lanes", "climb", "hover", None}
    BY <1>5, <2>1 DEF HandleHold, LaneTypeOK
  <2>3. (abort \/ PreTakeoff) \in BOOLEAN /\ (hover /\ ~(flying \/ TakingOff)) \in BOOLEAN
    OBVIOUS
  <2>4. abort' \in BOOLEAN /\ hover' \in BOOLEAN
    BY <1>5, <2>3 DEF HandleHold
  <2>. QED
    BY <1>5, <2>2, <2>4 DEF HandleHold, LaneTypeOK
<1>6. CASE HandleResume
  <2>1. Launch(parked, FALSE) /\ parked \in {"lanes", "climb"}
           => worker' \in Worker /\ abort' = FALSE /\ hover' = FALSE
    BY Launched DEF Kinds
  <2>2. worker' \in Worker \cup {None} /\ abort' \in BOOLEAN /\ hover' \in BOOLEAN
    BY <1>6, <2>1 DEF HandleResume, LaneTypeOK
  <2>. QED
    BY <1>6, <2>2 DEF HandleResume, LaneTypeOK
<1>7. ASSUME NEW next \in {"land", "hover"}, HandleAssignLanes(next) PROVE LaneTypeOK'
  <2>1. Launch("lanes", FALSE) => worker' \in Worker /\ abort' = FALSE /\ hover' = FALSE
    BY Launched DEF Kinds
  <2>2. PICK carried \in BOOLEAN :
          /\ left' \in 0..MaxMoves
          /\ IF flyingLanes /\ flying /\ ~landReason /\ ~Held /\ worker = None
             THEN Launch("lanes", FALSE)
             ELSE /\ worker' = IF worker = None THEN None
                               ELSE [worker EXCEPT !.climbed = FALSE, !.counts = @ /\ carried]
                  /\ hover' = FALSE /\ UNCHANGED abort
    BY <1>7 DEF HandleAssignLanes
  <2>4. worker # None => [worker EXCEPT !.climbed = FALSE, !.counts = @ /\ carried] \in Worker
    BY WorkerWrites DEF LaneTypeOK
  <2>5. worker' \in Worker \cup {None} /\ abort' \in BOOLEAN /\ hover' \in BOOLEAN
    BY <2>1, <2>2, <2>4 DEF LaneTypeOK
  <2>. QED
    BY <1>7, <2>2, <2>5 DEF HandleAssignLanes, LaneTypeOK
<1>. QED
  BY <1>1, <1>2, <1>3, <1>4, <1>5, <1>6, <1>7 DEF ControlNext

\* Every step keeps the types.
LEMMA TypeStep == LaneTypeOK /\ [Next]_vars => LaneTypeOK'
<1> SUFFICES ASSUME LaneTypeOK, [Next]_vars PROVE LaneTypeOK'
  OBVIOUS
<1> USE DEF drone, plan, flight
<1>1. CASE WorkerNext
  <2>1. CASE MoveSteps
    BY <2>1, MoveTypes DEF LaneTypeOK
  <2>. QED
    BY <1>1, <2>1, TakeoffTypes, EndTypes DEF WorkerNext, MoveSteps
<1>2. CASE DroneNext
  <2>1. flying' \in BOOLEAN /\ landing' \in {"none", "unconfirmed", "confirmed", "flagged"}
    BY <1>2 DEF DroneNext, DroneDown, FlyingAfterLand
  <2>2. record' \in {"announced", "conditional", "disproved"}
    BY <1>2 DEF DroneNext, DroneDown, FlyingAfterLand, LaneTypeOK
  <2>3. UNCHANGED <<lift, abort, worker, lander, mon, parked, plan>>
        /\ UNCHANGED <<flyingLanes, landReason, wasFlying, hover>>
    BY <1>2 DEF DroneNext, DroneDown, FlyingAfterLand
  <2>. QED
    BY <2>1, <2>2, <2>3 DEF LaneTypeOK
<1>3. CASE UNCHANGED vars
  BY <1>3 DEF vars, LaneTypeOK
<1>. QED
  BY <1>1, <1>2, <1>3, MonitorTypes, ControlTypes, LandTypes DEF Next

\* And the executor starts in them.
LEMMA InitTyped == Init => LaneTypeOK
<1> SUFFICES ASSUME Init PROVE LaneTypeOK
  OBVIOUS
<1>1. lander \in [Landers -> LandSteps] /\ mon \in Ticks /\ left \in 0..MaxMoves
  BY ExecutorAssumption DEF Init, Tick0, Ticks, LandSteps
<1>2. /\ flying \in BOOLEAN /\ lift \in BOOLEAN /\ abort \in BOOLEAN /\ planValid \in BOOLEAN
      /\ flyingLanes \in BOOLEAN /\ landReason \in BOOLEAN /\ wasFlying \in BOOLEAN
      /\ hover \in BOOLEAN
  BY DEF Init
<1>. QED
  BY <1>1, <1>2 DEF Init, LaneTypeOK, Ticks

\* The executor's state keeps its types; in particular what a hold parks is a kind
\* that resume can start again, whatever ran when the hold was handled.
THEOREM LaneTyped == Spec => []LaneTypeOK
BY InitTyped, TypeStep, PTL DEF Spec

----------------------------------------------------------------------------
(* What a hold and new lanes may rely on.                                  *)

\* A hold in flight ends with resume, with a landing that was announced, or with a
\* tick that saw no flight: the landings that end a plan look at it again as they
\* are recorded.
THEOREM HoldsStick == Spec => HoldSticks
<1> DEFINE Ends == Held /\ flying /\ flying' /\ ~Held'
           May == LandRequested \/ HandleResume \/ StaleTick
<1>1. ASSUME LaneTypeOK, [Next]_vars, Ends PROVE May
  <2> USE DEF Held, drone, plan, flight
  <2>1. ASSUME Release \/ UNCHANGED parked PROVE FALSE
    BY <1>1, <2>1 DEF Release
  <2>2. ~(WaitOver \/ ClaimTakeoff \/ SendTakeoff \/ TakeoffAnswered \/ NoteTakeoff)
    BY <2>1 DEF WaitOver, ClaimTakeoff, SendTakeoff, TakeoffAnswered, NoteTakeoff
  <2>3. ~MoveSteps
    BY <2>1 DEF MoveSteps, Climb, ClimbReturns, BeginPlan, PlanStep, Move, MoveEnds, CountMove,
                Nudge, NudgeReturns, Claim
  <2>4. ~(SequenceEnds \/ WorkerFails \/ WorkerLanded)
    BY <2>1 DEF SequenceEnds, WorkerFails, Request, WorkerLanded
  <2>5. CASE WorkerCompletes \/ MonitorEndsHover
    BY <1>1, <2>1, <2>5 DEF WorkerCompletes, MonitorEndsHover, OnCompleteDue, HoverDue, IdleAfterLanes
  <2>6. ASSUME NEW l \in Landers, RequestLanding(l) \/ LandNext(l) PROVE LandRequested
    BY <2>1, <2>6 DEF LandRequested, RequestLanding, Request, LandNext, SetAbort, Record, RecordedState, Proceed,
                      LandConfirmed, LandFailed, LandOver
  <2>7. ~(TickSample \/ MonitorLands \/ DroneNext \/ UNCHANGED vars)
    BY <2>1 DEF TickSample, MonitorLands, Request, DroneNext, DroneDown, FlyingAfterLand, vars
  <2>8. CASE TickLocked
    <3>1. Unplanned(mon.flying)
      BY <2>1, <2>8 DEF TickLocked
    <3>. QED
      BY <2>8, <3>1 DEF TickLocked, Unplanned, StaleTick
  <2>9. ~(HandlerTooLate \/ HandleTakeoff \/ HandleStartAt \/ HandleNudge \/ InvalidatePlan \/ FailSafeIdle)
    BY <2>1 DEF HandlerTooLate, HandleTakeoff, HandleStartAt, HandleNudge, InvalidatePlan, FailSafeIdle
  <2>10. ~\E next \in {"land", "hover"} : HandleAssignLanes(next)
    BY <2>1 DEF HandleAssignLanes
  <2>11. ~HandleHold
    <3>1. ResumeKind # None
      BY NoneIsNothing DEF ResumeKind
    <3>. QED
      BY <1>1, <3>1 DEF HandleHold
  <2>. QED
    BY <1>1, <2>2, <2>3, <2>4, <2>5, <2>6, <2>7, <2>8, <2>9, <2>10, <2>11
    DEF Next, WorkerNext, MonitorNext, ControlNext, MoveSteps
<1>2. LaneTypeOK /\ [Next]_vars => [Ends => May]_vars
  BY <1>1
<1>. QED
  BY <1>2, LaneTyped, PTL DEF Spec, HoldSticks

----------------------------------------------------------------------------
(* No takeoff under a landing.                                             *)

\* The abort flag of a landing stays set: it is cleared only while none is wanted.
LEMMA AbortStep == LaneTypeOK /\ UncountedInv /\ AbortInv /\ [Next]_vars => AbortInv'
<1> SUFFICES ASSUME LaneTypeOK, UncountedInv, AbortInv, [Next]_vars PROVE AbortInv'
  OBVIOUS
<1> USE DEF drone, plan, flight
<1>1. CASE abort' = TRUE
  BY <1>1 DEF AbortInv
<1>2. CASE UNCHANGED lander /\ ~LandingWanted
  BY <1>2 DEF AbortInv, UncountedInv, Stopping, LandingWanted, LandRequested, LandInflight
<1>3. ASSUME UNCHANGED abort, \A l \in Landers : lander'[l] \in Stopping => lander[l] \in Stopping
      PROVE  AbortInv'
  BY <1>3 DEF AbortInv, Stopping
<1>4. CASE UNCHANGED <<lander, abort>>
  BY <1>3, <1>4
<1>5. CASE MoveSteps
  BY <1>4, <1>5, MoveTypes
<1>6. CASE WaitOver \/ ClaimTakeoff \/ SendTakeoff \/ TakeoffAnswered \/ NoteTakeoff \/ WorkerLanded
           \/ TickSample \/ TickLocked \/ InvalidatePlan \/ DroneNext \/ UNCHANGED vars
  BY <1>4, <1>6 DEF WaitOver, ClaimTakeoff, SendTakeoff, TakeoffAnswered, NoteTakeoff, WorkerLanded,
                    TickSample, TickLocked, InvalidatePlan, DroneNext, DroneDown, FlyingAfterLand, vars
<1>7. ASSUME SequenceEnds \/ HandlerTooLate \/ HandleTakeoff \/ HandleStartAt \/ HandleResume
               \/ HandleNudge \/ FailSafeIdle \/ \E next \in {"land", "hover"} : HandleAssignLanes(next)
      PROVE  UNCHANGED lander /\ (abort' = TRUE \/ UNCHANGED abort \/ ~LandingWanted)
  BY <1>7 DEF SequenceEnds, HandlerTooLate, LaunchRefused, HandleTakeoff, HandleStartAt, HandleResume,
              HandleNudge, FailSafeIdle, HandleAssignLanes, Launch
<1>8. CASE HandleHold
  <2>1. UNCHANGED lander /\ (abort => abort')
    BY <1>8 DEF HandleHold
  <2>. QED
    BY <2>1 DEF AbortInv
<1>9. ASSUME NEW l \in Landers, \/ RequestLanding(l) \/ Proceed(l) \/ LandConfirmed(l)
                                \/ LandFailed(l) \/ LandOver(l)
      PROVE  AbortInv'
  <2>1. UNCHANGED abort
    BY <1>9 DEF RequestLanding, Request, Proceed, LandConfirmed, LandFailed, LandOver
  <2>2. \E step \in {"counted", "landing", "idle", "landed"} : Steps(l, step)
    BY <1>9 DEF RequestLanding, Request, Proceed, LandConfirmed, LandFailed, LandOver
  <2>3. \A k \in Landers : lander'[k] \in Stopping => lander[k] \in Stopping
    BY <2>2 DEF Steps, LaneTypeOK, Stopping
  <2>. QED
    BY <1>3, <2>1, <2>3
<1>10. ASSUME NEW l \in Landers, SetAbort(l) \/ Record(l) PROVE AbortInv'
  BY <1>1, <1>10 DEF SetAbort, Record, RecordedState
<1>11. CASE WorkerFails \/ MonitorLands
  <2>1. PICK l \in Landers : Request(l)
    BY <1>11 DEF WorkerFails, MonitorLands, Landers
  <2>2. \A k \in Landers : lander'[k] \in Stopping => lander[k] \in Stopping
    BY <2>1 DEF Request, Steps, LaneTypeOK, Stopping
  <2>. QED
    BY <1>3, <2>1, <2>2 DEF Request
<1>12. CASE WorkerCompletes \/ MonitorEndsHover
  BY <1>1, <1>4, <1>12 DEF WorkerCompletes, MonitorEndsHover, RecordUnannounced, RecordedState
<1>. QED
  BY <1>1, <1>2, <1>4, <1>5, <1>6, <1>7, <1>8, <1>9, <1>10, <1>11, <1>12
  DEF Next, WorkerNext, MonitorNext, ControlNext, LandNext, MoveSteps

\* The steps of the other threads leave a sequence where it is, and its abort flag
\* set, unless they launch one.
Others == \/ DroneNext \/ MonitorNext \/ ControlNext \/ UNCHANGED vars
          \/ \E l \in Landers : RequestLanding(l) \/ LandNext(l)

Stays == worker # None /\ worker' # None /\ worker'.at = worker.at /\ (abort => abort')

\* Nobody but the worker moves a sequence on, except to start the next one.
LEMMA OthersStay ==
    ASSUME LaneTypeOK, Others, worker' # None
    PROVE  \/ Stays \/ HandleTakeoff
           \/ /\ worker'.at \in {"waiting", "begin_plan", "climb", "nudge"}
              /\ worker = None \/ At("ending")
<1> USE DEF drone, plan, flight
<1>1. ASSUME worker' = worker, abort => abort' PROVE Stays
  BY <1>1 DEF Stays
<1>2. ASSUME \/ DroneNext \/ MonitorNext \/ UNCHANGED vars
             \/ \E l \in Landers : RequestLanding(l) \/ LandNext(l)
      PROVE  worker' = worker /\ (abort => abort')
  BY <1>2 DEF DroneNext, DroneDown, FlyingAfterLand, MonitorNext, TickSample, TickLocked, MonitorLands,
              MonitorEndsHover, vars, RequestLanding, Request, LandNext, SetAbort, Record, RecordedState,
              RecordUnannounced, Proceed, LandConfirmed, LandFailed, LandOver
<1>3. ASSUME NEW k \in Kinds \ {"takeoff"}, NEW h \in BOOLEAN, Launch(k, h)
      PROVE  /\ worker'.at \in {"waiting", "begin_plan", "climb", "nudge"}
             /\ worker = None \/ At("ending")
  <2>1. worker'.at \in {"waiting", "begin_plan", "climb", "nudge"}
    BY <1>3, Launched, SequenceType
  <2>. QED
    BY <1>3, <2>1 DEF Launch
<1>4. CASE HandlerTooLate \/ InvalidatePlan \/ FailSafeIdle \/ HandleHold
  <2>1. worker' = worker
    BY <1>4 DEF HandlerTooLate, InvalidatePlan, FailSafeIdle, HandleHold
  <2>2. abort' = TRUE \/ abort' = abort \/ abort' = (abort \/ PreTakeoff)
    BY <1>4 DEF HandlerTooLate, LaunchRefused, InvalidatePlan, FailSafeIdle, HandleHold
  <2>3. abort => abort'
    BY <2>2, Zenon
  <2>. QED
    BY <1>1, <2>1, <2>3
<1>5. CASE HandleStartAt \/ HandleNudge
  BY <1>3, <1>5 DEF HandleStartAt, HandleNudge, Kinds, Held
<1>6. CASE HandleResume
  BY <1>1, <1>3, <1>6 DEF HandleResume, Kinds
<1>7. ASSUME NEW next \in {"land", "hover"}, HandleAssignLanes(next)
      PROVE  Stays \/ /\ worker'.at \in {"waiting", "begin_plan", "climb", "nudge"}
                      /\ worker = None \/ At("ending")
  <2>1. CASE Launch("lanes", FALSE)
    BY <1>3, <2>1 DEF Kinds
  <2>2. CASE ~Launch("lanes", FALSE)
    <3>1. PICK carried \in BOOLEAN :
             /\ worker' = IF worker = None THEN None
                          ELSE [worker EXCEPT !.climbed = FALSE, !.counts = @ /\ carried]
             /\ UNCHANGED abort
      BY <1>7, <2>2 DEF HandleAssignLanes
    <3>2. worker # None /\ worker \in Worker
      BY <3>1 DEF LaneTypeOK
    <3>3. worker'.at = worker.at
      BY <3>1, <3>2, WorkerWrites
    <3>. QED
      BY <3>1, <3>2, <3>3 DEF Stays
  <2>. QED
    BY <2>1, <2>2
<1>. QED
  BY <1>1, <1>2, <1>4, <1>5, <1>6, <1>7 DEF Others, ControlNext

\* Nobody else frees the slot.
LEMMA OthersKeepSlot ==
    ASSUME LaneTypeOK, Others, worker # None, worker.at # "ending"
    PROVE  Stays
<1> USE NoneIsNothing DEF drone, plan, flight
<1>1. worker' # None
  <2>1. CASE worker' = worker
    BY <2>1
  <2>2. ASSUME NEW k \in Kinds, NEW h \in BOOLEAN PROVE ~Launch(k, h)
    BY DEF Launch, At
  <2>3. ASSUME NEW next \in {"land", "hover"}, HandleAssignLanes(next) PROVE worker' # None
    <3>1. PICK carried \in BOOLEAN : worker' = [worker EXCEPT !.climbed = FALSE, !.counts = @ /\ carried]
      BY <2>2, <2>3 DEF HandleAssignLanes, Kinds
    <3>2. worker' \in Worker
      BY <3>1, WorkerWrites DEF LaneTypeOK
    <3>. QED
      BY <3>2
  <2>. QED
    BY <2>1, <2>2, <2>3
    DEF Others, DroneNext, DroneDown, FlyingAfterLand, MonitorNext, TickSample, TickLocked,
        MonitorLands, MonitorEndsHover, vars, RequestLanding, Request, LandNext, SetAbort, Record,
        Proceed, LandConfirmed, LandFailed, LandOver, ControlNext, HandlerTooLate, HandleTakeoff,
        HandleStartAt, HandleHold, HandleResume, HandleNudge, InvalidatePlan, FailSafeIdle
<1>. QED
  BY <1>1, OthersStay DEF HandleTakeoff, Launch, At

\* How the worker reaches the points of a takeoff.
LEMMA WorkerSends ==
    ASSUME LaneTypeOK, WorkerNext, worker' # None, worker'.at \in {"preflight", "claimed", "ascending"}
    PROVE  \/ WaitOver /\ ~abort /\ ~flying /\ At("waiting") /\ At("preflight")'
           \/ /\ ClaimTakeoff /\ ~abort /\ ~LandInflight /\ landReason' = (landReason /\ flying)
              /\ At("claimed")'
           \/ SendTakeoff /\ ~TakeoffRefused /\ lift' = TRUE /\ At("claimed") /\ At("ascending")'
<1> USE NoneIsNothing, PointNames DEF drone, plan, flight
<1>1. ~MoveSteps
  <2>1. MoveSteps => worker' \notin Worker \/ worker'.at \notin {"preflight", "claimed", "ascending"}
    BY MoveTypes DEF OnTheWay
  <2>. QED
    BY <2>1, MoveTypes
<1>2. worker # None /\ worker \in Worker
  BY <1>1 DEF WorkerNext, MoveSteps, WaitOver, ClaimTakeoff, SendTakeoff, TakeoffAnswered,
              NoteTakeoff, SequenceEnds, WorkerFails, WorkerCompletes, WorkerLanded, At, LaneTypeOK
<1>3. \A q \in Points : Goes(q) => worker'.at = q
  BY <1>2, GoesTo
<1>4. ~Release
  BY DEF Release
<1>5. CASE WaitOver
  <2>1. [worker EXCEPT !.kind = "lanes", !.at = "begin_plan"].at = "begin_plan"
    BY <1>2 DEF Worker
  <2>. QED
    BY <1>3, <1>4, <1>5, <2>1 DEF WaitOver, At
<1>6. CASE ClaimTakeoff
  BY <1>3, <1>4, <1>6 DEF ClaimTakeoff, At
<1>7. CASE SendTakeoff
  BY <1>3, <1>7 DEF SendTakeoff, At
<1>8. ~TakeoffAnswered
  BY <1>3 DEF TakeoffAnswered
<1>9. ~NoteTakeoff
  <2>1. [worker EXCEPT !.kind = "climb", !.at = "climb"].at = "climb"
    BY <1>2 DEF Worker
  <2>. QED
    BY <1>3, <2>1 DEF NoteTakeoff
<1>10. ~SequenceEnds
  <2>1. ~Launch("lanes", FALSE)
    <3>1. FirstPoint["lanes"] = "begin_plan"
      BY DEF FirstPoint
    <3>. QED
      BY <3>1, Launched DEF Kinds
  <2>. QED
    BY <1>4, <2>1 DEF SequenceEnds
<1>11. ~(WorkerFails \/ WorkerCompletes \/ WorkerLanded)
  BY <1>3 DEF WorkerFails, WorkerCompletes, WorkerLanded
<1>. QED
  BY <1>1, <1>5, <1>6, <1>7, <1>8, <1>9, <1>10, <1>11 DEF WorkerNext, MoveSteps

\* A step is the worker's or another's.
LEMMA NextParts == [Next]_vars <=> WorkerNext \/ Others
BY DEF Next, Others

\* A sequence inside its takeoff, or about to land, leaves that point only by its
\* own next step.
LEMMA TakeoffSteps ==
    ASSUME LaneTypeOK, [Next]_vars
    PROVE  /\ At("ascending") => Stays \/ TakeoffAnswered
           /\ At("failing") => Stays \/ WorkerFails
           /\ At("landing") => Stays \/ WorkerLanded
<1>1. ASSUME NEW q \in {"ascending", "failing", "landing"}, At(q), ~Stays
      PROVE  \/ q = "ascending" /\ TakeoffAnswered
             \/ q = "failing" /\ WorkerFails
             \/ q = "landing" /\ WorkerLanded
  <2>1. WorkerNext
    BY <1>1, NextParts, OthersKeepSlot DEF At
  <2>. QED
    BY <1>1, <2>1 DEF WorkerNext, At, WaitOver, ClaimTakeoff, SendTakeoff, NoteTakeoff, Climb,
                      ClimbReturns, BeginPlan, PlanStep, Move, MoveEnds, CountMove, Nudge, NudgeReturns,
                      SequenceEnds, WorkerCompletes, TakeoffAnswered, WorkerFails, WorkerLanded
<1>. QED
  BY <1>1

\* How the steps write who lands, the flag and what is recorded.
Requests == \E l \in Landers : Request(l)
Lands == \E l \in Landers : SetAbort(l) \/ Record(l) \/ Proceed(l) \/ LandConfirmed(l)
                            \/ LandFailed(l) \/ LandOver(l)
Plans == \E next \in {"land", "hover"} : HandleAssignLanes(next)
Records == \E l \in Landers : Record(l)

\* The two landings that are not announced: after the last lane, and of a hover.
EndsLanes == WorkerCompletes /\ OnCompleteDue /\ RecordUnannounced("worker") /\ Goes("landing")
EndsHover == MonitorEndsHover /\ HoverDue /\ RecordUnannounced("monitor")
LandsUnannounced == EndsLanes \/ EndsHover

\* The steps that move a caller of land() on.
LEMMA LanderWrites ==
    ASSUME LaneTypeOK, [Next]_vars
    PROVE  Requests \/ Lands \/ LandsUnannounced \/ UNCHANGED lander
<1>1. "worker" \in Landers /\ "monitor" \in Landers
  BY DEF Landers
<1>2. CASE MoveSteps
  BY <1>2, MoveTypes
<1>3. ASSUME NEW l \in Landers, RequestLanding(l) \/ LandNext(l) PROVE Requests \/ Lands
  BY <1>3 DEF RequestLanding, LandNext, Requests, Lands
<1>4. CASE WorkerFails \/ MonitorLands
  BY <1>1, <1>4 DEF WorkerFails, MonitorLands, Requests
<1>5. CASE WorkerCompletes \/ MonitorEndsHover
  BY <1>1, <1>5 DEF WorkerCompletes, MonitorEndsHover, LandsUnannounced, EndsLanes, EndsHover
<1>6. CASE WaitOver \/ ClaimTakeoff \/ SendTakeoff \/ TakeoffAnswered \/ NoteTakeoff \/ WorkerLanded
           \/ SequenceEnds \/ TickSample \/ TickLocked \/ DroneNext \/ UNCHANGED vars
  BY <1>6 DEF WaitOver, ClaimTakeoff, SendTakeoff, TakeoffAnswered, NoteTakeoff, WorkerLanded,
              SequenceEnds, TickSample, TickLocked, DroneNext, DroneDown, FlyingAfterLand, vars
<1>7. CASE ControlNext
  BY <1>7 DEF ControlNext, HandlerTooLate, HandleTakeoff, HandleStartAt, HandleHold, HandleResume,
              HandleNudge, HandleAssignLanes, InvalidatePlan, FailSafeIdle
<1>. QED
  BY <1>2, <1>3, <1>4, <1>5, <1>6, <1>7 DEF Next, WorkerNext, MonitorNext, MoveSteps

\* Only the monitor moves its tick on.
LEMMA MonWrites ==
    ASSUME LaneTypeOK, [Next]_vars
    PROVE  MonitorNext \/ UNCHANGED mon
<1>1. CASE MoveSteps
  BY <1>1, MoveTypes
<1>2. CASE WaitOver \/ ClaimTakeoff \/ SendTakeoff \/ TakeoffAnswered \/ NoteTakeoff \/ SequenceEnds
           \/ WorkerFails \/ WorkerCompletes \/ WorkerLanded \/ DroneNext \/ UNCHANGED vars
  BY <1>2 DEF WaitOver, ClaimTakeoff, SendTakeoff, TakeoffAnswered, NoteTakeoff, SequenceEnds, WorkerFails,
              WorkerCompletes, WorkerLanded, DroneNext, DroneDown, FlyingAfterLand, vars
<1>3. CASE ControlNext
  BY <1>3 DEF ControlNext, HandlerTooLate, HandleTakeoff, HandleStartAt, HandleHold, HandleResume,
              HandleNudge, HandleAssignLanes, InvalidatePlan, FailSafeIdle
<1>4. ASSUME NEW l \in Landers, RequestLanding(l) \/ LandNext(l) PROVE UNCHANGED mon
  BY <1>4 DEF RequestLanding, LandNext, SetAbort, Record, Proceed, LandConfirmed, LandFailed, LandOver
<1>. QED
  BY <1>1, <1>2, <1>3, <1>4 DEF Next, WorkerNext, MoveSteps

\* What is recorded of a landing is written by those who record it, and by a
\* takeoff, a tick or a wrong confirmation.
LEMMA RecordSteps ==
    ASSUME LaneTypeOK, [Next]_vars
    PROVE  \/ Records /\ landReason' /\ abort' /\ ~planValid' /\ record' = "announced"
           \/ EndsLanes \/ EndsHover \/ ClaimTakeoff \/ TickLocked \/ FlyingAfterLand
           \/ UNCHANGED <<landReason, record>>
<1> USE DEF drone, plan, flight
<1>1. CASE MoveSteps
  BY <1>1, MoveTypes
<1>2. CASE WaitOver \/ SendTakeoff \/ TakeoffAnswered \/ NoteTakeoff \/ SequenceEnds \/ WorkerFails
           \/ WorkerLanded \/ TickSample \/ MonitorLands \/ DroneDown \/ UNCHANGED vars
  BY <1>2 DEF WaitOver, SendTakeoff, TakeoffAnswered, NoteTakeoff, SequenceEnds, WorkerFails, Request,
              WorkerLanded, TickSample, MonitorLands, DroneDown, vars
<1>3. CASE WorkerCompletes \/ MonitorEndsHover
  BY <1>3 DEF WorkerCompletes, MonitorEndsHover, EndsLanes, EndsHover
<1>4. CASE ControlNext
  BY <1>4 DEF ControlNext, HandlerTooLate, HandleTakeoff, HandleStartAt, HandleHold, HandleResume,
              HandleNudge, HandleAssignLanes, InvalidatePlan, FailSafeIdle
<1>5. ASSUME NEW l \in Landers, RequestLanding(l) \/ SetAbort(l) \/ Proceed(l) \/ LandConfirmed(l)
                                  \/ LandFailed(l) \/ LandOver(l)
      PROVE  UNCHANGED <<landReason, record>>
  BY <1>5 DEF RequestLanding, Request, SetAbort, Proceed, LandConfirmed, LandFailed, LandOver
<1>6. ASSUME NEW l \in Landers, Record(l)
      PROVE  Records /\ landReason' /\ abort' /\ ~planValid' /\ record' = "announced"
  BY <1>6 DEF Record, RecordedState, Records
<1>. QED
  BY <1>1, <1>2, <1>3, <1>4, <1>5, <1>6
  DEF Next, WorkerNext, MonitorNext, DroneNext, LandNext, MoveSteps

\* An unannounced landing gets its owner where it is recorded, and there alone.
LEMMA UncountedWrites ==
    ASSUME LaneTypeOK, [Next]_vars, NEW l \in Landers, lander'[l] = "uncounted", lander[l] # "uncounted"
    PROVE  (l = "worker" /\ EndsLanes) \/ (l = "monitor" /\ EndsHover)
<1>1. ASSUME NEW k \in Landers, NEW step \in LandSteps \ {"uncounted"}, Steps(k, step) PROVE FALSE
  BY <1>1 DEF Steps, LaneTypeOK
<1>2. {"counted", "aborted", "owner", "follower", "landing", "landed", "idle"} \subseteq LandSteps \ {"uncounted"}
  BY DEF LandSteps
<1>3. ~Requests
  BY <1>1, <1>2 DEF Requests, Request
<1>4. ~Lands
  BY <1>1, <1>2 DEF Lands, SetAbort, Record, Proceed, LandConfirmed, LandFailed, LandOver
<1>5. ASSUME NEW k \in Landers, RecordUnannounced(k) PROVE l = k
  BY <1>5 DEF RecordUnannounced, Steps, LaneTypeOK
<1>6. "worker" \in Landers /\ "monitor" \in Landers
  BY DEF Landers
<1>. QED
  BY <1>3, <1>4, <1>5, <1>6, LanderWrites DEF LandsUnannounced, EndsLanes, EndsHover

\* While an unannounced landing has its owner it stays recorded, and the owner
\* where it was.
LEMMA UncountedStep == LaneTypeOK /\ UncountedInv /\ [Next]_vars => UncountedInv'
<1> SUFFICES ASSUME LaneTypeOK, UncountedInv, [Next]_vars PROVE UncountedInv'
  OBVIOUS
<1> USE DEF drone, plan, flight
<1>0. "worker" \in Landers /\ "monitor" \in Landers
  BY DEF Landers
<1>1. EndsLanes => landReason' /\ At("landing")'
  <2>1. At("complete") /\ Goes("landing") => At("landing")'
    BY GoesTo, PointNames, NoneIsNothing DEF At
  <2>. QED
    BY <2>1 DEF EndsLanes, WorkerCompletes, RecordUnannounced, RecordedState
<1>2. EndsHover => landReason' /\ mon'.at = "idle"
  BY DEF EndsHover, MonitorEndsHover, RecordUnannounced, RecordedState, Tick0
<1>3. ASSUME NEW l \in Landers, lander'[l] = "uncounted"
      PROVE  l \in {"worker", "monitor"} /\ landReason'
  <2>1. CASE lander[l] # "uncounted"
    BY <1>1, <1>2, <1>3, <2>1, UncountedWrites
  <2>2. CASE lander[l] = "uncounted"
    <3>1. l \in {"worker", "monitor"} /\ landReason /\ LandInflight
      BY <2>2 DEF UncountedInv, LandInflight
    <3>2. At("landing") \/ mon.at = "idle"
      BY <2>2, <3>1 DEF UncountedInv
    <3>3. ~TickLocked \/ ~LandingSeenOver(mon.flying)
      BY <3>2 DEF TickLocked, LandingSeenOver, At
    <3>4. ClaimTakeoff => UNCHANGED flight
      BY <3>1 DEF ClaimTakeoff
    <3>5. TickLocked => landReason' = (landReason /\ ~LandingSeenOver(mon.flying))
      BY DEF TickLocked
    <3>6. FlyingAfterLand => UNCHANGED landReason
      BY DEF FlyingAfterLand
    <3>. QED
      BY <1>1, <1>2, <3>1, <3>3, <3>4, <3>5, <3>6, RecordSteps
  <2>. QED
    BY <2>1, <2>2
<1>4. ASSUME lander'["worker"] = "uncounted" PROVE At("landing")'
  <2>1. CASE lander["worker"] # "uncounted"
    BY <1>0, <1>1, <1>4, <2>1, UncountedWrites
  <2>2. CASE lander["worker"] = "uncounted"
    BY <2>2, TakeoffSteps DEF UncountedInv, Stays, At, WorkerLanded
  <2>. QED
    BY <2>1, <2>2
<1>5. ASSUME lander'["monitor"] = "uncounted" PROVE mon'.at = "idle"
  <2>1. CASE lander["monitor"] # "uncounted"
    BY <1>0, <1>2, <1>5, <2>1, UncountedWrites
  <2>2. CASE lander["monitor"] = "uncounted"
    <3>1. mon.at = "idle"
      BY <2>2 DEF UncountedInv
    <3>2. MonitorNext => mon'.at = "idle"
      BY <2>2, <3>1 DEF MonitorNext, TickSample, TickLocked, MonitorLands, MonitorEndsHover
    <3>. QED
      BY <3>1, <3>2, MonWrites
  <2>. QED
    BY <2>1, <2>2
<1>. QED
  BY <1>3, <1>4, <1>5 DEF UncountedInv

\* The flag outlives every clearing of it by a launch, so no takeoff is sent into a
\* landing that has set it.
THEOREM NoTakeoffIntoLanding == Spec => NoTakeoffUnderLanding
<1> DEFINE Sent == At("claimed") /\ At("ascending")'
           Clear == \A l \in Landers : lander[l] \in {"idle", "counted", "landed"}
<1>1. ASSUME LaneTypeOK, AbortInv, [Next]_vars, Sent PROVE Clear
  <2>1. ~TakeoffRefused
    <3>1. /\ worker' # None /\ worker'.at = "ascending"
          /\ worker # None /\ worker.at = "claimed"
      BY <1>1 DEF At
    <3>2. ~Others
      BY <1>1, <3>1, OthersStay DEF Stays, HandleTakeoff
    <3>. QED
      BY <1>1, <3>1, <3>2, NextParts, WorkerSends DEF At
  <2>2. \A l \in Landers : lander[l] \in LandSteps
    BY <1>1 DEF LaneTypeOK
  <2>. QED
    BY <1>1, <2>1, <2>2 DEF TakeoffRefused, AbortInv, Stopping, LandSteps
<1>2. LaneTypeOK /\ AbortInv /\ [Next]_vars => [Sent => Clear]_vars
  BY <1>1
<1>3. Init => UncountedInv /\ AbortInv
  <2> SUFFICES ASSUME Init PROVE UncountedInv /\ AbortInv
    OBVIOUS
  <2>1. \A l \in Landers : lander[l] = "idle"
    BY DEF Init
  <2>. QED
    BY <2>1 DEF UncountedInv, AbortInv, Stopping, Landers
<1>. QED
  BY <1>2, <1>3, UncountedStep, AbortStep, LaneTyped, PTL DEF Spec, NoTakeoffUnderLanding

----------------------------------------------------------------------------
(* No drone touches down with a valid plan.                                *)

\* A claimed and unaborted takeoff has no landing beside it.
LEMMA ClaimStep == LaneTypeOK /\ LaneTypeOK' /\ AbortInv /\ ClaimInv /\ [Next]_vars => ClaimInv'
<1> SUFFICES ASSUME LaneTypeOK, LaneTypeOK', AbortInv, ClaimInv, [Next]_vars, At("claimed")', ~abort',
                    NEW l \in Landers
             PROVE  lander'[l] \in {"idle", "counted"}
  BY DEF ClaimInv
<1>1. worker' # None /\ worker'.at = "claimed"
  BY DEF At
<1>2. CASE WorkerNext
  <2>1. ClaimTakeoff /\ ~abort /\ ~LandInflight
    BY <1>1, <1>2, WorkerSends DEF At
  <2>2. lander' = lander /\ lander[l] \in LandSteps
    BY <2>1 DEF ClaimTakeoff, LaneTypeOK
  <2>. QED
    BY <2>1, <2>2 DEF AbortInv, Stopping, LandInflight, LandSteps
<1>3. CASE Others
  <2>1. Stays
    BY <1>1, <1>3, OthersStay, Launched DEF HandleTakeoff, Kinds
  <2>2. At("claimed") /\ ~abort
    BY <1>1, <2>1 DEF Stays, At
  <2>3. \A k \in Landers : lander[k] \in {"idle", "counted"}
    BY <2>2 DEF ClaimInv
  <2>4. ASSUME NEW k \in Landers, Request(k) PROVE lander'[l] \in {"idle", "counted"}
    BY <2>3, <2>4 DEF Request, Steps, LaneTypeOK
  <2>5. ~Lands
    <3>1. ASSUME NEW k \in Landers PROVE ~SetAbort(k) /\ ~Record(k)
      BY DEF SetAbort, Record, RecordedState
    <3>2. ASSUME NEW k \in Landers
          PROVE  ~Proceed(k) /\ ~LandConfirmed(k) /\ ~LandFailed(k) /\ ~LandOver(k)
      BY <2>3 DEF Proceed, LandConfirmed, LandFailed, LandOver
    <3>. QED
      BY <3>1, <3>2 DEF Lands
  <2>6. ~LandsUnannounced
    BY DEF LandsUnannounced, EndsLanes, EndsHover, RecordUnannounced, RecordedState
  <2>. QED
    BY <2>3, <2>4, <2>5, <2>6, LanderWrites DEF Requests
<1>. QED
  BY <1>2, <1>3, NextParts

\* How a step changes who is landing the drone.
Begins == \E l \in Landers : lander[l] \in {"owner", "uncounted"} /\ Steps(l, "landing") /\ DroneLands
Calmly ==
    /\ LandInflight' => LandInflight
    /\ Owned => Owned'
    /\ \A l \in Landers : lander'[l] \in {"landing", "landed"} => lander[l] \in {"landing", "landed"}
    /\ lander["worker"] \in {"counted", "aborted"} => lander'["worker"] \in {"counted", "aborted"}

\* What a step does to a landing that is under way.
LEMMA LandEffects ==
    ASSUME LaneTypeOK, [Next]_vars
    PROVE  Records \/ LandsUnannounced \/ Begins \/ Calmly
<1> USE DEF drone, plan, flight
<1>1. ASSUME NEW l \in Landers, NEW step \in {"counted", "aborted", "idle", "landed"}, Steps(l, step),
             step = "counted" => lander[l] = "idle", step = "aborted" => lander[l] = "counted",
             step = "idle" => lander[l] \in {"follower", "landed"}, step = "landed" => lander[l] = "landing"
      PROVE  Calmly
  <2>1. lander' \in [Landers -> LandSteps] /\ \A k \in Landers : lander'[k] = IF k = l THEN step ELSE lander[k]
    BY <1>1 DEF Steps, LaneTypeOK, LandSteps
  <2>2. "worker" \in Landers
    BY DEF Landers
  <2>3. LandInflight' => LandInflight
    BY <1>1, <2>1 DEF LandInflight
  <2>4. Owned => Owned'
    BY <1>1, <2>1 DEF Owned
  <2>. QED
    BY <1>1, <2>1, <2>2, <2>3, <2>4 DEF Calmly
<1>2. CASE Requests
  BY <1>1, <1>2 DEF Requests, Request
<1>3. CASE Lands
  BY <1>1, <1>3 DEF Lands, Records, Begins, SetAbort, Proceed, LandConfirmed, LandFailed, LandOver
<1>4. CASE UNCHANGED lander
  BY <1>4 DEF Calmly, LandInflight, Owned
<1>. QED
  BY <1>2, <1>3, <1>4, LanderWrites

\* How a step writes whether the drone flies or may lift.
LEMMA LiftWrites ==
    ASSUME LaneTypeOK, [Next]_vars
    PROVE  \/ UNCHANGED <<flying, lift>>
           \/ FlyingAfterLand /\ flying' /\ UNCHANGED lift
           \/ SendTakeoff /\ UNCHANGED flying
           \/ At("ascending") /\ TakeoffAnswered /\ flying' /\ ~lift'
           \/ Begins
           \/ ~At("ascending") /\ ~flying' /\ ~lift'
           \/ ~lift /\ ~flying' /\ ~lift'
<1> USE DEF drone, plan, flight
<1>1. CASE MoveSteps
  BY <1>1, MoveTypes
<1>2. CASE WaitOver \/ ClaimTakeoff \/ NoteTakeoff \/ SequenceEnds \/ WorkerFails \/ WorkerLanded
  BY <1>2 DEF WaitOver, ClaimTakeoff, NoteTakeoff, SequenceEnds, WorkerFails, Request, WorkerLanded
<1>3. CASE SendTakeoff \/ TakeoffAnswered
  BY <1>3 DEF SendTakeoff, TakeoffAnswered
<1>4. CASE WorkerCompletes \/ MonitorEndsHover
  BY <1>4 DEF WorkerCompletes, MonitorEndsHover, RecordUnannounced
<1>5. CASE TickSample \/ TickLocked \/ MonitorLands \/ UNCHANGED vars
  BY <1>5 DEF TickSample, TickLocked, MonitorLands, Request, vars
<1>6. CASE ControlNext
  BY <1>6 DEF ControlNext, HandlerTooLate, HandleTakeoff, HandleStartAt, HandleHold, HandleResume,
              HandleNudge, HandleAssignLanes, InvalidatePlan, FailSafeIdle
<1>7. CASE DroneNext
  BY <1>7 DEF DroneNext, DroneDown, FlyingAfterLand
<1>8. ASSUME NEW l \in Landers, RequestLanding(l) \/ SetAbort(l) \/ Record(l) \/ LandFailed(l) \/ LandOver(l)
      PROVE  UNCHANGED <<flying, lift>>
  BY <1>8 DEF RequestLanding, Request, SetAbort, Record, LandFailed, LandOver
<1>9. ASSUME NEW l \in Landers, Proceed(l) PROVE Begins \/ UNCHANGED <<flying, lift>>
  BY <1>9 DEF Proceed, Begins
<1>10. ASSUME NEW l \in Landers, LandConfirmed(l) PROVE ~At("ascending") /\ ~flying' /\ ~lift'
  BY <1>10 DEF LandConfirmed
<1>. QED
  BY <1>1, <1>2, <1>3, <1>4, <1>5, <1>6, <1>7, <1>8, <1>9, <1>10
  DEF Next, WorkerNext, MonitorNext, LandNext, MoveSteps

\* How a step writes what is recorded of a landing, and the plan.
LEMMA StandingWrites ==
    ASSUME LaneTypeOK, [Next]_vars
    PROVE  \/ (Records \/ LandsUnannounced) /\ Standing' /\ abort' /\ ~planValid'
           \/ Plans /\ UNCHANGED <<drone, lander, landReason, record>>
           \/ (Standing' => Standing) /\ (planValid' => planValid)
<1> USE DEF drone, plan, flight
<1>1. CASE EndsLanes \/ EndsHover
  BY <1>1 DEF LandsUnannounced, EndsLanes, EndsHover, RecordUnannounced, RecordedState, Standing
<1>2. CASE ClaimTakeoff \/ TickLocked \/ FlyingAfterLand
  <2>1. Standing' => Standing
    BY <1>2 DEF ClaimTakeoff, TickLocked, FlyingAfterLand, Standing
  <2>2. planValid' => planValid
    BY <1>2 DEF ClaimTakeoff, TickLocked, FlyingAfterLand
  <2>. QED
    BY <2>1, <2>2
<1>3. CASE Records /\ landReason' /\ abort' /\ ~planValid' /\ record' = "announced"
  BY <1>3 DEF Standing
<1>4. ASSUME UNCHANGED <<landReason, record>>, ~Plans, planValid', ~planValid,
             ~ClaimTakeoff, ~TickLocked, ~FlyingAfterLand
      PROVE  FALSE
  <2>1. ~MoveSteps
    BY <1>4, MoveTypes
  <2>2. ~WorkerNext
    BY <1>4, <2>1
    DEF WorkerNext, MoveSteps, WaitOver, SendTakeoff, TakeoffAnswered, NoteTakeoff, SequenceEnds,
        WorkerFails, Request, WorkerCompletes, RecordUnannounced, RecordedState, WorkerLanded
  <2>3. ~MonitorNext /\ ~DroneNext /\ ~UNCHANGED vars
    BY <1>4 DEF MonitorNext, TickSample, MonitorLands, Request, MonitorEndsHover, RecordUnannounced,
                RecordedState, DroneNext, DroneDown, vars
  <2>4. ~ControlNext
    BY <1>4 DEF ControlNext, Plans, HandlerTooLate, HandleTakeoff, HandleStartAt, HandleNudge,
                FailSafeIdle, HandleHold, HandleResume, InvalidatePlan
  <2>5. ASSUME NEW l \in Landers PROVE ~RequestLanding(l) /\ ~LandNext(l)
    BY <1>4 DEF RequestLanding, Request, LandNext, SetAbort, Record, RecordedState, Proceed,
                LandConfirmed, LandFailed, LandOver
  <2>. QED
    BY <2>2, <2>3, <2>4, <2>5 DEF Next
<1>5. Plans => UNCHANGED <<drone, lander, landReason, record>>
  BY DEF Plans, HandleAssignLanes
<1>. QED
  BY <1>1, <1>2, <1>3, <1>4, <1>5, RecordSteps DEF Standing

\* A landing in flight is one that has its owner, or is inside drone.land() or back.
Down(l) == lander[l] \in {"landing", "landed"}

\* A landing is under way when its flight recorded it, or a caller is inside it.
LEMMA WhoLands == LandInflight <=> Owned \/ \E l \in Landers : Down(l)
BY DEF LandInflight, Owned, Down

\* Who owns a landing keeps it until the drone is told to land.
LEMMA OwnerStays ==
    ASSUME LaneTypeOK, [Next]_vars, Owned
    PROVE  Owned' \/ Begins
<1>1. PICK k \in Landers : lander[k] \in {"owner", "uncounted"}
  BY DEF Owned
<1>2. ASSUME NEW l \in Landers, Record(l) PROVE Owned'
  <2>1. lander'[k] \in {"owner", "uncounted"}
    BY <1>1, <1>2 DEF Record, Steps, LaneTypeOK
  <2>. QED
    BY <2>1 DEF Owned
<1>3. ASSUME NEW l \in Landers, RecordUnannounced(l) PROVE Owned'
  BY <1>1, <1>3 DEF RecordUnannounced, LandInflight, Owned
<1>. QED
  BY <1>2, <1>3, LandEffects DEF Records, LandsUnannounced, EndsLanes, EndsHover, Calmly, Landers

\* A landing that records itself has an owner after it, or one is inside
\* drone.land() already.
LEMMA RecordEffects ==
    ASSUME LaneTypeOK, [Next]_vars, Records \/ LandsUnannounced
    PROVE  /\ UNCHANGED drone
           /\ Owned' \/ (\E l \in Landers : Down(l))
<1>1. ASSUME NEW l \in Landers, Record(l), ~LandInflight PROVE Owned'
  <2>1. lander'[l] = "owner"
    BY <1>1 DEF Record, Steps, LaneTypeOK
  <2>. QED
    BY <2>1 DEF Owned
<1>2. ASSUME NEW l \in Landers, RecordUnannounced(l), ~LandInflight PROVE Owned'
  <2>1. lander'[l] = "uncounted"
    BY <1>2 DEF RecordUnannounced, Steps, LaneTypeOK
  <2>. QED
    BY <2>1 DEF Owned
<1>3. UNCHANGED drone
  BY DEF Records, LandsUnannounced, EndsLanes, EndsHover, Record, RecordUnannounced
<1>4. CASE Owned
  <2>1. ASSUME NEW l \in Landers, Record(l) PROVE Owned'
    BY <1>4, <2>1 DEF Record, Steps, LaneTypeOK, Owned
  <2>2. ASSUME NEW l \in Landers, RecordUnannounced(l) PROVE Owned'
    BY <1>4, <2>2 DEF RecordUnannounced, LandInflight, Owned
  <2>. QED
    BY <1>3, <2>1, <2>2 DEF Records, LandsUnannounced, EndsLanes, EndsHover, Landers
<1>5. "worker" \in Landers /\ "monitor" \in Landers
  BY DEF Landers
<1>. QED
  BY <1>1, <1>2, <1>3, <1>4, <1>5, WhoLands DEF Records, LandsUnannounced, EndsLanes, EndsHover

\* A takeoff that is sent finds no landing and none recorded.
LEMMA SendsClear ==
    ASSUME LaneTypeOK, ClaimInv, PlanInv, SendTakeoff
    PROVE  \/ UNCHANGED drone
           \/ /\ ~Standing /\ At("ascending")' /\ lift' /\ UNCHANGED flying
              /\ \A l \in Landers : lander[l] \in {"idle", "counted"}
<1>1. CASE TakeoffRefused /\ UNCHANGED drone
  BY <1>1
<1>2. CASE ~TakeoffRefused /\ Goes("ascending") /\ lift' = TRUE /\ UNCHANGED flying
  <2>1. At("claimed") /\ ~abort
    BY <1>2 DEF SendTakeoff, TakeoffRefused
  <2>2. worker' \in Worker /\ worker'.at = "ascending"
    BY <1>2, <2>1, GoesTo, PointNames DEF At
  <2>. QED
    BY <1>2, <2>1, <2>2, NoneIsNothing DEF ClaimInv, PlanInv, At
<1>. QED
  BY <1>1, <1>2 DEF SendTakeoff

\* The lift of a takeoff is landed, is about to be, or is still unanswered.
LEMMA LiftStep ==
    ASSUME LaneTypeOK, UncountedInv, AbortInv, ClaimInv, LiftInv, PlanInv, [Next]_vars
    PROVE  LiftInv'
<1>1. At("ascending")' => lift'
  <2> SUFFICES ASSUME worker' # None, worker'.at = "ascending" PROVE lift'
    BY DEF At
  <2>1. CASE WorkerNext
    BY <2>1, WorkerSends DEF At
  <2>2. CASE Others
    <3>1. At("ascending")
      BY <2>2, OthersStay, Launched DEF Stays, At, HandleTakeoff, Kinds
    <3>2. ~TakeoffAnswered /\ ~SendTakeoff
      BY <3>1, GoesTo, PointNames DEF TakeoffAnswered, SendTakeoff, At
    <3>. QED
      BY <3>1, <3>2, LiftWrites DEF LiftInv, Begins, DroneLands
  <2>. QED
    BY <2>1, <2>2, NextParts
<1>2. lift' /\ (\E l \in Landers : Down(l)') => flying'
  <2> SUFFICES ASSUME lift', NEW l \in Landers, Down(l)', ~DroneLands PROVE flying'
    BY DEF DroneLands
  <2>1. Down(l)
    <3>1. ASSUME NEW k \in Landers, Record(k) PROVE Down(l)
      BY <3>1 DEF Record, Steps, LaneTypeOK, Down
    <3>2. ASSUME NEW k \in Landers, RecordUnannounced(k) PROVE Down(l)
      BY <3>2 DEF RecordUnannounced, Steps, LaneTypeOK, Down
    <3>3. "worker" \in Landers /\ "monitor" \in Landers
      BY DEF Landers
    <3>. QED
      BY <3>1, <3>2, <3>3, LandEffects
      DEF Records, LandsUnannounced, EndsLanes, EndsHover, Begins, Calmly, Down
  <2>2. CASE SendTakeoff
    <3>1. UNCHANGED drone
      BY <2>1, <2>2, SendsClear DEF Down
    <3>. QED
      BY <2>1, <3>1 DEF LiftInv, drone, Down
  <2>. QED
    BY <2>1, <2>2, LiftWrites DEF LiftInv, Down, Begins
<1>3. ASSUME lift', ~flying'
      PROVE  \/ Owned' \/ At("ascending")' \/ At("failing")'
             \/ At("landing")' /\ lander'["worker"] \in {"counted", "aborted"}
  <2>1. ~Begins
    BY <1>3 DEF Begins, DroneLands
  <2>2. CASE SendTakeoff /\ ~UNCHANGED drone
    BY <2>2, SendsClear
  <2>3. CASE lift /\ ~flying
    <3>1. CASE Owned
      BY <2>1, <3>1, OwnerStays
    <3>2. CASE At("ascending")
      <4>1. Stays => At("ascending")'
        BY <3>2 DEF Stays, At
      <4>2. TakeoffAnswered => At("failing")'
        BY <1>3, <3>2, GoesTo, PointNames, NoneIsNothing DEF TakeoffAnswered, At
      <4>. QED
        BY <3>2, <4>1, <4>2, TakeoffSteps
    <3>3. CASE At("failing")
      <4>1. Stays => At("failing")'
        BY <3>3 DEF Stays, At
      <4>2. WorkerFails => At("landing")' /\ lander'["worker"] = "counted"
        <5>1. "worker" \in Landers
          BY DEF Landers
        <5>. QED
          BY <3>3, <5>1, GoesTo, PointNames, NoneIsNothing
          DEF WorkerFails, At, Request, Steps, LaneTypeOK
      <4>. QED
        BY <3>3, <4>1, <4>2, TakeoffSteps
    <3>4. CASE At("landing") /\ lander["worker"] \in {"counted", "aborted"} /\ ~Owned
      <4>1. At("landing")'
        <5>1. ~WorkerLanded
          BY <3>4 DEF WorkerLanded
        <5>. QED
          BY <3>4, <5>1, TakeoffSteps DEF Stays, At
      <4>2. ~LandInflight
        BY <2>3, <3>4, WhoLands DEF LiftInv, Down
      <4>3. ASSUME NEW l \in Landers, Record(l)
            PROVE  Owned' \/ lander'["worker"] \in {"counted", "aborted"}
        <5>1. lander' = [lander EXCEPT ![l] = "owner"] /\ lander'[l] = "owner"
          BY <4>2, <4>3 DEF Record, Steps, LaneTypeOK
        <5>. QED
          BY <5>1 DEF Owned
      <4>4. ~LandsUnannounced
        BY <3>4 DEF LandsUnannounced, EndsLanes, EndsHover, WorkerCompletes, HoverDue, IdleAfterLanes, At
      <4>. QED
        BY <2>1, <3>4, <4>1, <4>3, <4>4, LandEffects DEF Records, Begins, Calmly
    <3>. QED
      BY <2>3, <3>1, <3>2, <3>3, <3>4 DEF LiftInv
  <2>. QED
    BY <1>3, <2>1, <2>2, <2>3, LiftWrites DEF drone
<1>4. ASSUME At("preflight")' \/ At("claimed")' PROVE ~lift'
  <2>1. worker' # None /\ worker'.at \in {"preflight", "claimed"}
    BY <1>4 DEF At
  <2>2. CASE WorkerNext
    <3>1. CASE WaitOver /\ ~abort /\ ~flying /\ At("waiting")
      <4>1. ~Owned
        BY <3>1 DEF AbortInv, Stopping, Owned
      <4>. QED
        BY <3>1, <4>1 DEF LiftInv, At, WaitOver, drone
    <3>2. CASE ClaimTakeoff
      BY <3>2 DEF LiftInv, ClaimTakeoff, drone
    <3>. QED
      BY <2>1, <2>2, <3>1, <3>2, WorkerSends DEF At
  <2>3. CASE Others
    <3>1. CASE HandleTakeoff
      <4>1. ~LandingWanted /\ worker = None /\ ~flying /\ UNCHANGED drone
        BY <3>1, NoneIsNothing DEF HandleTakeoff, Launch
      <4>2. ~Owned
        BY <4>1 DEF LandingWanted, LandRequested, LandInflight, Owned, UncountedInv
      <4>. QED
        BY <4>1, <4>2 DEF LiftInv, At, drone
    <3>2. CASE Stays
      <4>1. (At("preflight") \/ At("claimed")) /\ ~lift
        BY <2>1, <3>2 DEF Stays, At, LiftInv
      <4>2. ~SendTakeoff
        BY <2>1, <4>1, GoesTo, PointNames DEF SendTakeoff, At
      <4>. QED
        BY <4>1, <4>2, LiftWrites DEF Begins, DroneLands
    <3>. QED
      BY <2>1, <2>3, <3>1, <3>2, OthersStay
  <2>. QED
    BY <2>2, <2>3, NextParts
<1>. QED
  BY <1>1, <1>2, <1>3, <1>4 DEF LiftInv, Down

\* A recorded landing ends the plan, and none is sent while it lasts.
LEMMA PlanStepKept ==
    ASSUME LaneTypeOK, UncountedInv, AbortInv, ClaimInv, LiftInv, PlanInv, [Next]_vars
    PROVE  PlanInv'
<1>1. ASSUME ~abort', Standing' PROVE Standing /\ ~(Records \/ LandsUnannounced)
  <2>1. (Records \/ LandsUnannounced) => abort'
    BY DEF Records, LandsUnannounced, EndsLanes, EndsHover, Record, RecordUnannounced, RecordedState
  <2>. QED
    BY <1>1, <2>1, StandingWrites DEF Standing
<1>2. At("claimed")' /\ ~abort' => ~Standing'
  <2> SUFFICES ASSUME worker' # None, worker'.at = "claimed", ~abort', Standing' PROVE FALSE
    BY DEF At
  <2>1. CASE WorkerNext
    <3>1. ClaimTakeoff /\ ~abort /\ landReason' = (landReason /\ flying)
      BY <2>1, WorkerSends DEF At
    <3>. QED
      BY <1>1, <3>1 DEF ClaimTakeoff, PlanInv, Standing
  <2>2. CASE Others
    <3>1. Stays
      BY <2>2, OthersStay, Launched DEF HandleTakeoff, Kinds
    <3>. QED
      BY <1>1, <3>1 DEF Stays, At, PlanInv
  <2>. QED
    BY <2>1, <2>2, NextParts
<1>3. At("preflight")' /\ ~abort' /\ flying' => ~Standing'
  <2> SUFFICES ASSUME worker' # None, worker'.at = "preflight", ~abort', flying', Standing' PROVE FALSE
    BY DEF At
  <2>1. ~WorkerNext
    <3>1. ~(WaitOver /\ ~flying)
      BY DEF WaitOver, drone
    <3>. QED
      BY <3>1, WorkerSends DEF At
  <2>2. ~HandleTakeoff
    BY DEF HandleTakeoff, drone
  <2>3. Stays /\ At("preflight") /\ ~abort
    BY <2>1, <2>2, NextParts, OthersStay DEF Stays, At
  <2>4. ~flying /\ ~lift
    BY <1>1, <2>3 DEF PlanInv, LiftInv
  <2>5. ~FlyingAfterLand
    BY DEF FlyingAfterLand, Standing
  <2>6. ~SendTakeoff /\ ~At("ascending")
    BY <2>3 DEF SendTakeoff, At
  <2>. QED
    BY <2>4, <2>5, <2>6, LiftWrites DEF Begins, DroneLands
<1>4. Standing' /\ lift' => flying' \/ Owned'
  <2> SUFFICES ASSUME Standing', lift', ~flying' PROVE Owned'
    OBVIOUS
  <2>1. ~Begins
    BY DEF Begins, DroneLands
  <2>2. ~SendTakeoff \/ UNCHANGED drone
    <3>1. CASE SendTakeoff /\ ~Standing
      BY <3>1 DEF SendTakeoff, flight, Standing
    <3>. QED
      BY <3>1, SendsClear
  <2>3. lift /\ ~flying
    <3>1. UNCHANGED <<flying, lift>>
      <4>1. UNCHANGED drone => UNCHANGED <<flying, lift>>
        BY DEF drone
      <4>. QED
        BY <2>1, <2>2, <4>1, LiftWrites
    <3>. QED
      BY <3>1
  <2>4. CASE Records \/ LandsUnannounced
    BY <2>3, <2>4, RecordEffects DEF LiftInv, Down
  <2>5. CASE Standing
    BY <2>1, <2>3, <2>5, OwnerStays DEF PlanInv
  <2>. QED
    BY <2>4, <2>5, StandingWrites DEF Standing
<1>5. Standing' /\ (LandInflight' \/ flying' \/ lift') => ~planValid'
  <2> SUFFICES ASSUME Standing', planValid', LandInflight' \/ flying' \/ lift' PROVE FALSE
    OBVIOUS
  <2>1. CASE Plans /\ UNCHANGED <<drone, lander, landReason, record>>
    <3>1. ~LandingWanted /\ landReason /\ Standing
      BY <2>1 DEF Plans, HandleAssignLanes, PlanAcceptable, Standing
    <3>2. ~LandInflight /\ ~flying
      BY <3>1 DEF LandingWanted
    <3>3. ~Owned
      BY <3>2 DEF LandInflight, Owned
    <3>. QED
      BY <2>1, <3>1, <3>2, <3>3 DEF PlanInv, LandInflight, drone
  <2>2. CASE Standing /\ planValid
    <3>1. ~LandInflight /\ ~flying /\ ~lift
      BY <2>2 DEF PlanInv
    <3>2. ~Records /\ ~LandsUnannounced
      BY DEF Records, LandsUnannounced, EndsLanes, EndsHover, Record, RecordUnannounced, RecordedState
    <3>3. ~Begins
      BY <3>1 DEF Begins, LandInflight
    <3>4. ~LandInflight'
      BY <3>1, <3>2, <3>3, LandEffects DEF Calmly
    <3>5. ~SendTakeoff \/ UNCHANGED drone
      BY <2>2, SendsClear
    <3>6. ~At("ascending")
      BY <3>1 DEF LiftInv
    <3>7. ~FlyingAfterLand
      BY DEF FlyingAfterLand, Standing
    <3>. QED
      BY <3>1, <3>3, <3>4, <3>5, <3>6, <3>7, LiftWrites DEF drone
  <2>. QED
    BY <2>1, <2>2, StandingWrites DEF Standing
<1>. QED
  BY <1>2, <1>3, <1>4, <1>5 DEF PlanInv

\* The invariant under which no drone touches down with a valid plan.
LEMMA TouchdownStep == TouchdownInv /\ [Next]_vars => TouchdownInv'
<1> SUFFICES ASSUME TouchdownInv, [Next]_vars PROVE TouchdownInv'
  OBVIOUS
<1>1. LaneTypeOK /\ UncountedInv /\ AbortInv /\ ClaimInv /\ LiftInv /\ PlanInv
  BY DEF TouchdownInv, TakeoffInv
<1>2. LaneTypeOK' /\ UncountedInv' /\ AbortInv'
  BY <1>1, TypeStep, UncountedStep, AbortStep
<1>. QED
  BY <1>1, <1>2, ClaimStep, LiftStep, PlanStepKept DEF TouchdownInv, TakeoffInv

\* It holds of a drone nobody has flown yet.
LEMMA TouchdownInit == Init => TouchdownInv
<1> SUFFICES ASSUME Init PROVE TouchdownInv
  OBVIOUS
<1>1. \A l \in Landers : lander[l] = "idle"
  BY DEF Init
<1>2. UncountedInv /\ AbortInv
  BY <1>1 DEF UncountedInv, AbortInv, Stopping, Landers
<1>3. ClaimInv /\ LiftInv /\ PlanInv
  BY DEF Init, ClaimInv, LiftInv, PlanInv, Standing, At
<1>. QED
  BY <1>2, <1>3, InitTyped DEF TouchdownInv, TakeoffInv

\* A drone that comes down while its landing is recorded has no valid plan left:
\* whoever recorded the landing has ended the plan, and assign_lanes gives it no
\* other before the drone is down, or is taken to be down by a wrong confirmation.
THEOREM TouchdownsEndPlans == Spec => TouchdownEndsPlan
<1> DEFINE TouchesDown == flying /\ ~flying' /\ landReason /\ record # "disproved"
<1>1. ASSUME TouchdownInv, [Next]_vars, TouchesDown PROVE ~planValid'
  <2>1. LaneTypeOK /\ ~planValid
    BY <1>1 DEF TouchdownInv, TakeoffInv, PlanInv, Standing
  <2>2. ~(Plans /\ UNCHANGED <<drone, lander, landReason, record>>)
    BY <1>1 DEF drone
  <2>. QED
    BY <1>1, <2>1, <2>2, StandingWrites
<1>2. TouchdownInv /\ [Next]_vars => [TouchesDown => ~planValid']_vars
  BY <1>1
<1>. QED
  BY <1>2, TouchdownInit, TouchdownStep, PTL DEF Spec, TouchdownEndsPlan

----------------------------------------------------------------------------
(* The landing after the last lane, or for hovering too long.              *)

\* What the drone has not to do while such a landing is under way.
Uncontested == left = 0 /\ ~Held /\ (worker # None => worker.at \in {"landing", "ending"})

\* While a landing is wanted, no order that the drone accepts contradicts it.
LEMMA WantedStays ==
    ASSUME LaneTypeOK, LandingWanted, Uncontested, [Next]_vars, ~EndsLanes, ~EndsHover
    PROVE  Uncontested'
<1> USE NoneIsNothing, PointNames DEF drone, plan, flight
<1>1. ASSUME NEW k \in Kinds, NEW h \in BOOLEAN PROVE ~Launch(k, h)
  BY DEF Launch
<1>2. ASSUME UNCHANGED <<worker, left, parked>> PROVE Uncontested'
  BY <1>2 DEF Uncontested, Held
<1>3. ~MoveSteps
  BY MoveTypes DEF Uncontested, OnTheWay
<1>4. ~(WaitOver \/ ClaimTakeoff \/ SendTakeoff \/ TakeoffAnswered \/ NoteTakeoff \/ WorkerFails
         \/ WorkerCompletes)
  BY DEF Uncontested, At, WaitOver, ClaimTakeoff, SendTakeoff, TakeoffAnswered, NoteTakeoff, WorkerFails,
         WorkerCompletes
<1>5. CASE SequenceEnds
  <2>1. worker' = None /\ UNCHANGED left
    BY <1>1, <1>5 DEF SequenceEnds, Release, Kinds
  <2>2. parked' = None
    BY <1>5 DEF SequenceEnds, Release, Uncontested, Held
  <2>. QED
    BY <2>1, <2>2 DEF Uncontested, Held
<1>6. CASE WorkerLanded
  <2>1. worker' \in Worker /\ worker'.at = "ending"
    BY <1>6, GoesTo DEF WorkerLanded, At
  <2>. QED
    BY <1>6, <2>1 DEF WorkerLanded, Uncontested, Held
<1>7. CASE MonitorNext
  <2>1. UNCHANGED <<worker, left>> /\ (parked' = parked \/ parked' = None)
    BY <1>7 DEF MonitorNext, TickSample, TickLocked, MonitorLands, Request, MonitorEndsHover, EndsHover
  <2>. QED
    BY <2>1 DEF Uncontested, Held
<1>8. CASE DroneNext \/ UNCHANGED vars
  BY <1>2, <1>8 DEF DroneNext, DroneDown, FlyingAfterLand, vars
<1>9. CASE ControlNext
  <2>1. ~HandleTakeoff /\ ~HandleStartAt /\ ~HandleNudge
    BY <1>1 DEF HandleTakeoff, HandleStartAt, HandleNudge, Kinds, Held
  <2>2. ~HandleHold /\ ~HandleResume /\ ~Plans
    BY DEF HandleHold, HandleResume, Plans, HandleAssignLanes, PlanAcceptable
  <2>. QED
    BY <1>2, <1>9, <2>1, <2>2 DEF ControlNext, Plans, HandlerTooLate, InvalidatePlan, FailSafeIdle
<1>10. ASSUME NEW l \in Landers, RequestLanding(l) \/ LandNext(l) PROVE Uncontested'
  <2>1. UNCHANGED <<worker, left>> /\ (parked' = parked \/ parked' = None)
    BY <1>10 DEF RequestLanding, Request, LandNext, SetAbort, Record, RecordedState, Proceed,
                 LandConfirmed, LandFailed, LandOver
  <2>. QED
    BY <2>1 DEF Uncontested, Held
<1>. QED
  BY <1>3, <1>4, <1>5, <1>6, <1>7, <1>8, <1>9, <1>10 DEF Next, WorkerNext, MoveSteps

\* Where such a landing is recorded, it has looked once more at the hold, the lanes
\* and the end of the plan.
LEMMA EndsUncontested ==
    ASSUME LaneTypeOK, EndsLanes \/ EndsHover
    PROVE  Uncontested' /\ landReason' /\ ~At("claimed")' /\ ~At("ascending")'
<1> USE NoneIsNothing, PointNames DEF plan, flight
<1>1. left = 0 /\ UNCHANGED left /\ parked' = None /\ landReason'
  BY DEF EndsLanes, EndsHover, OnCompleteDue, HoverDue, IdleAfterLanes, RecordUnannounced, RecordedState
<1>2. CASE EndsLanes
  <2>1. worker # None /\ Goes("landing")
    BY <1>2 DEF EndsLanes, WorkerCompletes, At
  <2>2. worker' \in Worker /\ worker'.at = "landing"
    BY <2>1, GoesTo
  <2>. QED
    BY <1>1, <2>2 DEF Uncontested, Held, At
<1>3. CASE EndsHover
  <2>1. worker' = None
    BY <1>3 DEF EndsHover, MonitorEndsHover, HoverDue, IdleAfterLanes
  <2>. QED
    BY <1>1, <2>1 DEF Uncontested, Held, At
<1>. QED
  BY <1>2, <1>3

\* A landing under way is contradicted by no step, and a flight that begins later
\* is not one it was recorded for.
LEMMA EndStep == TouchdownInv /\ EndInv /\ [Next]_vars => EndInv'
<1> SUFFICES ASSUME TouchdownInv, EndInv, [Next]_vars PROVE EndInv'
  OBVIOUS
<1> USE DEF drone, plan, flight
<1>1. LaneTypeOK /\ PlanInv
  BY DEF TouchdownInv, TakeoffInv
<1>2. CASE EndsLanes \/ EndsHover
  BY <1>1, <1>2, EndsUncontested DEF EndInv, EndLandingUncontested, Uncontested
<1>3. CASE ~EndsLanes /\ ~EndsHover
  <2>1. record' = "conditional" => record = "conditional" /\ landReason
    <3>1. (ClaimTakeoff \/ TickLocked \/ FlyingAfterLand) /\ record' = "conditional" => record = "conditional"
      BY DEF ClaimTakeoff, TickLocked, FlyingAfterLand
    <3>. QED
      BY <1>1, <1>3, <3>1, RecordSteps DEF EndInv
  <2>2. record' = "conditional" => landReason'
    <3>1. ASSUME ClaimTakeoff, record' = "conditional" PROVE landReason'
      <4>1. CASE UNCHANGED flight
        BY <2>1, <3>1, <4>1
      <4>2. CASE /\ landReason' = (landReason /\ flying)
                 /\ record' = IF flying THEN record ELSE "announced"
        <5>1. landReason /\ flying
          BY <2>1, <3>1, <4>2
        <5>. QED
          BY <4>2, <5>1, Zenon
      <4>. QED
        BY <3>1, <4>1, <4>2 DEF ClaimTakeoff
    <3>2. TickLocked /\ record' = "conditional" => landReason'
      BY <2>1 DEF TickLocked
    <3>3. FlyingAfterLand => UNCHANGED landReason
      BY DEF FlyingAfterLand
    <3>. QED
      BY <1>1, <1>3, <2>1, <3>1, <3>2, <3>3, RecordSteps
  <2>3. ASSUME At("claimed")' \/ At("ascending")', record' = "conditional" PROVE FALSE
    <3>1. worker' # None /\ worker'.at \in {"claimed", "ascending"}
      BY <2>3 DEF At
    <3>2. ~WorkerNext
      <4>1. ~(ClaimTakeoff /\ ~abort /\ At("claimed")')
        <5> SUFFICES ASSUME ClaimTakeoff, ~abort, worker' # None, worker'.at = "claimed" PROVE FALSE
          BY DEF At
        <5>1. landReason /\ At("preflight")
          BY <2>1, <2>3 DEF ClaimTakeoff
        <5>2. ~flying
          BY <2>1, <2>3, <5>1, <1>1 DEF PlanInv, Standing
        <5>. QED
          BY <1>1, <2>3, <3>1, <5>2, WorkerSends, NextParts DEF ClaimTakeoff, Release
      <4>2. ~(SendTakeoff /\ At("claimed"))
        BY <2>1, <2>3 DEF EndInv
      <4>. QED
        BY <1>1, <3>1, <4>1, <4>2, WorkerSends DEF At
    <3>3. Others
      BY <3>2, NextParts
    <3>4. At("claimed") \/ At("ascending")
      BY <1>1, <3>1, <3>3, OthersStay, Launched DEF Stays, At, HandleTakeoff, Kinds
    <3>. QED
      BY <2>1, <2>3, <3>4 DEF EndInv
  <2>4. ASSUME record' = "conditional", flying' \/ LandInflight' PROVE Uncontested'
    <3>1. ~Records
      BY <2>4 DEF Records, Record, RecordedState
    <3>2. Begins => LandInflight
      BY DEF Begins, LandInflight
    <3>3. LandInflight' => LandInflight
      BY <1>1, <1>3, <3>1, <3>2, LandEffects DEF LandsUnannounced, Calmly
    <3>4. ~FlyingAfterLand
      BY <2>1, <2>4 DEF FlyingAfterLand
    <3>5. ~At("ascending")
      BY <2>1, <2>4 DEF EndInv
    <3>6. flying' => flying \/ LandInflight
      BY <1>1, <3>2, <3>4, <3>5, LiftWrites
    <3>7. LandingWanted /\ Uncontested
      BY <2>1, <2>4, <3>3, <3>6 DEF LandingWanted, EndInv, EndLandingUncontested, Uncontested
    <3>. QED
      BY <1>1, <1>3, <3>7, WantedStays
  <2>. QED
    BY <2>2, <2>3, <2>4 DEF EndInv, EndLandingUncontested, Uncontested
<1>. QED
  BY <1>2, <1>3

\* While the landing after the last lane, or for hovering too long, is under way, the
\* drone holds no order against it, whenever the order came.
THEOREM EndLandingsUncontested == Spec => []EndLandingUncontested
<1>1. Init => EndInv
  BY DEF Init, EndInv, EndLandingUncontested, At
<1>2. LandingInv /\ [Next]_vars => LandingInv'
  BY TouchdownStep, EndStep DEF LandingInv
<1>3. Init => LandingInv
  BY <1>1, TouchdownInit DEF LandingInv
<1>4. LandingInv => EndLandingUncontested
  BY DEF LandingInv, EndInv
<1>. QED
  BY <1>2, <1>3, <1>4, PTL DEF Spec

=============================================================================

-------------------------- MODULE LaneManual_proofs --------------------------
(***************************************************************************)
(* Theorems about LaneManual, for plans and ways back of any length, with  *)
(* and without a hold of a lost link.                                      *)
(***************************************************************************)
EXTENDS LaneManual, TLAPS

\* A landing is recorded of a flying drone: its plan and its return are gone.
LandingClears == landing => flying /\ ~valid /\ target = None

\* What a sequence at each of its steps may rely on.
WorkerInv ==
    worker # None =>
      /\ worker.at \in {"preflight", "ascending", "lifted"}
           <=> worker.kind \in {"start_at", "manual_takeoff"}
      /\ Runs("lanes", "moving") => step < MaxMoves
      /\ Runs("return", "moving") => worker.back > 0
      /\ At("ascending") => ~flying /\ pos = 0
      /\ Runs("start_at", "ascending") /\ Taken => manual.capture
      /\ Runs("manual_takeoff", "preflight") => ~flying
      /\ Runs("start_at", "preflight") /\ ~abort => ~held /\ ~Taken
      /\ landing => abort
      /\ flying /\ valid /\ abort => At("preflight")

\* On the ground a plan starts at its first move, and no return is due.
GroundInv ==
    ~flying => /\ valid => step = 0
               /\ valid /\ Taken => manual.point = None
               /\ ~skipped => target = None

\* A hold point, or the drone's place, is the place of the next move.
Leads(point) == IF point = None THEN step = 0 ELSE point = step

\* A flight whose plan has moves left, and none of them was flown out of turn.
Searching == flying /\ MovesLeft /\ ~skipped

\* The operator has the drone and nothing of the search runs any more.
HandsOn == Taken /\ ~manual.capture

\* Under an operator's hands the hold point leads back to where the search stopped,
\* and what runs is the operator's.
HandsOnInv ==
    Searching /\ HandsOn =>
      /\ target = None /\ Leads(manual.point)
      /\ worker # None => worker.kind \in ManualKinds \/ At("preflight")

\* Otherwise the drone is where the plan goes on, or on its way back to there.
SearchInv ==
    Searching /\ ~HandsOn =>
      /\ IF target = None THEN pos = step ELSE target = step
      /\ worker # None =>
           /\ worker.kind # "manual"
           /\ worker.kind = "lanes" => target = None
           /\ worker.kind = "return" =>
                IF worker.at = "returned" THEN target = None
                ELSE target # None /\ (worker.back = 0 => pos = target)
      /\ Taken => worker # None /\ ~At("preflight")

\* A takeoff that has just lifted is at the plan's start.
LiftedInv ==
    Searching /\ At("lifted") =>
      /\ step = 0 /\ pos = 0 /\ target = None
      /\ Taken => manual.point = None

Inv == /\ ManualTypeOK /\ LandingClears /\ WorkerInv /\ GroundInv
       /\ HandsOnInv /\ SearchInv /\ LiftedInv

----------------------------------------------------------------------------
(* The inductive invariant.                                                *)

\* No landing state or record stands for its own absence.
LEMMA NoneIsNothing ==
    /\ None \notin Nat /\ None \notin Worker /\ None \notin ManualState
    /\ None # "lanes" /\ None # "hover"
BY ManualAssumption, NoneAssumption

Ats == {"preflight", "ascending", "lifted", "ready", "moving", "returned"}

\* What the actions write is a worker, a hold point, a place or a move.
LEMMA Writes ==
    /\ 0 \in Places /\ Away \in Places /\ 0 \in 0..MaxMoves
    /\ \A n \in 0..MaxMoves : n < MaxMoves => n + 1 \in 0..MaxMoves
    /\ \A n \in 0..MaxMoves : n + 1 \in Places
    /\ \A n \in 0..ReturnMoves : n > 0 => n - 1 \in 0..ReturnMoves
BY ManualAssumption DEF Places, Away

\* The parts of a sequence, and that they make one.
LEMMA WorkerWrites ==
    /\ \A kind \in Kinds, at \in Ats, n \in 0..ReturnMoves :
          [kind |-> kind, at |-> at, back |-> n] \in Worker
    /\ \A w \in Worker :
          /\ w # None /\ w.kind \in Kinds /\ w.at \in Ats /\ w.back \in 0..ReturnMoves
          /\ w = [kind |-> w.kind, at |-> w.at, back |-> w.back]
    /\ 0 \in 0..ReturnMoves
BY ManualAssumption, NoneIsNothing DEF Worker, Ats

\* The parts of a manual takeover, and that they make one.
LEMMA ManualWrites ==
    /\ \A point \in Places \cup {None}, capture \in BOOLEAN :
          [point |-> point, capture |-> capture] \in ManualState
    /\ \A m \in ManualState :
          /\ m # None /\ m.point \in Places \cup {None} /\ m.capture \in BOOLEAN
          /\ [m EXCEPT !.capture = FALSE] \in ManualState
          /\ [m EXCEPT !.capture = FALSE].point = m.point
          /\ ~[m EXCEPT !.capture = FALSE].capture
    /\ Fresh \in ManualState /\ [Fresh EXCEPT !.capture = TRUE] \in ManualState
    /\ Fresh.point = None /\ ~Fresh.capture
    /\ [Fresh EXCEPT !.capture = TRUE].point = None /\ [Fresh EXCEPT !.capture = TRUE].capture
<1>1. \A point \in Places \cup {None}, capture \in BOOLEAN :
         [point |-> point, capture |-> capture] \in ManualState
  BY DEF ManualState
<1>2. \A m \in ManualState : m # None
  BY NoneIsNothing
<1>3. ASSUME NEW m \in ManualState
      PROVE  /\ m.point \in Places \cup {None} /\ m.capture \in BOOLEAN
             /\ [m EXCEPT !.capture = FALSE] \in ManualState
             /\ [m EXCEPT !.capture = FALSE].point = m.point
             /\ ~[m EXCEPT !.capture = FALSE].capture
  BY DEF ManualState
<1>4. /\ Fresh \in ManualState /\ [Fresh EXCEPT !.capture = TRUE] \in ManualState
      /\ Fresh.point = None /\ ~Fresh.capture
      /\ [Fresh EXCEPT !.capture = TRUE].point = None /\ [Fresh EXCEPT !.capture = TRUE].capture
  BY DEF Fresh, ManualState
<1>. QED
  BY <1>1, <1>2, <1>3, <1>4

\* The invariant holds at first.
LEMMA InitInv == Init => Inv
<1> SUFFICES ASSUME Init PROVE Inv
  OBVIOUS
<1> USE DEF Init
<1>1. ManualTypeOK
  BY Writes DEF ManualTypeOK
<1>2. LandingClears /\ WorkerInv /\ GroundInv
  BY DEF LandingClears, WorkerInv, GroundInv
<1>3. HandsOnInv /\ SearchInv /\ LiftedInv
  BY DEF HandsOnInv, SearchInv, LiftedInv, Searching
<1>. QED
  BY <1>1, <1>2, <1>3 DEF Inv

\* A hold point is recorded where the drone is or where its return was to end.
LEMMA CaptureType ==
    ASSUME ManualTypeOK, NEW state \in ManualState, Capture(state)
    PROVE  manual' \in ManualState /\ target' \in Places \cup {None}
<1>1. HoldPoint \in Places
  BY DEF ManualTypeOK, HoldPoint
<1>2. CASE flying
  BY <1>1, <1>2, ManualWrites DEF Capture
<1>3. CASE ~flying
  <2>1. manual' = [state EXCEPT !.capture = FALSE] /\ target' = target
    BY <1>3 DEF Capture
  <2>. QED
    BY <2>1, ManualWrites DEF ManualTypeOK
<1>. QED
  BY <1>2, <1>3

\* The end of a sequence: nothing runs, and a hold point that waited is recorded.
LEMMA ReleaseType ==
    ASSUME ManualTypeOK, Release
    PROVE  /\ worker' = None
           /\ manual' \in ManualState \cup {None} /\ target' \in Places \cup {None}
           /\ held' \in BOOLEAN /\ parked' \in {"lanes", "hover", None}
           /\ Taken' = Taken
<1> USE NoneIsNothing DEF ManualTypeOK
<1>1. /\ worker' = None /\ held' \in BOOLEAN /\ parked' \in {"lanes", "hover", None}
  BY DEF Release
<1>2. CASE Taken /\ manual.capture
  <2>1. manual \in ManualState
    BY <1>2 DEF Taken
  <2>2. manual' \in ManualState /\ target' \in Places \cup {None}
    BY <1>2, <2>1, CaptureType DEF Release
  <2>. QED
    BY <1>1, <1>2, <2>2 DEF Taken
<1>3. CASE ~(Taken /\ manual.capture)
  BY <1>1, <1>3 DEF Release, Taken
<1>. QED
  BY <1>2, <1>3

\* The move of the plan that was flown had not been flown before; the way back was
\* not flown yet.
LEMMA FlownType ==
    ASSUME ManualTypeOK, WorkerInv, LaneFlown \/ ReturnFlown
    PROVE  ManualTypeOK'
<1> USE NoneIsNothing DEF ManualTypeOK, drone, plan, hold, rest, Runs
<1>0. worker \in Worker /\ worker.at = "moving"
  BY DEF LaneFlown, ReturnFlown
<1>1. CASE LaneFlown
  <2>1. step < MaxMoves
    BY <1>0, <1>1 DEF LaneFlown, WorkerInv
  <2>2. step' \in 0..MaxMoves /\ pos' \in Places
    BY <1>1, <2>1, Writes DEF LaneFlown
  <2>3. worker' \in Worker
    BY <1>0, <1>1, WorkerWrites DEF LaneFlown, Goes, Ats
  <2>. QED
    BY <1>1, <2>2, <2>3 DEF LaneFlown
<1>2. CASE ReturnFlown
  <2>1. worker.back - 1 \in 0..ReturnMoves
    BY <1>0, <1>2, Writes, WorkerWrites DEF ReturnFlown, WorkerInv
  <2>2. worker' \in Worker
    BY <1>0, <1>2, <2>1 DEF ReturnFlown, Worker
  <2>3. pos' \in Places
    BY <1>2, Writes DEF ReturnFlown
  <2>. QED
    BY <1>2, <2>2, <2>3 DEF ReturnFlown
<1>. QED
  BY <1>1, <1>2

\* Every step keeps the types.
LEMMA TypeStep == ManualTypeOK /\ WorkerInv /\ [Next]_vars => ManualTypeOK'
<1> SUFFICES ASSUME ManualTypeOK, WorkerInv, [Next]_vars PROVE ManualTypeOK'
  OBVIOUS
<1> USE NoneIsNothing DEF ManualTypeOK, drone, plan, hold, rest
<1>1. ASSUME Release /\ UNCHANGED <<landing, valid, step, abort, skipped>>,
             flying' = flying, flyingLanes' = flyingLanes, pos' \in Places,
             link' \in [holding : BOOLEAN, parked : BOOLEAN]
      PROVE  ManualTypeOK'
  BY <1>1, ReleaseType
<1>2. CASE TakeoffGivenUp \/ TakeoffNotExecuted \/ StepFlown \/ MoveNotExecuted
  BY <1>1, <1>2, Writes DEF TakeoffGivenUp, TakeoffNotExecuted, StepFlown, MoveNotExecuted
<1>3. CASE StopSequence
  BY <1>1, <1>3 DEF StopSequence, ParkedByLink
<1>4. ASSUME NEW kind \in Kinds, NEW at \in Ats, worker \in Worker,
             worker' = [worker EXCEPT !.kind = kind, !.at = at]
      PROVE  worker' \in Worker
  BY <1>4, WorkerWrites DEF Worker, Ats
<1>5. ASSUME NEW at \in Ats, worker \in Worker, Goes(at)
      PROVE  worker' \in Worker
  BY <1>5, WorkerWrites DEF Worker, Ats, Goes
<1>6. CASE StartInFlight
  BY <1>4, <1>6 DEF StartInFlight, Runs, Kinds, Ats, NoteSkipped
<1>7. CASE ClaimTakeoff
  BY <1>5, <1>7, Writes DEF ClaimTakeoff, At, Ats
<1>8. CASE Ascend
  BY <1>5, <1>8 DEF Ascend, At, Ats
<1>9. CASE BeginLanes
  <2>1. CASE Release /\ UNCHANGED <<flyingLanes, skipped>>
    BY <1>1, <1>9, <2>1 DEF BeginLanes
  <2>2. CASE ~Release \/ ~UNCHANGED <<flyingLanes, skipped>>
    BY <1>4, <1>9, <2>2 DEF BeginLanes, Runs, Kinds, Ats, NoteSkipped
  <2>. QED
    BY <2>1, <2>2
<1>10. CASE BeginHover
  <2>1. CASE Release
    BY <1>1, <1>10, <2>1 DEF BeginHover
  <2>2. CASE ~Release
    <3>1. manual' \in ManualState \cup {None}
      BY <1>10, <2>2, ManualWrites DEF BeginHover, Fresh
    <3>. QED
      BY <1>10, <2>2, <3>1 DEF BeginHover
  <2>. QED
    BY <2>1, <2>2
<1>11. CASE ClaimMove
  BY <1>5, <1>11 DEF ClaimMove, At, Ats
<1>12. CASE LaneFlown \/ ReturnFlown
  BY <1>12, FlownType
<1>13. CASE ReturnOver
  BY <1>5, <1>13 DEF ReturnOver, Runs, Ats
<1>26. CASE BeginPlan
  <2>1. CASE Release /\ UNCHANGED flyingLanes
    BY <1>1, <1>26, <2>1 DEF BeginPlan
  <2>2. CASE ~Release \/ ~UNCHANGED flyingLanes
    BY <1>4, <1>26, <2>2 DEF BeginPlan, Runs, Kinds, Ats
  <2>. QED
    BY <2>1, <2>2
<1>14. CASE SequenceFails
  <2>1. manual' \in ManualState \cup {None}
    BY <1>14, ManualWrites, Zenon DEF SequenceFails, LandingKeeps, Taken
  <2>. QED
    BY <1>14, <2>1 DEF SequenceFails, RecordLanding
<1>15. ASSUME NEW kind \in Kinds, NEW at \in Ats, NEW back \in 0..ReturnMoves, Launch(kind, at, back)
       PROVE  worker' \in Worker /\ abort' \in BOOLEAN
  BY <1>15, WorkerWrites DEF Launch
<1>16. CASE StartAt \/ ManualMove \/ ManualTakeoff
  BY <1>15, <1>16, WorkerWrites DEF StartAt, ManualMove, ManualTakeoff, Kinds, ManualKinds, Ats
<1>17. CASE AssignLanes \/ ResumeReleases
  BY <1>17, Writes DEF AssignLanes, ResumeReleases, EndManual
<1>18. \A cancelled : HoldNow(cancelled) => held' \in BOOLEAN /\ parked' \in {"lanes", "hover", None}
  BY DEF HoldNow, ResumeKind
<1>19. CASE LeaderHold
  BY <1>18, <1>19 DEF LeaderHold
<1>20. CASE LeaderResume
  <2>1. worker' \in Worker \cup {None} /\ abort' \in BOOLEAN /\ skipped' \in BOOLEAN
    BY <1>15, <1>20, WorkerWrites DEF LeaderResume, Kinds, Ats, NoteSkipped
  <2>. QED
    BY <1>20, <2>1 DEF LeaderResume
<1>21. CASE ManualHold
  <2>1. manual' \in ManualState /\ target' \in Places \cup {None}
    BY <1>21, ManualWrites, CaptureType DEF ManualHold
  <2>. QED
    BY <1>18, <1>21, <2>1 DEF ManualHold
<1>22. CASE ResumeReturns
  <2>1. ResumePoint \in Places
    BY <1>22, Writes, ManualWrites DEF ResumePoint, ResumeReturns, Taken
  <2>. QED
    BY <1>15, <1>22, <2>1 DEF ResumeReturns, EndManual, Kinds, Ats
<1>23. CASE UnplannedLanding \/ DeadMan \/ BeginLinkHold
  BY <1>23 DEF UnplannedLanding, DeadMan, BeginLinkHold, NoteSkipped
<1>24. CASE EndLinkHold
  <2>1. worker' \in Worker \cup {None} /\ abort' \in BOOLEAN /\ skipped' \in BOOLEAN
    BY <1>15, <1>24, WorkerWrites DEF EndLinkHold, Kinds, Ats, NoteSkipped
  <2>. QED
    BY <1>24, <2>1 DEF EndLinkHold
<1>25. CASE Land \/ Touchdown \/ UNCHANGED vars
  BY <1>25 DEF Land, RecordLanding, Touchdown, vars
<1>. QED
  BY <1>2, <1>3, <1>6, <1>7, <1>8, <1>9, <1>10, <1>11, <1>12, <1>13, <1>14, <1>16, <1>17, <1>19,
     <1>20, <1>21, <1>22, <1>23, <1>24, <1>25, <1>26
  DEF Next, WorkerNext, ControlNext, MonitorNext

----------------------------------------------------------------------------
(* The steps of the worker and the hold points, for the other conjuncts.   *)

\* One field of a worker is set and the others stay.
LEMMA WorkerFields ==
    ASSUME NEW w \in Worker
    PROVE  /\ \A at \in Ats : LET x == [w EXCEPT !.at = at]
                               IN  x # None /\ x.kind = w.kind /\ x.at = at /\ x.back = w.back
           /\ \A kind \in Kinds : LET x == [w EXCEPT !.kind = kind]
                                   IN  x # None /\ x.kind = kind /\ x.at = w.at /\ x.back = w.back
           /\ LET x == [w EXCEPT !.kind = "lanes", !.at = "ready"]
              IN  x # None /\ x.kind = "lanes" /\ x.at = "ready" /\ x.back = w.back
           /\ w.back > 0 => LET x == [w EXCEPT !.at = "ready", !.back = @ - 1]
                             IN  x # None /\ x.kind = w.kind /\ x.at = "ready" /\ x.back = w.back - 1
<1>1. \A x \in Worker : x # None
  BY WorkerWrites
<1>2. ASSUME NEW at \in Ats PROVE [w EXCEPT !.at = at] \in Worker
  BY DEF Worker, Ats
<1>3. ASSUME NEW kind \in Kinds PROVE [w EXCEPT !.kind = kind] \in Worker
  BY DEF Worker
<1>4. [w EXCEPT !.kind = "lanes", !.at = "ready"] \in Worker
  BY DEF Worker, Kinds
<1>5. ASSUME w.back > 0 PROVE [w EXCEPT !.at = "ready", !.back = @ - 1] \in Worker
  <2>1. w.back - 1 \in 0..ReturnMoves
    BY <1>5, Writes, WorkerWrites
  <2>. QED
    BY <2>1 DEF Worker
<1>6. /\ \A at \in Ats : LET x == [w EXCEPT !.at = at]
                          IN  x.kind = w.kind /\ x.at = at /\ x.back = w.back
      /\ \A kind \in Kinds : LET x == [w EXCEPT !.kind = kind]
                              IN  x.kind = kind /\ x.at = w.at /\ x.back = w.back
      /\ LET x == [w EXCEPT !.kind = "lanes", !.at = "ready"]
         IN  x.kind = "lanes" /\ x.at = "ready" /\ x.back = w.back
      /\ LET x == [w EXCEPT !.at = "ready", !.back = @ - 1]
         IN  x.kind = w.kind /\ x.at = "ready" /\ x.back = w.back - 1
  BY DEF Worker
<1>. QED
  BY <1>1, <1>2, <1>3, <1>4, <1>5, <1>6

\* Recording a hold point in the air replaces the return that was due; on the
\* ground there is none to record.
LEMMA CaptureWrites ==
    ASSUME ManualTypeOK, NEW state \in ManualState, Capture(state)
    PROVE  /\ Taken' /\ ~manual'.capture
           /\ flying => manual'.point = HoldPoint /\ target' = None
           /\ ~flying => manual'.point = state.point /\ target' = target
<1>1. CASE flying
  <2>1. HoldPoint \in Places
    BY DEF ManualTypeOK, HoldPoint
  <2>2. manual' = [point |-> HoldPoint, capture |-> FALSE] /\ target' = None
    BY <1>1 DEF Capture
  <2>3. manual'.point = HoldPoint /\ ~manual'.capture
    BY <2>2
  <2>4. manual' # None
    BY <2>1, <2>2, ManualWrites
  <2>. QED
    BY <1>1, <2>2, <2>3, <2>4 DEF Taken
<1>2. CASE ~flying
  <2>1. manual' = [state EXCEPT !.capture = FALSE] /\ target' = target
    BY <1>2 DEF Capture
  <2>. QED
    BY <1>2, <2>1, ManualWrites DEF Taken
<1>. QED
  BY <1>1, <1>2

\* What the end of a sequence writes: a hold waiting for it records its point.
LEMMA ReleaseWrites ==
    ASSUME ManualTypeOK, Release
    PROVE  /\ worker' = None /\ Taken' = Taken
           /\ Taken => ~manual'.capture
           /\ ~(Taken /\ manual.capture) => UNCHANGED <<manual, target>>
           /\ Taken /\ manual.capture /\ flying => manual'.point = HoldPoint /\ target' = None
           /\ Taken /\ manual.capture /\ ~flying =>
                 manual'.point = manual.point /\ target' = target
<1>1. worker' = None
  BY DEF Release
<1>2. CASE Taken /\ manual.capture
  <2>1. manual \in ManualState /\ Capture(manual)
    BY <1>2 DEF Release, ManualTypeOK, Taken
  <2>. QED
    BY <1>1, <1>2, <2>1, CaptureWrites
<1>3. CASE ~(Taken /\ manual.capture)
  BY <1>1, <1>3 DEF Release, Taken
<1>. QED
  BY <1>2, <1>3

----------------------------------------------------------------------------
(* Each conjunct of the invariant is kept.                                 *)

\* A target that cannot be returned to is noted as skipped.
LEMMA NotSkipped == NoteSkipped => (~skipped' => ~skipped /\ target = None)
BY Zenon DEF NoteSkipped

\* A landing goes with its plan and its return; on the ground no return is due.
LEMMA GroundStep ==
    Inv /\ ManualTypeOK' /\ [Next]_vars => LandingClears' /\ GroundInv'
<1> SUFFICES ASSUME Inv, ManualTypeOK', [Next]_vars PROVE LandingClears' /\ GroundInv'
  OBVIOUS
<1>0. ManualTypeOK /\ LandingClears /\ GroundInv /\ WorkerInv
  BY DEF Inv
<1> USE <1>0, NoneIsNothing DEF LandingClears, GroundInv, drone, plan, hold, rest
<1>1. ASSUME Release, UNCHANGED <<flying, landing, valid, step, skipped>>
      PROVE  LandingClears' /\ GroundInv'
  BY <1>1, ReleaseWrites
<1>2. CASE TakeoffGivenUp \/ TakeoffNotExecuted \/ StepFlown \/ StopSequence \/ MoveNotExecuted
  BY <1>1, <1>2
  DEF TakeoffGivenUp, TakeoffNotExecuted, StepFlown, StopSequence, MoveNotExecuted
<1>3. CASE Ascend
  BY <1>3 DEF Ascend, WorkerInv, At
<1>13. CASE BeginPlan
  BY <1>1, <1>13 DEF BeginPlan, Taken
<1>4. CASE BeginLanes
  BY <1>1, <1>4, NotSkipped DEF BeginLanes, Taken
<1>5. CASE StartInFlight \/ ClaimTakeoff \/ ClaimMove \/ ReturnFlown \/ ReturnOver \/ LaneFlown
  BY <1>5, NotSkipped DEF StartInFlight, ClaimTakeoff, ClaimMove, ReturnFlown, ReturnOver,
                          LaneFlown, Taken
<1>6. CASE BeginHover
  BY <1>1, <1>6, ManualWrites DEF BeginHover, Fresh, Taken
<1>7. CASE SequenceFails \/ Land
  BY <1>7 DEF SequenceFails, Land, RecordLanding, LandingKeeps, Taken
<1>8. CASE AssignLanes
  BY <1>8 DEF AssignLanes, EndManual, Taken
<1>9. CASE StartAt \/ ManualMove \/ ManualTakeoff \/ LeaderHold \/ LeaderResume \/ EndLinkHold
  BY <1>9, NotSkipped DEF StartAt, ManualMove, ManualTakeoff, LeaderHold, LeaderResume,
                          EndLinkHold, Taken
<1>10. CASE ManualHold
  BY <1>10, ManualWrites, CaptureWrites DEF ManualHold, Taken
<1>11. CASE ResumeReleases \/ ResumeReturns
  BY <1>11 DEF ResumeReleases, ResumeReturns, EndManual, Launch, Taken
<1>12. CASE UnplannedLanding \/ DeadMan \/ BeginLinkHold \/ Touchdown \/ UNCHANGED vars
  BY <1>12, NotSkipped DEF UnplannedLanding, DeadMan, BeginLinkHold, Touchdown, Taken, vars
<1>. QED
  BY <1>2, <1>3, <1>4, <1>5, <1>6, <1>7, <1>8, <1>9, <1>10, <1>11, <1>12, <1>13
  DEF Next, WorkerNext, ControlNext, MonitorNext

\* A launch finds no sequence and no landing, and its abort flag is down.
LEMMA LaunchWrites ==
    ASSUME NEW kind \in Kinds, NEW at \in Ats, NEW back \in 0..ReturnMoves, Launch(kind, at, back)
    PROVE  /\ worker = None /\ ~landing /\ ~abort'
           /\ worker' # None /\ worker'.kind = kind /\ worker'.at = at /\ worker'.back = back
BY WorkerWrites DEF Launch

\* A sequence goes to its next step.
LEMMA GoesWrites ==
    ASSUME worker \in Worker, NEW at \in Ats, Goes(at)
    PROVE  /\ worker # None /\ worker' # None
           /\ worker'.kind = worker.kind /\ worker'.at = at /\ worker'.back = worker.back
<1> DEFINE next == [worker EXCEPT !.at = at]
<1>1. next # None /\ next.kind = worker.kind /\ next.at = at /\ next.back = worker.back
  BY WorkerFields
<1>2. worker' = next
  BY DEF Goes
<1> HIDE DEF next
<1>. QED
  BY <1>1, <1>2, WorkerWrites

\* What claiming the next move writes.
LEMMA ClaimMoveWrites ==
    ASSUME ManualTypeOK, ClaimMove
    PROVE  /\ worker # None /\ worker.at = "ready" /\ worker' # None
           /\ worker'.at = "moving" /\ worker'.kind = worker.kind /\ worker'.back = worker.back
           /\ MoreToFly /\ ~abort
           /\ UNCHANGED <<flying, landing, pos, valid, step, abort, held, manual, target, skipped>>
<1>1. worker # None /\ worker \in Worker /\ "moving" \in Ats
  BY DEF ClaimMove, At, Ats, ManualTypeOK
<1>2. Goes("moving")
  BY DEF ClaimMove
<1>3. /\ worker' # None /\ worker'.at = "moving"
      /\ worker'.kind = worker.kind /\ worker'.back = worker.back
  BY <1>1, <1>2, GoesWrites
<1>. QED
  BY <1>1, <1>3 DEF ClaimMove, At, drone, plan, hold, rest

\* What flying a lane writes.
LEMMA LaneFlownWrites ==
    ASSUME ManualTypeOK, LaneFlown
    PROVE  /\ worker # None /\ worker.kind = "lanes" /\ worker.at = "moving" /\ flying
           /\ worker' # None /\ worker'.kind = "lanes" /\ worker'.at = "ready"
           /\ pos' = IF pos = step THEN step + 1 ELSE Away
           /\ step' = IF abort THEN step ELSE step + 1
           /\ UNCHANGED <<flying, landing, valid, abort, held, manual, target, skipped>>
<1>1. worker # None /\ worker \in Worker /\ "ready" \in Ats
  BY DEF LaneFlown, Runs, Ats, ManualTypeOK
<1>2. Goes("ready")
  BY DEF LaneFlown
<1>3. worker' # None /\ worker'.at = "ready" /\ worker'.kind = worker.kind
  BY <1>1, <1>2, GoesWrites
<1>. QED
  BY <1>1, <1>3 DEF LaneFlown, Runs, hold, rest

\* What the end of a return writes: no return is due any more.
LEMMA ReturnOverWrites ==
    ASSUME ManualTypeOK, ReturnOver
    PROVE  /\ worker # None /\ worker.kind = "return" /\ worker.at = "ready" /\ worker.back = 0
           /\ worker' # None /\ worker'.kind = "return" /\ worker'.at = "returned"
           /\ target' = None
           /\ UNCHANGED <<flying, landing, pos, valid, step, abort, held, manual, skipped>>
<1>1. /\ worker # None /\ worker \in Worker /\ worker.kind = "return" /\ worker.at = "ready"
      /\ "returned" \in Ats /\ Goes("returned")
  BY DEF ReturnOver, Runs, Ats, ManualTypeOK
<1>2. worker' # None /\ worker'.at = "returned" /\ worker'.kind = worker.kind
  BY <1>1, GoesWrites
<1>. QED
  BY <1>1, <1>2 DEF ReturnOver, drone, plan, hold, rest

\* What a move of a return writes.
LEMMA ReturnFlownWrites ==
    ASSUME ManualTypeOK, ReturnFlown, worker.back > 0
    PROVE  /\ worker # None /\ worker.kind = "return" /\ worker.at = "moving" /\ flying
           /\ worker' # None /\ worker'.kind = "return" /\ worker'.at = "ready"
           /\ worker.back \in Nat /\ worker'.back = worker.back - 1
           /\ pos' = IF worker.back = 1 /\ target # None THEN target ELSE Away
           /\ UNCHANGED <<flying, landing, valid, step, abort, held, manual, target, skipped>>
<1>1. /\ worker # None /\ worker \in Worker /\ worker.kind = "return"
      /\ worker' = [worker EXCEPT !.at = "ready", !.back = @ - 1]
  BY DEF ReturnFlown, Runs, ManualTypeOK
<1>2. /\ worker' # None /\ worker'.at = "ready" /\ worker'.kind = "return"
      /\ worker'.back = worker.back - 1
  BY <1>1, WorkerFields
<1>3. worker.back \in Nat
  BY <1>1, WorkerWrites, ManualAssumption
<1>. QED
  BY <1>1, <1>2, <1>3 DEF ReturnFlown, Runs, plan, hold, rest

\* StartInFlight, BeginLanes, BeginPlan: the lanes begin in the air.
LEMMA LanesBegin ==
    ASSUME ManualTypeOK, worker # None,
           worker' = [worker EXCEPT !.kind = "lanes", !.at = "ready"]
    PROVE  worker' # None /\ worker'.kind = "lanes" /\ worker'.at = "ready"
<1>1. worker \in Worker
  BY DEF ManualTypeOK
<1>. QED
  BY <1>1, WorkerFields

\* Every step keeps a sequence inside what its kind allows.
LEMMA WorkerStep ==
    Inv /\ ManualTypeOK' /\ [Next]_vars => WorkerInv'
<1> SUFFICES ASSUME Inv, ManualTypeOK', [Next]_vars PROVE WorkerInv'
  OBVIOUS
<1>0. ManualTypeOK /\ LandingClears /\ GroundInv /\ WorkerInv
  BY DEF Inv
<1>a. worker # None => worker \in Worker /\ worker.at \in Ats /\ worker.kind \in Kinds
  BY <1>0, WorkerWrites DEF ManualTypeOK
<1> USE <1>0, NoneIsNothing DEF WorkerInv, Runs, At, drone, plan, hold, rest
<1>1. CASE worker' = None
  BY <1>1
<1>2. Release => worker' = None
  BY DEF Release
<1>3. CASE \/ TakeoffGivenUp \/ TakeoffNotExecuted \/ StopSequence \/ StepFlown \/ BeginHover
           \/ MoveNotExecuted \/ SequenceFails
  BY <1>1, <1>2, <1>3 DEF TakeoffGivenUp, TakeoffNotExecuted, StopSequence, StepFlown, BeginHover,
                          MoveNotExecuted, SequenceFails
<1>4. CASE StartInFlight
  BY <1>4, <1>a, WorkerFields DEF StartInFlight, Taken
<1>5. CASE ClaimTakeoff
  BY <1>5, <1>a, WorkerFields DEF ClaimTakeoff, Goes, Ats, Kinds, ManualKinds, Taken
<1>6. CASE Ascend
  <2>1. worker # None /\ worker.at = "ascending" /\ "lifted" \in Ats /\ Goes("lifted")
    BY <1>6 DEF Ascend, Ats
  <2>2. worker' # None /\ worker'.kind = worker.kind /\ worker'.at = "lifted"
    BY <1>a, <2>1, GoesWrites
  <2>. QED
    BY <1>6, <2>1, <2>2 DEF Ascend, LandingClears
<1>7. CASE BeginLanes
  BY <1>1, <1>2, <1>7, <1>a, WorkerFields DEF BeginLanes, Taken
<1>8. CASE ClaimMove
  BY <1>8, ClaimMoveWrites DEF MoreToFly
<1>9. CASE LaneFlown
  BY <1>9, LaneFlownWrites
<1>10. CASE ReturnFlown
  <2>1. worker.back > 0
    BY <1>10 DEF ReturnFlown
  <2>. QED
    BY <1>10, <2>1, ReturnFlownWrites
<1>11. CASE ReturnOver
  BY <1>11, ReturnOverWrites
<1>21. CASE BeginPlan
  <2>1. CASE ~Release
    <3>1. Runs("return", "returned") /\ worker' = [worker EXCEPT !.kind = "lanes", !.at = "ready"]
      BY <1>21, <2>1 DEF BeginPlan
    <3>2. worker' # None /\ worker'.kind = "lanes" /\ worker'.at = "ready"
      BY <3>1, LanesBegin
    <3>. QED
      BY <1>21, <2>1, <3>1, <3>2 DEF BeginPlan, Taken
  <2>. QED
    BY <1>1, <1>2, <2>1
<1>12. CASE AssignLanes
  BY <1>12, ManualAssumption DEF AssignLanes, EndManual, Taken
<1>13. CASE StartAt \/ ManualMove \/ ManualTakeoff
  BY <1>13, LaunchWrites, WorkerWrites
  DEF StartAt, ManualMove, ManualTakeoff, Kinds, ManualKinds, Ats, Taken
<1>14. CASE LeaderHold
  BY <1>14 DEF LeaderHold, LandingClears, Taken
<1>15. CASE ManualHold
  <2>1. UNCHANGED <<flying, landing, pos, valid, step, worker>> /\ ~landing
    BY <1>15 DEF ManualHold
  <2>2. Runs("start_at", "ascending") => Taken' /\ manual'.capture
    BY <1>15, ManualWrites DEF ManualHold, TakingOff, Taken
  <2>3. abort' <=> (abort \/ (At("preflight") /\ worker.kind # "manual_takeoff"))
    BY <1>15 DEF ManualHold
  <2>. QED
    BY <2>1, <2>2, <2>3
<1>16. CASE LeaderResume \/ EndLinkHold
  BY <1>1, <1>16, LaunchWrites, WorkerWrites DEF LeaderResume, EndLinkHold, Kinds, Ats, Taken
<1>17. CASE ResumeReleases \/ ResumeReturns
  BY <1>1, <1>17, LaunchWrites DEF ResumeReleases, ResumeReturns, EndManual, Kinds, Ats, Taken
<1>18. CASE UnplannedLanding \/ DeadMan \/ BeginLinkHold
  BY <1>18 DEF UnplannedLanding, DeadMan, BeginLinkHold, Taken
<1>19. CASE Land
  BY <1>19 DEF Land, RecordLanding, Taken
<1>20. CASE Touchdown \/ UNCHANGED vars
  BY <1>20 DEF Touchdown, LandingClears, Taken, vars
<1>. QED
  BY <1>3, <1>4, <1>5, <1>6, <1>7, <1>8, <1>9, <1>10, <1>11, <1>12, <1>13, <1>14, <1>15, <1>16,
     <1>17, <1>18, <1>19, <1>20, <1>21
  DEF Next, WorkerNext, ControlNext, MonitorNext

----------------------------------------------------------------------------
(* The search.                                                             *)

\* Where the end of a sequence leaves a search: the hold point that waited is the
\* place of the next move, or the return that was due stays due.
LEMMA ReleaseSearch ==
    ASSUME Inv, Release, UNCHANGED <<flying, valid, step, skipped>>,
           HandsOn \/ pos' = pos
    PROVE  HandsOnInv' /\ SearchInv' /\ LiftedInv'
<1> USE DEF Inv, HandsOnInv, SearchInv, LiftedInv, HandsOn, Searching, MovesLeft, At
<1>1. ManualTypeOK /\ ManualTypeOK => step # None /\ pos # None
  BY NoneIsNothing DEF ManualTypeOK, Places
<1>2. CASE ~Searching
  BY <1>2, ReleaseWrites
<1>3. CASE Searching /\ HandsOn
  BY <1>3, ReleaseWrites DEF Leads
<1>4. CASE Searching /\ ~Taken
  BY <1>4, ReleaseWrites
<1>5. CASE Searching /\ Taken /\ manual.capture
  BY <1>1, <1>5, ReleaseWrites DEF HoldPoint, Leads
<1>. QED
  BY <1>2, <1>3, <1>4, <1>5

\* Every step keeps the drone where its search can go on.
LEMMA SearchStep ==
    Inv /\ ManualTypeOK' /\ [Next]_vars => HandsOnInv' /\ SearchInv' /\ LiftedInv'
<1> SUFFICES ASSUME Inv, ManualTypeOK', [Next]_vars PROVE HandsOnInv' /\ SearchInv' /\ LiftedInv'
  OBVIOUS
<1>0. /\ ManualTypeOK /\ LandingClears /\ GroundInv /\ WorkerInv
      /\ HandsOnInv /\ SearchInv /\ LiftedInv
  BY DEF Inv
<1>a. worker # None => worker \in Worker /\ worker.at \in Ats /\ worker.kind \in Kinds
  BY <1>0, WorkerWrites DEF ManualTypeOK
<1> USE <1>0, NoneIsNothing
    DEF HandsOnInv, SearchInv, LiftedInv, HandsOn, Searching, MovesLeft, Runs, At,
        drone, plan, hold, rest
<1>1. CASE ~Searching'
  BY <1>1
<1>2. CASE TakeoffGivenUp \/ TakeoffNotExecuted \/ StopSequence \/ MoveNotExecuted
  BY <1>2, ReleaseSearch DEF TakeoffGivenUp, TakeoffNotExecuted, StopSequence, MoveNotExecuted
<1>3. CASE StepFlown
  BY <1>3, ReleaseSearch DEF StepFlown
<1>4. CASE StartInFlight
  BY <1>4, <1>a, WorkerFields, NotSkipped DEF StartInFlight, WorkerInv, Taken
<1>5. CASE ClaimTakeoff
  BY <1>1, <1>5 DEF ClaimTakeoff
<1>6. CASE Ascend
  <2>1. /\ worker # None /\ worker.at = "ascending" /\ "lifted" \in Ats /\ Goes("lifted")
        /\ UNCHANGED <<pos, valid, step, manual, target, skipped>>
    BY <1>6 DEF Ascend, Ats
  <2>2. worker' # None /\ worker'.kind = worker.kind /\ worker'.at = "lifted"
    BY <1>a, <2>1, GoesWrites
  <2>3. ASSUME Searching'
        PROVE  /\ step = 0 /\ pos = 0 /\ target = None /\ (Taken => manual.point = None)
               /\ worker.kind = "start_at" /\ Taken => manual.capture
               /\ worker.kind \in {"start_at", "manual_takeoff"}
    BY <2>1, <2>3 DEF WorkerInv, GroundInv
  <2>. QED
    BY <2>1, <2>2, <2>3 DEF Taken, Leads, ManualKinds
<1>7. CASE BeginLanes
  <2>1. CASE Release /\ UNCHANGED <<flyingLanes, skipped>>
    BY <1>7, <2>1, ReleaseSearch DEF BeginLanes
  <2>2. CASE /\ ~abort /\ NoteSkipped /\ UNCHANGED <<hold, manual, target>>
             /\ worker' = [worker EXCEPT !.kind = "lanes", !.at = "ready"]
    <3>1. /\ Runs("start_at", "lifted") /\ UNCHANGED <<flying, pos, valid, step, manual, target>>
      BY <1>7, <2>2 DEF BeginLanes
    <3>2. worker' # None /\ worker'.kind = "lanes" /\ worker'.at = "ready"
      BY <2>2, <3>1, LanesBegin
    <3>3. Searching' => Searching /\ target = None /\ ~HandsOn
      BY <2>2, <3>1, NotSkipped DEF ManualKinds
    <3>. QED
      BY <3>1, <3>2, <3>3 DEF Taken, ManualKinds
  <2>. QED
    BY <1>7, <2>1, <2>2 DEF BeginLanes
<1>8. CASE BeginHover
  <2>1. CASE Release
    BY <1>8, <2>1, ReleaseSearch DEF BeginHover
  <2>2. CASE ~Release
    BY <1>8, <2>2, ManualWrites DEF BeginHover, WorkerInv, Taken, Leads, Fresh
  <2>. QED
    BY <2>1, <2>2
<1>9. CASE ClaimMove
  BY <1>9, ClaimMoveWrites DEF Taken, Leads
<1>10. CASE LaneFlown
  <2>1. Searching' => ~abort /\ Searching /\ ~HandsOn
    BY <1>10, LaneFlownWrites DEF ManualKinds, WorkerInv, ManualTypeOK
  <2>. QED
    BY <1>10, <2>1, LaneFlownWrites DEF Taken
<1>11. CASE ReturnFlown
  <2>1. worker.back > 0
    BY <1>11 DEF ReturnFlown, WorkerInv
  <2>2. Searching' => Searching /\ ~HandsOn
    BY <1>11, <2>1, ReturnFlownWrites DEF ManualKinds
  <2>3. worker'.back = 0 => worker.back = 1
    BY <1>11, <2>1, ReturnFlownWrites
  <2>. QED
    BY <1>11, <2>1, <2>2, <2>3, ReturnFlownWrites DEF Taken
<1>12. CASE ReturnOver
  <2>1. Searching' => Searching /\ ~HandsOn
    BY <1>12, ReturnOverWrites DEF ManualKinds
  <2>. QED
    BY <1>12, <2>1, ReturnOverWrites DEF Taken
<1>25. CASE BeginPlan
  <2>1. CASE Release
    BY <1>25, <2>1, ReleaseSearch DEF BeginPlan
  <2>2. CASE ~Release
    <3>1. /\ Runs("return", "returned") /\ UNCHANGED <<flying, pos, valid, step, manual, target, skipped>>
          /\ worker' = [worker EXCEPT !.kind = "lanes", !.at = "ready"]
      BY <1>25, <2>2 DEF BeginPlan
    <3>2. worker' # None /\ worker'.kind = "lanes" /\ worker'.at = "ready"
      BY <3>1, LanesBegin
    <3>3. Searching' => Searching /\ target = None /\ ~HandsOn
      BY <3>1 DEF ManualKinds
    <3>. QED
      BY <3>1, <3>2, <3>3 DEF Taken
  <2>. QED
    BY <2>1, <2>2
<1>13. CASE SequenceFails \/ Land
  BY <1>1, <1>13 DEF SequenceFails, Land, RecordLanding
<1>14. CASE AssignLanes \/ ManualTakeoff \/ ResumeReleases
  BY <1>14 DEF AssignLanes, ManualTakeoff, ResumeReleases, EndManual, Taken
<1>15. CASE StartAt
  BY <1>15, LaunchWrites, WorkerWrites DEF StartAt, Kinds, Ats, Taken
<1>16. ASSUME UNCHANGED <<flying, pos, valid, step, worker, manual, target, skipped>>
       PROVE  HandsOnInv' /\ SearchInv' /\ LiftedInv'
  BY <1>16 DEF Taken, Leads
<1>17. CASE LeaderHold \/ DeadMan \/ BeginLinkHold \/ UNCHANGED vars
  BY <1>16, <1>17 DEF LeaderHold, DeadMan, BeginLinkHold, vars
<1>18. ASSUME Launch("lanes", "ready", 0), NoteSkipped, ~Taken,
              UNCHANGED <<flying, pos, valid, step, manual, target>>
       PROVE  HandsOnInv' /\ SearchInv' /\ LiftedInv'
  <2>1. "lanes" \in Kinds /\ "ready" \in Ats /\ 0 \in 0..ReturnMoves
    BY WorkerWrites DEF Kinds, Ats
  <2>2. worker = None /\ worker' # None /\ worker'.kind = "lanes" /\ worker'.at = "ready"
    BY <1>18, <2>1, LaunchWrites
  <2>3. Searching' => Searching /\ target = None
    BY <1>18, NotSkipped
  <2>. QED
    BY <1>18, <2>2, <2>3 DEF Taken
<1>19. CASE LeaderResume
  BY <1>16, <1>18, <1>19 DEF LeaderResume
<1>20. CASE EndLinkHold
  BY <1>16, <1>18, <1>20 DEF EndLinkHold, LinkResumes
<1>21. CASE ManualHold
  <2>1. UNCHANGED <<flying, pos, valid, step, worker, skipped>> /\ ~Taken
    BY <1>21 DEF ManualHold
  <2>2. CASE Searching /\ worker # None /\ ~At("preflight")
    <3>1. manual' = [Fresh EXCEPT !.capture = TRUE] /\ UNCHANGED target
      BY <1>21, <2>2 DEF ManualHold
    <3>. QED
      BY <2>1, <2>2, <3>1, ManualWrites DEF Taken
  <2>3. CASE Searching /\ ~(worker # None /\ ~At("preflight"))
    <3>0. worker # None => At("preflight") /\ worker.kind # "manual_takeoff"
      BY <2>3 DEF WorkerInv
    <3>1. Capture(Fresh)
      BY <1>21, <2>3, <3>0 DEF ManualHold
    <3>2. Taken' /\ ~manual'.capture /\ manual'.point = HoldPoint /\ target' = None
      BY <2>3, <3>1, CaptureWrites, ManualWrites
    <3>3. HoldPoint = step
      BY <2>1, <2>3 DEF HoldPoint
    <3>4. step # None
      BY ManualAssumption DEF ManualTypeOK
    <3>. QED
      BY <2>1, <2>3, <3>2, <3>3, <3>4 DEF Leads
  <2>. QED
    BY <2>1, <2>2, <2>3
<1>22. CASE ManualMove
  <2>1. "manual" \in Kinds /\ "manual" \in ManualKinds /\ "ready" \in Ats /\ 0 \in 0..ReturnMoves
    BY WorkerWrites DEF Kinds, ManualKinds, Ats
  <2>2. worker = None /\ worker' # None /\ worker'.kind = "manual" /\ worker'.at = "ready"
    BY <1>22, <2>1, LaunchWrites DEF ManualMove
  <2>3. UNCHANGED <<flying, pos, valid, step, manual, target, skipped>> /\ Taken
    BY <1>22 DEF ManualMove
  <2>. QED
    BY <2>1, <2>2, <2>3 DEF Taken, Leads
<1>23. CASE ResumeReturns
  BY <1>23, LaunchWrites DEF ResumeReturns, ResumePoint, EndManual, Kinds, Ats, Taken, Leads
<1>24. CASE UnplannedLanding \/ Touchdown
  BY <1>1, <1>24 DEF UnplannedLanding, Touchdown
<1>. QED
  BY <1>2, <1>3, <1>4, <1>5, <1>6, <1>7, <1>8, <1>9, <1>10, <1>11, <1>12, <1>13, <1>14, <1>15,
     <1>17, <1>19, <1>20, <1>21, <1>22, <1>23, <1>24, <1>25
  DEF Next, WorkerNext, ControlNext, MonitorNext

----------------------------------------------------------------------------
(* The theorems.                                                           *)

\* The invariant holds of every state.
LEMMA AlwaysInv == Spec => []Inv
<1>1. Inv /\ [Next]_vars => Inv'
  BY TypeStep, GroundStep, WorkerStep, SearchStep DEF Inv
<1>. QED
  BY InitInv, <1>1, PTL DEF Spec

\* Every variable keeps its type: a hold parks only what resume can start again,
\* and a return never owes more moves than its path had.
THEOREM ManualTyped == Spec => []ManualTypeOK
<1>1. Inv => ManualTypeOK
  BY DEF Inv
<1>. QED
  BY <1>1, AlwaysInv, PTL

\* Whatever stopped the search, the plan is flown on from where it stopped: a move
\* of the plan is begun only at the place where that move begins.
THEOREM SearchGoesOnWhereItStopped == Spec => SearchContinues
<1>1. ASSUME Inv, flying, valid, ~skipped, Claims({"lanes"}) PROVE pos = step
  <2>1. ManualTypeOK /\ worker # None /\ worker.kind = "lanes" /\ worker.at = "ready"
    BY <1>1, ClaimMoveWrites DEF Inv, Claims
  <2>2. step < MaxMoves /\ ~Stopped
    BY <1>1, <2>1 DEF Claims, ClaimMove, MoreToFly, ManualKinds
  <2>3. Searching /\ ~Taken
    BY <1>1, <2>2 DEF Searching, MovesLeft, Stopped
  <2>. QED
    BY <1>1, <2>1, <2>3 DEF Inv, SearchInv, HandsOn
<1>2. Inv => [flying /\ valid /\ ~skipped /\ Claims({"lanes"}) => pos = step]_vars
  BY <1>1
<1>. QED
  BY <1>2, AlwaysInv, PTL DEF SearchContinues

\* No autonomous move and no takeoff of the search begins while an operator has the
\* drone or a hold stands, whichever start, return or resume raced it.
THEOREM NothingFliesUnderAHand == Spec => HandsOff
<1> DEFINE Begins == /\ worker # None /\ worker' # None /\ worker.kind = worker'.kind
                     /\ <<worker.at, worker'.at>> \in
                           {<<"ready", "moving">>, <<"preflight", "ascending">>}
                     /\ worker.kind \notin ManualKinds
<1>1. ASSUME Inv, [Next]_vars, Begins PROVE ~Taken /\ ~held
  <2>0. ManualTypeOK /\ worker # None /\ worker' # None /\ worker' # worker
    BY <1>1 DEF Inv
  <2>1. CASE ClaimMove
    BY <1>1, <2>1 DEF ClaimMove, Stopped
  <2>2. CASE ClaimTakeoff
    BY <1>1, <2>2 DEF ClaimTakeoff, Inv, WorkerInv, Runs, At, ManualKinds
  <2>3. CASE StartInFlight \/ BeginLanes \/ BeginPlan
    BY <1>1, <2>0, <2>3, LanesBegin DEF StartInFlight, BeginLanes, BeginPlan, Release, Runs
  <2>4. CASE Ascend
    <3>1. worker.at = "ascending"
      BY <2>4 DEF Ascend, At
    <3>. QED
      BY <1>1, <3>1
  <2>5. CASE LaneFlown \/ ReturnFlown \/ ReturnOver
    <3>1. worker.at = "moving" \/ worker'.at = "returned"
      BY <2>0, <2>5, ReturnOverWrites DEF LaneFlown, ReturnFlown, Runs
    <3>. QED
      BY <1>1, <3>1
  <2>6. CASE \/ TakeoffGivenUp \/ TakeoffNotExecuted \/ BeginHover \/ StopSequence \/ StepFlown
             \/ MoveNotExecuted \/ SequenceFails
    BY <2>0, <2>6 DEF TakeoffGivenUp, TakeoffNotExecuted, BeginHover, StopSequence, StepFlown,
                      MoveNotExecuted, SequenceFails, Release
  <2>7. CASE ControlNext \/ MonitorNext \/ Land \/ Touchdown \/ UNCHANGED vars
    <3>1. worker' = worker \/ worker = None
      BY <2>7 DEF ControlNext, MonitorNext, AssignLanes, StartAt, LeaderHold, LeaderResume,
                  ManualHold, ManualMove, ManualTakeoff, ResumeReleases, ResumeReturns,
                  UnplannedLanding, DeadMan, BeginLinkHold, EndLinkHold, Land, Touchdown,
                  Launch, vars
    <3>. QED
      BY <2>0, <3>1
  <2>. QED
    BY <1>1, <2>1, <2>2, <2>3, <2>4, <2>5, <2>6, <2>7 DEF Next, WorkerNext
<1>2. Inv /\ [Next]_vars => [Begins => ~Taken /\ ~held]_vars
  BY <1>1
<1>. QED
  BY <1>2, AlwaysInv, PTL DEF Spec, HandsOff

\* Manual control is kept, and changes hands, only as EdgeControl allows.
LEMMA ControlStep == Inv /\ [Next]_vars => [Control!Next]_(Control!vars)
<1> SUFFICES ASSUME Inv, [Next]_vars PROVE [Control!Next]_(Control!vars)
  OBVIOUS
<1>0. ManualTypeOK /\ LandingClears
  BY DEF Inv
<1> USE <1>0, NoneIsNothing DEF Control!vars, drone, plan, hold, rest
<1>1. CASE UNCHANGED <<Taken, flying, landing>>
  BY <1>1
<1>2. Release => Taken' = Taken
  BY ReleaseWrites
<1>3. CASE \/ TakeoffGivenUp \/ TakeoffNotExecuted \/ BeginLanes \/ BeginPlan \/ StopSequence
           \/ StepFlown \/ MoveNotExecuted
  BY <1>1, <1>2, <1>3 DEF TakeoffGivenUp, TakeoffNotExecuted, BeginLanes, BeginPlan, StopSequence,
                          StepFlown, MoveNotExecuted, Taken
<1>4. CASE \/ StartInFlight \/ ClaimTakeoff \/ ClaimMove \/ LaneFlown \/ ReturnFlown \/ ReturnOver
  BY <1>1, <1>4 DEF StartInFlight, ClaimTakeoff, ClaimMove, LaneFlown, ReturnFlown, ReturnOver, Taken
<1>5. CASE Ascend
  <2>1. Taken' = Taken /\ UNCHANGED landing /\ flying' = TRUE
    BY <1>5 DEF Ascend, Taken
  <2>2. CASE flying
    BY <1>1, <2>1, <2>2 DEF ManualTypeOK
  <2>3. CASE ~flying
    BY <2>1, <2>3 DEF Control!Next, Control!TakeOff
  <2>. QED
    BY <2>2, <2>3
<1>6. CASE BeginHover
  <2>1. Taken' = Taken
    BY <1>2, <1>6, ManualWrites DEF BeginHover, Fresh, Taken
  <2>. QED
    BY <1>1, <1>6, <2>1 DEF BeginHover
<1>7. CASE SequenceFails \/ Land
  <2>1. Taken' = Taken /\ UNCHANGED flying /\ landing' = flying
    <3>1. CASE SequenceFails
      <4>1. Taken => manual' = [manual EXCEPT !.capture = FALSE] /\ manual \in ManualState
        BY <3>1 DEF SequenceFails, LandingKeeps, ManualTypeOK, Taken
      <4>2. Taken' = Taken
        BY <3>1, <4>1, ManualWrites DEF SequenceFails, LandingKeeps, Taken
      <4>. QED
        BY <3>1, <4>2 DEF SequenceFails, RecordLanding
    <3>2. CASE Land
      BY <3>2 DEF Land, RecordLanding, Taken
    <3>. QED
      BY <1>7, <3>1, <3>2
  <2>2. CASE landing = flying
    BY <1>1, <2>1, <2>2
  <2>3. CASE landing # flying
    <3>1. flying /\ ~landing /\ landing' = TRUE
      BY <2>1, <2>3 DEF LandingClears, ManualTypeOK
    <3>. QED
      BY <2>1, <3>1 DEF Control!Next, Control!Land
  <2>. QED
    BY <2>2, <2>3
<1>8. CASE AssignLanes
  <2>1. UNCHANGED <<flying, landing>> /\ ~flying
    BY <1>8 DEF AssignLanes
  <2>2. Taken' = FALSE
    BY <1>8 DEF AssignLanes, EndManual, Taken
  <2>. QED
    BY <2>1, <2>2 DEF Control!Next, Control!NewPlan
<1>9. CASE ManualHold
  <2>1. UNCHANGED <<flying, landing>> /\ ~landing /\ ~Taken
    BY <1>9 DEF ManualHold
  <2>2. Taken' = TRUE
    BY <1>9, ManualWrites, CaptureWrites DEF ManualHold, Taken
  <2>. QED
    BY <2>1, <2>2 DEF Control!Next, Control!Take
<1>10. CASE ResumeReleases \/ ResumeReturns
  <2>1. UNCHANGED <<flying, landing>> /\ ~landing /\ Taken
    BY <1>10 DEF ResumeReleases, ResumeReturns, Launch
  <2>2. Taken' = FALSE
    BY <1>10 DEF ResumeReleases, ResumeReturns, EndManual, Taken
  <2>. QED
    BY <2>1, <2>2 DEF Control!Next, Control!GiveBack
<1>11. CASE Touchdown \/ UnplannedLanding
  <2>1. flying /\ flying' = FALSE /\ landing' = FALSE /\ Taken' = Taken
    BY <1>11 DEF Touchdown, UnplannedLanding, LandingClears, ManualTypeOK, Taken
  <2>. QED
    BY <2>1 DEF Control!Next, Control!Down
<1>12. CASE \/ StartAt \/ LeaderHold \/ LeaderResume \/ ManualMove \/ ManualTakeoff
            \/ DeadMan \/ BeginLinkHold \/ EndLinkHold \/ UNCHANGED vars
  BY <1>1, <1>12 DEF StartAt, LeaderHold, LeaderResume, ManualMove, ManualTakeoff,
                     DeadMan, BeginLinkHold, EndLinkHold, Taken, vars
<1>. QED
  BY <1>3, <1>4, <1>5, <1>6, <1>7, <1>8, <1>9, <1>10, <1>11, <1>12
  DEF Next, WorkerNext, ControlNext, MonitorNext

\* What ManualControl relies on: the edge keeps a drone that was taken under manual
\* control until it is given back, or gets a new plan on the ground.
THEOREM EdgeKeepsControl == Spec => ControlPromise
<1>1. Init => Control!Init
  BY DEF Init, Control!Init, Taken
<1>. QED
  BY <1>1, ControlStep, AlwaysInv, PTL DEF Spec, ControlPromise, Control!Spec
=============================================================================

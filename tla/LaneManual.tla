------------------------------- MODULE LaneManual -------------------------------
(***************************************************************************)
(* flightrisk/drone/lane_manual.py: an operator takes a searching drone,   *)
(* steps it about by hand and gives it back, while the leader's hold and   *)
(* resume (lane_commands.py) and the hold of a lost ground link            *)
(* (lane_monitor.py) stop and start the same sequences.                    *)
(*                                                                         *)
(* A handler is one critical section of the executor's lock.  The worker   *)
(* claims a move under the lock, flies it without, and takes the lock      *)
(* again.  A landing is recorded in one step and touches down in another;  *)
(* LaneExecutor has its inner steps.  Altitude, re-tasks in the air,       *)
(* nudges and a plain takeoff are left to LaneExecutor as well.            *)
(*                                                                         *)
(* A place is the number of the plan's moves that lead there from the      *)
(* takeoff point, or Away from all of these.                               *)
(***************************************************************************)
EXTENDS Naturals

CONSTANTS
    MaxMoves,      \* moves of a plan
    ReturnMoves,   \* most moves of the way back to a hold point
    HoldsOnLoss,   \* link_loss_hold_s is set: a lost link holds before it lands
    None

ASSUME ManualAssumption ==
    /\ MaxMoves \in Nat \ {0} /\ ReturnMoves \in Nat \ {0}
    /\ HoldsOnLoss \in BOOLEAN
    /\ None \notin Nat /\ None \notin {"lanes", "hover"}

Away   == MaxMoves + 1
Places == 0..Away

ManualKinds == {"manual", "manual_takeoff"}
Kinds == {"start_at", "lanes", "return"} \cup ManualKinds

VARIABLES
    flying, landing,   \* landing: a landing is recorded and not over
    pos,               \* where the drone is (dead-reckoned pose)
    valid, step,       \* _plan_valid and _step, the next move of the plan
    flyingLanes,
    worker, abort,
    held, parked,
    manual,            \* _manual: None, or its hold point and capture_pending
    target,            \* _resume_target: the hold point a return flies to
    link,              \* _link_holding and _link_parked
    skipped            \* history: a flight began its lanes, or ended by itself, although
                       \* a return was due

drone == <<flying, landing, pos>>
plan  == <<valid, step, flyingLanes>>
hold  == <<held, parked>>
rest  == <<link, skipped>>
vars  == <<drone, plan, worker, abort, hold, manual, target, rest>>

Worker ==
    [kind : Kinds, at : {"preflight", "ascending", "lifted", "ready", "moving", "returned"},
     back : 0..ReturnMoves]
ManualState == [point : Places \cup {None}, capture : BOOLEAN]

ASSUME NoneAssumption == None \notin Worker \cup ManualState

\* Every variable keeps its type: among the rest, a hold parks only what resume
\* can start again, and a return never owes more moves than its path had.
ManualTypeOK ==
    /\ flying \in BOOLEAN /\ landing \in BOOLEAN /\ pos \in Places
    /\ valid \in BOOLEAN /\ step \in 0..MaxMoves /\ flyingLanes \in BOOLEAN
    /\ worker \in Worker \cup {None} /\ abort \in BOOLEAN
    /\ held \in BOOLEAN /\ parked \in {"lanes", "hover", None}
    /\ manual \in ManualState \cup {None}
    /\ target \in Places \cup {None}
    /\ link \in [holding : BOOLEAN, parked : BOOLEAN] /\ skipped \in BOOLEAN

Init ==
    /\ flying = FALSE /\ landing = FALSE /\ pos = 0
    /\ valid = FALSE /\ step = 0 /\ flyingLanes = FALSE
    /\ worker = None /\ abort = FALSE
    /\ held = FALSE /\ parked = None /\ manual = None /\ target = None
    /\ link = [holding |-> FALSE, parked |-> FALSE] /\ skipped = FALSE

Taken == manual # None
MovesLeft == valid /\ step < MaxMoves
Runs(kind, at) == worker # None /\ worker.kind = kind /\ worker.at = at
At(at) == worker # None /\ worker.at = at
Goes(at) == worker' = [worker EXCEPT !.at = at]

----------------------------------------------------------------------------
(* Hold points, launching and releasing.                                   *)

\* Mutant: an interrupted return records where it was stopped.
HoldPointHere == pos

\* _capture_hold_point_locked: a return that was cut short keeps its target.
HoldPoint == IF target = None THEN pos ELSE target

Capture(state) ==
    IF flying
    THEN /\ manual' = [point |-> HoldPoint, capture |-> FALSE]
         /\ target' = None
    ELSE /\ manual' = [state EXCEPT !.capture = FALSE]
         /\ UNCHANGED target

\* Lanes begin, or a flight ends by itself, while a return is still due.
NoteSkipped == skipped' = (skipped \/ target # None)

Launch(kind, at, back) ==
    /\ worker = None /\ ~landing
    /\ abort' = FALSE
    /\ worker' = [kind |-> kind, at |-> at, back |-> back]

\* _release_active and the end of _run_sequence: the hold point that waited for
\* the sequence is recorded, and the hold of a takeoff that never flew is over.
Release ==
    /\ worker' = None
    /\ IF Taken /\ manual.capture THEN Capture(manual) ELSE UNCHANGED <<manual, target>>
    /\ held' = (held /\ flying)
    /\ parked' = IF held /\ ~flying THEN None ELSE parked

\* _release_manual_locked.
EndManual == manual' = None /\ held' = FALSE /\ parked' = None

\* Mutant: a landing ends manual control.
LandingReleases == manual' = None
\* land_now returns with the drone down: there is no hold point to record.
LandingKeeps == manual' = IF Taken THEN [manual EXCEPT !.capture = FALSE] ELSE None

\* land_now under the lock: manual control outlives it.
RecordLanding ==
    /\ landing' = flying /\ abort' = TRUE
    /\ valid' = FALSE /\ flyingLanes' = FALSE /\ UNCHANGED step
    /\ held' = FALSE /\ parked' = None /\ target' = None
    /\ skipped' = FALSE

----------------------------------------------------------------------------
(* The worker.                                                             *)

\* A takeoff not sent yet gives up: cancelled, or refused by its preflight.
TakeoffGivenUp ==
    /\ At("preflight") /\ (~flying \/ abort) /\ Release
    /\ UNCHANGED <<drone, plan, abort, rest>>

\* A start of a drone that flies already goes on with its lanes.
StartInFlight ==
    /\ Runs("start_at", "preflight") /\ flying /\ ~abort
    /\ worker' = [worker EXCEPT !.kind = "lanes", !.at = "ready"]
    /\ flyingLanes' = TRUE /\ NoteSkipped
    /\ UNCHANGED <<drone, valid, step, abort, hold, manual, target, link>>

\* _do_takeoff: the spot becomes the takeoff point.
ClaimTakeoff ==
    /\ At("preflight") /\ ~flying /\ ~abort /\ ~landing
    /\ Taken => worker.kind = "manual_takeoff"
    /\ Goes("ascending")
    /\ pos' = 0 /\ flyingLanes' = FALSE
    /\ UNCHANGED <<flying, landing, valid, step, abort, hold, manual, target, rest>>

Ascend ==
    /\ At("ascending") /\ ~abort /\ flying' = TRUE /\ Goes("lifted")
    /\ UNCHANGED <<landing, pos, plan, abort, hold, manual, target, rest>>

\* A landing came first, or the controller reports the takeoff not executed.
TakeoffNotExecuted ==
    /\ At("ascending") /\ Release
    /\ UNCHANGED <<drone, plan, abort, rest>>

BeginLanes ==
    /\ Runs("start_at", "lifted")
    /\ \/ abort /\ Release /\ UNCHANGED <<flyingLanes, skipped>>
       \/ /\ ~abort /\ flyingLanes' = TRUE /\ NoteSkipped
          /\ worker' = [worker EXCEPT !.kind = "lanes", !.at = "ready"]
          /\ UNCHANGED <<hold, manual, target>>
    /\ UNCHANGED <<drone, valid, step, abort, link>>

\* _run_manual_takeoff and the end of its sequence: an earlier hold point means
\* nothing any more, and a drone that is down again is not held.
BeginHover ==
    /\ Runs("manual_takeoff", "lifted")
    /\ \/ abort /\ Release
       \/ /\ ~abort /\ worker' = None /\ UNCHANGED target
          /\ held' = flying /\ parked' = IF flying THEN "hover" ELSE None
          /\ manual' = IF Taken THEN [point |-> None, capture |-> FALSE] ELSE None
    /\ UNCHANGED <<drone, plan, abort, rest>>

\* Mutant: the sequences look at no hold.
StoppedByNone == FALSE
\* What stops a sequence before its next move, and a manual step not.
Stopped == held \/ Taken

\* Mutant: a sequence stopped by a lost link is not noted.
ParkedForgotten == link' = link
ParkedByLink == link' = [link EXCEPT !.parked = TRUE]

MoreToFly ==
    CASE worker.kind = "lanes"  -> step < MaxMoves
      [] worker.kind = "return" -> worker.back > 0
      [] OTHER                  -> TRUE

\* _claim_move, and the same checks at the top of _fly_plan's loop.
ClaimMove ==
    /\ At("ready") /\ MoreToFly /\ ~abort /\ ~link.holding
    /\ Stopped => worker.kind \in ManualKinds
    /\ Goes("moving")
    /\ UNCHANGED <<drone, plan, abort, hold, manual, target, rest>>

StopSequence ==
    /\ At("ready")
    /\ \/ MoreToFly /\ ~abort /\ link.holding /\ ParkedByLink
       \/ abort /\ UNCHANGED link
       \/ MoreToFly /\ ~link.holding /\ Stopped /\ worker.kind \notin ManualKinds /\ UNCHANGED link
       \/ worker.kind = "lanes" /\ (held \/ step = MaxMoves) /\ UNCHANGED link
    /\ Release
    /\ UNCHANGED <<drone, plan, abort, skipped>>

\* A move of the plan, of the way back, or by hand (a rotation, a climb or a move
\* that was not flown leaves the place as it is).
LaneFlown ==
    /\ Runs("lanes", "moving") /\ flying /\ Goes("ready")
    /\ pos' = IF pos = step THEN step + 1 ELSE Away
    /\ step' = IF abort THEN step ELSE step + 1
    /\ UNCHANGED <<flying, landing, valid, flyingLanes, abort, hold, manual, target, rest>>

ReturnFlown ==
    /\ Runs("return", "moving") /\ flying
    /\ worker' = [worker EXCEPT !.at = "ready", !.back = @ - 1]
    /\ pos' = IF worker.back = 1 /\ target # None THEN target ELSE Away
    /\ UNCHANGED <<flying, landing, plan, abort, hold, manual, target, rest>>

\* A step by hand is the whole sequence.
StepFlown ==
    /\ Runs("manual", "moving") /\ flying /\ Release
    /\ pos' \in {pos, Away}
    /\ UNCHANGED <<flying, landing, plan, abort, rest>>

\* _run_return: back at the hold point, no return is due any more.
ReturnOver ==
    /\ Runs("return", "ready") /\ worker.back = 0
    /\ Goes("returned") /\ target' = None
    /\ UNCHANGED <<drone, plan, abort, hold, manual, rest>>

\* _fly_plan goes on with the plan, unless a landing came in between.
BeginPlan ==
    /\ Runs("return", "returned")
    /\ \/ abort /\ Release /\ UNCHANGED flyingLanes
       \/ /\ ~abort /\ flyingLanes' = TRUE
          /\ worker' = [worker EXCEPT !.kind = "lanes", !.at = "ready"]
          /\ UNCHANGED <<hold, manual, target>>
    /\ UNCHANGED <<drone, valid, step, abort, rest>>

\* The controller does not execute a move: under a landing the sequence ends with
\* it, and a step by hand is only refused.
MoveNotExecuted ==
    /\ At("moving") /\ (abort \/ worker.kind = "manual") /\ Release
    /\ UNCHANGED <<drone, plan, abort, rest>>

\* A move or a takeoff raises, the geofence refuses the move, or a move of a
\* sequence is not executed though no landing stopped it: the sequence lands.
SequenceFails ==
    /\ At("moving") \/ At("ascending")
    /\ RecordLanding
    /\ worker' = None /\ LandingKeeps
    /\ UNCHANGED <<flying, pos, link>>

----------------------------------------------------------------------------
(* The consumer: plan and start, the leader's hold and resume.             *)

\* Until the drone flies, also while its takeoff is on its way; a new plan ends
\* manual control then.
AssignLanes ==
    /\ ~flying /\ ~landing
    /\ valid' = TRUE /\ step' = 0
    /\ IF Taken THEN EndManual ELSE UNCHANGED <<manual, hold>>
    /\ UNCHANGED <<drone, flyingLanes, worker, abort, target, rest>>

StartAt ==
    /\ MovesLeft /\ ~held /\ ~Taken
    /\ Launch("start_at", "preflight", 0)
    /\ UNCHANGED <<drone, plan, hold, manual, target, rest>>

TakingOff == At("ascending") \/ At("lifted")

\* Mutant: what runs is parked under its own name.
ResumeKindRaw(cancelled) ==
    IF worker # None /\ ~cancelled THEN worker.kind ELSE IF flyingLanes THEN "lanes" ELSE "hover"

\* _resume_kind_locked: a return counts as a flight of the lanes, or of none.
ResumeKind(cancelled) ==
    IF worker # None /\ ~cancelled /\ worker.kind \in {"lanes", "start_at"} THEN "lanes"
    ELSE IF flyingLanes THEN "lanes" ELSE "hover"

HoldNow(cancelled) == held' = TRUE /\ parked' = IF held THEN parked ELSE ResumeKind(cancelled)

LeaderHold ==
    LET cancelled == At("preflight")
        airborne  == flying \/ TakingOff
    IN /\ ~landing /\ (cancelled \/ airborne)
       /\ abort' = (abort \/ cancelled)
       /\ IF airborne THEN HoldNow(cancelled) ELSE UNCHANGED hold
       /\ UNCHANGED <<drone, plan, worker, manual, target, rest>>

LeaderResume ==
    /\ valid /\ flying /\ ~landing /\ ~Taken /\ held
    /\ \/ worker # None /\ ~abort /\ UNCHANGED <<worker, abort, skipped>>
       \/ worker = None /\ parked = "lanes" /\ Launch("lanes", "ready", 0) /\ NoteSkipped
       \/ worker = None /\ parked # "lanes" /\ UNCHANGED <<worker, abort, skipped>>
    /\ held' = FALSE /\ parked' = None
    /\ UNCHANGED <<drone, plan, manual, target, link>>

----------------------------------------------------------------------------
(* The consumer: manual control.                                           *)

Fresh == [point |-> None, capture |-> FALSE]

\* The operator's own takeoff is not cancelled: a plan took manual control away
\* before it was claimed.
ManualHold ==
    LET cancelled == At("preflight") /\ worker.kind # "manual_takeoff"
        airborne  == flying \/ TakingOff
    IN /\ ~landing /\ ~Taken
       /\ abort' = (abort \/ cancelled)
       /\ IF airborne THEN HoldNow(cancelled) ELSE UNCHANGED hold
       /\ IF ~airborne THEN manual' = Fresh /\ UNCHANGED target
          ELSE IF worker # None /\ ~cancelled
               THEN manual' = [Fresh EXCEPT !.capture = TRUE] /\ UNCHANGED target
               ELSE Capture(Fresh)
       /\ UNCHANGED <<drone, plan, worker, rest>>

ManualMove ==
    /\ Taken /\ flying
    /\ Launch("manual", "ready", 0)
    /\ UNCHANGED <<drone, plan, hold, manual, target, rest>>

ManualTakeoff ==
    /\ Taken /\ ~flying
    /\ Launch("manual_takeoff", "preflight", 0)
    /\ UNCHANGED <<drone, plan, hold, manual, target, rest>>

\* _resume_point_locked: taken on the ground, the plan starts at the takeoff point.
ResumePoint ==
    IF target # None THEN target ELSE IF manual.point = None THEN 0 ELSE manual.point

\* With nothing left to fly, or on the ground, the drone is only let go.
ResumeReleases ==
    /\ Taken /\ ~landing /\ worker = None /\ (~MovesLeft \/ ~flying)
    /\ EndManual
    /\ UNCHANGED <<drone, plan, worker, abort, target, rest>>

\* No way back is empty unless the drone is there.
ResumeReturns ==
    /\ Taken /\ MovesLeft /\ flying
    /\ \E back \in 0..ReturnMoves :
          /\ pos # ResumePoint => back > 0
          /\ Launch("return", "ready", back)
    /\ EndManual /\ target' = ResumePoint
    /\ UNCHANGED <<drone, plan, rest>>

----------------------------------------------------------------------------
(* Landings and the monitor.                                               *)

\* The manual land, LAND ALL, battery, ceiling, a lost link, a key.
Land ==
    /\ flying \/ worker # None
    /\ ~landing /\ RecordLanding
    /\ UNCHANGED <<flying, pos, worker, manual, link>>

Touchdown ==
    /\ landing /\ flying' = FALSE /\ landing' = FALSE
    /\ UNCHANGED <<pos, plan, worker, abort, hold, manual, target, rest>>

\* _note_flight_state_locked: the drone came down and nobody asked for it.  The
\* target of a return stays.
UnplannedLanding ==
    /\ flying /\ ~landing /\ flying' = FALSE
    /\ valid' = FALSE /\ flyingLanes' = FALSE
    /\ held' = FALSE /\ parked' = None /\ NoteSkipped
    /\ UNCHANGED <<landing, pos, step, worker, abort, manual, target, link>>

\* _manual_deadman_due_locked.
DeadMan ==
    /\ Taken /\ flying /\ ~held /\ held' = TRUE
    /\ UNCHANGED <<drone, plan, worker, abort, parked, manual, target, rest>>

BeginLinkHold ==
    /\ HoldsOnLoss /\ flying /\ ~landing /\ ~link.holding
    /\ link' = [link EXCEPT !.holding = TRUE]
    /\ UNCHANGED <<drone, plan, worker, abort, hold, manual, target, skipped>>

\* _end_link_hold: what the lost link stopped goes on, unless something else
\* holds the drone by now.
LinkResumes ==
    /\ link.parked /\ flyingLanes /\ MovesLeft /\ ~held /\ ~Taken
    /\ ~landing /\ worker = None /\ flying

EndLinkHold ==
    /\ link.holding
    /\ link' = [holding |-> FALSE, parked |-> FALSE]
    /\ IF LinkResumes THEN Launch("lanes", "ready", 0) /\ NoteSkipped
                      ELSE UNCHANGED <<worker, abort, skipped>>
    /\ UNCHANGED <<drone, plan, hold, manual, target>>

----------------------------------------------------------------------------
WorkerNext ==
    \/ TakeoffGivenUp \/ StartInFlight \/ ClaimTakeoff \/ Ascend \/ BeginLanes \/ BeginHover
    \/ TakeoffNotExecuted \/ ClaimMove \/ StopSequence \/ LaneFlown \/ ReturnFlown \/ StepFlown
    \/ ReturnOver \/ BeginPlan \/ MoveNotExecuted \/ SequenceFails

ControlNext ==
    \/ AssignLanes \/ StartAt \/ LeaderHold \/ LeaderResume
    \/ ManualHold \/ ManualMove \/ ManualTakeoff \/ ResumeReleases \/ ResumeReturns

MonitorNext == UnplannedLanding \/ DeadMan \/ BeginLinkHold \/ EndLinkHold

Next == WorkerNext \/ ControlNext \/ MonitorNext \/ Land \/ Touchdown

Spec == Init /\ [][Next]_vars

\* The worker runs on, and a lost link comes back or lands the drone.
FairSpec == Spec /\ WF_vars(WorkerNext) /\ WF_vars(link.holding /\ (EndLinkHold \/ Land))

----------------------------------------------------------------------------
(* Properties.                                                             *)

Claims(kinds) == ClaimMove /\ worker.kind \in kinds

\* Whatever stopped the search, and however often an operator took the drone or
\* interrupted its return, the plan is flown on from the place where it stopped,
\* unless a return was cut short whose target stays set: by a hold or a lost link,
\* and resume or the link flies the plan from there; or by a landing nobody asked
\* for, and a hold point of the next flight is that stale target.
SearchContinues == [][flying /\ valid /\ ~skipped /\ Claims({"lanes"}) => pos = step]_vars

\* From the moment an operator has the drone or a hold is acknowledged, no
\* autonomous move and no takeoff of the search is begun, whichever of the
\* start, the return, the leader's resume and the end of a link hold races it.
HandsOff ==
    [][worker # None /\ worker' # None /\ worker.kind = worker'.kind
       /\ <<worker.at, worker'.at>> \in {<<"ready", "moving">>, <<"preflight", "ascending">>}
       /\ worker.kind \notin ManualKinds => ~Taken /\ ~held]_vars

\* What the edge promises the ground: manual control survives every takeoff,
\* landing, hold, lost link and error of a sequence, and ends only by resume_search,
\* outside a landing, or by a new plan on the ground.
Control == INSTANCE EdgeControl WITH taken <- Taken
ControlPromise == Control!Spec

\* A return that resume_search began ends in the plan being flown on, unless
\* somebody stops it: also when the link is lost on the way.  (If the lanes of this
\* flight had never begun, the link's return does not start them.)
SearchGoesOn ==
    (worker # None /\ worker.kind = "return")
        ~> ( \/ worker # None /\ worker.kind = "lanes"
             \/ Stopped \/ ~valid \/ ~flying
             \/ worker = None /\ ~flyingLanes )

=============================================================================

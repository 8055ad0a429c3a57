------------------------------ MODULE LaneExecutor ------------------------------
(***************************************************************************)
(* flightrisk/drone/lane_executor.py and its mixins: the edge's only way   *)
(* to move its drone.                                                      *)
(*                                                                         *)
(* The consumer thread runs one handler at a time; a worker thread flies   *)
(* the current sequence; the monitor ticks; and any of them, or a callback *)
(* of the uplink, may be inside land_now.  Each critical section of the    *)
(* executor's lock, and each call of the drone, is one action.             *)
(*                                                                         *)
(* A plan is the number of moves left to fly and what follows the last of  *)
(* them.  Battery, height, geofence and clock decide by nondeterminism:    *)
(* whatever they forbid may be refused, whatever they demand may happen.   *)
(***************************************************************************)
EXTENDS Naturals

CONSTANTS
    MaxMoves,      \* moves of a plan
    Callers,       \* threads besides worker and monitor that may call land_now
    FalseConfirm,  \* a landing may be confirmed although the drone flies on
    None

Landers == {"worker", "monitor"} \cup Callers

ASSUME ExecutorAssumption ==
    /\ MaxMoves \in Nat \ {0} /\ FalseConfirm \in BOOLEAN
    /\ Callers \subseteq {"control", "callback"}
    /\ None \notin {"lanes", "climb", "hover"}

Kinds == {"start_at", "takeoff", "lanes", "climb", "nudge"}

\* Where a sequence stands.
Points == {"waiting", "preflight", "claimed", "ascending", "lifted", "begin_plan",
           "plan", "climb", "climbing", "move", "moving", "moved", "complete",
           "nudge", "nudging", "failing", "landing", "ending"}

\* climbed: the drone is in the slot of the current plan.  counts: a move in
\* flight is part of the current plan.  allowHeld: a nudge accepted on hold.
Worker == [kind : Kinds, at : Points, climbed : BOOLEAN, counts : BOOLEAN, allowHeld : BOOLEAN]
ASSUME WorkerAssumption == None \notin Worker

\* land_now, step by step: counted, abort set, recorded (and whether this call
\* is the one that lands), inside drone.land(), and back from it.  "uncounted" is
\* the owner of a landing that a hold could have stopped.
LandSteps == {"idle", "counted", "aborted", "owner", "follower", "uncounted", "landing", "landed"}

VARIABLES
    flying,        \* drone.state.is_flying
    lift,          \* a takeoff was sent and may still lift the drone
    landing,       \* the controller's last landing: unconfirmed, confirmed by a
                   \* reply, flagged (the drone flies on), or none to speak of
    abort,         \* _abort
    worker,        \* the sequence that holds the slot, or None
    lander,        \* each thread inside land_now
    mon,           \* the monitor inside tick
    parked,        \* what resume restarts; None unless a hold is in force
    planValid, left, onComplete,
    flyingLanes, landReason, wasFlying,
    record,        \* history: the landing of landReason was announced, or conditional
                   \* on the end of the lanes; or it was confirmed wrongly since
    hover          \* the end-of-lanes countdown runs

drone   == <<flying, lift, landing>>
plan    == <<planValid, left, onComplete>>
flight  == <<flyingLanes, landReason, record, wasFlying, hover>>
vars == <<drone, abort, worker, lander, mon, parked, plan, flight>>

Held == parked # None

\* Every variable keeps its type: among the rest, what a hold parks is one of the
\* kinds resume can start again, whatever ran when the hold was handled.
LaneTypeOK ==
    /\ flying \in BOOLEAN /\ lift \in BOOLEAN /\ abort \in BOOLEAN
    /\ landing \in {"none", "unconfirmed", "confirmed", "flagged"}
    /\ worker \in Worker \cup {None}
    /\ lander \in [Landers -> LandSteps]
    /\ mon \in [at : {"idle", "sampled", "land", "hover"}, flying : BOOLEAN]
    /\ parked \in {"lanes", "climb", "hover", None}
    /\ planValid \in BOOLEAN /\ left \in 0..MaxMoves /\ onComplete \in {"land", "hover"}
    /\ flyingLanes \in BOOLEAN /\ landReason \in BOOLEAN /\ wasFlying \in BOOLEAN
    /\ record \in {"announced", "conditional", "disproved"}
    /\ hover \in BOOLEAN

Tick0 == [at |-> "idle", flying |-> FALSE]

Init ==
    /\ flying = FALSE /\ lift = FALSE /\ landing = "none" /\ abort = FALSE
    /\ worker = None /\ lander = [l \in Landers |-> "idle"] /\ mon = Tick0 /\ parked = None
    /\ planValid = FALSE /\ left = 0 /\ onComplete = "hover"
    /\ flyingLanes = FALSE /\ landReason = FALSE /\ wasFlying = FALSE /\ hover = FALSE
    /\ record = "announced"

----------------------------------------------------------------------------
(* Launching and releasing the slot.                                       *)

LandRequested == \E l \in Landers : lander[l] \in {"counted", "aborted", "owner", "follower"}
LandInflight  == \E l \in Landers : lander[l] \in {"owner", "uncounted", "landing", "landed"}

At(point) == worker # None /\ worker.at = point

\* The phases a hold tells apart: a takeoff not claimed yet, and one claimed.
PreTakeoff == At("waiting") \/ At("preflight")
TakingOff  == worker # None /\ worker.kind \in {"start_at", "takeoff"} /\ ~PreTakeoff

\* Mutant: a landing is wanted only once it is recorded.
LandingRecorded == landReason /\ (LandInflight \/ flying)

\* _landing_wanted_locked.
LandingWanted == LandRequested \/ (landReason /\ (LandInflight \/ flying))

FirstPoint == [start_at |-> "waiting", takeoff |-> "preflight", lanes |-> "begin_plan",
               climb |-> "climb", nudge |-> "nudge"]

Sequence(kind, held) == [kind |-> kind, at |-> FirstPoint[kind], climbed |-> FALSE,
                         counts |-> FALSE, allowHeld |-> held]

\* _launch, on a free slot: the abort flag is cleared, and no landing is wanted.
Launch(kind, held) ==
    /\ worker = None \/ At("ending")
    /\ ~LandingWanted
    /\ abort' = FALSE /\ hover' = FALSE
    /\ worker' = Sequence(kind, held)

\* _launch under a landing: the flag it has cleared is set again at once.
LaunchRefused == LandingWanted /\ abort' = TRUE

\* Mutant: a sequence that ends clears the hold.
ReleaseHold == worker' = None /\ parked' = None

\* The slot is free; a hold of a takeoff that never flew is over.
Release ==
    /\ worker' = None
    /\ parked' = IF flying THEN parked ELSE None

Goes(point) == worker' = [worker EXCEPT !.at = point]

----------------------------------------------------------------------------
(* The worker thread: takeoff.                                             *)

\* _wait_until, then _run_start: in flight the lanes follow at once.
WaitOver ==
    /\ At("waiting")
    /\ \/ abort /\ Release
       \/ /\ ~abort /\ UNCHANGED parked
          /\ IF flying THEN worker' = [worker EXCEPT !.kind = "lanes", !.at = "begin_plan"]
                       ELSE Goes("preflight")
    /\ UNCHANGED <<drone, abort, lander, mon, plan, flight>>

\* _do_takeoff up to the claim; the drone link, battery and ground link may
\* refuse before it.
ClaimTakeoff ==
    /\ At("preflight")
    /\ \/ Release /\ UNCHANGED flight
       \/ /\ ~abort /\ ~LandInflight
          /\ landReason' = (landReason /\ flying) /\ wasFlying' = (wasFlying /\ flying)
          /\ record' = IF flying THEN record ELSE "announced"
          /\ flyingLanes' = FALSE
          /\ Goes("claimed")
          /\ UNCHANGED <<hover, parked>>
    /\ UNCHANGED <<drone, abort, lander, mon, plan>>

\* drone.takeoff(abort) looks, as it sends, at the flag and at its own landings.
TakeoffRefused == abort \/ \E l \in Landers : lander[l] = "landing"

SendTakeoff ==
    /\ At("claimed")
    /\ \/ /\ TakeoffRefused /\ Goes("ending")
          /\ UNCHANGED drone
       \/ /\ ~TakeoffRefused /\ Goes("ascending")
          /\ lift' = TRUE
          /\ landing' = IF landing = "confirmed" THEN "none" ELSE landing
          /\ UNCHANGED flying
    /\ UNCHANGED <<abort, lander, mon, parked, plan, flight>>

\* The drone confirms the takeoff, unless it was in the air already, or the
\* call raises.
TakeoffAnswered ==
    /\ At("ascending")
    /\ \/ /\ landing # "flagged"
          /\ flying' = TRUE /\ lift' = FALSE /\ Goes("lifted")
          /\ landing' = IF \E l \in Landers : lander[l] = "landing" THEN landing ELSE "none"
       \/ Goes("failing") /\ UNCHANGED drone
    /\ UNCHANGED <<abort, lander, mon, parked, plan, flight>>

NoteTakeoff ==
    /\ At("lifted")
    /\ wasFlying' = TRUE
    /\ \/ abort /\ Goes("ending")
       \/ /\ ~abort /\ worker.kind = "takeoff"
          /\ worker' = [worker EXCEPT !.kind = "climb", !.at = "climb"]
       \/ ~abort /\ worker.kind = "start_at" /\ Goes("begin_plan")
    /\ UNCHANGED <<drone, abort, lander, mon, parked, plan, flyingLanes, landReason, record, hover>>

----------------------------------------------------------------------------
(* The worker thread: moves.                                               *)

\* _claim_move: an abort ends the sequence, a hold frees its slot.
Claim(point) ==
    \/ abort /\ Goes("ending") /\ UNCHANGED parked
    \/ ~abort /\ Held /\ ~worker.allowHeld /\ Release
    \/ ~abort /\ (Held => worker.allowHeld) /\ Goes(point) /\ UNCHANGED parked

\* _command_move after the claim: flown, flown or dropped under a landing, or
\* failed (one that raises fails under a landing, too).
MoveReturns(point) ==
    \/ Goes(IF abort THEN "ending" ELSE point)
    \/ Goes("failing")

\* _climb_to_slot: in the slot already, refused (it lands), or one claimed move.
ClimbDone == Goes(IF worker.kind = "lanes" THEN "plan" ELSE "ending")

Climb ==
    /\ At("climb")
    /\ \/ ClimbDone /\ UNCHANGED parked
       \/ Goes("failing") /\ UNCHANGED parked
       \/ Claim("climbing")
    /\ UNCHANGED <<drone, abort, lander, mon, plan, flight>>

ClimbReturns ==
    /\ At("climbing")
    /\ MoveReturns(IF worker.kind = "lanes" THEN "plan" ELSE "ending")
    /\ UNCHANGED <<drone, abort, lander, mon, parked, plan, flight>>

BeginPlan ==
    /\ At("begin_plan")
    /\ \/ abort /\ Goes("ending") /\ UNCHANGED flyingLanes
       \/ /\ ~abort /\ flyingLanes' = TRUE
          /\ worker' = [worker EXCEPT !.kind = "lanes", !.at = "plan"]
    /\ UNCHANGED <<drone, abort, lander, mon, parked, plan, landReason, record, wasFlying, hover>>

\* The top of _fly_plan's loop.
PlanStep ==
    /\ At("plan")
    /\ \/ abort /\ Goes("ending") /\ UNCHANGED parked
       \/ ~abort /\ (Held \/ (worker.climbed /\ left = 0 /\ onComplete = "hover")) /\ Release
       \/ /\ ~abort /\ ~Held /\ UNCHANGED parked
          /\ \/ /\ ~worker.climbed
                /\ worker' = [worker EXCEPT !.at = "climb", !.climbed = TRUE]
             \/ /\ worker.climbed /\ left > 0
                /\ worker' = [worker EXCEPT !.at = "move", !.counts = TRUE]
             \/ /\ worker.climbed /\ left = 0 /\ onComplete = "land"
                /\ Goes("complete")
    /\ UNCHANGED <<drone, abort, lander, mon, plan, flight>>

\* The next move: refused by the geofence (it lands), or claimed.
Move ==
    /\ At("move")
    /\ \/ Goes("failing") /\ UNCHANGED parked
       \/ Claim("moving")
    /\ UNCHANGED <<drone, abort, lander, mon, plan, flight>>

MoveEnds ==
    /\ At("moving") /\ MoveReturns("moved")
    /\ UNCHANGED <<drone, abort, lander, mon, parked, plan, flight>>

\* Progress counts unless a new plan replaced the one the move belongs to.
CountMove ==
    /\ At("moved")
    /\ left' = IF worker.counts /\ ~abort /\ left > 0 THEN left - 1 ELSE left
    /\ Goes("plan")
    /\ UNCHANGED <<drone, abort, lander, mon, parked, planValid, onComplete, flight>>

Nudge ==
    /\ At("nudge") /\ Claim("nudging")
    /\ UNCHANGED <<drone, abort, lander, mon, plan, flight>>

\* A nudge that was not executed is only answered; one that raised lands.
NudgeReturns ==
    /\ At("nudging") /\ (Goes("ending") \/ Goes("failing"))
    /\ UNCHANGED <<drone, abort, lander, mon, parked, plan, flight>>

\* The finally clause of _run_sequence.  After a nudge a re-task that arrived
\* meanwhile is flown, unless it would leave the geofence.
SequenceEnds ==
    /\ At("ending")
    /\ \/ Release /\ UNCHANGED <<abort, hover>>
       \/ /\ worker.kind = "nudge"
          /\ flyingLanes /\ planValid /\ ~Held /\ ~landReason /\ left > 0 /\ flying
          /\ \/ Launch("lanes", FALSE)
             \/ LaunchRefused /\ worker' = None /\ UNCHANGED hover
          /\ UNCHANGED parked
    /\ UNCHANGED <<drone, lander, mon, plan, flyingLanes, landReason, record, wasFlying>>

----------------------------------------------------------------------------
(* land_now, by any thread.                                                *)

Steps(l, step) == lander' = [lander EXCEPT ![l] = step]

\* The call announces itself before it waits for the lock.
Request(l) ==
    /\ lander[l] = "idle" /\ Steps(l, "counted")
    /\ UNCHANGED <<drone, abort, parked, plan, flight>>

SetAbort(l) ==
    /\ lander[l] = "counted" /\ Steps(l, "aborted")
    /\ abort' = TRUE
    /\ UNCHANGED <<drone, worker, mon, parked, plan, flight>>

\* Under the lock: whatever was flown or held or planned is over.
RecordedState(how) ==
    /\ record' = how
    /\ landReason' = TRUE /\ abort' = TRUE /\ flyingLanes' = FALSE
    /\ parked' = None /\ planValid' = FALSE /\ hover' = FALSE
    /\ UNCHANGED <<left, onComplete, wasFlying>>

Record(l) ==
    /\ lander[l] = "aborted"
    /\ Steps(l, IF LandInflight THEN "follower" ELSE "owner")
    /\ RecordedState("announced")
    /\ UNCHANGED <<drone, worker, mon>>

\* drone.land() begins: a drone that may still lift counts as flying.
DroneLands ==
    /\ flying' = (flying \/ lift)
    /\ landing' = IF landing = "flagged" THEN landing ELSE "unconfirmed"
    /\ UNCHANGED lift

\* A landing that a hold may stop is neither announced nor counted.
RecordUnannounced(l) ==
    /\ RecordedState("conditional")
    /\ IF LandInflight THEN UNCHANGED lander ELSE Steps(l, "uncounted")
    /\ UNCHANGED drone

\* The count is given back, and the owner of the landing calls drone.land().
Proceed(l) ==
    /\ \/ lander[l] \in {"owner", "uncounted"} /\ Steps(l, "landing") /\ DroneLands
       \/ lander[l] = "follower" /\ Steps(l, "idle") /\ UNCHANGED drone
    /\ UNCHANGED <<abort, worker, mon, parked, plan, flight>>

\* drone.land() returns: confirmed, never under a takeoff still unanswered...
LandConfirmed(l) ==
    /\ lander[l] = "landing" /\ Steps(l, "landed") /\ ~At("ascending")
    /\ flying' = FALSE /\ lift' = FALSE
    /\ landing' = IF landing = "none" THEN "none" ELSE "confirmed"
    /\ UNCHANGED <<abort, worker, mon, parked, plan, flight>>

\* ... or it raised.
LandFailed(l) ==
    /\ lander[l] = "landing" /\ Steps(l, "landed")
    /\ UNCHANGED <<drone, abort, worker, mon, parked, plan, flight>>

LandOver(l) ==
    /\ lander[l] = "landed" /\ Steps(l, "idle")
    /\ UNCHANGED <<drone, abort, worker, mon, parked, plan, flight>>

\* A caller outside the executor: land, emergency_land_all, a key, a signal.
RequestLanding(l) ==
    /\ l \in Callers /\ Request(l)
    /\ UNCHANGED <<worker, mon>>

\* fail_safe of an idle drone on the ground only stops what is pending.
FailSafeIdle ==
    /\ ~flying /\ worker = None
    /\ abort' = TRUE
    /\ UNCHANGED <<drone, worker, lander, mon, parked, plan, flight>>

\* The worker lands: an error, the geofence, the ceiling, an unknown height.
WorkerFails ==
    /\ At("failing") /\ Request("worker") /\ Goes("landing")
    /\ UNCHANGED mon

\* Mutant: the landing after the last lane is not checked again.
OnCompleteDueAlways == TRUE

\* _on_complete_due_locked.
OnCompleteDue == ~Held /\ ~abort /\ left = 0 /\ onComplete = "land"

WorkerCompletes ==
    /\ At("complete")
    /\ \/ OnCompleteDue /\ RecordUnannounced("worker") /\ Goes("landing")
       \/ ~OnCompleteDue /\ Goes("plan") /\ UNCHANGED <<drone, abort, lander, parked, plan, flight>>
    /\ UNCHANGED mon

WorkerLanded ==
    /\ At("landing") /\ lander["worker"] = "idle" /\ Goes("ending")
    /\ UNCHANGED <<drone, abort, lander, mon, parked, plan, flight>>

----------------------------------------------------------------------------
(* The monitor.                                                            *)

\* tick reads the flight state before it takes the lock.
TickSample ==
    /\ lander["monitor"] = "idle"
    /\ mon.at = "idle"
    /\ mon' = [at |-> "sampled", flying |-> flying]
    /\ UNCHANGED <<drone, abort, worker, lander, parked, plan, flight>>

\* Mutant: the end of a landing is noticed although the drone still flies.
LandingSeenOverEarly(up) == landReason /\ worker = None
LandingSeenOver(up) == landReason /\ ~up /\ worker = None

\* _note_flight_state_locked: the drone came down and nobody asked for it.
Unplanned(up) == wasFlying /\ ~up /\ ~landReason /\ ~LandInflight

IdleAfterLanes(up) ==
    /\ up /\ onComplete = "hover" /\ flyingLanes /\ left = 0
    /\ worker = None /\ ~Held /\ ~landReason

\* What a tick in the air may do: land, again or for height, geofence, link or
\* battery; end a hover whose time is up, unless a landing is due; or nothing.
Decision(up) ==
    {"idle"} \cup (IF up THEN {"land"} ELSE {})
             \cup (IF IdleAfterLanes(up) /\ hover THEN {"hover"} ELSE {})

TickLocked ==
    /\ mon.at = "sampled"
    /\ LET up == mon.flying
       IN /\ wasFlying' = up
          /\ landReason' = (landReason /\ ~LandingSeenOver(up))
          /\ record' = IF LandingSeenOver(up) THEN "announced" ELSE record
          /\ hover' = IdleAfterLanes(up)
          /\ flyingLanes' = (flyingLanes /\ ~Unplanned(up))
          /\ planValid' = (planValid /\ ~Unplanned(up))
          /\ parked' = IF Unplanned(up) THEN None ELSE parked
          /\ \E d \in Decision(up) : mon' = [at |-> d, flying |-> FALSE]
    /\ UNCHANGED <<drone, abort, worker, lander, left, onComplete>>

MonitorLands ==
    /\ mon.at = "land" /\ Request("monitor")
    /\ mon' = Tick0
    /\ UNCHANGED worker

HoverDue == IdleAfterLanes(flying) /\ hover

\* _hover_timeout_due_locked again, as the landing is recorded.
MonitorEndsHover ==
    /\ mon.at = "hover"
    /\ mon' = Tick0
    /\ \/ HoverDue /\ RecordUnannounced("monitor")
       \/ /\ ~HoverDue
          /\ hover' = IdleAfterLanes(flying)
          /\ UNCHANGED <<drone, abort, lander, parked, plan, flyingLanes, landReason, record, wasFlying>>
    /\ UNCHANGED worker

----------------------------------------------------------------------------
(* The consumer thread's handlers.                                         *)

Idle(l) == l \in Landers => lander[l] = "idle"
ControlFree == Idle("control")

\* A handler that reaches _launch while a landing is wanted, because it does not
\* look before or because the landing was announced since.
HandlerTooLate ==
    /\ ControlFree /\ worker = None /\ LaunchRefused
    /\ UNCHANGED <<drone, worker, lander, mon, parked, plan, flight>>

HandleTakeoff ==
    /\ ControlFree /\ ~flying /\ worker = None
    /\ Launch("takeoff", FALSE)
    /\ UNCHANGED <<drone, lander, mon, parked, plan, flyingLanes, landReason, record, wasFlying>>

HandleStartAt ==
    /\ ControlFree /\ planValid /\ left > 0 /\ worker = None /\ ~Held
    /\ Launch("start_at", FALSE)
    /\ UNCHANGED <<drone, lander, mon, parked, plan, flyingLanes, landReason, record, wasFlying>>

\* Mutant: only a plan that would be flown at once is refused under a landing.
PlanAcceptableAlways == TRUE
PlanAcceptable == ~LandingWanted

\* A new plan either carries the progress of the lanes flown so far, and a move
\* in flight with it, or starts over.  A drone idle among its lanes is re-tasked.
HandleAssignLanes(next) ==
    /\ ControlFree /\ PlanAcceptable
    /\ \E carried \in BOOLEAN :
          /\ carried => flyingLanes /\ flying
          /\ left' \in 0..MaxMoves
          /\ IF flyingLanes /\ flying /\ ~landReason /\ ~Held /\ worker = None
             THEN Launch("lanes", FALSE)
             ELSE /\ worker' = IF worker = None THEN None
                               ELSE [worker EXCEPT !.climbed = FALSE, !.counts = @ /\ carried]
                  /\ hover' = FALSE /\ UNCHANGED abort
    /\ planValid' = TRUE /\ onComplete' = next
    /\ UNCHANGED <<drone, lander, mon, parked, flyingLanes, landReason, record, wasFlying>>

\* Mutant: what runs is parked under its own name.
ResumeKindRaw == IF worker # None /\ ~PreTakeoff THEN worker.kind
                 ELSE IF flyingLanes THEN "lanes" ELSE "hover"

\* _resume_kind_locked.
ResumeKind ==
    IF worker # None /\ ~PreTakeoff /\ worker.kind \in {"lanes", "start_at"} THEN "lanes"
    ELSE IF worker # None /\ ~PreTakeoff /\ worker.kind \in {"takeoff", "climb"} THEN "climb"
    ELSE IF flyingLanes THEN "lanes" ELSE "hover"

\* A start or takeoff not yet sent is cancelled; a flight stops after its move.
HandleHold ==
    LET airborne == flying \/ TakingOff
    IN /\ ControlFree /\ ~LandingWanted
       /\ PreTakeoff \/ airborne
       /\ abort' = (abort \/ PreTakeoff)
       /\ parked' = IF airborne /\ ~Held THEN ResumeKind ELSE parked
       /\ hover' = (hover /\ ~airborne)
       /\ UNCHANGED <<drone, worker, lander, mon, plan, flyingLanes, landReason, record, wasFlying>>

\* A sequence that has not stopped yet carries on; else what was parked starts.
HandleResume ==
    /\ ControlFree /\ ~LandingWanted /\ planValid /\ flying /\ Held
    /\ parked' = None
    /\ \/ /\ worker # None /\ worker.kind # "nudge" /\ ~abort
          /\ UNCHANGED <<abort, worker, hover>>
       \/ /\ worker = None /\ parked \in {"lanes", "climb"}
          /\ Launch(parked, FALSE)
       \/ /\ worker = None /\ parked = "hover"
          /\ hover' = FALSE /\ UNCHANGED <<abort, worker>>
    /\ UNCHANGED <<drone, lander, mon, plan, flyingLanes, landReason, record, wasFlying>>

HandleNudge ==
    /\ ControlFree /\ flying /\ worker = None
    /\ Launch("nudge", Held)
    /\ UNCHANGED <<drone, lander, mon, parked, plan, flyingLanes, landReason, record, wasFlying>>

\* The authority's hook, after it adopted an epoch.
InvalidatePlan ==
    /\ planValid' = FALSE
    /\ UNCHANGED <<drone, abort, worker, lander, mon, parked, left, onComplete, flight>>

----------------------------------------------------------------------------
(* The drone by itself.                                                    *)

\* The state poller sees the drone on the ground: the Tello's own landing, a
\* crash, or a landing confirmed late.  Then it is down.
DroneDown ==
    /\ flying /\ ~lift /\ flying' = FALSE /\ landing' = "none"
    /\ UNCHANGED <<lift, abort, worker, lander, mon, parked, plan, flight>>

\* _guard_flight_after_land: the landing was confirmed, yet the drone flies.
FlyingAfterLand ==
    /\ FalseConfirm /\ landing = "confirmed" /\ ~flying
    /\ flying' = TRUE /\ landing' = "flagged"
    /\ record' = IF landReason THEN "disproved" ELSE record
    /\ UNCHANGED <<lift, abort, worker, lander, mon, parked, plan, flyingLanes, landReason, wasFlying, hover>>

----------------------------------------------------------------------------
WorkerNext ==
    \/ WaitOver \/ ClaimTakeoff \/ SendTakeoff \/ TakeoffAnswered \/ NoteTakeoff
    \/ Climb \/ ClimbReturns \/ BeginPlan \/ PlanStep \/ Move \/ MoveEnds \/ CountMove
    \/ Nudge \/ NudgeReturns \/ SequenceEnds
    \/ WorkerFails \/ WorkerCompletes \/ WorkerLanded

LandNext(l) ==
    \/ SetAbort(l) \/ Record(l) \/ Proceed(l)
    \/ LandConfirmed(l) \/ LandFailed(l) \/ LandOver(l)

MonitorNext == TickSample \/ TickLocked \/ MonitorLands \/ MonitorEndsHover

ControlNext ==
    \/ HandlerTooLate \/ HandleTakeoff \/ HandleStartAt \/ HandleHold \/ HandleResume \/ HandleNudge
    \/ \E next \in {"land", "hover"} : HandleAssignLanes(next)
    \/ InvalidatePlan \/ FailSafeIdle

DroneNext == DroneDown \/ FlyingAfterLand

Next ==
    \/ WorkerNext \/ MonitorNext \/ ControlNext \/ DroneNext
    \/ \E l \in Landers : RequestLanding(l) \/ LandNext(l)

Spec == Init /\ [][Next]_vars

----------------------------------------------------------------------------
(* Fairness and properties.                                                *)

\* The tick that finds a recorded landing still flying and due for a retry.
RetryTick == TickLocked /\ landReason /\ mon'.at = "land"

\* Threads run on and every call of the drone returns; a landing that is tried
\* for ever is confirmed, and the retry interval passes again and again.
LaneFairness ==
    /\ WF_vars(WorkerNext) /\ WF_vars(MonitorNext) /\ SF_vars(RetryTick)
    /\ \A l \in Landers : WF_vars(LandNext(l)) /\ SF_vars(LandConfirmed(l))

FairLaneSpec == Spec /\ LaneFairness

\* No takeoff is sent after a landing has set the abort flag, until that landing
\* is over, although launching a sequence clears the flag again.
NoTakeoffUnderLanding ==
    [][At("claimed") /\ At("ascending")'
       => \A l \in Landers : lander[l] \in {"idle", "counted", "landed"}]_vars

\* A flying drone that comes down while its landing is recorded has no valid
\* plan, so start_at and resume are refused until the ground sends one, although
\* assign_lanes may run between any two steps of land_now.  (Left out is a landing
\* that was confirmed wrongly after it was recorded: a plan accepted while the
\* drone seemed down outlives it.)
TouchdownEndsPlan ==
    [][flying /\ ~flying' /\ landReason /\ record # "disproved" => ~planValid']_vars

\* A tick that read "not flying" and has not taken the lock yet.
StaleTick == mon.at = "sampled" /\ ~mon.flying

\* A hold acknowledged in flight ends with resume or with a landing that was
\* announced, never with the sequence it stops, with the landing after the last lane
\* or for hovering too long, nor with a tick that saw the drone fly.  (A tick that
\* read "not flying" before the takeoff was answered takes it for a landing.)
HoldSticks ==
    [][Held /\ flying /\ flying' /\ ~Held'
       => LandRequested \/ HandleResume \/ StaleTick]_vars

\* While the landing after the last lane, or for hovering too long, is under way, no
\* order contradicts it that the drone has acknowledged: there are no lanes left to
\* fly, no hold, and nothing else is flown; whether the order came before the
\* landing was recorded, before drone.land() was called, or while it failed.
EndLandingUncontested ==
    record = "conditional" /\ (flying \/ LandInflight)
        => /\ left = 0 /\ ~Held
           /\ worker # None => worker.at \in {"landing", "ending"}

\* Whatever the threads do and however often drone.land() fails, a landing that
\* is announced or recorded of a flying drone brings it down.  (A stale tick
\* takes the landing for over, and so does one before a flight is flagged.)
LandingLands ==
    ( /\ flying /\ landing # "flagged" /\ ~StaleTick
      /\ landReason \/ \E l \in Landers : lander[l] \in {"counted", "aborted"} ) ~> ~flying

\* A flight flagged after a confirmed landing is landed by the monitor.
FlaggedFlightLanded ==
    (landing = "flagged") ~> (~flying \/ LandRequested \/ LandInflight)

=============================================================================

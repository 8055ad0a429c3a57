------------------------------ MODULE ManualControl ------------------------------
(***************************************************************************)
(* flightrisk/dashboard/manual_control.py: the ground's half of manual     *)
(* takeover, followed for one drone ("this"; what the operator does with   *)
(* the rest of the fleet is "other"), the link to its edge, and the edge   *)
(* as EdgeControl promises it.                                             *)
(*                                                                         *)
(* Socket handlers, the thread that sends the queued commands, the         *)
(* connection's dispatcher and the fleet monitor share the state under one *)
(* lock, which each takes anew for every step; so a step is an action.     *)
(* Clocks decide by nondeterminism: a countdown may run out, an answer may *)
(* be given up, at any time.  The edge handles the commands in the order   *)
(* the connection brings them; its telemetry travels apart from its        *)
(* answers, which may overtake it.                                         *)
(***************************************************************************)
EXTENDS Naturals, SequencesExt

CONSTANTS
    MaxClicks,     \* what operators do, before they only watch (a bound)
    None

ASSUME ControlAssumption == MaxClicks \in Nat

\* The commands that are followed, a MANUAL_HOLD by what asked for it: "hold" is that
\* of a take_control, "hover" that of the operator's stop.
Types == {"hold", "hover", "resume", "takeoff", "land"}
Holds == {"hold", "hover"}

ASSUME NoneAssumption == None \notin Types \cup {"this", "other"}

VARIABLES
    controlled,    \* _controlled, with the browser that controls it
    recent,        \* this drone is controlled, and _hold_sent_at less than _RELEASE_GRACE_S ago
    orphan,        \* _orphans: this drone's countdown runs
    seen,          \* _edge_mode and _flying: the latest telemetry
    handler,       \* the command the socket handler is about to queue
    queue, hand,   \* commands to send, and the one being sent
    dispatcher,    \* the dispatcher between two of its lock's sections
    monitor,       \* the monitor between deciding to land and sending it
    unanswered,    \* the holds in _pending whose answer was lost
    clicks, landedAll,
    overtaken,     \* history of the drone controlled: the grace was not Timely, or HoverTakes
    down, up, tele,          \* the link: commands, answers, and telemetry on its way
    taken, flying, landing   \* the edge

Edge == INSTANCE EdgeControl

edge    == <<taken, flying, landing>>
link    == <<down, up, tele>>
sending == <<queue, hand>>
threads == <<handler, dispatcher, monitor>>
ground  == <<controlled, recent, orphan, seen, unanswered, clicks, landedAll>>
vars    == <<ground, overtaken, threads, sending, link, edge>>

\* waited: the command is in _pending, so that its answer will be matched (only
\* that of a hold and of a resume matters).
Waitable == Holds \cup {"resume"}
Message == [type : Types, waited : BOOLEAN]
Answer  == [type : Waitable, ok : BOOLEAN]
Telemetry == [mode : {"autonomous", "manual"}, flying : BOOLEAN]

\* Every variable keeps its type, and no more is on its way than was asked for: a
\* command for each click, and a landing for the countdown each can start.
ControlTypeOK ==
    /\ controlled \in {"this", "other", None}
    /\ recent \in BOOLEAN /\ orphan \in BOOLEAN /\ unanswered \subseteq Holds
    /\ overtaken \in BOOLEAN
    /\ seen \in Telemetry \cup {None} /\ tele \in Telemetry \cup {None}
    /\ handler \in Types \cup {None}
    /\ queue \in Seq(Message) /\ down \in Seq(Message) /\ up \in Seq(Answer)
    /\ Len(queue) + Len(down) <= 2 * MaxClicks
    /\ hand \in Message \cup {None}
    /\ dispatcher \in {"idle", "cancel", "lose"} /\ monitor \in {"idle", "land"}
    /\ clicks \in 0..MaxClicks /\ landedAll \in {"no", "pressed", "sent"}
    /\ taken \in BOOLEAN /\ flying \in BOOLEAN /\ landing \in BOOLEAN

Init ==
    /\ Edge!Init
    /\ controlled = None /\ recent = FALSE /\ orphan = FALSE /\ seen = None
    /\ handler = None /\ queue = <<>> /\ hand = None
    /\ dispatcher = "idle" /\ monitor = "idle" /\ unanswered = {}
    /\ clicks = 0 /\ landedAll = "no" /\ overtaken = FALSE
    /\ down = <<>> /\ up = <<>> /\ tele = None

WaitedIn(type, messages) == \E i \in DOMAIN messages : messages[i] = [type |-> type, waited |-> TRUE]

\* A command of that kind is in _pending.
Pending(type) ==
    \/ type \in unanswered
    \/ WaitedIn(type, queue) \/ WaitedIn(type, down) \/ hand = [type |-> type, waited |-> TRUE]
    \/ \E i \in DOMAIN up : up[i].type = type

HoldPending == \E type \in Holds : Pending(type)

HoldIn(messages) == \E i \in DOMAIN messages : messages[i].type = "hold"

\* A hold asked for by take_control, from the click until the edge handles it.
HoldOnItsWay ==
    \/ handler = "hold"
    \/ HoldIn(queue) \/ HoldIn(down)
    \/ hand # None /\ hand.type = "hold"

\* The grace is long enough: the hold has reached the edge, and telemetry from before
\* it the ground.
Timely == ~HoldOnItsWay /\ (taken /\ tele # None => tele.mode = "manual")

\* The edge, out of manual control, handles a hover: it is held again, and no grace runs.
HoverTakes ==
    controlled = "this" /\ down # <<>> /\ Head(down).type = "hover" /\ ~taken /\ ~landing

\* The grace is looked at while the drone is controlled, and starts anew with the
\* next take_control.
GraceKept ==
    IF controlled' = "this" THEN UNCHANGED <<recent, overtaken>>
                            ELSE recent' = FALSE /\ overtaken' = FALSE

----------------------------------------------------------------------------
(* Socket handlers: a decision under the lock, the rest after it.          *)

Clicks(command) ==
    /\ handler = None /\ clicks < MaxClicks /\ clicks' = clicks + 1
    /\ handler' = command

\* take_control; the drone controlled so far is sent back to its search.
TakeControl ==
    /\ controlled # "this" /\ seen # None
    /\ controlled' = "this" /\ recent' = TRUE /\ overtaken' = FALSE
    /\ Clicks("hold")
    /\ UNCHANGED <<orphan, seen, unanswered, landedAll, dispatcher, monitor, sending, link, edge>>

TakeOther ==
    /\ controlled # "other"
    /\ controlled' = "other" /\ GraceKept
    /\ Clicks(IF controlled = "this" THEN "resume" ELSE None)
    /\ UNCHANGED <<orphan, seen, unanswered, landedAll, dispatcher, monitor, sending, link, edge>>

\* resume_search, of the controlled drone or of one its edge reports paused.
ResumeSearch ==
    /\ controlled = "this" \/ (seen # None /\ seen.mode = "manual")
    /\ controlled' = (IF controlled = "this" THEN None ELSE controlled) /\ GraceKept
    /\ Clicks("resume")
    /\ UNCHANGED <<orphan, seen, unanswered, landedAll, dispatcher, monitor, sending, link, edge>>

\* command: land goes to any drone, the others to the controlled one (steps and
\* rotations change nothing here and are not followed).  A hover is sent and waited
\* for as a hold, but _hold_sent_at stays as it was.
Command(type) ==
    /\ type \in {"hover", "takeoff", "land"}
    /\ type = "land" \/ controlled = "this"
    /\ Clicks(type)
    /\ UNCHANGED <<overtaken, controlled, recent, orphan, seen, unanswered, landedAll,
                   dispatcher, monitor, sending, link, edge>>

\* _queue_send, a new controller's after its cancel_orphan.
HandlerGoesOn ==
    /\ handler # None /\ handler' = None
    /\ orphan' = (orphan /\ handler # "hold")
    /\ queue' = Append(queue, [type |-> handler, waited |-> handler \in Waitable])
    /\ UNCHANGED <<overtaken, controlled, recent, seen, unanswered, clicks, landedAll,
                   dispatcher, monitor, hand, link, edge>>

\* controller_disconnected: a drone known to be on the ground gets no countdown.
Disconnect ==
    /\ controlled # None /\ controlled' = None /\ GraceKept
    /\ orphan' = (orphan \/ (controlled = "this" /\ (seen = None \/ seen.flying)))
    /\ UNCHANGED <<seen, unanswered, clicks, landedAll, threads, sending, link, edge>>

\* on_land_all: what waits is dropped, what is being sent is not.
LandAll ==
    /\ landedAll = "no" /\ landedAll' = "pressed"
    /\ clicks < MaxClicks /\ clicks' = clicks + 1
    /\ queue' = <<>> /\ orphan' = FALSE
    /\ UNCHANGED <<overtaken, controlled, recent, seen, unanswered, threads, hand, link, edge>>

\* The coordinator's emergency_land_all, which may not get through.
SendLandAll ==
    /\ landedAll = "pressed" /\ landedAll' = "sent"
    /\ down' \in {down, Append(down, [type |-> "land", waited |-> FALSE])}
    /\ UNCHANGED <<overtaken, controlled, recent, orphan, seen, unanswered, clicks, threads, sending, up, tele, edge>>

----------------------------------------------------------------------------
(* The sender, and the link.                                               *)

TakeNext ==
    /\ hand = None /\ queue # <<>>
    /\ hand' = Head(queue) /\ queue' = Tail(queue)
    /\ UNCHANGED <<overtaken, ground, threads, link, edge>>

\* _deliver (one that fails by its timeout and arrives all the same is sent here,
\* and given up).
Deliver(arrives) ==
    /\ hand # None /\ hand' = None
    /\ down' = IF arrives THEN Append(down, hand) ELSE down
    /\ UNCHANGED <<overtaken, ground, threads, queue, up, tele, edge>>

LoseAnswer ==
    /\ up # <<>> /\ up' = Tail(up)
    /\ unanswered' = unanswered \cup ({Head(up).type} \cap Holds)
    /\ UNCHANGED <<overtaken, controlled, recent, orphan, seen, clicks, landedAll, threads, sending, down, tele, edge>>

----------------------------------------------------------------------------
(* The dispatcher.                                                         *)

\* on_reply: a hold refused loses control, a resume acknowledged the countdown,
\* each under the lock taken once more.
OnReply ==
    /\ dispatcher = "idle" /\ up # <<>> /\ up' = Tail(up)
    /\ dispatcher' = CASE Head(up).type \in Holds /\ ~Head(up).ok  -> "lose"
                       [] Head(up).type = "resume" /\ Head(up).ok -> "cancel"
                       [] OTHER -> "idle"
    /\ UNCHANGED <<overtaken, ground, handler, monitor, sending, down, tele, edge>>

\* Mutant: telemetry older than the hold is believed.
ReleasedAtOnce == tele.mode = "autonomous" /\ ~HoldPending

Released == tele.mode = "autonomous" /\ ~HoldPending /\ ~recent

\* observe_telemetry: the edge ended manual control itself, or the countdown is over.
ObserveTelemetry ==
    /\ dispatcher = "idle" /\ tele # None
    /\ seen' = tele /\ tele' = None
    /\ controlled' = (IF controlled = "this" /\ Released THEN None ELSE controlled) /\ GraceKept
    /\ dispatcher' = IF orphan /\ (~tele.flying \/ tele.mode = "autonomous") THEN "cancel" ELSE "idle"
    /\ UNCHANGED <<orphan, unanswered, clicks, landedAll, handler, monitor, sending, down, up, edge>>

DispatcherGoesOn ==
    /\ dispatcher # "idle" /\ dispatcher' = "idle"
    /\ orphan' = (orphan /\ dispatcher # "cancel")
    /\ controlled' = (IF dispatcher = "lose" /\ controlled = "this" THEN None ELSE controlled)
    /\ GraceKept
    /\ UNCHANGED <<seen, unanswered, clicks, landedAll, handler, monitor, sending, link, edge>>

----------------------------------------------------------------------------
(* The monitor and the clock.                                              *)

\* Mutant: the countdown that is over is left running.
OrphanDueAgain ==
    /\ monitor = "idle" /\ orphan
    /\ monitor' = "land"
    /\ UNCHANGED <<overtaken, ground, handler, dispatcher, sending, link, edge>>

\* check_orphans: the countdown is over, and the landing is sent after that.
OrphanDue ==
    /\ monitor = "idle" /\ orphan
    /\ orphan' = FALSE /\ monitor' = "land"
    /\ UNCHANGED <<overtaken, controlled, recent, seen, unanswered, clicks, landedAll, handler, dispatcher, sending, link, edge>>

\* Mutant: a landing that could not be sent is given up.
GivenUp == UNCHANGED orphan
\* The countdown is set again, whatever happened while the landing was being sent.
Rearm == orphan' = TRUE

SendOrphanLand ==
    /\ monitor = "land" /\ monitor' = "idle"
    /\ down' = Append(down, [type |-> "land", waited |-> FALSE])
    /\ UNCHANGED <<overtaken, ground, handler, dispatcher, sending, up, tele, edge>>

OrphanLandFails ==
    /\ monitor = "land" /\ monitor' = "idle"
    /\ Rearm
    /\ UNCHANGED <<overtaken, controlled, recent, seen, unanswered, clicks, landedAll, handler, dispatcher, sending, link, edge>>

Unwaited(type, messages) ==
    [i \in DOMAIN messages |->
        IF messages[i].type = type THEN [messages[i] EXCEPT !.waited = FALSE] ELSE messages[i]]

\* The answers but those to commands of that kind.
Except(type, answers) ==
    FlattenSeq([i \in DOMAIN answers |-> IF answers[i].type = type THEN <<>> ELSE <<answers[i]>>])

\* _RELEASE_GRACE_S after the hold of take_control.
GraceOver ==
    /\ recent /\ recent' = FALSE
    /\ overtaken' = (overtaken \/ ~Timely)
    /\ UNCHANGED <<controlled, orphan, seen, unanswered, clicks, landedAll, threads, sending, link, edge>>

\* Mutant: a hold whose answer was lost is waited for for ever.
HoldUnanswered(type) == UNCHANGED unanswered
HoldGivenUp(type) == unanswered' = unanswered \ {type}

\* check_timeouts (two commands of a kind are given up together).
GiveUpWaiting(type) ==
    /\ type \in Waitable /\ Pending(type)
    /\ queue' = Unwaited(type, queue) /\ down' = Unwaited(type, down)
    /\ up' = Except(type, up)
    /\ hand' = IF hand # None /\ hand.type = type THEN [hand EXCEPT !.waited = FALSE] ELSE hand
    /\ HoldGivenUp(type)
    /\ UNCHANGED <<overtaken, controlled, recent, orphan, seen, clicks, landedAll, threads, tele, edge>>

----------------------------------------------------------------------------
(* The edge.                                                               *)

\* An answer nobody waits for is not followed.
Answers(ok) ==
    up' = IF Head(down).waited THEN Append(up, [type |-> Head(down).type, ok |-> ok]) ELSE up

Handles(type) ==
    /\ down # <<>> /\ Head(down).type = type /\ down' = Tail(down)
    /\ UNCHANGED <<ground, threads, sending, tele>>

\* Refused under a landing; a drone taken already stays so.
HandleHold ==
    /\ Handles("hold") \/ Handles("hover")
    /\ overtaken' = (overtaken \/ HoverTakes)
    /\ \/ landing /\ Answers(FALSE) /\ UNCHANGED edge
       \/ ~landing /\ taken /\ Answers(TRUE) /\ UNCHANGED edge
       \/ Edge!Take /\ Answers(TRUE)

\* Refused under a landing, while a step is being flown, or by the geofence.
HandleResume ==
    /\ Handles("resume") /\ UNCHANGED overtaken
    /\ \/ ~taken /\ Answers(TRUE) /\ UNCHANGED edge
       \/ taken /\ Answers(FALSE) /\ UNCHANGED edge
       \/ Edge!GiveBack /\ Answers(TRUE)

\* A takeoff may be refused.
HandleTakeoff ==
    /\ Handles("takeoff") /\ UNCHANGED <<overtaken, up>>
    /\ UNCHANGED edge \/ (taken /\ ~landing /\ Edge!TakeOff)

HandleLand ==
    /\ Handles("land") /\ UNCHANGED <<overtaken, up>>
    /\ IF flying /\ ~landing THEN Edge!Land ELSE UNCHANGED edge

\* The newest telemetry waits for the last to be read.
Report ==
    /\ tele = None
    /\ tele' = [mode |-> IF taken THEN "manual" ELSE "autonomous", flying |-> flying]
    /\ UNCHANGED <<overtaken, ground, threads, sending, down, up, edge>>

\* What the edge does without manual control: a plan or a start that was on its
\* way (the ground offers none for a paused drone), a landing, its end.
EdgeAlone ==
    /\ \/ ~landing /\ Edge!NewPlan
       \/ ~taken /\ ~landing /\ Edge!TakeOff
       \/ Edge!Land \/ Edge!Down
    /\ UNCHANGED <<overtaken, ground, threads, sending, link>>

EdgeNext == HandleHold \/ HandleResume \/ HandleTakeoff \/ HandleLand \/ Report \/ EdgeAlone

----------------------------------------------------------------------------
Tries == \E arrives \in BOOLEAN : Deliver(arrives)
GivesUp == \E type \in Waitable : GiveUpWaiting(type)

HandlerNext ==
    \/ TakeControl \/ TakeOther \/ ResumeSearch
    \/ \E type \in {"hover", "takeoff", "land"} : Command(type)
    \/ HandlerGoesOn \/ Disconnect \/ LandAll \/ SendLandAll

GroundNext ==
    \/ TakeNext \/ Tries \/ LoseAnswer
    \/ OnReply \/ ObserveTelemetry \/ DispatcherGoesOn
    \/ OrphanDue \/ SendOrphanLand \/ OrphanLandFails
    \/ GivesUp \/ GraceOver

Next == HandlerNext \/ GroundNext \/ EdgeNext

Spec == Init /\ [][Next]_vars

----------------------------------------------------------------------------
(* Fairness and properties.                                                *)

\* A landing recorded on the edge brings the drone down.
TouchesDown == landing /\ Edge!Down /\ UNCHANGED <<overtaken, ground, threads, sending, link>>

\* Somebody has something to do: a handler, the sender, the dispatcher, a clock, the
\* edge.  The operators ask for it or a countdown does, never these steps themselves.
Work ==
    \/ HandlerGoesOn \/ SendLandAll \/ TakeNext \/ Tries
    \/ OnReply \/ DispatcherGoesOn
    \/ OrphanDue \/ SendOrphanLand \/ OrphanLandFails
    \/ GivesUp \/ GraceOver
    \/ HandleHold \/ HandleResume \/ HandleTakeoff \/ HandleLand

\* Work goes on while there is any, and so do the reports; a landing that is sent
\* again and again gets through.
Fairness ==
    /\ WF_vars(Work) /\ WF_vars(Report \/ ObserveTelemetry) /\ WF_vars(TouchesDown)
    /\ SF_vars(SendOrphanLand)

FairSpec == Spec /\ Fairness

\* The ground drops control on telemetry only when the edge is, and stays, out of
\* manual control: telemetry from before the hold of the last take_control, which its
\* answer overtook, is not taken for a release.  Two cases are left out: the grace,
\* which runs from the click, was over before the hold reached the edge and the older
\* telemetry the ground; and the edge, which had ended manual control, took the drone
\* again on a hover, for which no grace runs.
ReleaseIsReal ==
    [][ObserveTelemetry /\ controlled = "this" /\ controlled' = None /\ ~overtaken
           => ~taken /\ ~HoldOnItsWay]_vars

\* A dashboard that shows a drone as controlled which its edge does not hold learns
\* so, whatever was refused, lost, late or not delivered.
ControlIsReal == (controlled = "this" /\ ~taken) ~> (controlled # "this" \/ taken)

\* Nothing older than the countdown can end it any more.
Settled ==
    /\ handler = None /\ dispatcher = "idle"
    /\ tele # None => tele.mode = "manual" /\ tele.flying
    /\ \A i \in DOMAIN up : ~(up[i].type = "resume" /\ up[i].ok)

\* A held drone whose controller is gone is landed, unless somebody takes it or
\* sends it back, however often the landing cannot be sent.
UnattendedLands ==
    (orphan /\ taken /\ flying /\ Settled /\ landedAll = "no")
        ~> (~flying \/ ~taken \/ controlled = "this" \/ landedAll # "no")

=============================================================================

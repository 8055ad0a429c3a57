------------------------------ MODULE TelloLanding ------------------------------
(***************************************************************************)
(* flightrisk/drone/tello.py: the command channel of a Tello and a landing *)
(* over it.  One thread flies (takeoff, move), any thread lands, the       *)
(* keepalive and the stream recovery send commands of their own, and the   *)
(* state poller looks for flights and landings nobody told it of.          *)
(*                                                                         *)
(* The Tello answers a command late, twice or never, and an answer does    *)
(* not say what it answers.  So any command may read an "ok" or an "error" *)
(* at any time; only the takeoff's own "ok" is followed.  Its state        *)
(* packets are true, and come, pause or stop.                              *)
(*                                                                         *)
(* Each section under _wire_lock is one action.  Deadlines and the number  *)
(* of attempts decide by nondeterminism; two spans of time are followed,   *)
(* because the code measures them against the drone's: how long after a    *)
(* takeoff it may still lift, and how long its answer may take.            *)
(***************************************************************************)

CONSTANTS
    Landers,       \* the threads that may land
    None

ASSUME LandingAssumption ==
    /\ Landers \cap {"flier", "keepalive", "stream", None} = {}
    /\ None \notin {"flier", "keepalive", "stream", "checking", "cleared", "sent", "ok", "takeoff_ok"}

VARIABLES
    body, lift,    \* the drone; it has accepted a takeoff and not lifted yet
    answer,        \* the takeoff's own "ok": on its way, or in the list of responses
    stream,        \* state packets arrive, pause, or are lost (_STATE_LOST_S)
    age,           \* of the last takeoff: may lift, may be answered, neither
    answeredOk,    \* _takeoff_answered_ok, or no takeoff was sent yet
    guarded,       \* _lift_guard_until and _reply_guard_until are set by a land
    channel,       \* who holds _cmd_lock
    landing,       \* _landing
    unconfirmed, flying, watch,     \* _land_unconfirmed, is_flying, _post_land_watch
    flier, short, lander, poller,   \* where the threads are
    sent,          \* history: a confirming land was sent since unconfirmed was set
    basis          \* history, since the last takeoff was sent: what is_flying was last
                   \* cleared upon ("state" once a land has set it again); or "misled":
                   \* another's "ok" was read as the takeoff's, before any land, or a
                   \* poll acted on what a takeoff or a land had overtaken

drone    == <<body, lift, answer, stream, age>>
takeoff  == <<answeredOk, guarded>>
flags    == <<unconfirmed, flying, watch, sent, basis>>
vars     == <<drone, takeoff, channel, landing, flags, flier, short, lander, poller>>

Oks == {"ok", "takeoff_ok"}
Holders == Landers \cup {"flier", "keepalive", "stream"}
Bases == Oks \cup {"state", "stale", "expired", "misled"}
\* overtaken: a land began since the takeoff was called (_land_seq has moved).
Flier  == [at : {"idle", "called", "ready", "waiting", "doubting", "accepted", "settled",
                 "move", "moving"},
           overtaken : BOOLEAN]
\* ok: the "ok" that may confirm this attempt alone; again: a land sent again
\* within the attempt.
Lander == [at : {"idle", "begun", "seeking", "holding", "sent", "watching"},
           ok : Oks \cup {None}, again : BOOLEAN]
\* late: a takeoff was sent or a land began since the poll did.
\* blind: not late, and no fresh state was behind the decision to clear is_flying.
Poller == [at : {"idle", "polling", "marking", "clearing"}, late : BOOLEAN, blind : BOOLEAN]
NoLand == [at |-> "idle", ok |-> None, again |-> FALSE]
NoPoll == [at |-> "idle", late |-> FALSE, blind |-> FALSE]

\* Every variable keeps its type: among the rest, the channel is held by exactly
\* the thread that has a command on it, and a guard ends with its takeoff's time.
TelloTypeOK ==
    /\ body \in {"down", "air"} /\ lift \in BOOLEAN /\ (lift => body = "down")
    /\ answer \in {"none", "due", "received"}
    /\ stream \in {"fresh", "gap", "lost"} /\ age \in {"young", "middle", "old"}
    /\ answeredOk \in BOOLEAN /\ guarded \in BOOLEAN /\ (guarded => age # "old")
    /\ channel \in Holders \cup {None}
    /\ landing \in BOOLEAN /\ unconfirmed \in BOOLEAN /\ flying \in BOOLEAN /\ watch \in BOOLEAN
    /\ flier \in Flier /\ (channel = "flier" <=> flier.at \notin {"idle", "called"})
    /\ short \in {"checking", "cleared", "sent", None}
    /\ channel \in {"keepalive", "stream"} <=> short # None
    /\ lander \in [Landers -> Lander]
    /\ \A l \in Landers : channel = l <=> lander[l].at \in {"holding", "sent"}
    /\ poller \in Poller
    /\ sent \in BOOLEAN /\ basis \in Bases

Init ==
    /\ body = "down" /\ lift = FALSE /\ answer = "none" /\ stream = "fresh" /\ age = "old"
    /\ answeredOk = TRUE /\ guarded = FALSE /\ channel = None /\ landing = FALSE
    /\ unconfirmed = FALSE /\ flying = FALSE /\ watch = FALSE
    /\ flier = [at |-> "idle", overtaken |-> FALSE] /\ short = None
    /\ lander = [l \in Landers |-> NoLand]
    /\ poller = NoPoll
    /\ sent = FALSE /\ basis = "state"

\* Nothing confirms a land; no reply alone does.
LiftGuard  == guarded /\ age = "young"
ReplyGuard == guarded /\ age # "old"

\* _lands_in_progress.
LandsInProgress == \E l \in Landers : lander[l].at # "idle"

\* _ground_by_state: it may be true only of a drone on the ground, motors off.
GroundSeen == stream = "fresh" /\ body = "down" /\ ~LiftGuard
FlightSeen == stream = "fresh" /\ body = "air"

\* What is_flying is cleared upon.
Upon(how) == IF basis = "misled" THEN basis ELSE how

\* del responses[:], before a command is sent.
DropReplies == answer' = IF answer = "received" THEN "none" ELSE answer

\* A poll that began before this is late, whatever it saw.
OvertakePoll == poller' = IF poller.at = "idle" THEN poller
                          ELSE [poller EXCEPT !.late = TRUE, !.blind = FALSE]

----------------------------------------------------------------------------
(* The thread that flies.                                                  *)

FlierGoes(at) == flier' = [flier EXCEPT !.at = at]
\* Mutant: a flight command that fails keeps the channel.
HangOn == flier' = [at |-> "idle", overtaken |-> FALSE] /\ UNCHANGED channel
HangUp == channel' = None /\ flier' = [at |-> "idle", overtaken |-> FALSE]

\* takeoff, up to the command lock.
CallTakeoff ==
    /\ flier.at = "idle" /\ ~LandsInProgress
    /\ flier' = [at |-> "called", overtaken |-> FALSE]
    /\ UNCHANGED <<drone, takeoff, channel, landing, flags, short, lander, poller>>

TakeChannelToFly(from, to) ==
    /\ flier.at = from /\ channel = None /\ channel' = "flier" /\ FlierGoes(to)
    /\ UNCHANGED <<drone, takeoff, landing, flags, short, lander, poller>>

\* _send_flight_command: a takeoff, unless a land runs or has begun since, or the
\* caller aborts it.
TakeoffRefused ==
    /\ flier.at = "ready" /\ HangUp
    /\ UNCHANGED <<drone, takeoff, landing, flags, short, lander, poller>>

SendTakeoff ==
    /\ flier.at = "ready" /\ ~LandsInProgress /\ ~flier.overtaken
    /\ FlierGoes("waiting")
    /\ landing' = FALSE /\ watch' = FALSE
    /\ answeredOk' = FALSE /\ guarded' = FALSE /\ age' = "young"
    /\ lift' \in {lift, body = "down"}
    /\ answer' = "none"    \* that of an earlier takeoff is any other's from now on
    /\ OvertakePoll
    /\ basis' = "state"
    /\ UNCHANGED <<body, stream, channel, unconfirmed, flying, sent, short, lander>>

\* _await_takeoff_reply: an "ok" is taken for the takeoff's own, in doubt only
\* while no land has begun.
TakeoffOk ==
    /\ \/ flier.at = "waiting"
       \/ flier.at = "doubting" /\ ~flier.overtaken
    /\ FlierGoes("accepted") /\ answeredOk' = TRUE
    /\ \/ answer = "received" /\ answer' = "none" /\ UNCHANGED basis
       \/ UNCHANGED answer /\ basis' = IF flier.overtaken THEN basis ELSE "misled"
    /\ UNCHANGED <<body, lift, stream, age, guarded, channel, landing, unconfirmed, flying, watch,
                   sent, short, lander, poller>>

\* A bare "error" may answer something else: state may show the flight.
TakeoffError ==
    /\ flier.at = "waiting" /\ FlierGoes("doubting")
    /\ UNCHANGED <<drone, takeoff, channel, landing, flags, short, lander, poller>>

SeenAirborne ==
    /\ flier.at = "doubting" /\ ~flier.overtaken /\ FlightSeen
    /\ FlierGoes("accepted")
    /\ UNCHANGED <<drone, takeoff, channel, landing, flags, short, lander, poller>>

\* Refused, not answered in time, or an "error" that nothing proves wrong.
TakeoffFails ==
    /\ flier.at \in {"waiting", "doubting"} /\ HangUp
    /\ UNCHANGED <<drone, takeoff, landing, flags, short, lander, poller>>

\* takeoff, after its command: an earlier land is settled under _wire_lock, unless
\* another began; is_flying is set after it.
LandSettled ==
    /\ flier.at = "accepted" /\ FlierGoes("settled")
    /\ unconfirmed' = (unconfirmed /\ flier.overtaken)
    /\ sent' = (sent /\ flier.overtaken)
    /\ UNCHANGED <<drone, takeoff, channel, landing, flying, watch, basis, short, lander, poller>>

TakeoffDone ==
    /\ flier.at = "settled" /\ HangUp
    /\ flying' = TRUE
    /\ UNCHANGED <<drone, takeoff, landing, unconfirmed, watch, sent, basis, short, lander, poller>>

SendMove ==
    /\ flier.at = "move"
    /\ \/ landing /\ HangUp /\ UNCHANGED answer
       \/ ~landing /\ FlierGoes("moving") /\ DropReplies /\ UNCHANGED channel
    /\ UNCHANGED <<body, lift, stream, age, takeoff, landing, flags, short, lander, poller>>

MoveEnds ==
    /\ flier.at = "moving" /\ HangUp
    /\ UNCHANGED <<drone, takeoff, landing, flags, short, lander, poller>>

----------------------------------------------------------------------------
(* The keepalive, and the stream recovery's streamoff and streamon.        *)

TakeChannelFor(who) ==
    /\ channel = None /\ channel' = who /\ short' = "checking"
    /\ UNCHANGED <<drone, takeoff, landing, flags, flier, lander, poller>>

ShortEnds ==
    /\ short = "sent" /\ channel' = None /\ short' = None
    /\ UNCHANGED <<drone, takeoff, landing, flags, flier, lander, poller>>

\* Mutant: the keepalive does not ask for a land.
KeepaliveUnchecked ==
    /\ channel = "keepalive" /\ short = "checking"
    /\ short' = "cleared"
    /\ UNCHANGED <<drone, takeoff, channel, landing, flags, flier, lander, poller>>

\* _keepalive_once looks under _wire_lock, and sends after it.
KeepaliveChecks ==
    /\ channel = "keepalive" /\ short = "checking"
    /\ IF unconfirmed THEN channel' = None /\ short' = None
                      ELSE short' = "cleared" /\ UNCHANGED channel
    /\ UNCHANGED <<drone, takeoff, landing, flags, flier, lander, poller>>

KeepaliveSends ==
    /\ short = "cleared" /\ short' = "sent" /\ DropReplies
    /\ UNCHANGED <<body, lift, stream, age, takeoff, channel, landing, flags, flier, lander, poller>>

\* _stream_command_once looks and sends in one step.
StreamSends ==
    /\ channel = "stream" /\ short = "checking"
    /\ IF LandsInProgress \/ unconfirmed
       THEN channel' = None /\ short' = None /\ UNCHANGED answer
       ELSE short' = "sent" /\ DropReplies /\ UNCHANGED channel
    /\ UNCHANGED <<body, lift, stream, age, takeoff, landing, flags, flier, lander, poller>>

----------------------------------------------------------------------------
(* land.                                                                   *)

LanderGoes(l, at) == lander' = [lander EXCEPT ![l].at = at]
LandEnds(l)  == lander' = [lander EXCEPT ![l] = NoLand]
NextAttempt(l) == lander' = [lander EXCEPT ![l] = [NoLand EXCEPT !.at = "seeking"]]

\* A land stops or cancels what the takeoff began, or the Tello ignores it.
LandArrives == lift' \in {FALSE, lift}

\* _mark_land_confirmed.
Confirm(how) ==
    /\ unconfirmed /\ unconfirmed' = FALSE
    /\ flying' = FALSE /\ watch' = TRUE /\ sent' = FALSE /\ basis' = Upon(how)

\* A takeoff waits for its reply, or its wait ended without an "ok".
MayLift == flier.at \in {"waiting", "doubting"} \/ ~answeredOk

\* Mutant: a guarded drone is not marked flying.
MarkNothing(guard) == UNCHANGED <<flying, basis>>

\* A guarded drone is marked flying.  Not so one whose takeoff was waited for until
\* both guards were over: they would end before the land begins.
MarkFlying(guard) ==
    IF guard THEN flying' = TRUE /\ basis' = Upon("state")
    ELSE /\ UNCHANGED flying
         /\ basis' = IF ~flying /\ ~answeredOk THEN Upon("expired") ELSE basis

BeginLand(l) ==
    /\ lander[l].at = "idle" /\ LanderGoes(l, "begun")
    /\ landing' = TRUE
    /\ unconfirmed' = TRUE /\ sent' = (sent /\ unconfirmed)
    /\ guarded' = (guarded \/ (MayLift /\ age # "old"))
    /\ MarkFlying(guarded')
    /\ flier' = [flier EXCEPT !.overtaken = @ \/ flier.at \notin {"idle", "move", "moving"}]
    /\ OvertakePoll
    /\ UNCHANGED <<drone, answeredOk, channel, watch, short>>

\* A free channel is taken; a command on it is interrupted by stop and land; behind
\* another land nothing is sent.
TryChannel(l) ==
    /\ lander[l].at = "begun"
    /\ IF channel = None THEN channel' = l /\ LanderGoes(l, "holding")
                         ELSE UNCHANGED channel /\ LanderGoes(l, "seeking")
    /\ IF channel \in Landers \cup {None} THEN UNCHANGED lift ELSE LandArrives
    /\ UNCHANGED <<body, answer, stream, age, takeoff, landing, flags, flier, short, poller>>

\* _take_channel_for_land.
SeekChannel(l) ==
    /\ lander[l].at = "seeking"
    /\ \/ channel = None /\ channel' = l /\ LanderGoes(l, "holding")
       \/ ~unconfirmed /\ LandEnds(l) /\ UNCHANGED channel
    /\ UNCHANGED <<drone, takeoff, landing, flags, flier, short, poller>>

\* The deadline has come, or the attempts are used: land raises.  A wait for the
\* channel to land again ends the attempt.
StopSeeking(l) ==
    /\ lander[l].at = "seeking"
    /\ IF lander[l].again THEN NextAttempt(l) ELSE LandEnds(l)
    /\ UNCHANGED <<drone, takeoff, channel, landing, flags, flier, short, poller>>

\* _send_confirming_land; sent again only if no other land was just sent.
SendLand(l) ==
    /\ lander[l].at = "holding"
    /\ \/ /\ unconfirmed /\ sent' = TRUE
          /\ LanderGoes(l, "sent") /\ DropReplies /\ LandArrives
          /\ UNCHANGED channel
       \/ /\ ~unconfirmed /\ LandEnds(l)
          /\ channel' = None /\ UNCHANGED <<answer, lift, sent>>
       \/ /\ lander[l].again /\ LanderGoes(l, "watching")
          /\ channel' = None /\ UNCHANGED <<answer, lift, sent>>
    /\ UNCHANGED <<body, stream, age, takeoff, landing, unconfirmed, flying, watch, basis,
                   flier, short, poller>>

Lost == stream = "lost"

\* Mutant: a reply counts as soon as it is read.
AloneAtOnce(reply) == IF reply \in Oks THEN reply ELSE None
\* The reply, if it may confirm the land alone.
Alone(reply) == IF reply \in Oks /\ ~ReplyGuard THEN reply ELSE None

\* What the reply, or its absence, and the state make of the land.  No takeoff can
\* be sent meanwhile, so looking and marking are one step.
Answered(l, reply) ==
    /\ lander[l].at = "sent" /\ channel' = None
    /\ IF reply = "takeoff_ok" THEN answer = "received" /\ answer' = "none" ELSE UNCHANGED answer
    /\ LET own  == Alone(reply)
           kept == IF own = None THEN lander[l].ok ELSE own
       IN \/ GroundSeen /\ Confirm("state") /\ LandEnds(l)
          \/ ~unconfirmed /\ LandEnds(l) /\ UNCHANGED flags
          \/ Lost /\ ~LiftGuard /\ own # None /\ Confirm(own) /\ LandEnds(l)
          \/ /\ unconfirmed /\ UNCHANGED flags
             /\ \/ /\ LiftGuard \/ lander[l].again \/ IF Lost THEN ReplyGuard ELSE reply # None
                   /\ lander' = [lander EXCEPT ![l].at = "watching", ![l].ok = kept]
                \/ /\ ~LiftGuard /\ ~lander[l].again /\ IF Lost THEN ~ReplyGuard ELSE reply = None
                   /\ NextAttempt(l)
    /\ UNCHANGED <<body, lift, stream, age, takeoff, landing, flier, short, poller>>

\* _wait_for_ground, without the channel: until state or, with the stream lost, the
\* reply decides; or time is up; or state shows that the land did not take.
Watch(l) ==
    /\ lander[l].at = "watching"
    /\ \/ ~unconfirmed /\ LandEnds(l) /\ UNCHANGED flags
       \/ GroundSeen /\ Confirm("state") /\ LandEnds(l)
       \/ Lost /\ ~ReplyGuard /\ lander[l].ok # None /\ Confirm(lander[l].ok) /\ LandEnds(l)
       \/ NextAttempt(l) /\ UNCHANGED flags
       \/ /\ FlightSeen /\ UNCHANGED flags
          /\ lander' = [lander EXCEPT ![l].at = "seeking", ![l].again = TRUE]
    /\ UNCHANGED <<drone, takeoff, channel, landing, flier, short, poller>>

LandStep(l) ==
    \/ BeginLand(l) \/ TryChannel(l) \/ SeekChannel(l) \/ StopSeeking(l) \/ SendLand(l) \/ Watch(l)
    \/ \E reply \in Oks \cup {"error", None} : Answered(l, reply)

----------------------------------------------------------------------------
(* The state poller.  It counts polls before it acts on what they show; the *)
(* counts are nondeterminism.                                              *)

PollerGoes(at) == poller' = [poller EXCEPT !.at = at]

\* A poll is begun only while no command holds the channel.
PollBegins ==
    /\ poller.at = "idle" /\ channel = None
    /\ poller' = [NoPoll EXCEPT !.at = "polling"]
    /\ UNCHANGED <<drone, takeoff, channel, landing, flags, flier, short, lander>>

\* _check_zero_height: at height 0 there may be a land to confirm, or else a drone
\* to mark landed.
PollEvaluates ==
    /\ poller.at = "polling"
    /\ \/ unconfirmed /\ GroundSeen /\ PollerGoes("marking")
       \/ /\ ~(unconfirmed /\ LiftGuard) /\ ~FlightSeen /\ flying
          /\ poller' = [poller EXCEPT !.at = "clearing", !.blind = stream # "fresh" /\ ~poller.late]
       \/ poller' = NoPoll
    /\ UNCHANGED <<drone, takeoff, channel, landing, flags, flier, short, lander>>

\* A land that another has confirmed meanwhile is not this poll's.
PollMarks ==
    /\ poller.at = "marking"
    /\ \/ Confirm(IF poller.late THEN "misled" ELSE "state") /\ poller' = NoPoll
       \/ ~unconfirmed /\ UNCHANGED flags /\ PollerGoes("polling")
    /\ UNCHANGED <<drone, takeoff, channel, landing, flier, short, lander>>

\* Outside _wire_lock.
PollClears ==
    /\ poller.at = "clearing" /\ poller' = NoPoll
    /\ flying' = FALSE
    /\ basis' = Upon(IF poller.late THEN "misled" ELSE IF poller.blind THEN "stale" ELSE "state")
    /\ UNCHANGED <<drone, takeoff, channel, landing, unconfirmed, watch, sent,
                   flier, short, lander>>

\* _guard_flight_after_land, at the end of a poll.
PollFlags ==
    /\ poller.at = "idle"
    /\ watch /\ ~unconfirmed /\ FlightSeen
    /\ watch' = FALSE /\ unconfirmed' = TRUE /\ flying' = TRUE /\ sent' = FALSE
    /\ basis' = Upon("state")
    /\ UNCHANGED <<drone, takeoff, channel, landing, flier, short, lander, poller>>

PollerStep == PollBegins \/ PollEvaluates \/ PollMarks \/ PollClears \/ PollFlags

----------------------------------------------------------------------------
(* The drone, its answers and its packets, and time.                       *)

\* A takeoff that was accepted lifts; a landing, or no one, brings it down.
Lifts ==
    /\ lift /\ lift' = FALSE /\ body' = "air"
    /\ answer' = IF answer = "none" THEN "due" ELSE answer
    /\ UNCHANGED <<stream, age>>

ComesDown == body = "air" /\ body' = "down" /\ UNCHANGED <<lift, answer, stream, age>>

\* The answer comes, or its packet is lost.
AnswerMoves ==
    /\ answer = "due" /\ answer' \in {"received", "none"}
    /\ UNCHANGED <<body, lift, stream, age>>

StreamChanges ==
    /\ stream' \in (CASE stream = "fresh" -> {"gap"}
                       [] stream = "gap"   -> {"fresh", "lost"}
                       [] stream = "lost"  -> {"fresh"})
    /\ UNCHANGED <<body, lift, answer, age>>

DroneStep ==
    /\ Lifts \/ ComesDown \/ AnswerMoves \/ StreamChanges
    /\ UNCHANGED <<takeoff, channel, landing, flags, flier, short, lander, poller>>

\* The Tello lifts within _TAKEOFF_LIFT_GUARD_S of a takeoff or not at all, and
\* its answer comes, and is read if someone reads, within _TAKEOFF_REPLY_TIMEOUT_S;
\* the takeoff itself waits no longer.  What nobody reads is dropped by the next
\* command.
Aging ==
    /\ \/ age = "young" /\ ~lift /\ age' = "middle" /\ UNCHANGED <<guarded, answer>>
       \/ /\ age = "middle" /\ answer # "due"
          /\ answer = "received" => \A l \in Landers : lander[l].at # "sent"
          /\ flier.at \notin {"waiting", "doubting"}
          /\ age' = "old" /\ guarded' = FALSE /\ answer' = "none"
    /\ UNCHANGED <<body, lift, stream, answeredOk, channel, landing, flags,
                   flier, short, lander, poller>>

----------------------------------------------------------------------------
FlierStep ==
    \/ CallTakeoff \/ TakeChannelToFly("called", "ready")
    \/ TakeoffRefused \/ SendTakeoff \/ TakeoffOk \/ TakeoffError \/ SeenAirborne
    \/ TakeoffFails \/ LandSettled \/ TakeoffDone
    \/ ~landing /\ TakeChannelToFly("idle", "move")
    \/ SendMove \/ MoveEnds

ShortStep ==
    \/ \E who \in {"keepalive", "stream"} : TakeChannelFor(who)
    \/ ShortEnds \/ KeepaliveChecks \/ KeepaliveSends \/ StreamSends

Next ==
    \/ FlierStep \/ ShortStep
    \/ \E l \in Landers : LandStep(l)
    \/ PollerStep \/ DroneStep \/ Aging

Spec == Init /\ [][Next]_vars

----------------------------------------------------------------------------
(* Properties.                                                             *)

\* A land that ends confirmed leaves the drone on the ground, and not about to
\* lift, if state confirmed it; and no land is confirmed by the late "ok" of the
\* takeoff it interrupted.  Only an answer to something else may be taken for the
\* land's, and only once the state packets are lost.
LandReturnsDown ==
    [][\A l \in Landers :
          lander[l] # NoLand /\ lander'[l] = NoLand /\ ~unconfirmed'
          => /\ basis' # "takeoff_ok"
             /\ basis' = "state" => body = "down" /\ ~lift]_vars

\* Once a confirming land was sent and until it is confirmed, neither the keepalive
\* nor the stream recovery sends anything: each command would restart the 15 s
\* after which the Tello lands by itself.
AutoLandUndisturbed ==
    [][short # "sent" /\ short' = "sent" => ~(unconfirmed /\ sent)]_vars

\* A drone in the air is marked flying, so that someone will land it, except while
\* its takeoff waits for a verdict or failed without one and nobody has landed;
\* or where an answer, a stale height, or a decision overtaken by a takeoff or a
\* land cleared the mark.
AirborneIsMarked ==
    body = "air" /\ ~flying =>
        \/ flier.at \in {"waiting", "doubting", "accepted", "settled"}
        \/ ~answeredOk /\ ~landing
        \/ basis \in {"ok", "stale", "expired", "misled"}

=============================================================================

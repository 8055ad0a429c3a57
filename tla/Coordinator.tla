------------------------------ MODULE Coordinator ------------------------------
(***************************************************************************)
(* flightrisk/drone/coordinator.py, as dashboard/app.py's FleetSupervisor  *)
(* drives it: plan, start, LAND ALL, and the re-tasking of the lanes of a  *)
(* lost drone.                                                             *)
(*                                                                         *)
(* The lock is never held while a link sends.  So each critical section is *)
(* one action, and each send after it another, by the thread that owes it: *)
(* the mission thread (plan, start and the loss check exclude each other), *)
(* LAND ALL, and for every link the thread that delivers its messages.     *)
(* Each link is a FIFO queue to its edge and one back.                     *)
(*                                                                         *)
(* A lane is a name.  Battery, clock sync, geofence, separation of paths   *)
(* and manual control decide by nondeterminism: each may refuse a start,   *)
(* or keep a drone from receiving lanes.                                   *)
(***************************************************************************)
EXTENDS Naturals, FiniteSets, SequencesExt

CONSTANTS
    Links,         \* the drones, in the order of the coordinator's links
    LaneCount,     \* how many lanes a plan gives each drone
    Transit,       \* the moves that lead to the start of re-tasked lanes
    MaxPlans,      \* bound: plans the operator makes
    MaxTurns,      \* bound: plans made and drones lost, together
    None

Drones == Range(Links)

ASSUME CoordinatorAssumption ==
    /\ IsInjective(Links)
    /\ LaneCount \in [Drones -> Nat \ {0}] /\ MaxPlans \in Nat /\ MaxTurns \in Nat
    /\ Drones \cap {"mission", "queued", "failed", None} = {}

Threads == Drones \cup {"mission"}

PlannedLanes == UNION {{<<d, i>> : i \in 1..LaneCount[d]} : d \in Drones}
Lanes        == PlannedLanes \cup {Transit}
Zone(d)      == [i \in 1..LaneCount[d] |-> <<d, i>>]

ASSUME TransitAssumption == Transit \notin PlannedLanes

\* What the ground sends.  An assign_lanes carries the number of its plan here,
\* which is not on the wire.
Orders == [order : {"assign_lanes", "start_at"}, plan : 0..MaxPlans, lanes : Seq(Lanes)]
StartAt              == [order |-> "start_at", plan |-> 0, lanes |-> <<>>]
Assign(number, path) == [order |-> "assign_lanes", plan |-> number, lanes |-> path]
\* What an edge answers to it: ack, nack, or a nack for now (TRANSIENT_NACKS).
Says    == {"ack", "refused", "later"}
Answers == [says : Says, total : Nat]

Offers == [base : Seq(Lanes), acked : BOOLEAN]
\* reported: the status last sent to the dashboard.
Chunks == [of : Drones, lanes : Seq(Lanes), status : {"queued", "offered", "acked", "failed"},
           receiver : Drones \cup {None}, refusals : SUBSET Drones, deferred : SUBSET Drones,
           reported : {"acked", "failed", None}]

ASSUME NoneAssumption == None \notin Orders \cup Offers

VARIABLES
    plan,          \* the plan's number, 0 before the first
    book,          \* what the lock guards: lanes, acks, offers, losses, chunks
    started,       \* _started_at is set
    watched,       \* the supervisor saw the start succeed and looks for losses
    landedAll,     \* _landed_all, the coordinator's and the supervisor's
    landing,       \* LAND ALL has set it, and not sent yet
    mission,       \* what the mission thread is doing, and to which drone
    unsent,        \* thread -> what it still has to send
    toGround,      \* drone -> the answers of its edge under way
    startLast,     \* drones sent a start_at and no landing since
    edgePlan,      \* the plan each edge has accepted last
    crossed        \* an edge may answer an assign_lanes that was replaced or withdrawn

vars == <<plan, book, started, watched, landedAll, landing, mission, unsent, toGround,
          startLast, edgePlan, crossed>>
edges == <<toGround, edgePlan, crossed>>

Missions == {"idle", "planning", "starting", "aborting", "losing", "parting", "waiting"}
Idle     == [op |-> "idle", drone |-> None]

\* Every variable keeps its type: among the rest, a drone has an offer exactly
\* while a chunk is offered to it, and its ack is open for as long.
CoordTypeOK ==
    /\ plan \in 0..MaxPlans
    /\ DOMAIN book = {"lanes", "acked", "nacked", "offer", "lost", "closed", "chunks"}
    /\ book.lanes \in [Drones -> Seq(Lanes)]
    /\ book.acked \subseteq Drones /\ book.nacked \subseteq Drones
    /\ book.offer \in [Drones -> Offers \cup {None}]
    /\ book.lost \subseteq Drones /\ book.closed \subseteq book.lost
    /\ book.chunks \in Seq(Chunks)
    /\ \A d \in Drones : book.offer[d] # None <=>
          \E i \in DOMAIN book.chunks :
             book.chunks[i].status = "offered" /\ book.chunks[i].receiver = d
    /\ \A d \in Drones : book.offer[d] # None => d \notin book.acked
    /\ started \in BOOLEAN /\ watched \in BOOLEAN /\ landedAll \in BOOLEAN
    /\ landing \in BOOLEAN
    /\ mission \in [op : Missions, drone : Drones \cup {None}]
    /\ unsent \in [Threads -> SUBSET (Drones \X Orders)]
    /\ toGround \in [Drones -> Seq(Answers)]
    /\ startLast \subseteq Drones
    /\ edgePlan \in [Drones -> Orders \cup {None}]
    /\ crossed \in BOOLEAN

NoBook == [lanes |-> [d \in Drones |-> <<>>], acked |-> {}, nacked |-> {},
           offer |-> [d \in Drones |-> None], lost |-> {}, closed |-> {}, chunks |-> <<>>]

Init ==
    /\ plan = 0 /\ book = NoBook /\ started = FALSE /\ watched = FALSE /\ landedAll = FALSE
    /\ landing = FALSE /\ mission = Idle /\ unsent = [t \in Threads |-> {}]
    /\ toGround = [d \in Drones |-> <<>>]
    /\ startLast = {} /\ edgePlan = [d \in Drones |-> None] /\ crossed = FALSE

----------------------------------------------------------------------------
(* Re-task allocation, as operators on the book.                           *)

Final == {"acked", "failed"}
Queued(b)    == {i \in DOMAIN b.chunks : b.chunks[i].status = "queued"}
OfferedTo(c, d) == c.status = "offered" /\ c.receiver = d
OfChunks(b, d)  == {i \in DOMAIN b.chunks : b.chunks[i].of = d}

\* The drones a chunk is not refused by for good; the planner's geometry and
\* manual control may take more of them away.
Eligible(b, i) == Drones \ (b.lost \cup b.chunks[i].refusals)
Takers(b, i)   == {r \in Eligible(b, i) \ b.chunks[i].deferred : b.offer[r] = None}

\* _dispatch_locked: what may become of a queued chunk.
Outcomes(b, i) ==
    IF landedAll THEN {"failed"}
    ELSE {"failed"} \cup Takers(b, i)
         \cup (IF Eligible(b, i) = Takers(b, i) THEN {} ELSE {"queued"})

\* The chunks given to d in this round go out in one assign_lanes.
Given(b, to, d) == \E i \in DOMAIN to : to[i] = d
Appended(b, to, d) ==
    FlattenSeq([i \in DOMAIN b.chunks |->
        IF i \in DOMAIN to /\ to[i] = d THEN <<Transit>> \o b.chunks[i].lanes ELSE <<>>])

\* Mutant: lanes count as covered as soon as they are offered.
AllocatedCovered(c, outcome) ==
    IF outcome \in Drones THEN [c EXCEPT !.status = "acked", !.receiver = outcome]
                          ELSE [c EXCEPT !.status = outcome]

Allocated(c, outcome) ==
    IF outcome \in Drones THEN [c EXCEPT !.status = "offered", !.receiver = outcome]
                          ELSE [c EXCEPT !.status = outcome]

\* _settle_and_collect_locked: chunks of a re-task already summarised.
Collected(chunks, closed) ==
    [i \in DOMAIN chunks |->
        IF chunks[i].of \in closed /\ chunks[i].status \in Final
        THEN [chunks[i] EXCEPT !.reported = chunks[i].status] ELSE chunks[i]]

\* Mutant: a drone with an offer keeps the ack of its previous lanes.
AckKept(b, drones) == b.acked

\* _clear_ack of the drones given an offer.
AckCleared(b, drones) == b.acked \ drones

Dispatched(b, to) ==
    [b EXCEPT
        !.lanes  = [d \in Drones |-> @[d] \o Appended(b, to, d)],
        !.offer  = [d \in Drones |->
                      IF Given(b, to, d) THEN [base |-> b.lanes[d], acked |-> d \in b.acked] ELSE @[d]],
        !.acked  = AckCleared(b, {d \in Drones : Given(b, to, d)}),
        !.chunks = Collected([i \in DOMAIN @ |->
                      IF i \in DOMAIN to THEN Allocated(@[i], to[i]) ELSE @[i]], b.closed)]

\* Allocate what is queued in b; thread t owes the offers, besides what it holds.
Dispatch(b, t, holds) ==
    \E to \in [Queued(b) -> Drones \cup {"queued", "failed"}] :
        /\ \A i \in Queued(b) : to[i] \in Outcomes(b, i)
        /\ LET new == Dispatched(b, to) IN
           /\ book' = new
           /\ unsent' = [unsent EXCEPT ![t] = holds \cup
                {<<d, Assign(plan, new.lanes[d])>> : d \in {r \in Drones : Given(b, to, r)}}]

\* A chunk d is not to have after all.  how: refused for good, for now, or d is lost.
Freed(c, d, how) ==
    [c EXCEPT !.status = "queued", !.receiver = None,
              !.refusals = IF how = "refused" THEN @ \cup {d} ELSE @,
              !.deferred = IF how = "later" THEN @ \cup {d} ELSE @]

\* Mutant: a withdrawn offer leaves its lanes with the drone.
WithdrawnInPart(b, d, how) ==
    IF b.offer[d] = None THEN b ELSE
    [b EXCEPT
        !.acked    = IF b.offer[d].acked THEN @ \cup {d} ELSE @ \ {d},
        !.offer[d] = None,
        !.chunks   = [i \in DOMAIN @ |->
            IF OfferedTo(@[i], d) THEN [@[i] EXCEPT !.status = "queued", !.receiver = None] ELSE @[i]]]

\* _withdraw_offer_locked.
Withdrawn(b, d, how) ==
    IF b.offer[d] = None THEN b ELSE
    [b EXCEPT
        !.lanes[d] = b.offer[d].base,
        !.acked    = IF b.offer[d].acked THEN @ \cup {d} ELSE @ \ {d},
        !.offer[d] = None,
        !.chunks   = [i \in DOMAIN @ |->
            IF OfferedTo(@[i], d) THEN Freed(@[i], d, how) ELSE @[i]]]

\* _make_chunks: the pieces of a path, cut for the receivers and at the
\* geofences; here anywhere.
Cuts(path) ==
    LET Ends == UNION {{e \in [1..n -> 1..Len(path)] :
                           e[n] = Len(path) /\ \A j, k \in 1..n : j < k => e[j] < e[k]} : n \in 1..Len(path)}
    IN IF path = <<>> THEN {<<>>}
       ELSE {[k \in DOMAIN e |-> SubSeq(path, IF k = 1 THEN 1 ELSE e[k - 1] + 1, e[k])] : e \in Ends}

NewChunks(d, pieces) ==
    [k \in DOMAIN pieces |->
        [of |-> d, lanes |-> pieces[k], status |-> "queued", receiver |-> None,
         refusals |-> {}, deferred |-> {}, reported |-> None]]

----------------------------------------------------------------------------
(* The mission thread and LAND ALL.                                        *)

Owes(t) == unsent[t] # {}

\* A loop over the links: d is the next that t has to send to.
InTurn(t, d) == d = Links[SelectInSeq(Links, LAMBDA x : \E order \in unsent[t] : order[1] = x)]

AnswersUnderWay == \E d \in Drones : Owes(d) \/ toGround[d] # <<>>

\* Bound: after the first, a plan is made when an edge has refused one.
WorthPlanning == plan = 0 \/ (book.nacked # {} /\ ~started /\ ~landedAll)

\* plan and _install_plan: a new mission, for every drone.
Plan ==
    /\ mission = Idle /\ plan < MaxPlans /\ WorthPlanning
    /\ plan' = plan + 1
    /\ book' = [NoBook EXCEPT !.lanes = [d \in Drones |-> Zone(d)]]
    /\ started' = FALSE /\ watched' = FALSE /\ landedAll' = FALSE
    /\ mission' = [Idle EXCEPT !.op = "planning"]
    /\ unsent' = [unsent EXCEPT !["mission"] = {<<d, Assign(plan + 1, Zone(d))>> : d \in Drones}]
    /\ crossed' = (crossed \/ AnswersUnderWay)
    /\ UNCHANGED <<landing, startLast, toGround, edgePlan>>

PlanDone ==
    /\ mission.op = "planning" /\ ~Owes("mission") /\ mission' = Idle
    /\ UNCHANGED <<plan, book, started, watched, landedAll, landing, unsent, startLast, edges>>

\* start: every drone has acked its current assign_lanes, and nothing else objects.
Start ==
    /\ mission = Idle /\ plan > 0 /\ ~started /\ ~landedAll
    /\ Drones \ book.lost # {} /\ Drones \ book.lost \subseteq book.acked \ book.nacked
    /\ started' = TRUE
    /\ mission' = [Idle EXCEPT !.op = "starting"]
    /\ unsent' = [unsent EXCEPT !["mission"] = {<<d, StartAt>> : d \in Drones \ book.lost}]
    /\ UNCHANGED <<plan, book, watched, landedAll, landing, startLast, edges>>

\* land_all, called by start itself, up to its sends.
Abort ==
    /\ landedAll' = TRUE /\ mission' = [Idle EXCEPT !.op = "aborting"]
    /\ unsent' = [unsent EXCEPT !["mission"] = {}]

\* A start_at that cannot be sent aborts the start.
SendStart(d) ==
    /\ mission.op = "starting" /\ Owes("mission") /\ InTurn("mission", d)
    /\ startLast' = startLast \cup {d}
    /\ \/ unsent' = [unsent EXCEPT !["mission"] = @ \ {<<d, StartAt>>}] /\ UNCHANGED <<landedAll, mission>>
       \/ Abort
    /\ UNCHANGED <<plan, book, started, watched, landing, edges>>

StartOk == mission' = Idle /\ watched' = TRUE /\ UNCHANGED <<landedAll, unsent>>

\* Mutant: LAND ALL during the sends goes unnoticed.
StartDoneUnchecked ==
    /\ mission.op = "starting" /\ ~Owes("mission") /\ StartOk
    /\ UNCHANGED <<plan, book, started, landing, startLast, edges>>

\* LAND ALL during the sends is repeated, to be the last command of every edge.
StartDone ==
    /\ mission.op = "starting" /\ ~Owes("mission")
    /\ IF landedAll THEN Abort /\ UNCHANGED watched ELSE StartOk
    /\ UNCHANGED <<plan, book, started, landing, startLast, edges>>

AbortSent ==
    /\ mission.op = "aborting" /\ mission' = Idle /\ startLast' = {}
    /\ UNCHANGED <<plan, book, started, watched, landedAll, landing, unsent, edges>>

\* LAND ALL takes no lock and waits for nobody: its flag, then every link.
LandAll ==
    /\ plan > 0 /\ ~landedAll
    /\ landedAll' = TRUE /\ landing' = TRUE
    /\ UNCHANGED <<plan, book, started, watched, mission, unsent, startLast, edges>>

LandAllSent ==
    /\ landing /\ landing' = FALSE /\ startLast' = {}
    /\ UNCHANGED <<plan, book, started, watched, landedAll, mission, unsent, edges>>

\* check_losses: nothing heard of d, landed early, or never taken off.
CheckLosses(d) ==
    /\ mission = Idle /\ watched /\ ~landedAll
    /\ d \notin book.lost /\ plan + Cardinality(book.lost) < MaxTurns
    /\ mission' = [op |-> "losing", drone |-> d]
    /\ UNCHANGED <<plan, book, started, watched, landedAll, landing, unsent, startLast, edges>>

\* on_drone_lost up to its sends: the unflown lanes are cut up and offered.
Lose(d) ==
    /\ mission = [op |-> "losing", drone |-> d]
    /\ mission' = [op |-> "parting", drone |-> d]
    /\ LET b == Withdrawn([book EXCEPT !.lost = @ \cup {d}], d, "lost") IN
       \E index \in 0..Len(b.lanes[d]) :
          \E pieces \in Cuts(SubSeq(b.lanes[d], index + 1, Len(b.lanes[d]))) :
             Dispatch([b EXCEPT !.lanes[d] = SubSeq(@, 1, index), !.chunks = @ \o NewChunks(d, pieces)],
                      "mission", {})
    /\ UNCHANGED <<plan, started, watched, landedAll, landing, startLast, edges>>

\* The lost drone is told to land before anybody is offered its lanes.
LandLost(d) ==
    /\ mission = [op |-> "parting", drone |-> d]
    /\ mission' = [op |-> "waiting", drone |-> d]
    /\ startLast' = startLast \ {d}
    /\ UNCHANGED <<plan, book, started, watched, landedAll, landing, unsent, edges>>

\* _summarise_locked, when the re-task has settled or the wait is over.
Summarise(d) ==
    /\ mission = [op |-> "waiting", drone |-> d] /\ ~Owes("mission")
    /\ mission' = Idle
    /\ LET closed == IF OfChunks(book, d) = {} THEN book.closed ELSE book.closed \cup {d} IN
       book' = [book EXCEPT !.closed = closed, !.chunks = Collected(@, closed)]
    /\ UNCHANGED <<plan, started, watched, landedAll, landing, unsent, startLast, edges>>

----------------------------------------------------------------------------
(* Links and edges.                                                        *)

Planning(t) == t = "mission" /\ mission.op = "planning"

Sendable(t, d, m) ==
    /\ <<d, m>> \in unsent[t]
    /\ t = "mission" => mission.op \in {"planning", "waiting"}
    /\ Planning(t) => InTurn(t, d)

\* handle_assign_lanes: d's edge takes m off its queue, and accepts it or keeps the
\* plan it has.  The step is part of the one that sends m: nobody else reads that
\* queue, and what was sent is neither lost nor left unanswered.
Answer(d, m, says) ==
    /\ toGround' = [toGround EXCEPT ![d] = Append(@, [says |-> says, total |-> Len(m.lanes)])]
    /\ edgePlan' = IF says = "ack" THEN [edgePlan EXCEPT ![d] = m] ELSE edgePlan

SendAssign(t, d, m, says) ==
    /\ Sendable(t, d, m)
    /\ unsent' = [unsent EXCEPT ![t] = @ \ {<<d, m>>}]
    /\ Answer(d, m, says)
    /\ UNCHANGED <<plan, book, started, watched, landedAll, landing, mission, startLast, crossed>>

\* A plan that cannot be sent is logged.
PlanNotSent(d, m) ==
    /\ Sendable("mission", d, m) /\ Planning("mission")
    /\ unsent' = [unsent EXCEPT !["mission"] = @ \ {<<d, m>>}]
    /\ UNCHANGED <<plan, book, started, watched, landedAll, landing, mission, startLast, edges>>

\* _send_offers: an offer reported unsent is withdrawn, if it is still the
\* current one.
OfferNotSent(t, d, m) ==
    /\ Sendable(t, d, m) /\ ~Planning(t)
    /\ IF book.offer[d] # None /\ Len(book.lanes[d]) = Len(m.lanes)
       THEN Dispatch(Withdrawn(book, d, "refused"), t, unsent[t] \ {<<d, m>>})
       ELSE unsent' = [unsent EXCEPT ![t] = @ \ {<<d, m>>}] /\ UNCHANGED book
    /\ UNCHANGED <<plan, started, watched, landedAll, landing, mission, startLast>>

OfferLost(t, d, m) == OfferNotSent(t, d, m) /\ UNCHANGED edges

\* A send that timed out may arrive all the same (bound: once, in the first
\* re-task of the first plan).
OfferLate(t, d, m, says) ==
    /\ plan = 1 /\ Cardinality(book.lost) = 1 /\ ~crossed /\ crossed' = TRUE
    /\ OfferNotSent(t, d, m) /\ Answer(d, m, says)

----------------------------------------------------------------------------
(* The thread that delivers d's messages: one at a time, sends included.   *)

\* An answer counts if its number of lanes is that of the current plan.
Current(d) == Head(toGround[d]).total = Len(book.lanes[d])

\* Mutant: the accepted offer stays open.
AcceptedOpen(b, d) ==
    [b EXCEPT !.acked = @ \cup {d}, !.nacked = @ \ {d},
              !.chunks = [i \in DOMAIN @ |->
                  IF OfferedTo(@[i], d) THEN [@[i] EXCEPT !.status = "acked"] ELSE @[i]]]

Accepted(b, d) ==
    [b EXCEPT !.acked = @ \cup {d}, !.nacked = @ \ {d}, !.offer[d] = None,
              !.chunks = [i \in DOMAIN @ |->
                  IF OfferedTo(@[i], d) THEN [@[i] EXCEPT !.status = "acked"] ELSE @[i]]]

OnAck(d) ==
    /\ ~Owes(d) /\ toGround[d] # <<>> /\ Head(toGround[d]).says = "ack"
    /\ toGround' = [toGround EXCEPT ![d] = Tail(@)]
    /\ IF ~Current(d) THEN UNCHANGED <<book, unsent>>
       ELSE IF book.offer[d] # None THEN Dispatch(Accepted(book, d), d, {})
       ELSE book' = Accepted(book, d) /\ UNCHANGED unsent
    /\ UNCHANGED <<plan, started, watched, landedAll, landing, mission, startLast, edgePlan, crossed>>

OnNack(d) ==
    /\ ~Owes(d) /\ toGround[d] # <<>> /\ Head(toGround[d]).says # "ack"
    /\ toGround' = [toGround EXCEPT ![d] = Tail(@)]
    /\ IF ~Current(d) THEN UNCHANGED <<book, unsent>>
       ELSE IF book.offer[d] # None THEN Dispatch(Withdrawn(book, d, Head(toGround[d]).says), d, {})
       ELSE /\ book' = [book EXCEPT !.acked = @ \ {d}, !.nacked = @ \cup {d}]
            /\ UNCHANGED unsent
    /\ UNCHANGED <<plan, started, watched, landedAll, landing, mission, startLast, edgePlan, crossed>>

\* d may be offered the chunk once more.
Released(c, d) == [c EXCEPT !.deferred = @ \ {d}]

\* Mutant: nothing is offered again when a refusal for now is over.
TelemetryOnly(d) ==
    /\ ~Owes(d)
    /\ \E i \in DOMAIN book.chunks : d \in book.chunks[i].deferred
    /\ book' = [book EXCEPT !.chunks = [i \in DOMAIN @ |-> Released(@[i], d)]]
    /\ UNCHANGED <<plan, started, watched, landedAll, landing, mission, unsent, startLast, edges>>

\* _release_deferred_locked: telemetry of d shows that its refusal for now is over.
Telemetry(d) ==
    /\ ~Owes(d)
    /\ \E i \in DOMAIN book.chunks : d \in book.chunks[i].deferred
    /\ LET b == [book EXCEPT !.chunks = [i \in DOMAIN @ |-> Released(@[i], d)]] IN
       IF \E i \in Queued(book) : d \in book.chunks[i].deferred
       THEN Dispatch(b, d, {})
       ELSE book' = b /\ UNCHANGED unsent
    /\ UNCHANGED <<plan, started, watched, landedAll, landing, mission, startLast, edges>>

----------------------------------------------------------------------------

Sends(t) ==
    \E order \in unsent[t] :
        \/ \E says \in Says : SendAssign(t, order[1], order[2], says)
        \/ OfferLost(t, order[1], order[2])
        \/ \E says \in Says : OfferLate(t, order[1], order[2], says)

\* An offer that is not refused for now.
Decided(t) ==
    \E order \in unsent[t], says \in {"ack", "refused"} : SendAssign(t, order[1], order[2], says)

MissionStep ==
    \/ PlanDone \/ StartDone \/ AbortSent
    \/ \E d \in Drones : SendStart(d) \/ Lose(d) \/ LandLost(d) \/ Summarise(d)
    \/ \E order \in unsent["mission"] : PlanNotSent(order[1], order[2])
    \/ Sends("mission")

LinkStep(d) == OnAck(d) \/ OnNack(d) \/ Telemetry(d) \/ Sends(d)

\* What the threads do by themselves.
ThreadStep == MissionStep \/ LandAllSent \/ \E d \in Drones : LinkStep(d)

Next == Plan \/ Start \/ LandAll \/ (\E d \in Drones : CheckLosses(d)) \/ ThreadStep

Spec == Init /\ [][Next]_vars

\* Threads run, messages arrive, a landing or a takeoff of a drone ends; and edges
\* do not refuse every offer for now.
Fairness == WF_vars(ThreadStep) /\ SF_vars(\E t \in Threads : Decided(t))

FairSpec == Spec /\ Fairness

----------------------------------------------------------------------------
(* Properties.                                                             *)

Places(l) ==
    {<<"drone", d>> : d \in {r \in Drones : l \in Range(book.lanes[r])}}
    \cup {<<"chunk", i>> : i \in {k \in DOMAIN book.chunks :
            book.chunks[k].status \in {"queued", "failed"} /\ l \in Range(book.chunks[k].lanes)}}

\* Re-tasking loses no lane and doubles none: whatever losses, refusals and
\* failed sends there are, each planned lane is in the path of one drone, or in
\* one chunk that waits for a drone or was reported uncovered.
LanesConserved ==
    plan > 0 => \A l \in PlannedLanes : Cardinality(Places(l)) = 1

\* The lanes shown for a drone that has acked are the lanes its edge has
\* accepted, also after an offer was refused, failed, or was withdrawn.
AckedIsFlown ==
    ~crossed => \A d \in book.acked \ book.lost : edgePlan[d] = Assign(plan, book.lanes[d])

\* Lanes are never counted as covered before the edge that is to fly them has
\* accepted a plan with all of them.
CoveredIsAccepted ==
    ~crossed => \A i \in DOMAIN book.chunks :
        LET c == book.chunks[i] IN
        c.status = "acked" =>
            /\ edgePlan[c.receiver].plan = plan
            /\ Range(c.lanes) \subseteq Range(edgePlan[c.receiver].lanes)

\* LAND ALL is the last command every edge receives, also when it is pressed
\* while the start_at messages are being sent, or when one of those fails.
LandAllIsLast ==
    (landedAll /\ ~landing /\ mission.op \notin {"starting", "aborting"}) =>
        startLast = {}

Unreported == {i \in DOMAIN book.chunks : book.chunks[i].reported # book.chunks[i].status}

\* Every lane taken from a lost drone is reported at last, accepted or uncovered,
\* as long as edges answer: no chunk waits for a drone that nothing will free.
RetaskReported ==
    Unreported # {} ~> Unreported = {}
=============================================================================

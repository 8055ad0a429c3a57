---------------------------- MODULE EdgeAuthority ----------------------------
(***************************************************************************)
(* flightrisk/fleet_authority.py: which ground station an edge obeys.      *)
(*                                                                         *)
(* Three threads meet here.  The uplink's event loop opens and closes      *)
(* connections and decides every inbound message (on_message); it samples  *)
(* the executor's activity before it takes the authority's lock.  The      *)
(* consumer thread ends one dispatch and begins the next (begin_dispatch). *)
(* The executor's threads fly the drone and answer commands (outbound).    *)
(* Each critical section of the authority's lock is one action.            *)
(*                                                                         *)
(* The environment is as liberal as the code allows: a connection may send *)
(* any message of the alphabets Hellos, Controls and Commands, and the     *)
(* uplink may offer begin_dispatch any command with any stamp.  The module *)
(* EdgeUplink puts the real queue in place of the second.                  *)
(***************************************************************************)
EXTENDS Naturals, Sequences

CONSTANTS
    Conns,             \* connection keys, one for each live socket
    Nodes,             \* node ids of ground stations
    CmdIds, Plans,
    Hellos,            \* hello messages the grounds may send
    Controls,          \* heartbeat and clock messages
    Commands,          \* fenced commands
    MaxUnannounced,    \* _MAX_UNANNOUNCED_EPOCH
    CacheSize,         \* cmd_id cache, at least one entry
    Legacy,            \* FLIGHTRISK_FLEET_LEGACY
    InflightHandover,  \* FLIGHTRISK_INFLIGHT_HANDOVER
    AtomicProbe,       \* no takeoff completes between is_active's two reads
    None

ControlTypes == {"heartbeat", "clock"}
MotionTypes == {"takeoff", "assign_lanes", "start_at", "hold", "resume", "nudge",
                "manual_hold", "manual_move", "manual_takeoff", "resume_search"}
StopTypes == {"hold", "manual_hold"}
PlanBoundTypes == {"start_at", "resume"}

\* What the uplink's hooks say the executor implements: CONTROL_TYPES (the v1
\* set) and MANUAL_CONTROL_TYPES.  hold, resume and nudge are not among them.
Supported == {"takeoff", "assign_lanes", "start_at",
              "manual_hold", "manual_move", "manual_takeoff", "resume_search"}

Hello   == [node : Nodes, role : {"leader", "standby"}, epoch : Nat, proto : {1, 2}]
Control == [type : ControlTypes, epoch : Nat, leader : Nodes]
Command == [type : MotionTypes \cup {"handover"}, cmd : CmdIds, epoch : Nat,
            leader : Nodes, plan : Plans \cup {None}, to : Nodes, next : Nat]

Conn == [node : Nodes \cup {None}, role : {"leader", "standby", None},
         epoch : Nat \cup {None}, proto : {1, 2, None}, v1 : BOOLEAN]
FreshConn == [node |-> None, role |-> None, epoch |-> None, proto |-> None, v1 |-> FALSE]

Handover == [to : Nodes, next : Nat, from : Nat]
Plan     == [epoch : Nat, id : Plans]
Entry    == [cmd : CmdIds, type : MotionTypes \cup {"handover"}, epoch : Nat,
             plan : Plans \cup {None}, reply : {"ack", "nack", None}]

\* Where the event loop stands: the hook reads of is_active, then the locked
\* decision, then (after an adoption) the invalidate_plan hook.
Loop == [at : {"flying_read", "busy_read"}, conn : Conns, msg : Hellos \cup Controls,
         active : BOOLEAN, moved : BOOLEAN]
Adopted == [at |-> "adopted"]

\* None stands for every absent value and is none of the present ones.
ASSUME AuthorityAssumption ==
    /\ Hellos \subseteq Hello /\ Controls \subseteq Control /\ Commands \subseteq Command
    /\ \A m \in Commands : m.type = "assign_lanes" => m.plan # None
    /\ MaxUnannounced \in Nat /\ CacheSize \in Nat \ {0}
    /\ Legacy \in BOOLEAN /\ InflightHandover \in BOOLEAN /\ AtomicProbe \in BOOLEAN
    /\ None \notin Nodes \cup Conns \cup Plans \cup Nat
    /\ None \notin Conn \cup Handover \cup Plan \cup Command \cup Loop \cup {Adopted}

----------------------------------------------------------------------------
VARIABLES
    conns,             \* None, or the record of a connection
    epochSeen, authorityLeader, authorityKey,
    handover,          \* the announced handover, or None
    plan,              \* the plan start_at and resume must name, or None
    cache,             \* the cmd_id cache, oldest entry first
    current,           \* the motion command being dispatched, or None
    loop,              \* the event loop inside on_message, or None
    \* The executor, as the hooks and the replies show it.
    flying, exec, execPlan, owed, begun

authority == <<epochSeen, authorityLeader, authorityKey, handover>>
executor  == <<flying, exec, execPlan>>
replies   == <<owed, begun>>
vars == <<conns, authority, plan, cache, current, loop, executor, replies>>

TypeOK ==
    /\ conns \in [Conns -> Conn \cup {None}]
    /\ epochSeen \in Nat
    /\ authorityLeader \in Nodes \cup {None}
    /\ authorityKey \in Conns \cup {None}
    /\ handover \in Handover \cup {None}
    /\ plan \in Plan \cup {None}
    /\ cache \in Seq(Entry)
    /\ current \in Commands \cup {None}
    /\ loop \in Loop \cup {Adopted, None}
    /\ flying \in BOOLEAN /\ exec \in {"idle", "sequence", "landing"}
    /\ execPlan \in Plan \cup {None}
    /\ owed \subseteq Commands /\ begun \subseteq Commands

Init ==
    /\ conns = [k \in Conns |-> None]
    /\ epochSeen = 0 /\ authorityLeader = None /\ authorityKey = None
    /\ handover = None /\ plan = None /\ cache = <<>> /\ current = None /\ loop = None
    /\ flying = FALSE /\ exec = "idle" /\ execPlan = None
    /\ owed = {} /\ begun = {}

----------------------------------------------------------------------------
(* Connection lifecycle (event loop).                                      *)

\* closed(): the epoch and the leader are kept.
ReleaseForgotten(k) == UNCHANGED authorityKey    \* mutant: the key stays behind
Release(k) == authorityKey' = IF k = authorityKey THEN None ELSE authorityKey

Opened(k) ==
    /\ loop = None
    /\ conns' = [conns EXCEPT ![k] = FreshConn]
    /\ Release(k)
    /\ UNCHANGED <<epochSeen, authorityLeader, handover, plan, cache, current, loop,
                   executor, replies>>

Closed(k) ==
    /\ loop = None /\ conns[k] # None
    /\ conns' = [conns EXCEPT ![k] = None]
    /\ Release(k)
    /\ UNCHANGED <<epochSeen, authorityLeader, handover, plan, cache, current, loop,
                   executor, replies>>

----------------------------------------------------------------------------
(* Sampling the executor before the lock (event loop).                     *)

IsHello(m) == m \in Hellos

\* Mutant: a heartbeat never gives the leader of the epoch its key back.
MayAdoptHigher(m) == m.type = "heartbeat" /\ m.epoch > epochSeen

\* _may_adopt: only such a heartbeat samples is_active.
MayAdopt(m) == m.type = "heartbeat" /\ (m.epoch > epochSeen \/ authorityKey = None)

\* on_message reads the dispatch generation, then is_active reads the flight
\* state.  The generation matters only as "has it moved since": loop.moved.
Sample(k, m) ==
    /\ loop = None /\ conns[k] # None
    /\ IsHello(m) \/ (m \in Controls /\ conns[k].proto # None /\ MayAdopt(m))
    /\ loop' = [at |-> IF AtomicProbe THEN "busy_read" ELSE "flying_read", conn |-> k, msg |-> m,
                active |-> flying \/ (AtomicProbe /\ exec # "idle"), moved |-> FALSE]
    /\ UNCHANGED <<conns, authority, plan, cache, current, executor, replies>>

\* is_active then takes the executor's lock and reads whether a sequence or a
\* landing is under way.
SampleBusy ==
    /\ loop # None /\ loop.at = "flying_read"
    /\ loop' = [loop EXCEPT !.at = "busy_read", !.active = @ \/ exec # "idle"]
    /\ UNCHANGED <<conns, authority, plan, cache, current, executor, replies>>

----------------------------------------------------------------------------
(* Adopting an epoch.                                                      *)

Dispatching == current # None

\* Mutant: a dispatch handed out and finished since the sample goes unseen.
ActiveAtSample == loop.active

\* A change of the dispatch generation counts as activity.
Active == loop.active \/ loop.moved

Announced(epoch, leader) ==
    /\ handover # None
    /\ handover.to = leader /\ handover.next = epoch /\ handover.from = epochSeen

\* Mutants: an equal epoch may change the leader; a busy drone may be taken over
\* unannounced.
AdoptsTies(epoch, leader) == epoch >= epochSeen /\ ~Active /\ ~Dispatching
AdoptsUnannounced(epoch, leader) ==
    epoch > epochSeen /\ ((Active \/ Dispatching) => InflightHandover)

Adopts(epoch, leader) ==
    /\ epoch > epochSeen
    /\ epoch > MaxUnannounced => Announced(epoch, leader)
    /\ (Active \/ Dispatching) => (InflightHandover /\ Announced(epoch, leader))

\* Mutant: a second connection of the leader takes the key from a live one.
RebindsLive(epoch, leader) == epoch = epochSeen /\ leader = authorityLeader

\* The leader of the epoch takes the key again only while no connection has it.
Rebinds(epoch, leader) == epoch = epochSeen /\ leader = authorityLeader /\ authorityKey = None

\* An adoption forgets the plan and the handover of the old epoch.
ForgetPlan == plan' = None /\ UNCHANGED handover    \* mutant: the handover stays
Forget == plan' = None /\ handover' = None

\* Mutant: key and leader swapped.
TryAdoptSwapped(k, epoch, leader) ==
    \/ /\ Adopts(epoch, leader)
       /\ epochSeen' = epoch /\ authorityLeader' = k /\ authorityKey' = leader
       /\ Forget
       /\ loop' = Adopted
    \/ /\ ~Adopts(epoch, leader)
       /\ loop' = None
       /\ UNCHANGED <<epochSeen, authorityLeader, authorityKey, handover, plan>>

\* _try_adopt for connection k.
TryAdopt(k, epoch, leader) ==
    \/ /\ Adopts(epoch, leader)
       /\ epochSeen' = epoch /\ authorityLeader' = leader /\ authorityKey' = k
       /\ Forget
       /\ loop' = Adopted
    \/ /\ ~Adopts(epoch, leader)
       /\ authorityKey' = IF Rebinds(epoch, leader) THEN k ELSE authorityKey
       /\ loop' = None
       /\ UNCHANGED <<epochSeen, authorityLeader, handover, plan>>

\* negotiate_proto raises, or the connection spoke v1 or as another node: CLOSE.
HelloRefused(conn, m) ==
    \/ conn.v1
    \/ conn.node # None /\ conn.node # m.node
    \/ m.proto < (IF Legacy THEN 1 ELSE 2)
    \/ conn.proto # None /\ conn.proto # m.proto

OnHello ==
    /\ loop # None /\ loop.at = "busy_read" /\ IsHello(loop.msg)
    /\ LET k == loop.conn
           m == loop.msg
       IN \/ /\ HelloRefused(conns[k], m)
             /\ loop' = None
             /\ UNCHANGED <<conns, authority, plan>>
          \/ /\ ~HelloRefused(conns[k], m)
             /\ conns' = [conns EXCEPT ![k] = [node |-> m.node, role |-> m.role, epoch |-> m.epoch,
                                               proto |-> m.proto, v1 |-> FALSE]]
             /\ \/ m.role = "leader" /\ TryAdopt(k, m.epoch, m.node)
                \/ /\ m.role # "leader"
                   /\ Release(k)
                   /\ loop' = None
                   /\ UNCHANGED <<epochSeen, authorityLeader, handover, plan>>
    /\ UNCHANGED <<cache, current, executor, replies>>

\* _control for a heartbeat that may adopt.  Any other heartbeat or clock only
\* feeds the watchdog and leaves this state alone.
OnHeartbeat ==
    /\ loop # None /\ loop.at = "busy_read" /\ ~IsHello(loop.msg)
    /\ LET k == loop.conn
           m == loop.msg
       IN \/ /\ m.leader = conns[k].node /\ conns[k].role = "leader" /\ m.epoch = conns[k].epoch
             /\ TryAdopt(k, m.epoch, m.leader)
          \/ /\ ~(m.leader = conns[k].node /\ conns[k].role = "leader" /\ m.epoch = conns[k].epoch)
             /\ loop' = None
             /\ UNCHANGED <<authority, plan>>
    /\ UNCHANGED <<conns, cache, current, executor, replies>>

\* Mutant: the executor keeps its plan.
InvalidatePlanSkipped ==
    /\ loop = Adopted
    /\ loop' = None
    /\ UNCHANGED <<conns, authority, plan, cache, current, executor, replies>>

\* The post action of an adoption, run after the lock is released.
InvalidatePlan ==
    /\ loop = Adopted
    /\ execPlan' = None /\ loop' = None
    /\ UNCHANGED <<conns, authority, plan, cache, current, flying, exec, replies>>

----------------------------------------------------------------------------
(* The other messages (event loop).                                        *)

\* _before_hello: a fleet message before any hello makes this a v1 link.
BeforeHello(k) ==
    /\ loop = None /\ conns[k] # None /\ conns[k].proto = None /\ ~conns[k].v1
    /\ conns' = [conns EXCEPT ![k].v1 = TRUE]
    /\ UNCHANGED <<authority, plan, cache, current, loop, executor, replies>>

\* _landing: obeyed from any connection, a closed one included.
Landing ==
    /\ loop = None
    /\ plan' = None
    /\ UNCHANGED <<conns, authority, cache, current, loop, executor, replies>>

Current(k, m) == k = authorityKey /\ m.epoch = epochSeen /\ m.leader = authorityLeader
Obeyed(k, m)  == Current(k, m) /\ m.leader = conns[k].node
PlanMatches(m) == plan # None /\ plan.epoch = epochSeen /\ plan.id = m.plan
Accepted(k, m) ==
    /\ Obeyed(k, m) /\ m.type # "handover"
    /\ m.type \in PlanBoundTypes => PlanMatches(m)
    /\ m.type \in Supported

Cached(c) == \E i \in DOMAIN cache : cache[i].cmd = c

\* _remember, for a cmd_id that is not cached: the oldest entry goes first.
Remember(m, planId, reply) ==
    LET longer == Append(cache, [cmd |-> m.cmd, type |-> m.type, epoch |-> m.epoch,
                                 plan |-> planId, reply |-> reply])
    IN cache' = IF Len(longer) > CacheSize THEN Tail(longer) ELSE longer

\* Mutant: duplicates are not looked for.
NewCommandAlways(k, m) == loop = None /\ conns[k] # None /\ conns[k].proto # None

\* A connection that has said hello sends a command the cache does not know.
NewCommand(k, m) == loop = None /\ conns[k] # None /\ conns[k].proto # None /\ ~Cached(m.cmd)

AcceptCommand(k, m) ==
    /\ NewCommand(k, m) /\ Accepted(k, m)
    /\ Remember(m, m.plan, None)
    /\ UNCHANGED <<conns, authority, plan, current, loop, executor, replies>>

\* _handover_command: a v1 link cannot carry the ack, and nothing is cached.
HandoverCommand(k, m) ==
    /\ NewCommand(k, m) /\ Obeyed(k, m) /\ m.type = "handover"
    /\ handover' = [to |-> m.to, next |-> m.next, from |-> m.epoch]
    /\ IF conns[k].proto = 2 THEN Remember(m, None, "ack") ELSE UNCHANGED cache
    /\ UNCHANGED <<conns, epochSeen, authorityLeader, authorityKey, plan, current, loop,
                   executor, replies>>

\* _refuse: only the authority's refusals are remembered, with the nack when
\* the link can carry one.  A refusal of anybody else leaves no trace.
RefuseCommand(k, m) ==
    /\ NewCommand(k, m) /\ k = authorityKey
    /\ ~Accepted(k, m) /\ ~(Obeyed(k, m) /\ m.type = "handover")
    /\ Remember(m, None, IF conns[k].proto = 2 THEN "nack" ELSE None)
    /\ UNCHANGED <<conns, authority, plan, current, loop, executor, replies>>

----------------------------------------------------------------------------
(* The consumer thread.                                                    *)

\* handle_assign_lanes answers before it returns, so before the next recv.
HandlerReturned == ~(Dispatching /\ current.type = "assign_lanes" /\ current \in owed)

\* The start of every begin_dispatch: the last dispatch ends, and a sample
\* under way will see the generation moved.
EndDispatch ==
    /\ HandlerReturned
    /\ loop' = IF Dispatching /\ loop \in Loop THEN [loop EXCEPT !.moved = TRUE] ELSE loop

\* begin_dispatch(None), and begin_dispatch of anything but a motion command.
DispatchNothing ==
    /\ Dispatching
    /\ EndDispatch
    /\ current' = None
    /\ UNCHANGED <<conns, authority, plan, cache, executor, replies>>

\* Mutant: the epoch is not checked again.
StaleLinkOnly(m, admitted) == m.type \notin StopTypes /\ authorityKey = None

\* admitted is the (epoch, leader) under which the command was accepted.
Stale(m, admitted) ==
    \/ admitted # <<epochSeen, authorityLeader>>
    \/ m.type \notin StopTypes /\ authorityKey = None

BeginDispatch(m, admitted) ==
    /\ m.type # "handover" /\ ~Stale(m, admitted)
    /\ EndDispatch
    /\ current' = m
    /\ owed' = owed \cup {m} /\ begun' = begun \ {m}
    /\ UNCHANGED <<conns, authority, plan, cache, executor>>

\* _drop_at_dispatch: the nack becomes the cached reply.
DropAtDispatch(m, admitted) ==
    /\ m.type # "handover" /\ Stale(m, admitted)
    /\ EndDispatch
    /\ current' = None
    /\ cache' = [i \in DOMAIN cache |->
                    IF cache[i].cmd = m.cmd THEN [cache[i] EXCEPT !.reply = "nack"] ELSE cache[i]]
    /\ UNCHANGED <<conns, authority, plan, executor, replies>>

----------------------------------------------------------------------------
(* The executor, as far as the hooks and its replies show it.              *)

\* handle_assign_lanes stores the plan, and only then acknowledges it; a drone
\* hovering between its lanes is re-tasked at once.
ExecStorePlan ==
    /\ Dispatching /\ current \in owed \ begun /\ current.type = "assign_lanes"
    /\ exec # "landing"
    /\ execPlan' = [epoch |-> current.epoch, id |-> current.plan]
    /\ begun' = begun \cup {current}
    /\ exec' = exec \/ (flying /\ exec' = "sequence")
    /\ UNCHANGED <<conns, authority, plan, cache, current, loop, flying, owed>>

\* _launch, in the handler of the command being dispatched.
ExecLaunch ==
    /\ Dispatching /\ current \in owed \ begun /\ exec = "idle"
    /\ \/ current.type \in {"takeoff", "manual_takeoff"} /\ ~flying
       \/ current.type \in {"manual_move", "resume_search"} /\ flying
       \/ current.type = "start_at" /\ execPlan # None /\ execPlan.id = current.plan
    /\ exec' = "sequence"
    /\ begun' = begun \cup {current}
    /\ UNCHANGED <<conns, authority, plan, cache, current, loop, flying, execPlan, owed>>

\* _end_link_hold, on the monitor thread and with nothing dispatched: the link is
\* back and the plan a link hold stopped in the air goes on, unless it was
\* invalidated meanwhile.  Whether a hold had parked it, and whether the drone is
\* held or under a hand, is left open.
ExecEndLinkHold ==
    /\ exec = "idle" /\ flying /\ execPlan # None
    /\ exec' = "sequence"
    /\ UNCHANGED <<conns, authority, plan, cache, current, loop, flying, execPlan, replies>>

ExecTakeoff ==
    /\ exec = "sequence" /\ ~flying
    /\ flying' = TRUE
    /\ UNCHANGED <<conns, authority, plan, cache, current, loop, exec, execPlan, replies>>

\* A sequence ends and the drone hovers on, or is still on the ground.
ExecEnd ==
    /\ exec = "sequence" /\ exec' = "idle"
    /\ UNCHANGED <<conns, authority, plan, cache, current, loop, flying, execPlan, replies>>

\* land_now, by whatever thread: the plan is over.
ExecLand ==
    /\ exec # "landing"
    /\ exec' = "landing" /\ execPlan' = None
    /\ UNCHANGED <<conns, authority, plan, cache, current, loop, flying, replies>>

ExecLanded ==
    /\ exec = "landing" /\ exec' = "idle" /\ flying' = FALSE
    /\ UNCHANGED <<conns, authority, plan, cache, current, loop, execPlan, replies>>

\* outbound: the first reply of a command is cached, and the ack of a plan of
\* the epoch obeyed makes it the plan start_at and resume must name.
AcksPlan(m, e) == /\ e.cmd = m.cmd /\ e.type = m.type /\ m.type = "assign_lanes"
                  /\ e.epoch = epochSeen /\ e.plan # None

Outcome(m, reply) ==
    /\ m \in owed
    /\ m.type = "assign_lanes" => (reply = "ack" <=> m \in begun)
    /\ reply = "ack" => (m \in begun \/ m.type \in StopTypes)
    /\ owed' = owed \ {m} /\ begun' = begun \ {m}
    /\ cache' = [i \in DOMAIN cache |->
                    IF cache[i].cmd = m.cmd /\ cache[i].type = m.type /\ cache[i].reply = None
                    THEN [cache[i] EXCEPT !.reply = reply] ELSE cache[i]]
    /\ \/ \E i \in DOMAIN cache :
             /\ reply = "ack" /\ AcksPlan(m, cache[i])
             /\ plan' = [epoch |-> cache[i].epoch, id |-> cache[i].plan]
       \/ /\ \A i \in DOMAIN cache : ~(reply = "ack" /\ AcksPlan(m, cache[i]))
          /\ UNCHANGED plan
    /\ UNCHANGED <<conns, authority, current, loop, executor>>

----------------------------------------------------------------------------
LoopNext ==
    \/ \E k \in Conns :
          \/ Opened(k) \/ Closed(k) \/ BeforeHello(k)
          \/ \E m \in Hellos \cup Controls : Sample(k, m)
          \/ \E m \in Commands : AcceptCommand(k, m) \/ HandoverCommand(k, m) \/ RefuseCommand(k, m)
    \/ SampleBusy \/ OnHello \/ OnHeartbeat \/ InvalidatePlan \/ Landing

ExecNext ==
    \/ ExecStorePlan \/ ExecLaunch \/ ExecEndLinkHold
    \/ ExecTakeoff \/ ExecEnd \/ ExecLand \/ ExecLanded
    \/ \E m \in Commands, reply \in {"ack", "nack"} : Outcome(m, reply)

\* A command is accepted only when its fence is the authority, so the stamp of
\* a queued command is its own fence.
Stamp(m) == <<m.epoch, m.leader>>

\* The event loop accepts nothing of a new epoch before its post action ran.
Offered(m) == ~(loop = Adopted /\ m.epoch = epochSeen)

Next ==
    \/ LoopNext
    \/ ExecNext
    \/ DispatchNothing
    \/ \E m \in Commands : Offered(m) /\ (BeginDispatch(m, Stamp(m)) \/ DropAtDispatch(m, Stamp(m)))

Spec == Init /\ [][Next]_vars

\* A leading ground's heartbeats carry its node and the epoch of its hello.
Beats(k) ==
    \E m \in Controls :
        Sample(k, m) /\ conns[k].node = m.leader /\ conns[k].epoch = m.epoch

\* The event loop finishes the message it is deciding, and a ground that leads
\* sends its heartbeats for as long as it is connected; its reader gets its turn
\* on the loop however many other messages arrive.
Fairness ==
    /\ WF_vars(SampleBusy \/ OnHello \/ OnHeartbeat \/ InvalidatePlan)
    /\ \A k \in Conns : SF_vars(Beats(k))

FairSpec == Spec /\ Fairness

----------------------------------------------------------------------------
(* What the authority promises.                                            *)

\* The connection that holds the authority is open, agreed a version, and is
\* the obeyed leader's: a standby's hello, a close or a reopening of it never
\* leaves the key behind (closed, _hello).
AuthorityIsLeader ==
    authorityKey # None =>
        /\ conns[authorityKey] # None
        /\ conns[authorityKey].proto # None /\ ~conns[authorityKey].v1
        /\ conns[authorityKey].role = "leader"
        /\ conns[authorityKey].node = authorityLeader

\* Whatever one epoch's authority left behind dies with it: the plan, the
\* announced handover and, once the post action has run, the executor's valid
\* plan are of the epoch obeyed (_try_adopt, _complete_reply, invalidate_plan).
NothingOutlivesItsEpoch ==
    /\ plan # None => plan.epoch = epochSeen
    /\ handover # None => handover.from = epochSeen
    /\ ~InflightHandover /\ execPlan # None /\ execPlan.epoch # epochSeen => loop = Adopted

\* The epoch obeyed never decreases, and within an epoch the first leader wins:
\* the edge never changes leader at the same epoch (_try_adopt).
OneLeaderPerEpoch ==
    [][/\ epochSeen' >= epochSeen
       /\ authorityLeader' # authorityLeader => epochSeen' > epochSeen]_vars

\* No connection takes the authority from a live one without a higher epoch: a
\* second connection of the same leader waits until the first is gone.
NoStolenAuthority ==
    [][authorityKey # None /\ authorityKey' # None /\ authorityKey' # authorityKey
          => epochSeen' > epochSeen]_vars

\* A drone that flies, or that a sequence may yet take off, changes authority
\* only by a handover its authority announced, and only where the deployment
\* allows one in flight (on_message, the sample and the dispatch generation).
AdoptsOnlyGrounded ==
    [][epochSeen' # epochSeen /\ (flying \/ exec = "sequence" \/ Dispatching)
          => InflightHandover /\ Announced(epochSeen', authorityLeader')]_vars

\* The command being dispatched is of the epoch obeyed, and so is the plan it starts.
Commanded ==
    /\ Dispatching /\ current.epoch = epochSeen /\ current.leader = authorityLeader
    /\ current.type = "start_at" => execPlan.epoch = epochSeen

\* The plan in the air is of the epoch obeyed, or one whose adoption was torn.
Continued ==
    /\ execPlan # None
    /\ AtomicProbe \/ loop # Adopted => execPlan.epoch = epochSeen

\* A flight sequence is launched by a command of the epoch obeyed at that moment,
\* a start_at only for a plan of that epoch, however long the command waited in the
\* queue; or with no command at all by the end of a link hold, which only continues a
\* plan of that epoch (begin_dispatch, _dispatching, _end_link_hold, invalidate_plan).
\* Between an adoption and its post action the old plan is still valid; it is not
\* continued then, because the drone is grounded, unless is_active's two reads were torn.
LaunchesUnderAuthority ==
    [][~InflightHandover /\ exec = "idle" /\ exec' = "sequence"
          => IF begun' # begun THEN Commanded ELSE Continued]_vars

\* The whole authority, seen from the drone: flights belong to leader epochs.
Flight == INSTANCE FencedFlight WITH
    Leaders <- Nodes, InFlight <- InflightHandover, Nobody <- None,
    epoch <- epochSeen, leader <- authorityLeader,
    pilot <- IF flying \/ exec = "sequence" THEN epochSeen ELSE None

ImplementsFencedFlight == Flight!Spec

\* A connected leader heartbeats an epoch the edge could take: a higher one
\* while nothing flies or is being dispatched, or its own while no connection
\* holds the authority.
Standing(k, m) ==
    /\ conns[k] # None /\ conns[k].role = "leader" /\ conns[k].node = m.leader
    /\ m.type = "heartbeat" /\ m.epoch = conns[k].epoch
    /\ \/ /\ m.epoch > epochSeen /\ m.epoch <= MaxUnannounced
          /\ ~flying /\ exec = "idle" /\ ~Dispatching
       \/ m.epoch = epochSeen /\ m.leader = authorityLeader /\ authorityKey = None

\* Nobody waits for ever: a leader whose hello came while the drone was busy,
\* or whose old connection was still up, is obeyed by its heartbeats once the
\* reason is gone (_control).
StandingLeaderObeyed == \A k \in Conns, m \in Controls : []<>~Standing(k, m)

=============================================================================

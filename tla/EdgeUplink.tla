------------------------------ MODULE EdgeUplink ------------------------------
(***************************************************************************)
(* flightrisk/edge_uplink.py around EdgeAuthority: the connections to all  *)
(* grounds, the inbox between the event loop and the consumer thread, and  *)
(* recv().  Accepted commands wait in the inbox with the authority they    *)
(* were accepted under; an emergency landing jumps the queue and discards  *)
(* the motion it supersedes.                                               *)
(***************************************************************************)
EXTENDS EdgeAuthority, FiniteSets

CONSTANT MaxInbox      \* bound of the model: landings queue only below it

\* transport.py: what an emergency_land_all discards from the inbox.
SupersededByEmergency == {"takeoff", "start_at", "resume", "nudge",
                          "manual_move", "manual_takeoff", "resume_search"}

VARIABLES
    inbox,             \* _inbox, oldest first
    held,              \* the item recv() has taken but not begun to dispatch
    closing,           \* _closing: connections refused and being closed
    \* History, for the properties.
    handed,            \* how often each cmd_id was handed to the executor
    condemned          \* cmd_ids an emergency found waiting in the inbox

uplink == <<inbox, held, closing>>
history == <<handed, condemned>>
uplinkVars == <<vars, uplink, history>>

Item == [kind : {"land", "emergency_land_all", "command"}, msg : Commands \cup {None},
         admitted : (Nat \X (Nodes \cup {None})) \cup {None}]
Landed(kind) == [kind |-> kind, msg |-> None, admitted |-> None]

UplinkTypeOK ==
    /\ TypeOK
    /\ inbox \in Seq(Item) /\ held \in Item \cup {None} /\ closing \subseteq Conns
    /\ handed \in [CmdIds -> Nat] /\ condemned \subseteq CmdIds

UplinkInit ==
    /\ Init
    /\ inbox = <<>> /\ held = None /\ closing = {}
    /\ handed = [c \in CmdIds |-> 0] /\ condemned = {}

----------------------------------------------------------------------------
(* The event loop.                                                         *)

LinkOpened(k) ==
    /\ conns[k] = None /\ Opened(k)
    /\ UNCHANGED <<uplink, history>>

LinkClosed(k) ==
    /\ Closed(k)
    /\ closing' = closing \ {k}
    /\ UNCHANGED <<inbox, held, history>>

\* _on_frame drops everything but a landing from a connection being closed.
SampleFrame(k, m) == k \notin closing /\ Sample(k, m) /\ UNCHANGED <<uplink, history>>

\* _refuse_link marks the connection before its close handshake begins.
DecideHello ==
    /\ OnHello
    /\ closing' = IF HelloRefused(conns[loop.conn], loop.msg) THEN closing \cup {loop.conn} ELSE closing
    /\ UNCHANGED <<inbox, held, history>>

FrameBeforeHello(k) ==
    /\ k \notin closing /\ BeforeHello(k)
    /\ closing' = IF Legacy THEN closing ELSE closing \cup {k}
    /\ UNCHANGED <<inbox, held, history>>

FinishFrame == (SampleBusy \/ OnHeartbeat \/ InvalidatePlan) /\ UNCHANGED <<uplink, history>>

\* The authority a command is accepted under.
AdmittedSwapped == <<authorityLeader, epochSeen>>    \* mutant: the wrong order
Admitted == <<epochSeen, authorityLeader>>

\* _accept and _enqueue.
CommandFrame(k, m) ==
    /\ k \notin closing
    /\ \/ /\ AcceptCommand(k, m)
          /\ inbox' = Append(inbox, [kind |-> "command", msg |-> m, admitted |-> Admitted])
       \/ /\ HandoverCommand(k, m) \/ RefuseCommand(k, m)
          /\ UNCHANGED inbox
    /\ UNCHANGED <<held, closing, history>>

\* _land: a land waits its turn.
LandFrame ==
    /\ Landing
    /\ Len(inbox) < MaxInbox
    /\ inbox' = Append(inbox, Landed("land"))
    /\ UNCHANGED <<held, closing, history>>

IsSuperseded(item) == item.kind = "command" /\ item.msg.type \in SupersededByEmergency

\* Mutant: nothing is discarded.
JumpOnly == <<Landed("emergency_land_all")>> \o inbox

\* What an emergency landing leaves of the first n items.
Staying[n \in 0..Len(inbox)] ==
    IF n = 0 THEN <<>>
    ELSE IF IsSuperseded(inbox[n]) THEN Staying[n - 1] ELSE Append(Staying[n - 1], inbox[n])

\* _land: an emergency landing goes first, and what it supersedes is discarded.
JumpQueue == <<Landed("emergency_land_all")>> \o Staying[Len(inbox)]

EmergencyFrame ==
    /\ Landing
    /\ Len(inbox) < MaxInbox
    /\ inbox' = JumpQueue
    /\ condemned' = condemned \cup {inbox[i].msg.cmd : i \in {j \in DOMAIN inbox : IsSuperseded(inbox[j])}}
    /\ UNCHANGED <<held, closing, handed>>

----------------------------------------------------------------------------
(* The consumer thread: recv() and the handler of what it returns.         *)

\* recv() begins with begin_dispatch(None).
RecvBegins == held = None /\ DispatchNothing /\ UNCHANGED <<uplink, history>>

RecvTakes ==
    /\ held = None /\ ~Dispatching /\ inbox # <<>>
    /\ held' = Head(inbox) /\ inbox' = Tail(inbox)
    /\ UNCHANGED <<vars, closing, history>>

\* Mutant: the authority is read when the command is handed out.
HandOutRestamped ==
    /\ held # None /\ held.kind = "command"
    /\ held' = None
    /\ \/ /\ BeginDispatch(held.msg, Admitted)
          /\ handed' = [handed EXCEPT ![held.msg.cmd] = @ + 1]
       \/ /\ DropAtDispatch(held.msg, Admitted)
          /\ UNCHANGED handed
    /\ UNCHANGED <<inbox, closing, condemned>>

\* recv() goes on to begin_dispatch with what it took.
HandOutCommand ==
    /\ held # None /\ held.kind = "command"
    /\ held' = None
    /\ \/ /\ BeginDispatch(held.msg, held.admitted)
          /\ handed' = [handed EXCEPT ![held.msg.cmd] = @ + 1]
       \/ /\ DropAtDispatch(held.msg, held.admitted)
          /\ UNCHANGED handed
    /\ UNCHANGED <<inbox, closing, condemned>>

\* Mutant: a landing is checked like a command.
HandOutLandingFenced ==
    /\ held # None /\ held.kind # "command"
    /\ held' = None
    /\ IF authorityKey = None THEN UNCHANGED vars
                              ELSE ExecLand \/ (exec = "landing" /\ UNCHANGED vars)
    /\ UNCHANGED <<inbox, closing, history>>

\* begin_dispatch always passes a landing, and the handler calls land_now.
HandOutLanding ==
    /\ held # None /\ held.kind # "command"
    /\ held' = None
    /\ ExecLand \/ (exec = "landing" /\ UNCHANGED vars)
    /\ UNCHANGED <<inbox, closing, history>>

ExecutorStep == ExecNext /\ UNCHANGED <<uplink, history>>

UplinkNext ==
    \/ \E k \in Conns :
          \/ LinkOpened(k) \/ LinkClosed(k) \/ FrameBeforeHello(k)
          \/ \E m \in Hellos \cup Controls : SampleFrame(k, m)
          \/ \E m \in Commands : CommandFrame(k, m)
    \/ DecideHello \/ FinishFrame \/ LandFrame \/ EmergencyFrame
    \/ RecvBegins \/ RecvTakes \/ HandOutCommand \/ HandOutLanding
    \/ ExecutorStep

UplinkSpec == UplinkInit /\ [][UplinkNext]_uplinkVars

Answer(m) == (\E reply \in {"ack", "nack"} : Outcome(m, reply)) /\ UNCHANGED <<uplink, history>>

\* The consumer thread keeps calling recv(), and the executor answers every
\* command it was handed: at once for a plan, else when its sequence ends.
ConsumerFairness ==
    /\ WF_uplinkVars(RecvBegins) /\ WF_uplinkVars(RecvTakes)
    /\ WF_uplinkVars(HandOutCommand) /\ WF_uplinkVars(HandOutLanding)
    /\ \A m \in Commands : WF_uplinkVars(Answer(m))

FairUplinkSpec == UplinkSpec /\ ConsumerFairness

----------------------------------------------------------------------------
(* What the uplink promises.                                               *)

\* While its cmd_id is remembered, no command reaches the executor twice: not
\* by a resend, not over another connection, not after a change of authority
\* (the cache, the inbox and recv together).
AtMostOnce == Cardinality(CmdIds) <= CacheSize => \A c \in CmdIds : handed[c] <= 1

\* A motion command that was waiting when an emergency landing came never
\* reaches the executor, even if the ground sends it again (_land).
EmergencySticks == Cardinality(CmdIds) <= CacheSize => \A c \in condemned : handed[c] = 0

\* With its queue in place of the arbitrary one, the uplink is the authority's
\* environment: every step is a step of EdgeAuthority.
ImplementsAuthority == Spec

\* A landing that reached the inbox reaches the executor, whatever is queued
\* before it and whoever holds the authority (recv, begin_dispatch).
LandingWaiting == \E i \in DOMAIN inbox : inbox[i].kind # "command"
LandingExecuted == LandingWaiting ~> exec = "landing"

\* docs/fleet-protocol-v2.md:278: every fenced command is answered with an ack
\* or a nack.
Unanswered(c) == \E i \in DOMAIN cache : cache[i].cmd = c /\ cache[i].reply = None
EveryCommandAnswered == \A c \in CmdIds : Unanswered(c) ~> ~Unanswered(c)

=============================================================================

# flightRisk in TLA+

flightRisk flies one or more drones from a ground station. A ground detects
people in their video, plans search lanes, and commands an *edge* (a small
computer beside each drone) over WebSockets. This directory holds TLA+ models of
the parts that decide **who may move a drone**, **what moves it**, **what brings it
down**, and **who flies which lanes**, the TLC
configurations that check them on small instances, and machine-checked proofs
that every safety property the runs check holds for every value of the constants.
Paths below are relative to `src/flightrisk/` unless they
start with `docs/`.

Contents: [the system](#the-system), [modules](#modules),
[runs](#runs), [fairness](#fairness), [proofs](#proofs),
[what the checks found](#what-the-checks-found), [limits](#limits-of-the-models),
[plan](#plan).

## The system

```
 ground station                                   edge (one per drone)
 dashboard -- alert latch, recovery               EdgeUplink  (event loop thread)
     |                                              | on_message
 coordinator -- lanes, re-tasks                   EdgeAuthority (lock)
     |                                              | inbox, recv(), begin_dispatch
 ground links, command tracker, outbox            consumer thread -> LaneExecutor handlers
     |                                              | _launch          ^ hooks, callbacks
     +------------- WebSocket, v1/v2 ---------------+ worker thread, monitor thread
                                                    | drone.takeoff/move/land
                                                  Tello / MAVLink controller
```

The [plan](#plan) says which components are modelled and which come next.

| component | state it keeps | operations | hard behaviour | what makes it correct |
|---|---|---|---|---|
| edge authority, `fleet_authority.py` | connections, epoch, leader, key, announced handover, plan, cmd_id table, dispatch in progress | `opened`, `closed`, `on_message`, `begin_dispatch`, `outbound` | three threads; activity is sampled outside the lock; queued commands outlive epochs | one leader per epoch; no epoch taken in flight unannounced; no command runs under a later epoch |
| edge uplink, `edge_uplink.py` | links, inbox, closing connections | `_on_frame`, `_accept`, `_land`, `recv` | the event loop changes the inbox while `recv` waits | nothing runs twice; landings overtake, are never lost and void what they overtake |
| lane executor, `drone/lane_*.py` | slot, abort flag, hold, plan, landing record, hover countdown | handlers, `_launch`, `_run_sequence`, `land_now`, `tick` | worker, monitor, consumer and callback threads; landing without the lock | no takeoff under a landing; landings are retried until the drone is down; holds stick |
| Tello controller, `drone/tello.py` | command channel, lands in progress, takeoff guards, flight flag, post-land watch | `takeoff`, `land`, moves, keepalive, stream commands, state poller | replies that are late, lost, or another's; a takeoff that lifts after the land; state packets that stop | a confirmed land is down; nothing disturbs the drone's own landing timer; who flies is marked flying |
| manual control on the edge, `drone/lane_manual.py` | hold point, return target, dead-man timer, link hold | manual hold, move, takeoff, resume search | four ways to stop the same sequence | nothing autonomous begins under a hold; the search goes on where it stopped |
| manual control on the ground, `dashboard/manual_control.py` | controller, pending commands, orphan countdowns, send queue | take, release, command, replies, telemetry, disconnect | timeouts against late answers; telemetry older than the command | shown control is real control; a drone without a controller is landed |
| command cache, `drone/command_cache.py` | replies by cmd_id | look up, store | eviction against resends | no double execution behind a v1 ground |
| protocol, `fleet_protocol/` | none | build, validate, `negotiate_proto` | versions | a link keeps the version it agreed |
| link outbox, `link_outbox.py` | priority queues | `put`, writer | full queues, stuck sockets | urgent messages overtake; one dead link does not stall others |
| ground links, `fleet_ground_link.py` | identity, links, pending commands | hello, track, resolve, supersede | replies against retries; identity changes during a send | a command resolves once; each link learns the current epoch |
| coordinator, `drone/coordinator.py` | drones, lanes, offers, re-tasks | acks, telemetry, lost links, offers | late acks of earlier plans, refusals, failed sends | lanes of a lost drone are neither lost nor flown twice |
| alert latch and recovery, `dashboard/` | the one open alert, confirm steps | open, confirm, dismiss | several detector threads | one alert at a time; a confirmed one recovers once |
| transport, `transport.py` | sockets | `send`, `recv` | reconnects | order; what an emergency supersedes |
| edge device loop, launcher, bridge, application | processes, tasks | start, stop, restart | restarts | no orphan process; control errors land |
| safety, patterns, vision, reasoning, storage, evaluation, phone clients | geometry, models, files | pure data or I/O | none that a model checker reaches | outside these models |

`PROJECT.json` lists every component with its status and the reason, and the
hazards of the code line by line, each with the properties that watch it.

## Modules

| module | role |
|---|---|
| `FencedFlight` | abstract: epochs grow, each has one leader, every flight belongs to the epoch it is flown under |
| `EdgeAuthority` | `fleet_authority.py`; implements `FencedFlight` |
| `EdgeAuthority_proofs` | theorems about `EdgeAuthority` |
| `EdgeUplink` | `edge_uplink.py` composed with `EdgeAuthority`; implements it |
| `EdgeUplink_proofs`, `LaneExecutor_proofs`, `TelloLanding_proofs`, `LaneManual_proofs`, `ManualControl_proofs`, `Coordinator_proofs` | theorems about the module each is named after |
| `SetInduction` | lemmas: induction over the natural numbers with sets, and what `FlattenSeq` returns |
| `LaneExecutor` | `drone/lane_executor.py` and its mixins, with the drone below |
| `TelloLanding` | `drone/tello.py`: the command channel, and a landing over it |
| `EdgeControl` | abstract: what an edge promises the ground of manual control |
| `LaneManual` | `drone/lane_manual.py` with the holds of the leader and of a lost link; implements `EdgeControl` |
| `ManualControl` | `dashboard/manual_control.py`, the link, and an edge that keeps `EdgeControl` |
| `Coordinator` | `drone/coordinator.py` as `dashboard/app.py` drives it: plans, starts, re-tasks |
| `MCEdgeAuthority`, `MCEdgeUplink`, `MCLaneExecutor`, `MCTelloLanding`, `MCLaneManual`, `MCManualControl`, `MCCoordinator` | instances for TLC |

### EdgeAuthority

`conns[k]` is the record `_Conn` of an open socket; `epochSeen`,
`authorityLeader`, `authorityKey`, `handover`, `plan`, `cache` and `current` are
the fields of the same name. Each critical section of the authority's lock is
one action, and what happens outside it is split off:

* `on_message` samples the executor (`is_active`) and the dispatch generation
  *before* it takes the lock. `loop` records where the event loop stands:
  `Sample` (flight state read), `SampleBusy` (busy read under the executor's
  lock), `OnHello`/`OnHeartbeat` (the decision), `InvalidatePlan` (the hook that
  runs after an adoption, outside the lock). The generation is only ever compared
  for equality, so it is the Boolean `loop.moved`.
* `begin_dispatch` is `DispatchNothing`, `BeginDispatch` or `DropAtDispatch`; each
  ends the previous dispatch, and none begins before the handler of an
  `assign_lanes` has answered (`HandlerReturned`).
* `Outcome` is `outbound` and `_complete_reply`: the first reply of a command is
  cached, and the ack of a plan binds the authority to it.
* The executor appears as its hooks and replies show it (`flying`, `exec`,
  `execPlan`, `owed`, `begun`): the thread that flies, and a landing of any
  thread. It launches in two ways: in the handler of the command being dispatched
  (`ExecLaunch`, `ExecStorePlan`), and on the monitor thread with nothing dispatched, when the
  link is back and the lanes a link hold stopped go on (`ExecEndLinkHold`). Of the second the model keeps only
  what the authority can influence, the drone in the air and a valid plan: whether a link hold had parked the lanes, and whether
  a hold or an operator has the drone by now, is left open, so it may launch more often than the code.

The environment is as liberal as the code: any connection may send any message
of the alphabets, and `begin_dispatch` may be offered any fenced command at any
time, with the stamp its acceptance gave it. A theorem about
`EdgeAuthority` therefore does not depend on the queue.

### EdgeUplink

Adds `inbox`, `held` (the item between `recv`'s wait and its hand-out) and
`closing`, and the history variables `handed` and `condemned`. Every action
conjoins an `EdgeAuthority` action with its effect on the queue:
`CommandFrame` appends an accepted command with the authority it was accepted
under, `EmergencyFrame` filters the inbox by `SupersededByEmergency` and puts
itself first, `HandOutCommand` hands out what `begin_dispatch` passes.
`ImplementsAuthority` checks that the composition is an instance of the
arbitrary environment of `EdgeAuthority`, so what is proved there holds here.

### LaneExecutor

The lock's critical sections and the drone calls are the actions, four kinds of
threads interleave:

* the **worker** flies one sequence: `worker.kind` is `_active_kind`, `worker.at`
  the place in `_run_sequence`, `_do_takeoff`, `_fly_plan`, `_climb_to_slot` or
  `_run_nudge`. `Release` frees the slot (`_release_active`);
* **land_now** by any thread is the chain `counted`, `aborted`, `owner` or
  `follower`, `landing`, `landed` of `lander[thread]`: the count and the flag come
  before the lock, `drone.land()` after it. A landing a hold may stop
  (`only_if`) is neither announced nor counted: `RecordUnannounced` records it, and its
  `drone.land()` is a step of its own (`uncounted`), with everything that may come in between.
  `record` is a history variable: whether the landing recorded last was announced or conditional, or was
  confirmed and then disproved by a flying drone;
* the **monitor** samples the flight state (`TickSample`), decides under the lock
  (`TickLocked`) and acts after it (`MonitorLands`, `MonitorEndsHover`);
* the **consumer** runs one handler at a time, each one critical section.

`parked` is `_held` and `_parked` together. A plan is how many moves are `left` and
its `on_complete`; a new plan carries the progress (and a move in flight)
or starts over. `flying` is `drone.state.is_flying`; `lift` a takeoff that was
sent and may still raise the drone; `landing` what the controller believes of
its last land. Battery, height, geofence, ceiling and clock are nondeterministic:
what they forbid may be refused, what they demand may happen at any tick.

### TelloLanding

What `LaneExecutor` takes for granted of `drone.land()`, from the code below it.
`channel` is `_cmd_lock`; each section under `_wire_lock` is one action. Five
kinds of threads meet: the **flier** (`takeoff`, `move`, `rotate`), any number of
**landers** (`land` and `_confirm_land`: `BeginLand`, `TryChannel`, `SeekChannel`,
`SendLand`, `Answered`, `Watch`), the **keepalive** and the **stream recovery**
(`short` is where the one on the channel stands), and the **poller**
(`_check_zero_height` and `_guard_flight_after_land`, whose look and whose mark
are two steps, as in the code).

The Tello's answers carry no name: `reply` in `Answered` is any of "ok", "error" or
none, at any time, and `TakeoffOk` may read another command's "ok". Only the takeoff's own "ok"
is followed (`answer`), because the code reasons about it. `age` is the time since
the last takeoff, in the two spans the code measures: while it is `young` the drone
may still lift, until it is `old` its answer may still come. That the drone keeps to
these spans, and that an answer is read before its span ends if anyone reads, is an
assumption (`Aging`); it is what the comment at `drone/tello.py:185` assumes. State
packets are true, but pause (`gap`) or stop (`lost`). `basis` remembers what the
flight flag was last cleared upon, so that a property can say which evidence may be wrong.

### LaneManual and EdgeControl

A handler is one critical section; the worker claims a move under the lock, flies it
without, and takes the lock again (`ClaimMove`, then `LaneFlown`, `ReturnFlown`,
`StepFlown` or `MoveNotExecuted`; or the sequence lands, `SequenceFails`). A return that is over clears its
target in one section of the lock (`ReturnOver`) and begins the plan in the next (`BeginPlan`). `manual` is `_manual` (its `capture` is `capture_pending`), `target` is
`_resume_target`, `link` is `_link_holding` and `_link_parked`, `held` and `parked` the leader's
hold. Places are what the properties need of positions: the number of plan moves
that lead there, or `Away`. A return is `back` moves of the way home.

`EdgeControl` says what the other end may rely on: a taken drone stays taken through
takeoffs, landings and failed sequences until it is given back outside a landing or
gets a new plan on the ground. `manual_edge` checks that `LaneManual`
implements it (`ControlPromise`), and `ManualControl` has `EdgeControl` as its edge, so the two
halves are composed through the promise and neither drags the other's states along.

### ManualControl

One drone ("this") and the rest of the fleet ("other"). The socket handler decides
under the lock and queues afterwards (`handler`); the sender thread takes a command
out (`hand`) and sends it; `dispatcher` and `monitor` are the places where `on_reply`
and `check_orphans` stand between two sections of the lock. `down`, `up` and `tele` are the link:
commands and answers each in order, telemetry apart from the answers, so one
may overtake the other; commands and answers may be lost. A *hold* of `take_control` and a *hover* are the same message
to the edge and pend alike (`Holds`), but only the first starts the release grace (`recent`; it is looked at, and kept, only while the drone is controlled). The grace and the time-outs run
whatever is still on its way; `overtaken` is a history variable that says the last grace did not suffice (`Timely`) or
did not exist (`HoverTakes`). `orphan` is the countdown of
a drone whose controller is gone.

### Coordinator

`book` is what the lock guards: the lanes of each drone, who acked, the open offer of each drone,
losses, and the chunks of re-tasked lanes. The critical sections are pure
functions from book to book (`Dispatched`, `Withdrawn`, `Collected`, `Accepted`);
the actions say who runs them and what is left to send (`unsent`) after the lock is
released. The **mission** thread plans, starts and handles losses; `LandAll` takes no lock;
each link delivers answers with its own thread. An offer may be sent, fail, or reach the edge although the
send failed by time-out (`OfferLate`; bound: once, in the first re-task). The edge accepts, refuses, or refuses for
now. Which drone receives a chunk, and where a chunk is cut, is any choice the code's filters leave.

## Runs

Bounds are named in the cfg files: `Conns`, `Nodes`, `CmdIds`, `Hellos`,
`Controls`, `Commands` (the alphabets of an instance), `CacheSize`,
`MaxUnannounced`, `MaxInbox`, `MaxMoves`, `ReturnMoves`, `Callers`, `Landers`, `MaxClicks`, `MaxPlans`,
`MaxTurns`. Deadlock is checked except in `coord_retask`, `manual_edge` and
`manual_ground`, where the system may come to rest: a mission is over, or the
operators have clicked as often as the bound lets them.

| run | instance | shows | distinct states |
|---|---|---|---|
| `authority_epochs` | two connections, grounds A and B, epoch 1 contested, B at 2 over v1, A standing by, a plan and its start, a cache of one; torn probe possible | `TypeOK`, `AuthorityIsLeader`, `NothingOutlivesItsEpoch`, `OneLeaderPerEpoch`, `NoStolenAuthority`, `LaunchesUnderAuthority` | 2.10 M |
| `authority_handover` | in-flight handover on; A flies at 1 and may hand over to B, which waits at 2 | `NothingOutlivesItsEpoch`; the announced ground takes a flying drone, nobody else does (`AdoptsOnlyGrounded`); `StandingLeaderObeyed` under `FairSpec` | 0.29 M |
| `authority_torn_probe` | a leader waits at 2 while a takeoff of 1 is busy; torn probe possible | violates `AdoptsOnlyGrounded`, see below | |
| `uplink_queue` | one connection, A at 1 then B at 2, a cmd_id reused by B, two items queued | `UplinkTypeOK`, `AtMostOnce`, `EmergencySticks`, `ImplementsAuthority`, `ImplementsFencedFlight`, and `LandingExecuted` under `FairUplinkSpec` | 0.44 M |
| `uplink_unanswered` | as above | violates `EveryCommandAnswered`, see below | |
| `executor_plans` | worker, monitor and a callback thread land; one move per plan; landings fail or are confirmed wrongly | `LaneTypeOK`, `NoTakeoffUnderLanding`, `TouchdownEndsPlan`, `HoldSticks`, `EndLandingUncontested` | 0.98 M |
| `executor_landing` | worker and monitor land; landings fail or are confirmed wrongly | `LandingLands` under `FairLaneSpec` | 0.16 M |
| `executor_flagged` | as above | violates `FlaggedFlightLanded`, see below | |
| `tello_landing` | two threads land, one flies, keepalive, stream commands and poller | `TelloTypeOK`, `AirborneIsMarked`, `LandReturnsDown`, `AutoLandUndisturbed` | 2.55 M |
| `manual_edge` | a plan of two moves, ways back of up to two | `ManualTypeOK`, `SearchContinues`, `HandsOff`, `ControlPromise`, and `SearchGoesOn` under `FairSpec` | 13,573 |
| `manual_ground` | two clicks (hover among them), a disconnect, LAND ALL, a lossy link | `ControlTypeOK`, `ReleaseIsReal`, and `ControlIsReal`, `UnattendedLands` under `FairSpec` | 0.20 M |
| `coord_retask` | three drones with a lane each, two plans, three plans and losses together | `CoordTypeOK`, `LanesConserved`, `AckedIsFlown`, `CoveredIsAccepted`, `LandAllIsLast`, and `RetaskReported` under `FairSpec` | 0.29 M |

Why the bounds are enough for what is claimed. Two connections are the least
with which a leader can meet a rival, its own second socket, or its own reopened
one; the three decisions that mention a key compare it with one other key or
with none. Two grounds and epochs 0..2 give a tie, a step up, and a step up that was
announced for another. That epochs above `MaxUnannounced` are only taken when
announced is one conjunct of `Adopts` and exercised by no run. The commands are one of
each class the fence tells apart: unbound motion (`takeoff`), plan-storing
(`assign_lanes`), plan-bound (`start_at`), and `handover`; types within a
class take the same branches. A cache smaller than the number of ids
(`authority_epochs`) makes evictions happen; `AtMostOnce` and
`EmergencySticks` are stated for ids the table still holds and run with a table that
holds them all. `MaxInbox` only delays landings, and two items suffice for an overtaking. One
move is the smallest plan with a loop iteration, a last move and a re-task from
empty. `Callers` adds a callback's thread to the two threads
that always may land. A landing of the consumer differs from it only in that no handler runs
meanwhile (`ControlFree`), so it does nothing the callback's does not, and three landings at once suffice for the
run. `executor_landing` has no further caller because fairness makes
the graph expensive, and repeats of the landing come from the monitor.

`tello_landing` has no bound besides two landers: a second land behind the first, or
after its failure, is what `_lands_in_progress` and `behind_land` are about, and the two are
interchangeable (`LanderSymmetry`; the run checks safety only). In `manual_edge` two moves let a
search stop before, between and after them, and a return of two moves be cut half way.
`manual_ground` needs a click that takes the drone and one that crosses it; what follows
(answers, telemetry, time-outs, countdowns, landings) is not counted. In `coord_retask` three drones are
the least for which lanes of a lost one go to two others, one of which is lost or refuses
in its turn; two plans let an answer to the first meet the second.

Mutants: for every property of a passing run `PROJECT.json` names a definition and
a plausible wrong version of it (marked "Mutant" in the modules) with which TLC finds
the property violated in the same cfg: an epoch check that admits ties, an activity sample
without the dispatch generation, an abort check that waits for the record of the
landing, a hold cleared by the sequence that ends, a reply that counts while a takeoff
may still be answered, an offer withdrawn in part, and so on.

## Fairness

* `EdgeAuthority!Fairness`: the event loop finishes the message it is deciding
  (weak fairness of the decision steps: asyncio runs a ready callback to its end,
  and the locks are only held for short sections). A leading ground sends heartbeats
  of its own epoch while connected (`SF` of `Beats`): other messages may arrive in between
  for ever, the loop still gets to each reader.
* `EdgeUplink!ConsumerFairness`: the consumer thread calls `recv` in a loop
  (`edge_device.py`) and the executor answers each command it was given, since
  every handler and every sequence ends with a reply. No fairness for frames or grounds.
* `LaneExecutor!LaneFairness`: threads run on and each drone call returns
  (every Tello command has a timeout). `SF` of `LandConfirmed`: a
  landing tried again and again succeeds at last; each attempt may fail. `SF` of
  `RetryTick`: the retry interval elapses again and again, so a monitor that finds a
  recorded landing still flying for ever does retry. Nothing obliges an operator or
  the drone itself to act.
* `LaneManual!FairSpec`: the worker runs on (each drone call returns), and a lost
  link comes back or lands the drone: `link_loss_land_s` is a deadline of the
  monitor's tick.
* `ManualControl!Fairness`: somebody acts while a handler, the sender, the dispatcher, the
  monitor, a clock or the edge has something to do (`WF` of `Work`; that each of them
  runs on implies it), the edge reports and the ground reads the reports, and
  a recorded landing touches down. `SF` of `SendOrphanLand`: a landing that is sent
  again and again gets through at last. The grace and the time-outs elapse at any moment after they began; nothing is
  assumed of how long a hold takes.
* `Coordinator!Fairness`: threads run on, messages arrive and are answered (`WF` of
  `ThreadStep`), and edges do not refuse every offer for now (`SF` of a decided offer: a
  landing or a takeoff that makes an edge busy ends). No fairness for the operator or for losses.
* `TelloLanding` states none: it is checked for safety, and that a land succeeds at last is
  `LaneExecutor`'s assumption.

## Proofs

Every invariant and every action property of the passing runs, and each refinement they check, is also a
theorem: TLC shows it on a small instance, TLAPS for all values of the constants
that satisfy the modules' assumptions. Liveness is left to TLC.

| module | theorem | states | rests on |
|---|---|---|---|
| `EdgeAuthority_proofs` | `Typed` | `[]TypeOK` | `TypeStep`, with `RememberType`, `RewriteType` for the table |
| | `KeyIsLeaders` | `[]AuthorityIsLeader` | `KeyInv` |
| | `EpochsStayApart` | `[]NothingOutlivesItsEpoch` | `EpochInv` |
| | `FirstLeaderWins` | `OneLeaderPerEpoch` | only an adoption changes epoch or leader |
| | `NobodyStealsAuthority` | `NoStolenAuthority` | `TypeOK` |
| | `LaunchedUnderAuthority` | `LaunchesUnderAuthority` | `EpochInv`, `AdoptedInv` |
| | `AdoptedOnTheGround` | `AtomicProbe => (Spec => AdoptsOnlyGrounded)` | `ProbeInv` |
| | `AuthorityImplementsFencedFlight` | `AtomicProbe => (Spec => ImplementsFencedFlight)` | `EpochInv`, `ProbeInv` |
| `EdgeUplink_proofs` | `UplinkTyped` | `[]UplinkTypeOK` | `UplinkInv` |
| | `UplinkImplementsAuthority` | `ImplementsAuthority` | `UplinkInv` |
| | `QueuedLaunchesUnderAuthority`, `QueuedFlightIsFenced` | `LaunchesUnderAuthority`, `AtomicProbe => (... ImplementsFencedFlight)` of the uplink | the theorem above and the authority's |
| | `HandedOutOnce` | `IsFiniteSet(CmdIds) => (... []AtMostOnce)` | `OnceInv`, `CacheInv` |
| | `EmergencyIsFinal` | `IsFiniteSet(CmdIds) => (... []EmergencySticks)` | `OnceInv`, `CacheInv` |
| `LaneExecutor_proofs` | `LaneTyped`, `HoldsStick` | `[]LaneTypeOK`, `HoldSticks` | the types |
| | `EndLandingsUncontested` | `[]EndLandingUncontested` | `EndInv`, `TouchdownInv` |
| | `NoTakeoffIntoLanding` | `NoTakeoffUnderLanding` | `AbortInv` |
| | `TouchdownsEndPlans` | `TouchdownEndsPlan` | `TouchdownInv` |
| `TelloLanding_proofs` | `TelloTyped` | `[]TelloTypeOK` | itself |
| | `TelloLandsByItself` | `AutoLandUndisturbed` | `ClearedInv` |
| | `AirborneMarked`, `LandsReturnDown` | `[]AirborneIsMarked`, `LandReturnsDown` | `TelloInv` |
| `LaneManual_proofs` | `ManualTyped`, `SearchGoesOnWhereItStopped`, `NothingFliesUnderAHand` | `[]ManualTypeOK`, `SearchContinues`, `HandsOff` | `Inv` |
| | `EdgeKeepsControl` | `ControlPromise` (implements `EdgeControl`) | `Inv` |
| `ManualControl_proofs` | `ControlIsTyped` | `[]ControlTypeOK` | `Counted` |
| | `ReleasesAreReal` | `ReleaseIsReal` | `GraceInv` |
| `Coordinator_proofs` | `LandAllComesLast` | `[]LandAllIsLast` | itself |
| | `CoordinatorTyped`, `NoLaneIsLost` | `[]CoordTypeOK`, `[]LanesConserved` | `BookInv`, `RestTyped` |
| | `AcksAreTrue`, `CoverIsReal` | `[]AckedIsFlown`, `[]CoveredIsAccepted` | `BookInv`, `StartInv`, `FlightInv` |

**Assumptions.** Each `ASSUME` stands in the module that declares its constants and is
evaluated by TLC in that module's runs. `AuthorityAssumption` says that messages are well formed
(`validate.py` enforces it), that a plan names its id and that the table holds at least one entry. The
others bound the bounds (a plan has a move, a drone has a lane) and keep values apart that the code
never mixes up: `None` is no record, thread or lane, `Transit` no planned lane, no drone is linked twice.

Five theorems have a hypothesis of their own.
* `AtomicProbe`: no takeoff completes between the two reads of `is_active`. Without it TLC refutes the properties
  (`authority_torn_probe`). `LaunchedUnderAuthority` needs no hypothesis; its property says itself what a torn probe leaves open.
* `IsFiniteSet(CmdIds)`: there are finitely many cmd_ids, for else the cardinality the two properties compare with the
  table's size says nothing.

**The inductive invariants**, and why the properties themselves do not suffice:

* `KeyInv`. That the key belongs to the leader survives a hello only because
  the connection being decided is still open and a connection that agreed
  a version never spoke v1; both are facts about `loop` and `conns` that
  `AuthorityIsLeader` does not mention.
* `EpochInv`. The executor's plan is of the current epoch because the dispatch
  that stores it is: while in-flight handover is off, whatever is being dispatched carries the
  fence of the authority obeyed *now* (an adoption is impossible during a dispatch),
  and the event loop accepts nothing of a new epoch before the hook that
  invalidates the plan has run.
* `ProbeInv`. A sample that read "inactive" and whose dispatch generation has not
  moved still describes the drone if nothing is being dispatched: only a dispatch
  can start a sequence, and one that began and ended since has moved the generation. This is the
  argument for reading the generation *before* the activity in `on_message`. `AdoptedInv` carries it on to the
  post action: until the old plan is invalidated the drone stays on the ground, so no link hold's end can continue that plan.
* `UplinkInv` adds to the types that a waiting command carries its own fence as its stamp, and that
  the fence is no newer than the authority and, while an adoption's hook has yet to run, older. That is
  what `EdgeAuthority` asks of a command `begin_dispatch` is offered, so the queue is an instance of its environment.
* `OnceInv`. A cmd_id is cached from its acceptance on, and is then in one place: the inbox once, or the
  consumer's hand, or handed out, or condemned by an emergency landing. A resend is refused because the id is cached; the table never
  evicts because it has room for all ids (`CacheInv`: it knows each once, so its length is a cardinality).
* `AbortInv`. The abort flag is set as long as any caller is between setting it and the end of its landing: `_launch`
  refuses to clear it while a landing is counted. `TouchdownInv` goes on from there: a claimed takeoff whose flag is
  clear has no landing behind it, a drone that may still lift has its takeoff unanswered or a landing at hand,
  and a landing recorded of it, unless it is disproved (`Standing`), has ended the plan. `UncountedInv` says where a landing stands
  that the count does not show (the slot is its own thread's, or nobody's). `EndInv` adds that such a landing keeps its record, and that no
  claimed or rising takeoff meets it: what `EndLandingUncontested` needs when the drone rises after the record.
* `TelloInv` follows the takeoff. An answer or a lift still to come is guarded, or no land has followed the takeoff; a poll past its
  look has seen the drone down for good; and a confirmed land is of a drone that no longer lifts. Each conjunct
  has the exceptions `basis` names, and no others; between its two writes (`LandSettled`, `TakeoffDone`) the flier stands where the answer was accepted. `ClearedInv`: a keepalive past its check holds the channel, so no confirming land
  has been sent.
* `Inv` of `LaneManual`. While plan moves are left and no return was skipped, the drone is at the step the plan
  stopped at, or its return target is; and under an operator's hands, once the hold point is captured, that point leads there.
  Who may write the target, and which sequence runs, are `WorkerInv`, `HandsOnInv` and `LiftedInv`.
* `Counted`. The commands waiting or on the link, with everything that can still become one (the handler's, the sender's, a pressed LAND ALL, and for the orphan
  landing a controller, a countdown or the monitor's decision), are at most two per click. A landing
  that fails sets its countdown again, so it is not counted twice.
* `GraceInv`. Outside the release grace, and unless the last one was overtaken, no hold of `take_control` is on its way, and telemetry on its way does not say "autonomous"
  of a drone that is held. When the grace ends it is true or `overtaken` becomes so; afterwards a new `take_control` can break it, and that begins the grace anew,
  or a hover that takes the drone, and that is `overtaken` too.
* `BookInv`. A planned lane has one home: the path of a drone *before* what it is
  offered (`Base`), or a chunk that nobody has accepted. An offered path is its base and the chunks of the offer and nothing else (`Backed`),
  which is why a withdrawal can put it back; no home is doubled (`Apart`) and none is missing (`Whole`). A drone the mission tells to land is lost already.
* `FlightInv`. Until an answer crosses a replaced assignment (`crossed`), each drone that is not lost has one assignment under way, the current one: a thread owes it, or its answer is on
  its way and fits, or it was acknowledged and the edge has it, or it is an offer above a base the edge has. What a drone accepted of a chunk stays in its base (`Covered`).

Refinements. An adoption is `Lead` of `FencedFlight` (on the ground, or announced), a launch is `Fly`, the end of the last activity is `Land`, and everything
else stutters. A step of the uplink is the step of `EdgeAuthority` it conjoins, once its command is known to be one the authority may be offered. A step of `LaneManual` maps to
`Take`, `GiveBack`, `NewPlan`, `TakeOff`, `Land` or `Down` of `EdgeControl`, or stutters.

**Recursion.** No module uses `RECURSIVE`. The provers have no induction rule for a predicate, but a set can stand in its place: `SetInduction` proves from the well-foundedness of `<`
that a set with 0 and successors has all numbers up to N, and with it that the recursive functions behind `FlattenSeq` (`Coordinator!Appended` and `ManualControl!Except` use it) and
`EdgeUplink!Staying` exist and are what their equations say.

**Left to TLC**: liveness (fairness and `ENABLED` are beyond this prover): `StandingLeaderObeyed`, `LandingExecuted`, `LandingLands`, `SearchGoesOn`, `ControlIsReal`,
`UnattendedLands`, `RetaskReported`; and the refuted properties of the three violation runs.
`ManualControl` relies on `EdgeControl` and `LaneManual` is proved to keep it, but that the two behave together as `ManualControl` says is the argument of this text and not a theorem.

## What the checks found

1. **`authority_torn_probe`.** `LaneExecutor.is_active` reads the flight state, then
   takes the lock to read whether a sequence runs (`drone/lane_executor.py:371-377`). A takeoff that
   completes, and whose sequence ends, between the two is seen by neither, and the
   sample says "inactive" in the air. The dispatch generation does not
   help: the consumer thread had finished dispatching the takeoff before the sample
   began, and only its flight thread still ran. `docs/fleet-protocol-v2.md` (793-798) promises adoption only
   on the ground. The window is narrow; nothing closes it.
2. **`uplink_unanswered`.** An emergency landing discards queued motion without a
   reply; its id stays pending, so a resend is ignored as a duplicate.
   `docs/fleet-protocol-v2.md:278` says every fenced command is answered.
3. **`executor_flagged`.** After a landing that was confirmed wrongly, the first
   tick clears the recorded reason (`drone/lane_monitor.py:70`). When the controller
   notices, some polls later, that the drone flies, there is no landing
   left to retry, although `drone/tello.py:2249` says the monitor retries it.

Some properties state an exception rather than hide it. Each was first written
without, and TLC showed the behaviour of the code that the exception names.

*Executor.* The monitor reads the
flight state before its lock; a tick that read "not flying" and decides after the
takeoff was answered takes the takeoff for a landing nobody asked for (`StaleTick`). It then clears a
hold that was acknowledged, or the record of a landing. `HoldSticks` and
`LandingLands` exclude exactly that tick, and `LandingLands` also the flights of finding 3. `TouchdownEndsPlan` leaves out a landing that was
confirmed and then disproved (`record`): a plan that is accepted while the drone seems to be down is valid when it comes down indeed.
All other landings end the plan, also in a run in which wrong confirmations happen.

*Tello.* `AirborneIsMarked` excludes what `basis` names:
* "expired": a takeoff that is waited for during its full 20 s leaves the following land no time
  to guard, because both guards are measured from when the takeoff was sent. The flight flag then stays clear,
  although the docstring of `land` (`drone/tello.py:1197`) says it is set, and the executor's
  tick, which sees a drone that does not fly, forgets the landing instead of retrying it.
* "stale": the zero-height path clears the flag on the last height it has, also when no packet has come for long.
* "misled": an "ok" that answers something else, read as the takeoff's before any land, starts no guard;
  and the poller's look at the ground and its mark are not one step, so a takeoff or a land in between is overtaken.
* "ok": with the state packets lost, an "ok" that answers something else confirms a land. The code says so
  (`_guard_flight_after_land` exists for it).

`LandReturnsDown` excludes "ok" and "misled": a land confirmed by state has the drone down for good, and the
takeoff's own late answer never confirms one. The keepalive looks for an unconfirmed land
under the lock but sends after it, so one keepalive may follow the start of a land. It holds the channel
then, so it never follows a confirming land (`AutoLandUndisturbed`).

*Manual control on the edge.* `SearchContinues` excludes flights in which a return was cut short
(`skipped`): when a leader's hold or a lost link stops a return half way, `resume` or the end of the link hold launches the
lanes, knows of no return, and flies the plan from where the drone is. `_resume_target` stays set, and a
later take-over uses it. An unplanned landing in the middle of a return leaves `_resume_target` set as well
(`drone/lane_monitor.py:160-175` does not clear it), and a take-over in the next flight records that stale point as its hold point. The same happens when `resume_search` arrives before the tick that ends a link
hold. `docs/manual-takeover.md` promises the return. A return in a flight whose lanes never began, stopped
by a link hold, is not started again (`SearchGoesOn`). And a start that is pending while the drone comes
down unasked, or the plan is invalidated, flies a plan that is no longer valid; both properties speak of valid plans only.

*Manual control on the ground.* `ReleaseIsReal` leaves out two cases (`overtaken`), each found by TLC. A hover is a `manual_hold` and pends as one, but does
not set `_hold_sent_at`, although the comment at `dashboard/manual_control.py:119-121` speaks of any `manual_hold`: when the edge had ended manual control, the hover takes the
drone again, and its ack overtakes telemetry that still says "autonomous", the dashboard gives up a drone that is held. And the three seconds of the grace run from the click: a
hold that is queued behind a slow send, or whose wait ends by time-out while it is still on its way, reaches the edge after the dashboard gave the drone up.

`check_orphans` decides to land, lands after the lock, and sets the
countdown again with `setdefault`; a `take_control` in between has cancelled a countdown
that is then set again, and the drone under control is landed. `UnattendedLands`
therefore says only that an unattended drone is landed, not that an attended one is not. `Settled` excludes older
telemetry and a late answer to a resume, either of which cancels a fresh countdown. A drone whose
controller disconnects while it still takes off, and one whose release was refused or not
delivered, hover without a countdown.

*Coordinator.* An answer to `assign_lanes` names neither the plan nor the offer; `_on_ack`
compares the number of lanes (`drone/coordinator.py:1062`). `crossed` records that an edge may
answer an assignment that was replaced or withdrawn; `AckedIsFlown` and `CoveredIsAccepted` hold until then.
`LanesConserved`, `LandAllIsLast` and `RetaskReported` have no exception.

## Limits of the models

* **Time** is nondeterminism: watchdog, retry and hover periods elapse at any
  moment. Nothing is said about durations.
* **EdgeAuthority** leaves out unfenced messages (ping, detection
  settings), logging and telemetry fields, and the wording of refusals. Its
  executor is the one of the hooks, not `LaneExecutor`; composing them is planned. It launches in the handlers and at the end of a link
  hold, and for the latter does not follow what was parked or who holds the drone. The leader's `hold`, `resume` and `nudge` never reach it:
  the uplink's hooks do not list them as supported (`edge_uplink.py:175-179`), so the authority refuses them.
  Refusals share the bounded table with executed commands (`fleet_authority.py:579`); the runs keep the table larger than
  the commands between a command and its resend. A late ack of `assign_lanes` may bind the authority to a plan
  the executor has dropped (`:753`); only the executor's own check then refuses the start.
* **EdgeUplink** leaves out dialling, back-off, outboxes and frame sizes.
  The network's losses are frames that are never sent or links that close.
* **LaneExecutor** leaves out manual control and the hold for a lost link (see `LaneManual`), `shutdown`,
  replies and the command cache, plan order numbers and the v1 replies. `fail_safe` on an idle drone
  reads and aborts in one step. A handler that refuses changes nothing and is not an action,
  unless it was refused by `_launch` (`HandlerTooLate`), which sets the abort flag. Positions, heights and the
  geometry of lanes are data the properties do not mention.
  A retry decided by the tick may land a drone that took off since (`drone/lane_monitor.py:90`); that is safe.
* **TelloLanding** leaves out `rc_control`, connecting and disconnecting, video frames, and packets with missing
  fields. Counts of polls, packets and attempts are nondeterminism. In `LaneExecutor` the Tello is only what takeoff,
  land and the poller do to the flags. The MAVLink driver is not modelled.
* **LaneManual** lands in two steps (record, touchdown; `LaneExecutor` has them all) and leaves altitude, re-planning in the air, nudges and a plain takeoff to
  `LaneExecutor`; geofence and height limits refuse by nondeterminism.
* **ManualControl** follows one drone and one socket handler at a time (a bound), and leaves out the operator's steps and rotations, and the results
  shown to them: no modelled field depends on these. The telemetry that says a drone is lost is left out. LAND ALL drops queued commands, but not the one the sender already holds.
* **Coordinator** leaves out clock sync, the geometry that filters receivers and cuts chunks (any choice is possible), merging of
  detections, and the difference between the two reasons to refuse for now. An offer lost by a reconnect is never sent again by the
  code, and the model's links do not reconnect: `Answer` is part of the step that sends, so what was sent is neither lost nor left unanswered. The landings of LAND ALL go to all edges in one step.
* A crash of the edge process is not modelled: it keeps nothing on disk, so a restart
  begins at `Init`, and the drone lands by its own timer.

## Plan

Done: 1. `FencedFlight`, `EdgeAuthority` and its proofs. 2. `EdgeUplink`.
3. `LaneExecutor`. 4. `EdgeControl`, `LaneManual` and `ManualControl`. 5. `Coordinator`. 6. `TelloLanding`.

Next, in order of what a fault would cost:

7. `GroundLinks` (`fleet_ground_link.py`): the ground's hellos, pending commands, retries and supersession,
   composed with `EdgeAuthority` over lossy links; a command resolves at most once, and a connection
   whose hello is being written while the identity changes (`:305`) still learns the current epoch. A command superseded by a landing may be answered
   late (`:260`). Two questions for it: `send_command` does not look at `superseded` when its wait times out in the same
   turn of the loop in which a newer command superseded it (`:400-413`), and `transport.py:1840` orders a landing of all
   without calling `supersede`, which only `send_command` does. And the route of a `drone_id` between two connections
   that claim it (`transport.py:1217`).
8. `AlertLatch` with recovery; then the outbox, and the launcher.

Proofs: the safety properties of the runs are proved. Next: an explicit composition of `ManualControl` with `LaneManual`, and of `EdgeAuthority` with
`LaneExecutor`, whose hooks `EdgeAuthority` takes as given; and the safety of each new module with it.

## Not modelled

`PROJECT.json` gives the reason for each component. In short: safety, patterns and vision are arithmetic on real
numbers or learned models; observability, storage and evaluation do not act on a flight; web handlers, capture and the
phone clients are I/O around the modelled parts; the MAVLink driver needs a model of the autopilot's modes.

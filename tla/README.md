# Verification of the zonal body-control lighting system

TLA+ models, TLC runs and TLAPS proofs for `src/body_control_zonal_lighting`: a
central zone controller (Linux, C++17) that arbitrates lamp requests and sends
them over SOME/IP-like datagrams to an exterior lighting node, which exists in
a Zephyr build (threads) and a bare-metal STM32 build (one loop). The other two
directories of the repository, a DC motor exercise and a soil-moisture sketch,
are independent of it and hold no logic of this kind; they are not modelled.

Paths below are relative to `src/body_control_zonal_lighting`.

## 1. Inventory

| Component | State | Operations | Hard parts |
|---|---|---|---|
| `FaultManager` (`src/application/fault_manager.cpp`) | fault flags, compacted array of DTCs, count | inject, clear, clear all, report | three tables kept in agreement by hand |
| `ExteriorLightingFunctionManager` | lamp statuses, a `FaultManager` | ApplyCommand, fault handlers | a fault must override every command |
| Zephyr node (`app/zephyr_nucleo_h753zi/main.cpp`) | function manager, indicator registry, last hazard counter, queue of 8, mutex | dispatch, command thread, DoIP thread, health thread, blink thread | multi-step handlers; the DoIP thread takes no lock |
| STM32 node (`app/stm32_nucleo_h753zi/main.cpp`) | function manager, saved indicator, last hazard counter, blink phases | message handler, DoIP callbacks, BlinkManager in one loop | companions of a hazard known by counter only; tick wraps; a restart forgets lamps and counters |
| Linux simulator (`app/exterior_lighting_node_simulator`, `ExteriorLightingServiceProvider`) | function manager | lamp commands, DoIP routines | two threads on one manager without a lock |
| `CommandArbitrator` | none | Arbitrate | fan-out of one request into up to three commands |
| `CentralZoneController` | sequence counter, two lamp caches, health cache | SendLampCommand, three event handlers | operator and receiver threads; one cache has no lock |
| `LampStateManager` | unlocked lamp cache | UpdateLampStatus, GetArbitrationContext | read lamp by lamp while it changes |
| `NodeHealthMonitor` | last health report, watchdog | update, availability, ProcessMainLoop | time-out against reports and service changes |
| Fan-out transport (`app/central_zone_controller/main.cpp`) | two transports | SendRequest | the second transport sends before the first refuses |
| `OperatorServiceProvider` | none | lamp requests, relay of events, answers to requests for all lamps | reads the cache and publishes later, in two threads; nothing is repeated or kept |
| HMI (`OperatorServiceConsumer`, `QmlHmiBridge`, `MainWindow`) | pending updates, the dashboard | events, the 80 ms and the 2 s timer | IO thread and GUI thread; starts late, misses events |
| `OtaSessionManager` (Zephyr build), MCUboot | session state, counters, stream buffer, staging slot | 0x34/0x36/0x37, delayed reboot, image confirmation | failures and power losses between steps, disconnects, a trial in progress |
| UDS handler, DoIP servers (three builds) | connection, routing activation, receive buffer | fault routines, dispatch, framing, Stop | segments cut anywhere, one tester after another, sends that fail inside a handler |
| Codec, service discovery, drivers, console, VSS overlay | little | encode, send, print | input and output |

**Interactions.** The HMI asks the operator service, whose thread runs
`SendLampCommand`: it takes a sequence counter, reads the arbitration context
(without a lock), arbitrates, and hands each command of the decision to the
transport. The node applies them one datagram at a time and answers with status
events; the receiver thread writes them into the two caches and, through the
operator service, publishes them to the HMI, whose IO thread merges them into
what its GUI thread shows every 80 ms. Every two seconds the HMI asks for all
lamp states. A tester reaches
the node over DoIP/UDS and injects or clears faults, by which no event is sent.
The same thread receives firmware, block by block, into the second flash slot,
asks MCUboot to try it and lets the work queue reboot the board; the health
thread of the new image confirms it with its first report.
The Zephyr build repeats all lamp states every 200 ms and its health every
second; the bare-metal build publishes health only.

**What makes each correct.** At most one indicator is lit and no faulted lamp
is; hazard freezes the indicators and gives back the one it interrupted; the
fault tables agree; what the controller believes is what the node drives; a
request has at most the effect it was made for, however the link and the
controller fail; a silent node is not taken for available; the dashboard shows what the
controller holds; every diagnostic request is dispatched once, in order, in the
session it was sent in; only a complete and verified image is committed, and one on trial can be taken
back. `PROJECT.json`
lists every hazard that could break these, with its line, and the properties
that would notice.

## 2. Modules

| Module | Models | Correspondence |
|---|---|---|
| `LightingDomain` | domain types, ApplyCommand | `OutputAfter` is the new output of a lamp, `ApplySucceeds` the return value |
| `FaultManager` | `fault_manager.cpp` | one action per method; `FaultSet` is the abstract specification (a set of faults) |
| `TurnSignalPolicy` | what any lighting node promises | abstract: `hazard`, `lit`, `remembered` |
| `ZephyrNode` | the Zephyr node | threads `cmd`, `doip`, `health` with program counters; a step ends where another thread may see a difference, at every send and unlocked write |
| `Stm32Node` | the message handler and fault routines of the bare-metal node | a datagram is one step, as nothing can interrupt it; the events are sent in `sent` |
| `Stm32Loop` | BlinkManager and the main loop | extends `Stm32Node` with clock, phases and pins |
| `CommandArbitrator`, `Controller` | arbitration; the controller's two threads | the context is read in three steps, the caches written in two |
| `ZonalLighting` | controller and STM32 node on a link | INSTANCEs both; adds the link, the operator, restarts of either side and history variables |
| `OperatorService` | the controller's caches, the operator service, the HMI | extends `NodeHealth`; one action per thread and lock section; a state of a lamp is the number of its changes, so that an older one is told from a newer |
| `DoipServers` | `DoipTcpServer` (bare metal) and `DoipServer` (Linux) | one of them per behaviour, with the same testers; a pass of ProcessFrames, or the reading of a frame, is a step |
| `Simulator` | the Linux simulator's two threads on a `FaultManager` | extends `FaultManager`; guard and write of ApplyCommand are two steps |
| `OtaSession` | the Zephyr OTA session, on stream_flash | one action per outcome of a request; a CRC is the bytes it was fed with |
| `DiagnosticServer` | DoIP thread, reboot, confirmation, MCUboot, power losses | extends `FaultManager` and `OtaSession`; the exit is two steps, the flush and the request of the upgrade |
| `NodeHealth` | health monitor and the controller's health cache | both are fed with the same events |
| `MC*` | small instances | commands, lamps and counters of each run |
| `*Proofs` | theorems | see section 5 |

Some choices of abstraction. The source of a command and the applied time of a
status are dropped: nothing decides on them. Commands are valid ones: bytes
that are not are refused by the dispatcher (Zephyr) or by ApplyCommand. In `Stm32Node` the
DTC table is just the set of faulted lamps, which is what `FaultManagerProofs`
establishes; `ZephyrNode` keeps the count apart because its reader is another
thread. `kTransition` outputs never occur in the code and are not modelled.
A request that is refused without an effect is no step of `OtaSession`, as a
tester may send anything next. A slot is what was programmed since its first
sector was erased. MCUboot is external: it validates what it boots, tries an
image on request, and exchanges the slots again if a trial was not confirmed.

`ZonalLighting` and `OperatorService` fix an *environment* in the initial state
(what is asked for, what may fail, which transport runs), so that one run covers
several and each property says in its premise what it needs. In `DoipServers`
a byte is a frame's number and a position in it: what the bytes say is looked up
in the history of frames, so that the properties can say which bytes were mixed
up. `StopHmi` and `StartHmi` are the HMI process as a whole.

Definitions named "Mutation of ..." are not part of any specification: each is
a plausible bug, kept next to the definition it would replace. Replacing it
must break the property `PROJECT.json` pairs it with.

## 3. Runs

| Run | Question | Bounds |
|---|---|---|
| `node_turn` | Are the turn-signal promises kept at every interleaving of the three Zephyr threads? | 7 hazard and indicator commands with 2 counters (companion or not), faults of hazard and left; queue of 1 |
| `node_live` | Is what DoIP changes announced, is the queue drained, are faults reported? | head lamp, 2 queue slots, health every 2nd broadcast |
| `loop` | Does the bare-metal node keep the same policy, and do its pins show the lamps, each pulse in full, with a clock that wraps? | every turn-signal command, indicators with 2 counters, faults of left and hazard; period 2, passes of up to 2, wrap at 5 |
| `zonal` | What does an operator, however fast, get, what survives loss, refused sends and restarts of either side, does hazard do as it is told, and does the controller end up knowing? | counter modulo 4; four environments: 4 requests out of 4 kinds where nothing fails, so that the counter wraps; 2 toggles with losses, refused sends and crashes of the controller; 3 requests (toggles and an explicit hazard-off) and one restart of the node; 3 toggles with refused sends |
| `operator` | Does the dashboard show what the controller holds, does the pull repair what was lost, is the watchdog neither deaf nor nervous? | 2 lamps with 2 changes each, or a lamp and the health; 1 event and 1 pull under way, 2 starts of the HMI; timeout 3, passes of up to 2, times capped at 5 |
| `doip` | Is each request dispatched once, in order and in its session, and does Stop return? | 2 testers, 3 frames of 4 kinds, 3 connections; header 2, payload at most 4, buffer 5 |
| `diagnostics` | Is only a verified image committed, can a trial be taken back, do DTC array, count and flags agree? | 3 lamps; images up to 3 bytes in blocks of 1 or 2, buffer of 2, announced sizes 0 to 5 with 4 the largest accepted, block counter modulo 3 |
| `ota_rollback` | an unconfirmed image is reverted (violated) | as `diagnostics` |
| `health_sg05` | SG-05: a silent node is reported unavailable (violated) | timeout 4, passes of up to 2, times capped at 6 |
| `doip_rx` | the receive length stays within the buffer (violated) | as `doip` |
| `operator_frozen` | the display never stays frozen (violated) | vsomeip as deployed, else as `operator` |
| `simulator_race` | the race of the simulator is benign (violated) | 2 lamps |

**Why the bounds are enough.** Two counters tell a companion from a fresh
command, the only use the nodes make of them. A queue of one blocks as well as
one of eight; the second slot in `node_live` allows a batch. The longest
interplay in the turn logic is indicator, hazard, hazard (restore), and a
further request on top: four. In `zonal` the fourth request, where nothing fails, is numbered 0
and shares its counter with a node that has heard of no hazard yet. Two requests show what a loss, a
refused send or a crash of the controller does to the next request; the third
after a restart of the node ends an episode that was forgotten. Two changes of a
lamp are on and off again, so that an answer can be overtaken by either; the
second start of the HMI finds what the first left. A DoIP buffer of 5 holds
one frame and the beginning of the next; of the four kinds one is too long for it
though its length is accepted, as the 1024 bytes of payload of the code are. Three
frames are an activation and two requests that a segment can cut, join or push beyond the
buffer, and the third connection follows one that was refused or lost.
`MaxOutstanding`, beyond the buffer's length, bounds the bytes of a tester that
are not yet handled. A session of which bytes were dropped is in `overrun`, and
the frames of it are exempt from what is said of order and completeness; after the drop
the model takes what is in front of the buffer for any frame at all. In the
code the window (`TCP_WND`, 1460) exceeds the buffer (1024). Two
sessions whose requests take turns, and a session whose request is dispatched after a drop,
need more frames than the run has; the proof covers them. A blink period of two with
passes of one or two lets a phase end on time or late, and the wrap falls at
every place of a phase. In `diagnostics` the buffer does not divide the
slot and blocks fill it at once or in two, the largest accepted size exceeds the
slot, the checksum collides, and one of the two signed images leaves bytes in
the buffer at the flush; the block counter wraps within an image. Three lamps
give ClearFault a first, a middle and a last slot to compact; the proof covers
any number. `MaxSilence` lies above the timeout by more than one pass, so the cap
hides no comparison.

**Deadlock** is checked in all runs except those of `ZonalLighting`,
`OperatorService` and `DoipServers`, where the operator, the lamps or the testers
stop after their last step and the system comes to rest.

**Fairness.** `ZephyrNode`: the three threads run at fixed priorities with
bounded work, hence weak fairness of their own steps, and strong fairness where
they wait for the mutex: Zephyr hands a mutex to the waiter, whereas in the
model it can be free and taken again many times. Nothing is assumed of those
who send commands or of the tester. `ZonalLighting`: operator thread, receiver
and node keep running and what is on the link is delivered, unless it is lost;
the operator need not press anything, and the one liveness property is claimed
only where nothing is lost. `OperatorService`: threads and timers run (weak fairness);
the handling of a pull and the delivery of an event are strongly fair, as over
UDP either may be lost again and again but not always. `DoipServers`: the main
loop and the listener thread run as long as bytes arrive; testers owe nothing. `DiagnosticServer`: the DoIP
thread finishes the request it has in hand and the work queue runs the
scheduled reboot; testers, power and the health thread owe nothing.

### What the checks show

* The policy holds on both builds: exclusive indicators, faulted lamps stay
  off, hazard blocks indicators and returns what it interrupted, although the
  two builds remember it in different ways and at different granularity.
* Although the node toggles hazard whatever the command says, and the controller
  may resolve it with a stale context, the hazard lamp goes on only when it is told to
  go on, and off only when told to go off (`HazardDoesAsTold`), as long as the operator waits
  for the answer to one hazard request before the next (`informed`). He need not
  wait for anything else, and sends may be refused. The premise is needed: see SG-01 below.
* The pulses of an indicator are full and the first one is high, whatever phase an
  earlier lighting left behind (`IndicatorPulsesAreFull`). The exception is the phase that
  hazard interrupts (`resumed`).
* The last status a controller has seen is the node's state once nothing is
  under way (`CachesTrueAtRest`), although the bare-metal node never repeats
  one. This holds for commands; it cannot hold for faults, by which the
  bare-metal node sends nothing, and the composed model therefore injects none.
* What MCUboot is asked to boot is the verified image, although verification
  compares counters and a running CRC while the bytes sit partly in flash and
  partly in a buffer (`CommitIsVerified`), and an accepted upgrade always ends
  in the reboot (`AcceptedUpgradeReboots`).
* Under loss, refused sends and restarts the hazard lamp still changes at most
  once for a request, and an indicator is lit only if it was asked for, but for
  the companions of a hazard command that was lost or forgotten.
* With one receiving thread and vsomeip the dashboard never goes back and, at
  rest, shows what the controller holds, of all it has heard of since it was
  started. Only the pull would repair the rest, and over UDP it does, whatever
  was lost, overtaken or published by two nodes at once (`PullRepairs`).
* Wherever TCP cuts the frames, the framing of both DoIP servers dispatches the
  requests of a session in order, each once, as long as the buffer holds them
  (`DispatchFollowsSession`), only if the session itself was activated
  (`ActivatedFirst`), and Stop returns unless a tester keeps its connection
  (`StopReturns`).

### Where code and documents disagree

Five disagreements have a run each (`PROJECT.json`, "findings"):

1. **SG-05** The monitor that detects a silent node is instantiated by nothing
   but its tests; the controller's own cache never expires (`health_sg05`).
2. **Rollback** A download is accepted while the running image is on trial and
   overwrites the image to revert to, so that after a restart the unconfirmed
   image stays, or what was staged runs although no upgrade was requested
   (`ota_rollback`). Up to the first download the promise holds and is proved
   (`TrialCanBeReverted`).
3. **Receive length** An answer that `tcp_write` refuses closes the connection
   in the middle of `ProcessFrames`, which then subtracts the frame from an
   emptied buffer (`doip_rx`).
4. **Frozen display** The vsomeip adapter does not register
   `RequestGetAllLampStates`, so the pull that the interface calls the backstop
   of the display is never delivered (`operator_frozen`).
5. **Simulator** The race that the comment on the UDS handler calls benign can
   leave a faulted lamp on (`simulator_race`).

Three more follow from the models and have no run of their own:

* **SG-01** A hazard command toggles, so a repeated activation switches the lamp
  off (`app/zephyr_nucleo_h753zi/main.cpp:375`), where
  `safety/03_safety_goals.md:17-19` says it stays on until a deactivation. Two
  presses in quick succession are enough: both are resolved while the cache still
  says off, both send an activation, and the second one switches the lamp off.
  `HazardDoesAsTold` says how far the goal does hold; without `informed` in its premise
  TLC finds this trace. An explicit activation of a lit lamp does the same, hence
  `TogglesHazard`.
* **Companions** If the hazard datagram of a fan-out is lost, its companions are
  obeyed, and one indicator blinks that nobody asked for; the comment at
  `app/stm32_nucleo_h753zi/main.cpp:523-524` says they are suppressed. It is the
  exception (`orphans`) in `OnlyAskedIndicators`.
* **Counter** `next_sequence_counter_++` wraps to 0
  (`src/application/central_zone_controller.cpp:107`), which
  `lighting_constants.hpp:15` says is never issued.

Others were met while modelling and have no run: a hazard *deactivation* of a lamp that
is off turns it on (SG-02 in `safety/03_safety_goals.md:37-38`), so that it is asked for in one
environment only and the properties about what the operator gets leave it out (`TogglesHazard`);
the comments at `app/stm32_nucleo_h753zi/main.cpp:287-290` and `:374-376` say that the node
"sends no status responses" and the controller's context "is always stale", whereas
the handler beside them sends an event of every output it changes, on which `CachesTrueAtRest`
and `ArbitrationCatchesUp` rest, and `:294` says that both indicators are cleared when hazard
goes off, whereas `:404-426` restores the interrupted one; a `kNoAction` hazard command acts and publishes
(`doc/service_interface_specification.md:58-59`); DoIP calls `FaultManager`
concurrently, against the contract of `fault_manager.hpp:40-43`; the comment on
BlinkManager says the right pin is low under hazard, where it blinks; an
indicator re-lit after a hazard episode may resume an old phase instead of
beginning with an ON pulse; after a restart of the controller, whose counter begins
again, a genuine indicator request can be dropped as a companion; the
bare-metal node always reports zero active faults; the checksum of 0x37 is
optional in `ota_session_manager.hpp:52` and `doc/security_architecture.md:63`
and required by the code; an OTA session survives its tester, so the next
download is refused until somebody sends an exit; the node's vsomeip adapter
registers three methods, so fault requests of the operator never reach the
simulator over vsomeip; a DoIP frame of more than 1016 bytes of payload is
accepted by `kMaxPayloadLen` and never fits `kRxBufSize`; bytes that do not fit
are acknowledged to the tester all the same; a download is accepted in the
100 ms before the reboot; and a confirmation that fails is not repeated
(`app/zephyr_nucleo_h753zi/main.cpp:815`), so that a good image is reverted at the next start:
the model lets it fail, and no property is about it.

One more limit of the model: `src/transport/doip_server.cpp:311` sends without `MSG_NOSIGNAL`, and
`src/platform/linux/process_signal_handler.cpp` handles SIGINT and SIGTERM only. Where the
model lets a send to a tester that is gone fail, the process may be ended by SIGPIPE instead.
The safety properties do not depend on it; for `StopReturns` it means that the process may end
by a signal before Stop returns.

## 4. What is only model-checked

Liveness (`ForcedOffIsAnnounced`, `QueueDrains`, `FaultIsReported`,
`ArbitrationCatchesUp`, `AcceptedUpgradeReboots`, `PullRepairs`,
`FrameIsHandled`, `StopReturns`) rests on fairness, hence on ENABLED, which is out of
the prover's reach, and stays with TLC. Every other property of a passing run, each
invariant, action property and refinement, is proved as well; the type invariants
are proved, and no run repeats them, except `OperatorTypeOK`. The five disagreements
are shown by TLC's counterexamples alone.

## 5. Proofs

All theorems are proved for every value of the constants that the named
assumptions allow.

**`FaultManagerProofs`** (assumes a finite set of functions and at least that
many slots). `DtcTableMatchesFlags` is inductive only together with
`active_fault_count = Cardinality(FaultedSet)`: that is what shows that
InjectFault never finds the array full, so that a flag is never set without its
code. With it, every operation keeps the tables in agreement and the
module implements `FaultSet`.

**`ZephyrNodeProofs`** (assumes valid commands, positive bounds, faultable
lamps among the lamps). The safety invariants are not inductive one by one: a
switch-over, a hazard-off and a restore run over several sends, and their
second half is safe only by what the first half left behind. `PathInv` says at
each point of the command thread what that is; `CountInv` says for each point
of a diagnostic request how the count and the flags differ. `IInv` is the
type invariant, these two, and exclusivity, faults, registry and announcement
together. One lemma per action keeps `IInv`; the six invariants follow. Then
one lemma per group of actions shows that a step is a step of
`TurnSignalPolicy` or leaves its three variables alone (`Refinement`), and
`HazardBlocks` follows from the same classification.

**`Stm32NodeProofs`** (assumes valid commands and faultable lamps among the
lamps). A datagram is handled in one step, so here `TypeOK /\ OutputsAreSafe`
is inductive as it stands, and it is all a step needs to be one of
`TurnSignalPolicy`: the indicator that HazardOn saves is the one that is lit
because there is at most one, and a saved one that was faulted meanwhile stays
off when it is restored. One lemma per action shows both. The two builds
thus promise the same to the road, for every set of commands, although they
differ in where they keep the memory and in how many steps they take.

**`Stm32LoopProofs`** (assumes in addition a clock that wraps only after a
period and a pass). The phases are compared by a wrapping subtraction, so the
proof speaks of the `Age` of a blink, the time since its phase began modulo the
clock: one lemma on the remainder shows that a pass makes it older by exactly what has
elapsed. The invariant says that every active blink is younger than a period, that
no level has been held for longer than its phase is old (for the hazard lamp: for exactly
as long), and that the pins show the phases of the lamps the last tick saw. What
`Stm32NodeProofs` shows of the handler is cited for its steps. For the indicators
an invariant of its own is needed (`BlinksInv`): a blink that is active was lit, itself or under
hazard, at the last tick, and one that hazard holds has an interrupted phase (`resumed`). With it
an indicator that the tick finds newly lit cannot meet an old phase, and `IndicatorPulses` follows.

**`ZonalLightingProofs`** (assumes well-formed environments and a modulus above
one). `ZInv` has four parts: types; that a request under way has been
counted and its decision holds commands of its own only (`DecisionInv`); that nothing in the
link is numbered beyond the presses, and hazard commands wait there in strictly
increasing order of request, all later than the last the node has handled
(`OrderInv`); and that without a restart of the controller and until the counter wraps
the counter of a command is the number of its request, and the node remembers none or
that of the last hazard command (`CounterInv`). One lemma
for each action keeps the four; `OneChange` and `Companions` read their properties off it,
for any number of requests and any interleaving with loss, refusals and restarts.

Five further invariants stand on these. They need the exact effect of each command
on the outputs (`CommandEffect`), and that an event is sent of every lamp that
changes (`EveryChangeTold`).

* `CacheInv`: of a lamp the node has told of, the last event under way tells what
  the lamp is now; if none is under way, the first cache holds it, and the event being
  received, or else the second cache, does. `CachesTrue` is what is left of it at rest.
* `AskedInv`: every command that would light an indicator nobody asked for is a
  companion: the last hazard command before it, waiting or handled, carries its
  counter, so that the node will drop it. It speaks of the queue as a whole, for a hazard command
  anywhere in it turns into the node's memory when it is handled. A lost or forgotten
  hazard command breaks the chain, hence `orphans` in `OnlyAsked`.
* `SafeInv`: at most one indicator is on, and one is remembered only under hazard
  (`OneIndicator`). With it every datagram is a step of `TurnSignalPolicy`, and so is a
  start of the node, which looks like hazard going off without a restoration, or like
  the failure of the lit indicator: the whole composition implements the policy
  (`PolicyRefinement`).
* `ToldInv`, for an operator who waits for the answer to each hazard request: at most
  one hazard command is being made or under way, its action is the reverse of what the lamp
  shows, and while it waits no event of the lamp is under way, so that by `CacheInv` the
  controller resolves the toggle with the truth. It needs nothing of the other requests,
  of the counter or of the sends. `HazardAsTold` is what it says of the command at the head of the link.
* `PatienceInv`, for an operator who waits for rest: what is expected is what the
  commands still ahead, in the link or to be sent, will make of what the node
  shows now (`OnTheWay`, in four forms), and while the controller reads its context
  nothing is under way, so that by `CacheInv` what it reads is true.
  That the counter has not wrapped (`Counting`) is necessary: after a full round a
  genuine request carries the counter of the last hazard command and is dropped as
  its companion.

**`DoipServersProofs`** (assumes positive header and buffer lengths, and a length
counter wider than two buffers). A byte that arrives moves from the link into the
buffer, so the proof speaks of the `Stream` of a tester, the buffer followed by
the link: a segment does not change it, a frame that is handled leaves its front, a
frame that is sent joins its end. Lemmas on sequences of bytes show that whole frames stay whole
and in order. `DInv` then has, beside types and control: a tester's stream belongs to one
session, and no two testers share one (`SessionsInv`); as long as nothing of the session was
dropped, the stream consists of just the frames of the session that have not been handled
(`StreamInv`), so that the frame at the front is the next one and the buffer is read
as what was sent; and the session being served is the last that requests were
dispatched of, with routing active only by an activation of its own
(`ServingInv`). The steps fall into four kinds, each with a lemma: the connection
ends, the connection goes on, nothing is handled, nothing changes.

`RxLenSound` is the other side of disagreement 3: where no answer is refused and no
activation is too short (`NothingCloses`), `rx_len_` stays within the buffer, for every
cut of the bytes and even where dropped bytes have shifted the frames. The
assumption restricts what testers send and the stack answers; the run `doip_rx` shows that
without it the bound fails.

**`DiagnosticServerProofs`** (assumes positive sizes, a block counter of at
least two values, blocks of bytes, and signed images that fit a slot; nothing
of the checksum). `CommitIsVerified` speaks of the flash, the code compares
counters. In between stand `CountersMatchStaged`, `ActiveInv` (what a session
has programmed is all that the slot holds) and `CommitInv` (at the request of
the upgrade the buffer is empty). `BufferedWriteStep` shows once, with the
library's facts on sequences, that a write appends its data to what is staged
wherever the buffer is cut. The fault table is carried along by
`FaultManagerProofs`: a step of the server is one of `FaultManager` on it, or a
restart, which empties it as ClearAllFaults does. So `ServerTablesAgree` and
`ServerFaultSet` hold of the whole server.

**`OperatorServiceProofs`** (assumes a positive timeout below the cap, environments
with finitely many receivers, and an order of lamps among the lamp functions).
For `NodeHealth`, `WatchdogInv` ties the monitor's timer to the history variable: from
the first report on it is the time of silence, and once it has run out the state is
`kUnavailable` until the next report. The action properties follow from it. Every
step of `OperatorService` is a step of `NodeHealth` or leaves its variables alone
(`HealthRefinement`), so these theorems hold of the operator system too
(`OperatorWatchdog`).

`OperatorInv` follows a state from the controller's cache to the dashboard. What a
receiver has still to publish is what the cache holds (`Fresh`); from the display over
what is pending and what is under way to the cache, versions of a lamp only
grow (`Ordered`); and of a topic told of since the HMI started, the last event under
way, or else what is pending or shown, is what the cache holds (`ToldIsUnderWay`).
`Ordered` alone would not do for `DisplayTrue`, nor the last part alone for
`DisplayMovesOn`. All three hold with one receiver and vsomeip only, where no answer to a pull is ever
under way (`NoAnswers`): that is what the missing registration behind
`operator_frozen` does to the model.

In every environment, the loopback and several receivers included, `NotAhead` holds: what a
receiver or the reply to a pull has in hand, what is under way, pending or shown is no newer
than the cache. So the dashboard may be late, but invents nothing
(`NothingInvented`).

## 6. Not modelled

* **Codec, service discovery, transports, drivers**: fixed layouts, and input
  and output. The link abstracts the transports.
* **Diagnostic console, VSS overlay**: a second client of the operator service,
  which prints what it is told, and a mapping of names.
* **Other OTA sessions**: the Linux one writes files, the bare-metal one refuses
  everything.
* **Events of the simulator**, its broadcasts and reads: they change nothing.
* **Start-up and shutdown** of processes and boards, but for their restart.
* `EthernetLinkSupervisor` debounces a link state that nothing reads.
* **The DC motor exercise and the soil-moisture sketch**, and the vendor's HAL
  and CMSIS files beside them, which make up most of the lines of the repository:
  generated start-up code and register access, without a behaviour of several
  steps to check.

## 7. Plan

Done: `FaultManager`, `ZephyrNode` with the policy, `Stm32Node`, `Controller`
with `CommandArbitrator`, `ZonalLighting` with restarts of either side,
`Stm32Loop`, `NodeHealth`, `OtaSession` with `DiagnosticServer`,
`OperatorService`, `DoipServers`, `Simulator`, and the proofs of section 5.

Next, in this order:

1. `ZonalLighting` with the Zephyr node in place of the bare-metal one, whose
   broadcasts repair what a lost event broke.
2. Two nodes, the board and the simulator, that answer one controller.

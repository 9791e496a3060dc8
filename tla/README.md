# TLA+ models of AutoQuad

AutoQuad is flight control firmware for multirotors: C on an STM32F4, a dozen
CoOS tasks of fixed priority that share memory, interrupt handlers below them.
This directory models six parts of it, checks them with TLC, and proves with
TLAPS, for every value of the constants, all the safety properties and the refinement
that TLC checks on small instances: who decides whether the motors turn and who commands them
(`Flight`), how a mission gets into the craft and is flown (`Mission`), the
transmit buffers that every task shares with the interrupts (`CommTx`), the
task that owns the memory card (`Filer`), the flash that keeps parameters and
bindings (`Config`), and the transmit side of the CAN bus (`CanBus`).

Paths are relative to `src/src/` unless they begin with `src/`.

## Running

    tlc -workers 2 -config MCFlight.cfg MCFlight.tla      (one of the runs below)
    tlapm FlightProofs.tla                                (likewise RecoveryProofs, MissionProofs,
                                                           CommTxProofs, PoolProofs, FilerProofs,
                                                           ConfigProofs, CanBusProofs)

## The system

| component | files | state | operations | interacts through |
|---|---|---|---|---|
| supervisor | supervisor.c | state byte, armTime, lastGoodRadioMicros | 20 Hz tick: stick commands, radio loss stages, battery; supervisorArm/Disarm/Calibrate/ThrottleUp called by other tasks | the state byte; spvrModeOverride, missionLegs and missionLeg of nav; the radio channels, which it overwrites |
| nav | nav.c | mode, override, navCapable, missionLegs, missionLeg, loiter clock, home | navNavigate() each loop of run, navClearWaypoints/RecordWaypoint/LoadLeg called by others | the mode is read by control and supervisor; supervisorDisarm() after a landing |
| control | control.c | the attitude controllers | one pass per rate sample | reads ARMED, mode, throttle; writes FLYING and the motors |
| run | run.c | the estimator's inputs | every second sample: estimators, navNavigate(), logger, gimbal, calibrate() | wakes on the IMU flag |
| radio | radio/*.c, rc.c | channels, quality, last update per receiver | 2 ms poll of up to three receivers | channels and quality are read by everyone |
| motors | motors.c, esc32.c, drivers/pwm.c | throttle, CAN ESC groups | arm, disarm, send thrust | motorsArm() waits for CAN ESCs in the supervisor's task |
| calibration | calib.c | magnetometer samples | start, sample, finish, free | sampled by run, started by supervisor or comm, freed by either |
| MAVLink | aq_mavlink.c | mission transfer, streams, parameters | messages and a periodic step, in the comm task | calls supervisor and nav directly |
| comm | comm.c, drivers/serial.c | pool of transmit buffers, a stack per port, notices | get, send, finished (from interrupts) | every task takes and sends buffers |
| filer | filer.c | open files, one request each | read, write, sync, stream, restart, USB mass storage | callers wait for a completion flag |
| config | config.c, drivers/flash.c | parameters in RAM and flash | load, save, erase and rewrite | supervisor sticks, MAVLink, start-up |
| CAN | drivers/can/*.c | transmit rings, sequence numbers, nodes | send, wait for a response | interrupts, motors, telemetry |
| estimators, sensors, logger, gimbal, signaling, OS | the rest | | | numeric, device I/O, formatting or vendored |

What is hard: the state byte and the bit-fields of `navData` are changed by
plain read-modify-writes in tasks that preempt each other; the supervisor
replaces the mission while run flies one; the radio's channels stay frozen at
their last frame, switches included; arming yields in the middle; timeouts are
kept up to date only in the branch that uses them; every buffer of comm is
counted down by interrupts; flash is erased before it is rewritten.

What makes each part correct: supervisor, the base states exclude one another
and a lost link is answered by an override, a landing, and a way back to the
pilot; nav, no mission without a leg, no return home without a home, no command
from a frozen switch; comm, a buffer has one owner and is freed once; filer,
a caller gets the answer to its own request; config, the parameters survive a
power loss; mission transfer, the legs flown are the legs sent.

The full list, with what is not modelled and why, is in `PROJECT.json`
("components", "hazards").

## Modules

- **Flight** - supervisor, nav's decisions, control, run, the radio link and the
  one MAVLink command that writes the state byte.
- **FlightLoss** - Flight with a history variable, the age of the radio loss.
- **MCFlight**, **MCFlightLoss** - radio frames for TLC.
- **FlightProofs** - theorems about Flight and their proofs: types, base states, the
  stages of a radio loss. **RecoveryProofs** - those about the recovery mission and home.
- **Mission** - the MAVLink mission upload over a lossy link, the table of legs,
  and navNavigate() flying them. **MCMission** has the missions sent, **MissionProofs** the
  theorems.
- **TxPool** - what the transmit buffers promise: one owner, sent once by every
  port in order, freed after the last.
- **CommTx** - how comm.c does it, with tasks, mutex, stacks, reference counts and
  interrupts; it refines TxPool. **MCCommTx** has the ports and streams.
  **CommTxProofs** has the inductive invariant, **PoolProofs** the reference counts and
  the refinement.
- **Filer** - the file system task, a client, the logger and the USB host.
  **MCFiler** has the files.
- **FilerProofs** - theorems about Filer and their proofs.
- **Config** - the parameters and tokens in flash, the tasks that write them, and
  power failures. **MCConfig** says what its bounds allow, **ConfigProofs** has the
  theorems.
- **CanBus** - the low priority transmit ring, the sequence numbers of requests, the
  streams of the CAN UARTs. **MCCanBus** and **CanBusProofs** likewise.

The six models meet in few places, none of which feeds one into another's
properties: Mission takes from Flight that nobody else changes the table while the
ground uploads; CommTx sees of a CAN UART what CanBus promises, that a buffer comes
back (`StreamEnds`); what the others carry or keep, nobody else looks at. They are checked
separately.

### Flight and the code

The tasks and their priorities: control 5, run 30, supervisor 34, comm 40 (lower
runs first, no time slices). A task is interrupted only by those above it:

- *control* is one action. The FLYING flag and the thrust follow the throttle
  and the mode.
- *run* is three: `RunSelect` (GPS quality and the mode hierarchy, nav.c:335-465),
  `RunCommands` (nav.c:489-490, 264-333), `RunLegs` (arrival, next leg, landing
  shutdown, calibrate()). They run to the end before the supervisor or comm goes
  on (`RunIdle`).
- *supervisor* is one action per shared write. `SpvrTick` handles the sticks,
  `SpvrArm` is the return from motorsArm(), `SpvrRadio` decides, and then every
  `state |= ...`, `state &= ...` and every assignment to `spvrModeOverride`
  (a bit-field that shares its byte with `mode`) is a load (`SpvrLoad`) and a
  store (`SpvrStoreState`, `SpvrStoreOverride`), between which run and control
  may go. `StateWrite` and `OverrideWrite` are the tables of these writes, in
  source order. `SpvrPlan` writes the recovery mission, `SpvrCentre` the sticks.
- *comm* is two, the ARMED test of the calibration command and the call.

The environment: `LinkUp`, `LinkLost`, and `StrayFrame` (a frame decoded while
the quality has not risen above 1%). While the link is up every read of a channel
may see another frame of `Frames`; when it is down, the frozen `rc`.

Abstractions, all of data: sticks are compared with their thresholds only; the
mode switches are the most capable one that is active; a position is known by
whether home is set and with what fix; legs are their types; time is counted in
supervisor ticks. RADIO_QUALITY and RADIO_VALID are one link. The one-shot
memories of the switches and the 1 s timer of the waypoint switch are dropped,
so that a switch may act in any loop: more behaviours, never fewer. Whether a leg
was reached, the PID asks for thrust, a battery is low or the ESCs answer is
chosen freely. ORBIT and TAKEOFF legs exist only in uploaded missions and are not
here, nor is the end of the 25 leg table.

Steps left out, with the reason: a pass of control inside a loop of run (it reads
ARMED and mode > MANUAL, writes FLYING and the thrust, and run reads those only
in its last step, in mission mode, where mode > MANUAL in all of the loop: the
pass commutes to before or after the loop); a supervisor tick while comm is
between its two steps, other than through arming (comm is then ready and the
supervisor sleeps 50 ms); a tick before run has completed a loop (run is due
every 5 ms); the byte of navCapable and tempMissionLoaded as a
read-modify-write (run computes navCapable again in its next loop).

### Mission and the code

`comm` handles one MAVLink message at a time (aq_mavlink.c:588-976) and then
calls mavlinkDo(); `run`, which is above it, flies. A message is one action or two,
where the code reads what run may change in between: the mode is tested
(`ReceiveClear`, `ReceiveCount`) before the legs are cleared (`Clear`), an item is
received (`ReceiveItem`) before it is stored (`Store`), and the type of a leg is
tested (`ReceiveCurrent`) before it is loaded (`Load`). `Request`, `Loaded` and
`RequestTimeout` are the three branches of aq_mavlink.c:393-413. `LoadLeg` is
navLoadLeg() with its effects on home, target and loiter time; a leg's position is
the mission and the item it came from. A loop of run is one action: `Engage`,
`Hold`, `Manual`, the user commands, `Arrive`, `NextLeg`.

The environment. The link loses messages and keeps their order (`Lose`). The ground
station repeats its COUNT until it is asked for an item, and answers every request.
It begins an upload, a clear or a SET_CURRENT only when the last one is over
(`Quiet`); the pilot turns the mission on only after "waypoints loaded" and with
no clear or count under way (`PilotMayEngage`). These are assumptions on people and
on other programs, and the code does not enforce them: without them a re-upload
leaves holes, a clear races the mission switch and a SET_CURRENT mixes target and
missionLeg; the hazards list says so at their lines. Likewise counts are below 256
and a mission that fills the table ends in a landing. Capability and arming are
Flight's; here they are given.

### CommTx and the code

Calls of comm.c are cut at every access to what another task or an interrupt also
accesses: `GetBuf` to `Starved` are commGetTxBuf(), `SendBuf` to `Publish`
commSendTxBuf(). Interrupts are one action each, since they share one preemption
level: `CrypIRQ` is commSchedule() from the interrupt borrowed from the crypto
unit, `DmaIRQ` a finished serial transmission with commTxFinished() and the next
start. A UART behind the CAN bus is emptied by the comm task itself, so there the
same callback is cut again (`CanSent` to `CanAdvance`). Tasks are interleaved
without priorities: more schedules than the real ones. The mutex is a queue.

The refinement `PoolSpec` maps a buffer to free when its status is FREE, to held
between Allocate and the end of the stacking, and a port's queue to what it is
sending followed by its ring from tail to head; stacking entries behind the head is
invisible, moving a head is `Publish`.

One schedule is excluded (last conjunct of `CommTxAssumption`): if another task
sends a CAN UART's stream, it can fill that ring between the end of a transmission
and its callback, which then reads the wrong entry (comm.c:231, canUart.c:90).

### Filer and the code

The filer has the lowest priority, so filerReadWrite() from its test to its wait
is one step for it (`Ask`) while each step of the filer may be preempted: between
the scan of a slot, the operation, the change of the function, the completion flag
(`Scan`, `Process...`, `Done`, `Notify`) and the clearing of the wakeup
(`ClearFlag`). The client is configReadFile(), configWriteFile() or
esc32ReadFile(): start-up first, comm later, one at a time. It reads to the end of
the file, or writes line by line, then closes and announces the outcome. Every disk
operation may fail. `HandOver`, `Restart` and `Mount` are the code at
filerRestart; `Flush` and `CloseFile` the loop that closes all files for the host.
The log is the stream: `StreamTest` and `StreamWrite` are turns of its loop, between
which the logger goes on (`Log`). The logger counts records, not bytes, and keeps
within its ring, as the card is fast enough; the cable is there at start-up and
pulled at most once.

History: `lag` is the number of records in the ring not yet written; `clean` and
`dirty` say whether a restart has come between the client and its file. What is
read or written after one is not told apart (`Spoiled`).

### Config and the code

The sector is `rec`, the records from its start, and `tokens`, from its end. A record
is programmed in two steps, its name and its value, a token as its key and its data:
what a failure in between leaves is then told apart (`NaN`, `Torn`). A word can only
lose bits, so a second write leaves a value of mixed bits (`Over`), which
configSetParamByID() accepts or refuses. flashAddress() is `Unlock` and a step for each
word, which ends in `Fail` or `EndToken` on an error; flashErase() is `Unlock` and
`Erase`. configFlashWrite() is `StartSave` (copy of the tokens, one per key), the erase,
the tokens one by one (`FindEmpty`, `Key`, `Data`), `MakeList`, and the records. It is
run by the supervisor and by comm; `StoreBind` is radio. A task goes on only when those
above it are done (`CanRun`), and whatever it then finds has been changed by them: the
flash may be locked. A word programmed while it is locked is an error; whether an erase
is reported as one is left open. `Fault` is an error of the flash itself, after which
the word may be there or not. `Reboot` is a power failure at any point followed by
configInit(), which reads records up to the first that was never written.

`p` is changed by comm (`SetParam`, `LoadDefault`, `Load`) and by run at the end of a
calibration, which preempts a save between the making of its list and its end.

History: `intended` is the list of the save that last erased the flash, `saved` that of one
that returned 1, `bound` the last binding stored outside a save. `clash` holds from when a
second task writes the sector during a save of another until the next erase: then two
saves program the same words, and only what one save alone promises is stated. `bound` is also given up
when a flash error or a power failure hits its rewrite; the hazards list says what
is lost then. Nor is it set by a binding stored during a clash: two saves that overlap
may leave an empty slot between two tokens, and the one search of the code
(configTokenFindEmpty) then puts a new binding in front of an older one, which
configTokenGet(), taking the last it meets, then returns. This is a limit of the property, found by proving it.

### CanBus and the code

_canSend() is cut at every access to what another task changes: `Begin` and `Number`
load and store the sequence number, `Number` picks the slot, `Fill` fills it,
`LoadHead` and `StoreHead` move the head (or count an overflow), `Clear` forgets an
older response, `Trigger` raises the interrupt. Control and the supervisor send single
messages; the supervisor may then wait (`Return`), which lets others run. canUartStream() is cut the
same way (`StartStream` to `Flush`), and its messages go through the same ring.
`TxHandler` is the interrupt, above all tasks; `Transmit` the controller, which empties
mailbox 2, raises the interrupt again, and delivers to a node that may respond,
later (`late`) or never. `Respond` is comm taking a response from the receive ring.

## Runs

| run | shows |
|---|---|
| `flight` | type invariant; a flagged loss is overridden (`FailsafeInCharge`); stage 2 only with stage 1 (`LossStages`); a recovery has a leg to fly and ends in a landing (`RecoveryEndsInLanding`); it has a home (`HomeKnown`), which a frozen switch does not move (`HomeStays`) |
| `pilot` | base states exclude one another (`BaseStates`); frozen switches do not change the recovery (`RecoveryKept`) |
| `flight_live` | a recovery ends (`RecoveryEnds`), a loss outside a mission is noticed (`LossNoticed`), the pilot gets the craft back (`ControlReturned`) |
| `mission` | "loaded" means that every item of the mission sent has been stored (`LoadedIsSent`); the leg flown and its target are of that mission (`FlownIsSent`); a mission under way does not change (`MissionKept`); every upload ends (`UploadEnds`) |
| `comm_tx` | comm.c implements the pool (`PoolSpec`); reference counts are exact at every step (`StatusCounts`); no port sleeps over a message (`NoStall`); every buffer is freed (`Returned`) |
| `filer` | what the client announces is so (`SessionTrue`); head and tail enclose what is not written (`StreamInStep`); the host gets the card with files closed (`HandedOverClosed`); a waiting client is answered (`Answered`) |
| `config` | a save that succeeded is in the flash (`SaveDurable`); a boot brings back the beginning of one save and defaults (`BootsOneSave`); a binding stored outside a save is kept by later ones (`BindingKept`) |
| `can_bus` | no message waits in the ring with nobody to send it (`NoMessageForgotten`); a request is not answered by an older response (`AnswerFresh`); the ring empties (`Drains`); a stream ends (`StreamEnds`) |
| `home_flow`, `rearm`, `landing`, `loss2` | four disagreements of the code with its own comments and messages, see below |

Bounds. A run takes the frames its question needs: those that arm, disarm and
hover for all, the mission and home switches for `flight`, the waypoint switch,
in and out of a mission, and the clear gesture for `pilot`. `flight` uses the ascend option, whose plans
include the shapes of the others, and GPS that comes and goes; `pilot` both
battery stages and missions recorded up to length 1 (`MaxRecorded`). The timeouts
are one and two ticks (`ArmTicks`, `Loss1Ticks`, `Loss2Ticks`): the code compares
them with ages only, so what matters is their order and that both a tick below
and a tick above each exist. Ages are capped one above the longest
timeout. `GroundStation` and optical flow are off where a run does not need them;
`home_flow` is the case where flow matters. No state constraint is used. Every
action fires in one of the passing runs.

`mission` has a table of three legs (`MaxLegs`, 25 in the code): missions that fill
it, are too long, and leave a hole, with every type of item. Three counts, clears or
SET_CURRENTs (`MaxSent`) allow an upload, a second one over it and a clear or a
repeated count; two messages each way (`MaxLink`) allow a late answer to overtake
nothing but to arrive after the next request; two attempts (`MaxAttempts`, 20 in
the code) allow a repeat and a timeout. `comm_tx` has three ports, two of them with the same
stream, so that a buffer is counted twice, one in interrupts and one in a task; rings
of two slots, of which one holds, fill while a port sends; with three buffers one port can be sending, have
a full ring and be offered one more. `filer` has the log and one more slot; a file
of one chunk is read with an end, and written with two; a ring of three records
wraps and is written in two pieces; one error (`MaxErrors`) may hit any operation,
three records (`MaxLogged`) bring the ring round. Two and three errors were
also checked once, with the same result. `config` has two parameters, of which the first
is the version in configFlashRead()'s test, so that a save can stop before, between and
after them; two saves (`MaxSaves`), of one task or of both, two bindings (`MaxStores`), an
error (`MaxFaults`) and a failure of the power (`MaxBoots`) meet in any order; the slots
hold all tokens they can produce. `can_bus` has a ring of three slots, of which two
hold (48 in the code), and two sequence numbers (64), so that both come round: the number of a
request was that of an earlier one. Two single messages (`MaxSends`) of one or of two
tasks come between the two messages of a stream; two UARTs let a round end with one
idle.

### What disagrees

- `home_flow`: nav.c:423 "set this position as home if we have none". Position
  hold entered on optical flow does not set home, and never looks again when the
  GPS fix arrives. A recovery then flies to latitude and longitude 0. Hence
  `Flow = {FALSE}` in `flight`, where `HomeKnown` holds.
- `rearm`: supervisor.c:137 "Can't arm, not in manual flight mode". The override a
  finished recovery leaves behind is not tested.
- `landing`: nav.c:673 "shut everything down". A landing inside the
  read-modify-write of a battery or radio warning is undone by its store.
- `loss2`: supervisor.h:33 "15 seconds". `lastGoodRadioMicros` is not kept on the
  ground and in missions, so stage 2 follows stage 1 by one tick.

Four more were met and have no run: home set from the home switch without a fix
(src/CHANGES.md:72, nav.c:348); a calibration command tested before and carried out
after the motors finish arming (aq_mavlink.c:433, 452); "Parameters saved to flash
memory." said whatever the flash answered (config.c:162), for instance when a binding
has locked the flash in the middle of the save; and the test "to prevent overflows" of
drivers/can/canUart.c:73, which has the ends of the ring the wrong way round. No property
of a run claims the contrary; the hazards list has them at their lines.

### Fairness

`FairSpec` states what the scheduler and the craft do. `WF` for control and for
run: both wake on IMU samples, which do not stop, and nothing above them spins.
`SF` for the supervisor and comm: they are enabled again and again, between two
loops of run, and the CPU is idle then. `SF` also for three facts of flight: a leg
being flown is reached, a loiter time passes, and on a landing the altitude
controller ends up asking for no thrust. Nothing is assumed of the radio link.

`mission`: `WF` of the comm task as a whole, which keeps receiving and calling
mavlinkDo(); nothing of ground, link or pilot. `comm_tx`: `WF` for each task's
call that was begun and for the two kinds of interrupt; `SF` for the end of a CAN
transmission, which needs the comm task between two of its own messages, where it
comes again and again. That a task begins a call is not assumed. `filer`: `WF` of the
filer task (idle priority, but the others wait), of a client that has been woken,
and of the host ejecting the card: while the host has it, nobody is answered.
`can_bus`: `WF` of each task inside a call it has begun, of the end of a wait (it is
counted, CAN_TIMEOUT), of the stream in comm, which comes round once a millisecond, of
the interrupt and of the controller, which sends what it is given. Calls are not
assumed to be made, nor nodes to respond. `config` states safety only.

## Proofs

Every theorem holds for all values of the constants that satisfy the model's named
assumption (`FlightAssumption`, ...), which the runs evaluate: any set of frames, missions,
files, tasks, ports; timeouts, rings, tables and counters of any size. Hypotheses beyond
these are two, both of Flight and both named below. The pattern is the same everywhere: an
inductive invariant whose parts are named, a lemma for the initial state, a lemma for each
action or group of actions, and the theorems from these by temporal logic.

**FlightProofs**

- `TypeCorrect`: `Spec => []TypeOK`. Inductive by itself; the plan of a recovery
  is a sequence of legs whatever it overwrites (`PlanType`).
- `BaseStatesHold`: `Spec => []BaseStates`. Not inductive: a store brings back an
  older state. `BaseInv` adds that the loaded register, if it is about to be
  stored, satisfies the same predicate.
- `FailsafeHolds`: `Spec => []FailsafeInCharge`. `LossInv` says that a flagged
  loss has an override, in the state and in the register, except at the points of
  the tick between the store of the flag and the store of the override.
- `StagesHold`: `Spec => []LossStages`. Stage 2 is decided from a state read
  before the store, and during the delay run, comm and control may all take
  steps: somebody might clear stage 1 in between. `StageInv` (`StagesInductive`) says
  why nobody does. In stage 1 alone the override is position hold (but for the points
  where the supervisor sets or clears it), and with position hold requested run does not
  enter the mission (`HoldKeepsOut`), whose last leg is what would disarm;
  calibrating excludes flying (`BaseStates`) and comm commands need the
  supervisor idle.

The lemmas `StateWrites` and `OverrideWrites` state what the two tables of writes
may hold; the step proofs use only them, one case per action.

**RecoveryProofs**, on top of these

- `HomeIsLeft`: `Spec => HomeStays`; no invariant is needed, each command of run tests
  the flag itself.
- `RecoveryIsKept`: `Spec => RecoveryKept`. `PlanInv` (`PlanInductive`): stage 2 is
  flagged only in the air; while the supervisor plans, position hold is in force and the
  mode below mission, so that navClearWaypoints() is not refused and run edits no leg.
- `HomeIsKnown`: `Spec => []HomeKnown`, if there is no optical flow (`Flow \subseteq
  {FALSE}`). With it the property fails: that is run `home_flow`. `HomeInv` rests on
  `Settled`: between the two looks of the supervisor at navCapable run has completed a
  mode selection, and either reached position hold, which set home, or found the GPS
  incapable.
- `RecoveryLands`: `Spec => []RecoveryEndsInLanding`, if the battery is not watched or no
  frame has the waypoint switch on. `LandInv` follows the recovery through the registers of
  a read-modify-write that could bring it back. Why the condition: a landing may disarm
  inside the read-modify-write of a battery flag, and with a whole further loop of run
  inside the same two instructions the switch, free while disarmed, could record over the
  plan before the store brings the recovery back. TLC finds this. The model lets it
  happen because it bounds no delay; in the code run is due every 5 ms, and the store
  follows its load by some cycles.

**MissionProofs**: `MissionTypes`, `LoadedIsKnown`, `FlownIsKnown` (`Spec => []...` of
`TypeOK`, `LoadedIsSent`, `FlownIsSent`) and `MissionIsKept` (`Spec => MissionKept`), for
any missions, table and link. `MissionInv` has, besides the two properties:

- `Upload`, `Messages`: what is under way, in the link and in comm's hands belongs to
  the mission accepted last and is within its count.
- `Announced`: a COUNT that may be repeated clears the table again; until the ground has
  heard of it nothing but the first item has been asked for, sent or stored.
- `Before`: an item is asked for, sent and stored only after all those before it. This
  is what makes the last item say that all are there; late and repeated items do not
  break it, as they are of the same mission.
- `Handled`, `Table`: the message comm is in the middle of, and a table that has items
  of the accepted mission only.
- `Flying`: a mission is flown only when loaded completely, and no clear, count or
  SET_CURRENT is under way. It rests on the assumptions on the ground station and the
  pilot above.

**CommTxProofs**: `CommTypes`, `NoPortSleeps` (`TypeOK`, `NoStall`) from `CommInv`:

- `Locks`: a task is in the queue of the mutex once, just where it must be, and the
  ports marked in the first loop of commSendTxBuf() are the owner's.
- `Owners`: a buffer is one task's; `Stacked`: the slot at a head not moved yet holds
  the buffer put there, though interrupts move tails meanwhile.
- `Started`: the slot being sent is just behind the tail, except where the comm task has
  started a CAN UART and has yet to move its tail, and an interrupt may have started the
  same slot: the case the properties turn on.
- `Contents`: a port holds a buffer in one slot, and not one that a task still has.
- `Counts`: a status is `SENDING` and the number of holders, a port being a holder by the
  slots of its ring and by the marks.

`NoStall` is preserved on top of that: a head moved is followed by an interrupt, a
finished transmission by a look at the ring. The last conjunct of `CommTxAssumption` is
used: nobody but comm sends to a CAN UART.

**PoolProofs**

- `StatusIsCount`: `Spec => []StatusCounts`: the property counts entries of queues, the
  invariant slots, and the lemmas on positions in the ring (`Pos`, `Dist`, `Between`)
  join the two.
- `CommImplementsPool`: `Spec => PoolSpec`, the refinement of TxPool. One lemma per
  action says what it is of the pool: `Allocate` is Take, the stacking at the last
  port Hand (or, with no port, `Discard` the return of the buffer), the move of a head
  Publish, the end of a transmission (`DmaIRQ`, `CanSent`) Finish, which for an interrupt
  is also the freeing, and `CanRelease` Free for the comm task; everything else, the
  mutex, the marks and the start of a port, is a stutter. The lemmas that end in
  -Stays and -Moves say once what leaves the mapped free set, holders and queues alone.

**FilerProofs**

- `FilerTypes`: `Spec => []TypeOK`, and `FilerStream`: `Spec => []StreamInStep`.
  Neither is inductive. `FilerInv` adds that the log keeps its slot and no other
  slot is a stream (`Table`), that a client that uses a file has a slot of its own
  with that file's name (`Own`), and that the filer deals with the log or a request
  in the slot of one, with no more to write than there is (`Dealing`): a chunk is
  computed in one step and written in another, while the logger moves the head.
  `ClientRest`, `FilerRest` and `WorkRest` state once what is left to show of an action
  that touches only some variables.
- `FilerHandsOver`: `Spec => HandedOverClosed`. `HandInv` says which points of the
  task are reached with all files closed, and that initialized is false on the way
  to a mount.
- `FilerSessions`: `Spec => []SessionTrue`. `SessionInv`: files are used one at a time, so
  there is one slot for all of them (`OneSlot`), and a request left in it by a restart is
  always in this one; a slot without leftovers has the client's request only, and what is
  complete is the answer to it (`Orderly`, `Served`); and the place in the file is that of
  the lines read or written so far, at each point of the exchange (`Announced`). The
  file's contents and its length are arbitrary.

**ConfigProofs**: `ConfigTypes`, `SavesAreDurable`, `BindingsAreKept` (`TypeOK`, `SaveDurable`,
`BindingKept`) and `BootFindsOneSave` (`Spec => BootsOneSave`). `ConfigInv` is

- `Layout`: where each task is and what it holds (`Places`), and that a slot stays empty for
  the search to find: every token written is one that was counted, and those still to come
  fit (`Room`).
- `Work`: without a clash one task works at a time, with the flash unlocked (`Alone`), and
  the records are at every step the beginning of one list, the next perhaps half written
  (`Records`).
- `Bindings`: without a clash the tokens have no gap (`Dense`), and a save under way has
  copied the binding (`Binding`).

The least slot of the search comes from the well-foundedness of the naturals.

**CanBusProofs**: `CanTypes`, `CanForgetsNothing`, `CanAnswersFresh` (`TypeOK`,
`NoMessageForgotten`, `AnswerFresh`). `CanInv` adds to the first two that the streams'
round is within its bounds (`Streaming`) and that from `Clear` on a response that is there
is a new one (`Asking`).

Only model-checked: the liveness properties (`RecoveryEnds`, `LossNoticed`,
`ControlReturned`, `UploadEnds`, `Returned`, `Answered`, `Drains`, `StreamEnds`), which
depend on fairness and ENABLED and are out of the prover's reach, and the four violations.
No module has a recursive operator, and no proof needs induction over data.

## Not modelled

- The calibration buffers, freed by two tasks; the high priority ring and the nodes of
  the CAN bus; the notice ring and the USB copy of comm.c; the receive rings, which are
  single producer and single consumer; the parsing of the parameters file; the flash's
  behaviour when the power fails in the middle of one erase or one word.
- State estimation, the control laws and the mixer: floating point, out of TLC's
  reach. Their results are inputs of the models.
- Sensors, timers, board support, gimbal, signaling, telemetry formats: device I/O
  or outputs without a state that decides anything.
- CoOS, FatFs, SDIO, the USB stack, CMSIS and the vendor's libraries: vendored. They
  are most of the lines of the repository; what is used of them is stated in the
  headers of the modules.

## Plan

Done: the six models with their runs, the safety properties of all of them and the
refinement of the pool proved. Next, in this order:

1. An invariant that lets `RecoveryLands` drop its condition, from a bound on what may happen
   inside a read-modify-write.
2. Lemmas about what the liveness properties rest on: that the actions under fairness stay
   enabled, stated without ENABLED as guards that hold.
3. The life cycle of the calibration buffers.

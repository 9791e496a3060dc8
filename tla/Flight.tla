-------------------------------- MODULE Flight --------------------------------
(***************************************************************************)
(* The flight state of AutoQuad: who may arm, disarm and fly the craft.    *)
(*                                                                         *)
(* Four CoOS tasks share supervisorData.state and the mode byte of navData *)
(* (lower number = higher priority, no time slicing):                      *)
(*                                                                         *)
(*   control     5  one action, Control                                    *)
(*   run        30  one loop = the three Run actions, in source order      *)
(*   supervisor 34  one 20 Hz tick = the Spvr actions, one per shared      *)
(*                  write; the |= and &= on the state byte and the write   *)
(*                  of a bit-field are a load and a store                  *)
(*   comm       40  the MAVLink handler that starts a calibration          *)
(*                                                                         *)
(* A task runs only when every task above it is blocked: that is what the  *)
(* guards RunIdle and SpvrBlocked say.  An IMU sample wakes control, and   *)
(* every second sample run as well, which then follows control; between    *)
(* two supervisor ticks, 50 ms apart, run completes a loop.  control       *)
(* may also preempt run, but what it reads (ARMED, mode > MANUAL) and      *)
(* writes (FLYING, the thrust) makes that pass the same as one before or   *)
(* after the loop, so it is left out.                                      *)
(*                                                                         *)
(* Time is counted in supervisor ticks.  While the radio link is up a      *)
(* reader may find any frame of Frames in the channels; when it is lost    *)
(* the channels keep the last frame (or what the supervisor wrote there).  *)
(***************************************************************************)
EXTENDS Naturals, Sequences

CONSTANTS
  Frames,       \* the radio frames a receiver may deliver, see Frame
  Fixes,        \* the values of "the GPS has a 3D fix"
  Flow,         \* the values of "flowQuality > 0": {FALSE} with no flow sensor
  Batteries,    \* the low battery stages the voltage may reach
  FsOptions,    \* the values SPVR_FS_RAD_ST2 may have, see FailsafePlan
  ArmTicks,     \* SUPERVISOR_DISARM_TIME in ticks
  Loss1Ticks,   \* SUPERVISOR_RADIO_LOSS1 in ticks
  Loss2Ticks,   \* SUPERVISOR_RADIO_LOSS2 in ticks
  GroundStation,\* a ground station may command a calibration
  MaxRecorded   \* bound on the length of a recorded mission

Flags == {"CALIBRATION", "DISARMED", "ARMED", "FLYING", "RADIO_LOSS1",
          "RADIO_LOSS2", "LOW_BATTERY1", "LOW_BATTERY2"}
LowBattery == {"LOW_BATTERY1", "LOW_BATTERY2"}

\* navStatusTypes
MANUAL  == 0
ALTHOLD == 1
POSHOLD == 2
DVH     == 3
MISSION == 4
Modes   == MANUAL .. MISSION

\* supervisorFailsafeStg2Options
FS_LAND   == 0
FS_RTH    == 1
FS_ASCEND == 2

\* navLegTypes; "NONE" is the type 0 that ends the list
Legs == {"HOME", "GOTO", "LAND"}

\* What the supervisor, nav and control tell apart in the radio channels:
\* throttle against CTRL_MIN_THROT, rudder against +-500, pitch or roll out of
\* the dead band, the most capable active mode switch, the home switch and the
\* waypoint switch.
Frame == [throt : {"low", "up"}, rudd : {"left", "centre", "right"},
          tilt : BOOLEAN, sw : {MANUAL, ALTHOLD, POSHOLD, MISSION},
          hom : {"off", "set", "go"}, wp : BOOLEAN]

Neutral == [throt |-> "low", rudd |-> "centre", tilt |-> FALSE,
            sw |-> MANUAL, hom |-> "off", wp |-> FALSE]

ASSUME FlightAssumption ==
  /\ Frames \subseteq Frame
  /\ Frames # {}
  /\ Fixes \subseteq BOOLEAN
  /\ Flow \subseteq BOOLEAN
  /\ Batteries \subseteq LowBattery
  /\ FsOptions \subseteq {FS_LAND, FS_RTH, FS_ASCEND}
  /\ ArmTicks \in Nat \ {0}
  /\ Loss1Ticks \in Nat
  /\ Loss2Ticks \in Nat
  /\ Loss1Ticks < Loss2Ticks
  /\ GroundStation \in BOOLEAN
  /\ MaxRecorded \in Nat

VARIABLES
  \* supervisorData
  state,       \* the set of bits of supervisorData.state
  armHeld,     \* ticks since armTime, 0 when armTime is 0
  radioAge,    \* ticks since lastGoodRadioMicros
  \* navData
  mode, override, navCapable,
  fix3,        \* navData.fixType = 3, FALSE between two loops of run
  legs,        \* the types of missionLegs, up to the first 0
  temp,        \* tempMissionLoaded
  leg,         \* missionLeg
  hasLeg,      \* hasMissionLeg
  loiter,      \* loiterCompleteTime # 0
  home,        \* homeLeg: not set, set with a 3D fix, set without one
  \* motorsData
  thrust,      \* motorsData.throttle > 1
  \* radioData
  link,        \* RADIO_QUALITY > 1
  rc,          \* the channels while the link is lost
  \* the tasks
  spvr,        \* where the supervisor is in its tick
  loaded, regState, regMode,   \* the register of its read-modify-write
  run,         \* where run is in its loop
  cur,         \* curLeg of navNavigate, as an index of legs
  comm,        \* where the MAVLink handler is
  ran          \* run completed a loop while the supervisor sleeps

spvrVars == <<armHeld, radioAge, spvr, loaded, regState, regMode>>
legVars  == <<legs, temp, leg, hasLeg, loiter>>
navVars  == <<mode, override, navCapable, fix3, legVars, home>>
rcVars   == <<link, rc>>
taskVars == <<run, cur, comm, ran>>
vars     == <<state, spvrVars, navVars, thrust, rcVars, taskVars>>

\* The supervisor's writes to state and to spvrModeOverride, and its other points.
StatePoints    == {"regain", "loss1", "loss2", "low1", "low2"}
OverridePoints == {"regainOverride", "holdOverride", "missionOverride", "descendOverride"}
SpvrPoints     == StatePoints \cup OverridePoints \cup
                  {"idle", "arming", "radio", "plan", "centre", "descend"}
RunPoints      == {"idle", "select", "commands", "legs"}

RunIdle     == run = "idle"
SpvrBlocked == spvr \in {"idle", "arming"}
Seen        == IF link THEN Frames ELSE {rc}
Tick(n, max) == IF n < max THEN n + 1 ELSE n

-------------------------------------------------------------------------------
(* Legs of a mission *)

LegType(i) == IF i < Len(legs) THEN legs[i + 1] ELSE "NONE"

\* navLoadLeg(): an invalid leg is refused, a valid one becomes the target.
LoadLeg(i) ==
  /\ hasLeg' = (LegType(i) # "NONE")
  /\ loiter' = (loiter /\ LegType(i) = "NONE")

\* The legs the supervisor writes for radio loss stage 2.
FailsafePlan(option, far, below) ==
  IF option > FS_LAND /\ far
  THEN IF option = FS_ASCEND /\ below
       THEN <<"GOTO", "GOTO", "HOME", "LAND">>
       ELSE <<"GOTO", "HOME", "LAND">>
  ELSE <<"LAND">>

\* navClearWaypoints() refuses in a mission: the plan then covers a prefix.
WritePlan(plan) ==
  IF mode >= MISSION /\ Len(legs) > Len(plan)
  THEN plan \o SubSeq(legs, Len(plan) + 1, Len(legs))
  ELSE plan

ArmedOverBase == {"ARMED"} \cup state    \* mutant: |= where the code assigns

Disarmed == {"DISARMED"} \cup (state \cap LowBattery)
Armed    == {"ARMED"} \cup (state \cap LowBattery)

-------------------------------------------------------------------------------
Init ==
  /\ state = {"DISARMED"} /\ armHeld = 0 /\ radioAge = Loss2Ticks + 1
  /\ mode = MANUAL /\ override = 0 /\ navCapable = FALSE /\ fix3 = FALSE
  /\ legs = <<"HOME", "LAND">> /\ temp = TRUE     \* navLoadDefaultMission()
  /\ leg = 0 /\ hasLeg = FALSE /\ loiter = FALSE /\ home = "unset"
  /\ thrust = FALSE
  /\ link = FALSE /\ rc = Neutral
  /\ spvr = "idle" /\ loaded = FALSE /\ regState = {} /\ regMode = MANUAL
  /\ run = "idle" /\ cur = 0 /\ comm = "idle" /\ ran = FALSE

-------------------------------------------------------------------------------
(* Environment: the receiver gains and loses the link, and decodes single    *)
(* frames while its quality is still too low.                                *)

LinkUp ==
  /\ ~link
  /\ link' = TRUE /\ rc' = Neutral
  /\ UNCHANGED <<state, spvrVars, navVars, thrust, taskVars>>

LinkLost ==
  /\ link
  /\ link' = FALSE /\ rc' \in Frames
  /\ UNCHANGED <<state, spvrVars, navVars, thrust, taskVars>>

StrayFrame ==
  /\ ~link
  /\ rc' \in Frames
  /\ UNCHANGED <<state, spvrVars, navVars, thrust, link, taskVars>>

-------------------------------------------------------------------------------
(* Control task: one pass per rate sample; next says whether the same sample *)
(* wakes run.  pid stands for what the altitude PID or the throttle stick    *)
(* asks of the motors.                                                       *)

Control(pid, next) ==
  /\ RunIdle /\ run' = next
  /\ \E f \in Seen :
       IF "ARMED" \in state
       THEN IF f.throt = "up" \/ mode > MANUAL
            THEN /\ state' = state \cup {"FLYING"}     \* supervisorThrottleUp(1)
                 /\ thrust' = pid
            ELSE /\ state' = state \ {"FLYING"}        \* supervisorThrottleUp(0)
                 /\ thrust' = FALSE                    \* motorsOff()
       ELSE /\ thrust' = FALSE
            /\ UNCHANGED state
  /\ UNCHANGED <<spvrVars, navVars, rcVars, cur, comm, ran>>

-------------------------------------------------------------------------------
(* Run task, first part of navNavigate(): GPS quality and mode selection. *)

\* navCapable outlives the fix while the mode is POSHOLD or above.
Capable(fix) == fix \/ (mode >= POSHOLD /\ navCapable)

Viable(fix) ==
  /\ Capable(fix)
  /\ IF mode = MISSION THEN hasLeg ELSE LegType(leg) # "NONE"

\* The hierarchy of flight mode requests.
Request(f, fix) ==
  CASE override # 0                                      -> override
    [] override = 0 /\ f.sw = MISSION /\ Viable(fix)     -> MISSION
    [] override = 0 /\ f.sw = MISSION /\ ~Viable(fix)    -> POSHOLD
    [] override = 0 /\ f.sw # MISSION                    -> f.sw

\* The position where position hold starts becomes home if there is none.
NeedsHomeStale(fix) == navCapable /\ home = "unset"    \* mutant: tests the last loop's value
NeedsHome(fix)      == Capable(fix) /\ home = "unset"

SetHome(fix) == home' = IF fix THEN "fix" ELSE "nofix"   \* navSetHomeCurrent()

\* Mission requested and possible: entered from POSHOLD or DVH only.
SelectMission(f, fix) ==
  /\ "ARMED" \in state /\ Request(f, fix) = MISSION /\ Viable(fix)
  /\ cur' = leg
  /\ IF mode \in {POSHOLD, DVH}
     THEN /\ mode' = MISSION
          /\ LoadLeg(leg)
     ELSE UNCHANGED <<mode, hasLeg, loiter>>
  /\ UNCHANGED <<leg, home>>

SelectHold(f, fix, flow, slow) ==
  LET req  == IF Request(f, fix) = POSHOLD /\ f.tilt THEN DVH ELSE Request(f, fix)
      alt  == IF mode < ALTHOLD \/ req = ALTHOLD THEN ALTHOLD ELSE mode
      pos  == Capable(fix) \/ flow
      hold == pos /\ req > ALTHOLD /\ alt \notin {POSHOLD, DVH}
  IN  /\ "ARMED" \in state /\ Request(f, fix) > MANUAL
      /\ ~(Request(f, fix) = MISSION /\ Viable(fix))
      /\ mode' = CASE hold                                 -> POSHOLD
                   [] ~hold /\ pos /\ req = DVH            -> DVH
                   [] ~hold /\ ~(pos /\ req = DVH) /\ alt = DVH
                                                           -> IF slow \/ f.hom = "go" THEN POSHOLD ELSE DVH
                   [] ~hold /\ ~(pos /\ req = DVH) /\ alt # DVH -> alt
      /\ IF hold /\ NeedsHome(fix) THEN SetHome(fix) ELSE UNCHANGED home
      /\ cur' = leg
      /\ UNCHANGED <<leg, hasLeg, loiter>>

SelectManual(f, fix) ==
  /\ ~("ARMED" \in state /\ Request(f, fix) > MANUAL)
  /\ mode' = MANUAL /\ leg' = 0 /\ cur' = leg
  /\ UNCHANGED <<hasLeg, loiter, home>>

RunSelect ==
  /\ run = "select" /\ run' = "commands"
  /\ \E f \in Seen, fix \in Fixes, flow \in Flow, slow \in BOOLEAN :
       /\ fix3' = fix /\ navCapable' = Capable(fix)
       /\ \/ SelectMission(f, fix)
          \/ SelectHold(f, fix, flow, slow)
          \/ SelectManual(f, fix)
  /\ UNCHANGED <<state, spvrVars, override, legs, temp, thrust, rcVars, comm, ran>>

-------------------------------------------------------------------------------
(* navDoUserCommands().  The one-shot flags and the 1 s timer of the waypoint *)
(* switch are abstracted: a switch that is active may act in any loop.  The   *)
(* leg loaded by a skip does not reach navNavigate's curLeg (cur), which the  *)
(* code passes by value.                                                      *)

HomeCommand(f) ==
  \/ /\ f.hom = "set" /\ "ARMED" \in state /\ navCapable
     /\ SetHome(fix3)
  \/ UNCHANGED home

SkipWaypoint ==
  LET next == IF leg + 1 < Len(legs) THEN leg + 1 ELSE 0
  IN  /\ LoadLeg(next)
      /\ leg' = IF LegType(next) = "NONE" THEN leg ELSE next
      /\ UNCHANGED <<legs, temp>>

\* navRecordWaypoint(): a temporary mission is cleared first.
RecordWaypoint ==
  /\ IF navCapable /\ mode < MISSION /\ (temp \/ Len(legs) < MaxRecorded)
     THEN /\ legs' = IF temp THEN <<"GOTO">> ELSE Append(legs, "GOTO")
          /\ temp' = FALSE
     ELSE UNCHANGED <<legs, temp>>
  /\ UNCHANGED <<leg, hasLeg, loiter>>

CommandsUntilLoss2 == "RADIO_LOSS2" \notin state    \* mutant: the wrong stage
CommandsAlways     == TRUE                         \* mutant: no test
CommandsAllowed    == "RADIO_LOSS1" \notin state

RunCommands ==
  /\ run = "commands" /\ run' = "legs"
  /\ IF ~CommandsAllowed
     THEN UNCHANGED <<home, legVars>>
     ELSE \E f \in Seen :
            /\ HomeCommand(f)
            /\ \/ f.wp /\ f.sw = MISSION /\ SkipWaypoint
               \/ f.wp /\ f.sw # MISSION /\ RecordWaypoint
               \/ UNCHANGED legVars
  /\ UNCHANGED <<state, spvrVars, mode, override, navCapable, fix3, thrust,
                 rcVars, cur, comm, ran>>

-------------------------------------------------------------------------------
(* Mission progress: arrival starts the loiter clock, its end the next leg. *)

Arrive ==
  /\ mode = MISSION /\ ~loiter /\ LegType(cur) \in {"GOTO", "HOME"}
  /\ loiter' = TRUE
  /\ UNCHANGED <<mode, leg, hasLeg>>

NextLegStays ==    \* mutant: missionLeg is not incremented
  /\ mode = MISSION /\ loiter /\ LegType(cur) # "LAND"
  /\ LoadLeg(leg) /\ UNCHANGED <<leg, mode>>

NextLeg ==
  /\ mode = MISSION /\ loiter /\ LegType(cur) # "LAND"
  /\ leg' = leg + 1
  /\ LoadLeg(leg + 1)
  /\ mode' = IF LegType(leg + 1) = "NONE" THEN POSHOLD ELSE mode

\* calibrate(), the last call of the loop, disarms when it has enough samples.
CalibrationEnds == "CALIBRATION" \in state /\ state' = Disarmed

\* On a LAND leg, no thrust means the ground: supervisorDisarm().
Shutdown(i) ==
  IF mode' = MISSION /\ LegType(i) = "LAND" /\ ~thrust
  THEN state' = Disarmed
  ELSE \/ CalibrationEnds
       \/ UNCHANGED state

RunLegs ==
  /\ run = "legs" /\ run' = "idle"
  /\ \/ Arrive /\ Shutdown(cur)
     \/ NextLeg /\ Shutdown(leg + 1)
     \/ UNCHANGED <<mode, leg, hasLeg, loiter>> /\ Shutdown(cur)
  /\ cur' = 0 /\ fix3' = FALSE /\ ran' = (spvr = "idle")
  /\ UNCHANGED <<spvrVars, override, navCapable, legs, temp, home, thrust, rcVars, comm>>

-------------------------------------------------------------------------------
(* Supervisor tick, first part: the stick commands of each state. *)

\* armTime: started by the first tick that finds the sticks so, cleared by any
\* tick that does not; Held says the sticks were held long enough.
Held == armHeld > ArmTicks
Hold(sticks) == armHeld' = IF sticks /\ ~Held THEN armHeld + 1 ELSE 0

TickCalibrating ==
  \E f \in Seen :
    LET sticks == f.throt = "low" /\ f.rudd = "left"
    IN  /\ Hold(sticks)
        /\ state' = IF sticks /\ Held THEN Disarmed ELSE state
        /\ spvr' = "radio" /\ UNCHANGED legVars

\* supervisorArm() refuses with a weak radio or an active mode or home switch;
\* motorsArm() may then yield while it waits for CAN ESCs ("arming").
MayArm(f) == link /\ f.sw = MANUAL /\ f.hom = "off"

\* Stick commands while disarmed; the others change no state modelled here.
StickCommand(f) ==
  /\ link /\ f.throt = "low" /\ f.rudd = "left"
  /\ \/ /\ state' = {"CALIBRATION"}              \* supervisorCalibrate()
        /\ UNCHANGED legVars
     \/ /\ f.wp /\ mode < MISSION                \* navClearWaypoints()
        /\ legs' = <<>> /\ temp' = FALSE
        /\ UNCHANGED <<state, leg, hasLeg, loiter>>

TickDisarmed ==
  \E f \in Seen :
    LET sticks == link /\ f.throt = "low" /\ f.rudd = "right"
    IN  /\ Hold(sticks)
        /\ \/ /\ spvr' = IF sticks /\ Held /\ MayArm(f) THEN "arming" ELSE "radio"
              /\ UNCHANGED <<state, legVars>>
           \/ /\ spvr' = "radio"
              /\ StickCommand(f)

\* "Disarm only if in manual mode"
TickArmed ==
  \E f \in Seen :
    LET sticks == f.throt = "low" /\ f.rudd = "left" /\ mode = MANUAL
    IN  /\ Hold(sticks)
        /\ state' = IF sticks /\ Held THEN Disarmed ELSE state
        /\ spvr' = "radio" /\ UNCHANGED legVars

SpvrTick ==
  /\ spvr = "idle" /\ RunIdle /\ comm = "idle" /\ ran /\ ran' = FALSE
  /\ radioAge' = Tick(radioAge, Loss2Ticks + 1)
  /\ \/ "CALIBRATION" \in state /\ TickCalibrating
     \/ "CALIBRATION" \notin state /\ "DISARMED" \in state /\ TickDisarmed
     \/ state \cap {"CALIBRATION", "DISARMED"} = {} /\ "ARMED" \in state /\ TickArmed
  /\ UNCHANGED <<loaded, regState, regMode, mode, override, navCapable, fix3, home,
                 thrust, rcVars, run, cur, comm>>

\* Back from motorsArm(): every ESC armed, or one did not answer.
SpvrArm(ok) ==
  /\ spvr = "arming" /\ RunIdle /\ spvr' = "radio"
  /\ state' = IF ok THEN Armed ELSE state
  /\ UNCHANGED <<armHeld, radioAge, loaded, regState, regMode, navVars,
                 thrust, rcVars, taskVars>>

-------------------------------------------------------------------------------
(* Radio loss and battery.  SpvrRadio decides; what it decides is then written *)
(* one read-modify-write at a time, a load and a store.                        *)

RadioLostAgain(flag, ticks) == flag \in state /\ radioAge > ticks    \* mutant: inverted test
RadioLost(flag, ticks) == flag \notin state /\ radioAge > ticks

\* Where the tick goes after the radio: the voltage may have fallen below the
\* next stage.  Only the supervisor sets these two flags.
Battery == {"idle"} \cup
  CASE "LOW_BATTERY1" \notin state -> IF "LOW_BATTERY1" \in Batteries THEN {"low1"} ELSE {}
    [] "LOW_BATTERY1" \in state /\ "LOW_BATTERY2" \notin state
                                  -> IF "LOW_BATTERY2" \in Batteries THEN {"low2"} ELSE {}
    [] OTHER                      -> {}

SpvrRadio ==
  /\ spvr = "radio" /\ RunIdle
  /\ IF "FLYING" \in state /\ (mode < MISSION \/ "RADIO_LOSS2" \in state)
     THEN /\ radioAge' = IF link THEN 0 ELSE radioAge
          /\ CASE link                                                -> spvr' = "regainOverride"
               [] ~link /\ RadioLost("RADIO_LOSS1", Loss1Ticks)        -> spvr' = "loss1"
               [] ~link /\ ~RadioLost("RADIO_LOSS1", Loss1Ticks)
                        /\ RadioLost("RADIO_LOSS2", Loss2Ticks)        -> spvr' = "loss2"
               [] OTHER                                               -> spvr' \in Battery
     ELSE spvr' \in Battery /\ UNCHANGED radioAge
  /\ UNCHANGED <<state, armHeld, loaded, regState, regMode, navVars,
                 thrust, rcVars, taskVars>>

\* The writes to the state byte: where, the flags set and cleared, what is next.
StateWriteHalfRegain ==    \* mutant: the regained radio clears stage 1 only
  [regain |-> [set |-> {}, clear |-> {"RADIO_LOSS1"}, next |-> Battery],
   loss1  |-> [set |-> {"RADIO_LOSS1"}, clear |-> {}, next |-> {"holdOverride"}],
   loss2  |-> [set |-> {"RADIO_LOSS2"}, clear |-> {}, next |-> {"plan"}]]

StateWrite ==
  [regain |-> [set |-> {}, clear |-> {"RADIO_LOSS1", "RADIO_LOSS2"}, next |-> Battery],
   loss1  |-> [set |-> {"RADIO_LOSS1"}, clear |-> {}, next |-> {"holdOverride"}],
   loss2  |-> [set |-> {"RADIO_LOSS2"}, clear |-> {}, next |-> {"plan"}],
   low1   |-> [set |-> {"LOW_BATTERY1"}, clear |-> {}, next |-> {"idle"}],
   low2   |-> [set |-> {"LOW_BATTERY2"}, clear |-> {}, next |-> {"idle"}]]

\* The writes to spvrModeOverride, a bit-field in the same byte as mode.
OverrideWriteAltHold ==    \* mutant: altitude hold, and no release, on radio loss
  [regainOverride  |-> [value |-> ALTHOLD, next |-> {"regain"}],
   holdOverride    |-> [value |-> ALTHOLD, next |-> {"centre"}],
   missionOverride |-> [value |-> MISSION, next |-> Battery],
   descendOverride |-> [value |-> POSHOLD, next |-> {"descend"}]]

OverrideWrite ==
  [regainOverride  |-> [value |-> 0, next |-> {"regain"}],
   holdOverride    |-> [value |-> POSHOLD, next |-> {"centre"}],
   missionOverride |-> [value |-> MISSION, next |-> Battery],
   descendOverride |-> [value |-> POSHOLD, next |-> {"descend"}]]

SpvrLoad ==
  /\ spvr \in StatePoints \cup OverridePoints
  /\ ~loaded /\ RunIdle
  /\ loaded' = TRUE
  /\ IF spvr \in StatePoints
     THEN regState' = state /\ UNCHANGED regMode
     ELSE regMode' = mode /\ UNCHANGED regState
  /\ UNCHANGED <<state, armHeld, radioAge, spvr, navVars, thrust, rcVars, taskVars>>

SpvrStoreState ==
  /\ spvr \in StatePoints /\ loaded /\ RunIdle
  /\ state' = (regState \ StateWrite[spvr].clear) \cup StateWrite[spvr].set
  /\ loaded' = FALSE /\ regState' = {} /\ spvr' \in StateWrite[spvr].next
  /\ UNCHANGED <<armHeld, radioAge, regMode, navVars, thrust, rcVars, taskVars>>

SpvrStoreOverride ==
  /\ spvr \in OverridePoints /\ loaded /\ RunIdle
  /\ override' = OverrideWrite[spvr].value /\ mode' = regMode
  /\ loaded' = FALSE /\ regMode' = MANUAL /\ spvr' \in OverrideWrite[spvr].next
  /\ UNCHANGED <<state, armHeld, radioAge, regState, navCapable, fix3,
                 legVars, home, thrust, rcVars, taskVars>>

\* Radio loss stage 2: with GPS, replace the mission; the override comes last.
ReplaceMissionOnly(plan) ==    \* mutant: missionLeg is not reset
  legs' = WritePlan(plan) /\ temp' = TRUE /\ leg' = leg

ReplaceMission(plan) == legs' = WritePlan(plan) /\ temp' = TRUE /\ leg' = 0

SpvrPlan ==
  /\ spvr = "plan" /\ RunIdle
  /\ IF navCapable
     THEN /\ \E option \in FsOptions, far \in BOOLEAN, below \in BOOLEAN :
               ReplaceMission(FailsafePlan(option, far, below))
          /\ spvr' = "missionOverride"
     ELSE /\ spvr' = "descendOverride"
          /\ UNCHANGED <<legs, leg, temp>>
  /\ UNCHANGED <<state, armHeld, radioAge, loaded, regState, regMode, mode,
                 override, navCapable, fix3, hasLeg, loiter, home, thrust, rcVars, taskVars>>

\* The supervisor writes centred sticks and throttle into the channels; the
\* next frame, if one arrives, replaces them.
SpvrCentre ==
  /\ spvr \in {"centre", "descend"} /\ RunIdle /\ spvr' \in Battery
  /\ rc' = IF link THEN rc
           ELSE [rc EXCEPT !.throt = "up", !.rudd = "centre", !.tilt = FALSE]
  /\ UNCHANGED <<state, armHeld, radioAge, loaded, regState, regMode, navVars,
                 thrust, link, taskVars>>

-------------------------------------------------------------------------------
(* MAVLink MAV_CMD_PREFLIGHT_CALIBRATION: refused while armed, the check and *)
(* supervisorCalibrate() being two steps of the lowest priority task.        *)

CommCheck ==
  /\ GroundStation /\ comm = "idle" /\ RunIdle /\ SpvrBlocked
  /\ "ARMED" \notin state
  /\ comm' = "calibrate"
  /\ UNCHANGED <<state, spvrVars, navVars, thrust, rcVars, run, cur, ran>>

CommCalibrate ==
  /\ comm = "calibrate" /\ RunIdle /\ SpvrBlocked
  /\ state' = {"CALIBRATION"} /\ comm' = "idle"
  /\ UNCHANGED <<spvrVars, navVars, thrust, rcVars, run, cur, ran>>

-------------------------------------------------------------------------------
RunStep  == RunSelect \/ RunCommands \/ RunLegs
SpvrStep == SpvrTick \/ (\E ok \in BOOLEAN : SpvrArm(ok)) \/ SpvrRadio \/ SpvrLoad
            \/ SpvrStoreState \/ SpvrStoreOverride \/ SpvrPlan \/ SpvrCentre
CommStep == CommCheck \/ CommCalibrate

LinkStep == LinkUp \/ LinkLost \/ StrayFrame

Next == LinkStep \/ RunStep \/ SpvrStep \/ CommStep
        \/ \E pid \in BOOLEAN, next \in {"idle", "select"} : Control(pid, next)

Spec == Init /\ [][Next]_vars

-------------------------------------------------------------------------------
TypeOK ==
  /\ state \subseteq Flags /\ armHeld \in 0 .. ArmTicks + 1
  /\ radioAge \in 0 .. Loss2Ticks + 1
  /\ mode \in Modes /\ override \in {0, POSHOLD, MISSION}
  /\ navCapable \in BOOLEAN /\ fix3 \in BOOLEAN
  /\ legs \in Seq(Legs) /\ temp \in BOOLEAN
  /\ leg \in Nat /\ hasLeg \in BOOLEAN /\ loiter \in BOOLEAN
  /\ home \in {"unset", "fix", "nofix"} /\ thrust \in BOOLEAN
  /\ link \in BOOLEAN /\ rc \in Frame
  /\ spvr \in SpvrPoints /\ loaded \in BOOLEAN
  /\ regState \subseteq Flags /\ regMode \in Modes
  /\ run \in RunPoints /\ cur \in Nat
  /\ comm \in {"idle", "calibrate"} /\ ran \in BOOLEAN

-------------------------------------------------------------------------------
(* Safety *)

\* supervisor.c:67, "set the base status (these are mutually exclusive)": the
\* craft is calibrating, disarmed or armed, and flies only when armed, although
\* three tasks write the byte with plain stores and read-modify-writes.
BaseOK(s) ==
  /\ \E base \in {"CALIBRATION", "DISARMED", "ARMED"} :
       s \cap {"CALIBRATION", "DISARMED", "ARMED"} = {base}
  /\ "FLYING" \in s => "ARMED" \in s
BaseStates == BaseOK(state)

\* supervisor.c:331-441: while a loss is flagged and the tick is over, the frozen
\* channels do not choose the flight mode: the supervisor's override does.
FailsafeInCharge == "RADIO_LOSS1" \in state /\ spvr = "idle" => override >= POSHOLD

\* supervisor.c:344-356: stage 2 is a stage of a loss already flagged, also when
\* run disarms, and so clears the flags, in the middle of the tick.
LossStages == "RADIO_LOSS2" \in state => "RADIO_LOSS1" \in state

Recovering == "RADIO_LOSS2" \in state /\ override = MISSION

\* supervisor.c:361-430: the mission nav flies in recovery is a whole plan of
\* the supervisor: there is a leg to fly, and the last one lands.
RecoveryEndsInLanding == Recovering => leg < Len(legs) /\ legs[Len(legs)] = "LAND"

\* nav.c:422-426, "set this position as home if we have none": a recovery that
\* flies home has a home position to fly to.
HomeKnown == Recovering /\ (\E i \in DOMAIN legs : legs[i] = "HOME") => home # "unset"

\* nav.c:490: with the radio lost, the home switch frozen in the channels does
\* not move home.  (Home is the fix it was set with: as the fix may come and go
\* in any loop, home set once more is home set with another fix in some behaviour.)
HomeStays == [][("RADIO_LOSS1" \in state /\ home # "unset") => home' = home]_vars

\* nav.c:490: nor does the waypoint switch edit the recovery mission or skip one
\* of its legs: a leg ends because it was reached.
RecoveryKept ==
  [][(Recovering /\ "RADIO_LOSS2" \in state')
       => legs' = legs /\ (leg' > leg => loiter)]_vars

-------------------------------------------------------------------------------
(* What the comments, messages and change log say and the code does not do *)

\* supervisor.c:137, "Can't arm, not in manual flight mode": the switches are
\* checked, the override a finished recovery left behind is not.
ArmsInManual == spvr = "arming" => override = 0

\* nav.c:673, "shut everything down": after a landing only supervisorArm() arms.
\* But the supervisor, preempted inside a |= on the state byte, stores the old one.
OnlyArmingArms == [][ ("ARMED" \notin state /\ "ARMED" \in state') => spvr = "arming" ]_vars

-------------------------------------------------------------------------------
(* Liveness.  Every task gets the processor between two IMU samples; the       *)
(* supervisor and comm wait for run, so theirs is strong fairness.  The last   *)
(* three say that the craft flies: it reaches the leg it flies to, loiters no  *)
(* longer than it must, and on a LAND leg the altitude PID ends at no thrust.  *)
Fairness ==
  /\ WF_vars(\E pid \in BOOLEAN : Control(pid, "select"))
  /\ WF_vars(RunStep)
  /\ SF_vars(SpvrStep)
  /\ SF_vars(CommCalibrate)
  /\ SF_vars(RunLegs /\ Arrive)
  /\ SF_vars(RunLegs /\ NextLeg)
  /\ SF_vars(LegType(leg) = "LAND" /\ mode = MISSION /\ Control(FALSE, "select"))

FairSpec == Spec /\ Fairness

\* A recovery ends: disarmed on the ground, or given up as the link came back.
RecoveryEnds == Recovering ~> ~Recovering

\* A craft that flies without a link, outside a mission, is noticed.
LossNoticed ==
  "FLYING" \in state /\ ~link /\ mode < MISSION
    ~> link \/ "FLYING" \notin state \/ mode = MISSION \/ "RADIO_LOSS1" \in state

\* Once the link is back, a flying craft is given back to the pilot.
ControlReturned ==
  "FLYING" \in state /\ link /\ override # 0
    ~> ~link \/ "FLYING" \notin state \/ override = 0

===============================================================================

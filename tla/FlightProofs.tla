----------------------------- MODULE FlightProofs -----------------------------
(***************************************************************************)
(* Theorems about Flight, for every value of its constants.                *)
(***************************************************************************)
EXTENDS Flight, SequenceTheorems, TLAPS

-------------------------------------------------------------------------------
(* What the two tables of the supervisor's writes hold. *)

LossOrLow == {"RADIO_LOSS1", "RADIO_LOSS2"} \cup LowBattery

\* After the radio the tick ends, or writes a battery flag.
LEMMA BatteryPoints == Battery \subseteq {"idle", "low1", "low2"}
  BY DEF Battery

\* The supervisor's read-modify-writes touch radio loss and battery flags only.
LEMMA StateWrites ==
  \A w \in StatePoints :
    /\ StateWrite[w].set \subseteq LossOrLow
    /\ StateWrite[w].clear \subseteq LossOrLow
    /\ StateWrite[w].next \subseteq {"idle", "low1", "low2", "holdOverride", "plan"}
  <1> DEFINE Fine(e) == /\ e.set \subseteq LossOrLow /\ e.clear \subseteq LossOrLow
                        /\ e.next \subseteq {"idle", "low1", "low2", "holdOverride", "plan"}
  <1>1. Fine(StateWrite["regain"])
    BY BatteryPoints DEF StateWrite, LossOrLow, LowBattery
  <1>2. Fine(StateWrite["loss1"]) /\ Fine(StateWrite["loss2"])
    BY DEF StateWrite, LossOrLow, LowBattery
  <1>3. Fine(StateWrite["low1"]) /\ Fine(StateWrite["low2"])
    BY DEF StateWrite, LossOrLow, LowBattery
  <1> QED
    BY <1>1, <1>2, <1>3 DEF StatePoints

\* The supervisor requests no override, position hold or the mission.
LEMMA OverrideWrites ==
  \A w \in OverridePoints :
    /\ OverrideWrite[w].value \in {0, POSHOLD, MISSION}
    /\ OverrideWrite[w].next \subseteq {"idle", "low1", "low2", "regain", "centre", "descend"}
  <1> DEFINE Fine(e) == /\ e.value \in {0, POSHOLD, MISSION}
                        /\ e.next \subseteq {"idle", "low1", "low2", "regain", "centre", "descend"}
  <1>1. Fine(OverrideWrite["missionOverride"])
    BY BatteryPoints DEF OverrideWrite
  <1>2. Fine(OverrideWrite["regainOverride"]) /\ Fine(OverrideWrite["holdOverride"])
    BY DEF OverrideWrite
  <1>3. Fine(OverrideWrite["descendOverride"])
    BY DEF OverrideWrite
  <1> QED
    BY <1>1, <1>2, <1>3 DEF OverridePoints

-------------------------------------------------------------------------------
(* Type correctness *)

\* A recovery mission is a sequence of legs, whatever it overwrites.
LEMMA PlanType ==
  ASSUME legs \in Seq(Legs), NEW option, NEW far \in BOOLEAN, NEW below \in BOOLEAN
  PROVE  WritePlan(FailsafePlan(option, far, below)) \in Seq(Legs)
  <1> DEFINE plan == FailsafePlan(option, far, below)
  <1>1. plan \in Seq(Legs)
    <2>1. <<"LAND">> \in Seq(Legs)
      BY DEF Legs
    <2>2. <<"GOTO", "HOME", "LAND">> \in Seq(Legs)
      BY DEF Legs
    <2>3. <<"GOTO", "GOTO", "HOME", "LAND">> \in Seq(Legs)
      BY DEF Legs
    <2> QED
      BY <2>1, <2>2, <2>3 DEF FailsafePlan
  <1>2. ASSUME Len(legs) > Len(plan)
        PROVE  SubSeq(legs, Len(plan) + 1, Len(legs)) \in Seq(Legs)
    <2>1. Len(plan) \in Nat /\ Len(legs) \in Nat
      BY <1>1, LenProperties
    <2>2. \A i \in Len(plan) + 1 .. Len(legs) : legs[i] \in Legs
      BY <2>1, ElementOfSeq
    <2> QED
      BY <2>1, <2>2, SubSeqProperties
  <1> HIDE DEF plan
  <1>3. WritePlan(plan) \in Seq(Legs)
    BY <1>1, <1>2 DEF WritePlan
  <1> QED
    BY <1>3 DEF plan

LEMMA LoadLegType ==
  ASSUME loiter \in BOOLEAN, NEW i, LoadLeg(i)
  PROVE  hasLeg' \in BOOLEAN /\ loiter' \in BOOLEAN
  BY DEF LoadLeg

LEMMA NeutralFrame == Neutral \in Frame
  BY DEF Neutral, Frame, MANUAL

LEMMA TypeInit == Init => TypeOK
  <1> SUFFICES ASSUME Init PROVE TypeOK
    OBVIOUS
  <1>1. legs \in Seq(Legs)
    BY DEF Init, Legs
  <1>2. /\ armHeld \in 0 .. ArmTicks + 1
        /\ radioAge \in 0 .. Loss2Ticks + 1
    BY FlightAssumption DEF Init
  <1>3. /\ mode \in Modes /\ regMode \in Modes /\ override \in {0, POSHOLD, MISSION}
    BY DEF Init, Modes, MANUAL, MISSION
  <1>4. state \subseteq Flags /\ regState \subseteq Flags
    BY DEF Init, Flags
  <1> QED
    BY <1>1, <1>2, <1>3, <1>4, NeutralFrame
       DEF Init, TypeOK, SpvrPoints, StatePoints, OverridePoints, RunPoints

LEMMA TypeLink == TypeOK /\ LinkStep => TypeOK'
  <1> SUFFICES ASSUME TypeOK, LinkStep PROVE TypeOK'
    OBVIOUS
  <1>1. rc' \in Frame /\ link' \in BOOLEAN
    BY FlightAssumption, NeutralFrame DEF TypeOK, LinkStep, LinkUp, LinkLost, StrayFrame
  <1> QED
    BY <1>1 DEF TypeOK, LinkStep, LinkUp, LinkLost, StrayFrame,
                spvrVars, navVars, legVars, taskVars

LEMMA TypeControl ==
  ASSUME TypeOK, NEW pid \in BOOLEAN, NEW next \in {"idle", "select"}, Control(pid, next)
  PROVE  TypeOK'
  <1>1. state' \subseteq Flags /\ thrust' \in BOOLEAN
    BY DEF TypeOK, Control, Flags
  <1> QED
    BY <1>1 DEF TypeOK, Control, RunPoints, spvrVars, navVars, legVars, rcVars

LEMMA TypeSelect == TypeOK /\ RunSelect => TypeOK'
  <1> SUFFICES ASSUME TypeOK, RunSelect PROVE TypeOK'
    OBVIOUS
  <1>1. PICK f \in Seen, fix \in Fixes, flow \in Flow, slow \in BOOLEAN :
          /\ fix3' = fix /\ navCapable' = Capable(fix)
          /\ \/ SelectMission(f, fix)
             \/ SelectHold(f, fix, flow, slow)
             \/ SelectManual(f, fix)
    BY DEF RunSelect
  <1>2. fix3' \in BOOLEAN /\ navCapable' \in BOOLEAN
    BY <1>1, FlightAssumption DEF TypeOK, Capable
  <1>3. /\ mode' \in Modes /\ leg' \in Nat /\ cur' \in Nat
        /\ hasLeg' \in BOOLEAN /\ loiter' \in BOOLEAN /\ home' \in {"unset", "fix", "nofix"}
    <2>1. CASE SelectMission(f, fix)
      <3>1. hasLeg' \in BOOLEAN /\ loiter' \in BOOLEAN
        BY <2>1, LoadLegType DEF TypeOK, SelectMission
      <3>2. mode' \in Modes
        BY <2>1 DEF TypeOK, SelectMission, Modes, MANUAL, MISSION
      <3> QED
        BY <2>1, <3>1, <3>2 DEF TypeOK, SelectMission
    <2>2. CASE SelectHold(f, fix, flow, slow)
      <3>1. mode' \in Modes
        BY <2>2 DEF TypeOK, SelectHold, Modes, MANUAL, ALTHOLD, POSHOLD, DVH, MISSION
      <3>2. home' \in {"unset", "fix", "nofix"}
        BY <2>2 DEF TypeOK, SelectHold, SetHome
      <3> QED
        BY <2>2, <3>1, <3>2 DEF TypeOK, SelectHold
    <2>3. CASE SelectManual(f, fix)
      BY <2>3 DEF TypeOK, SelectManual, Modes, MANUAL, MISSION
    <2> QED
      BY <1>1, <2>1, <2>2, <2>3
  <1> QED
    BY <1>2, <1>3 DEF TypeOK, RunSelect, RunPoints, spvrVars, rcVars

LEMMA TypeCommands == TypeOK /\ RunCommands => TypeOK'
  <1> SUFFICES ASSUME TypeOK, RunCommands PROVE TypeOK'
    OBVIOUS
  <1>1. /\ home' \in {"unset", "fix", "nofix"} /\ legs' \in Seq(Legs) /\ temp' \in BOOLEAN
        /\ leg' \in Nat /\ hasLeg' \in BOOLEAN /\ loiter' \in BOOLEAN
    <2>1. CASE ~CommandsAllowed
      BY <2>1 DEF TypeOK, RunCommands, legVars
    <2>2. CASE CommandsAllowed
      <3>1. home' \in {"unset", "fix", "nofix"}
        BY <2>2 DEF TypeOK, RunCommands, HomeCommand, SetHome
      <3>2. CASE SkipWaypoint
        BY <3>1, <3>2, LenProperties DEF TypeOK, SkipWaypoint, LoadLeg
      <3>3. CASE RecordWaypoint
        <4>1. <<"GOTO">> \in Seq(Legs) /\ Append(legs, "GOTO") \in Seq(Legs)
          BY AppendProperties DEF TypeOK, Legs
        <4> QED
          BY <3>1, <3>3, <4>1 DEF TypeOK, RecordWaypoint
      <3>4. CASE UNCHANGED legVars
        BY <3>1, <3>4 DEF TypeOK, legVars
      <3> QED
        BY <2>2, <3>2, <3>3, <3>4 DEF RunCommands
    <2> QED
      BY <2>1, <2>2
  <1> QED
    BY <1>1 DEF TypeOK, RunCommands, RunPoints, spvrVars, rcVars

LEMMA TypeLegs == TypeOK /\ RunLegs => TypeOK'
  <1> SUFFICES ASSUME TypeOK, RunLegs PROVE TypeOK'
    OBVIOUS
  <1>1. hasLeg' \in BOOLEAN /\ loiter' \in BOOLEAN
    BY LoadLegType DEF TypeOK, RunLegs, Arrive, NextLeg
  <1>3. mode' \in Modes /\ leg' \in Nat
    BY DEF TypeOK, RunLegs, Arrive, NextLeg, Modes, MANUAL, POSHOLD, MISSION
  <1>2. state' \subseteq Flags
    BY DEF TypeOK, RunLegs, Shutdown, CalibrationEnds, Disarmed, Flags, LowBattery
  <1> QED
    BY <1>1, <1>2, <1>3 DEF TypeOK, RunLegs, RunPoints, spvrVars, rcVars

LEMMA TypeTick == TypeOK /\ SpvrTick => TypeOK'
  <1> SUFFICES ASSUME TypeOK, SpvrTick PROVE TypeOK'
    OBVIOUS
  <1>1. armHeld' \in 0 .. ArmTicks + 1 /\ radioAge' \in 0 .. Loss2Ticks + 1
    BY FlightAssumption DEF TypeOK, SpvrTick, TickCalibrating, TickDisarmed, TickArmed,
                            Hold, Held, Tick
  <1>2. state' \subseteq Flags
    BY DEF TypeOK, SpvrTick, TickCalibrating, TickDisarmed, TickArmed, StickCommand,
           Disarmed, Flags, LowBattery
  <1>3. legs' \in Seq(Legs) /\ temp' \in BOOLEAN
        /\ leg' \in Nat /\ hasLeg' \in BOOLEAN /\ loiter' \in BOOLEAN
    BY EmptySeq DEF TypeOK, SpvrTick, TickCalibrating, TickDisarmed, TickArmed, StickCommand, legVars
  <1>4. spvr' \in SpvrPoints
    BY DEF SpvrTick, TickCalibrating, TickDisarmed, TickArmed, SpvrPoints, StatePoints, OverridePoints
  <1> QED
    BY <1>1, <1>2, <1>3, <1>4 DEF TypeOK, SpvrTick, rcVars

LEMMA TypeWrites == TypeOK /\ (SpvrLoad \/ SpvrStoreState \/ SpvrStoreOverride) => TypeOK'
  <1> SUFFICES ASSUME TypeOK, SpvrLoad \/ SpvrStoreState \/ SpvrStoreOverride PROVE TypeOK'
    OBVIOUS
  <1>1. CASE SpvrLoad
    BY <1>1 DEF TypeOK, SpvrLoad, navVars, legVars, rcVars, taskVars
  <1>2. CASE SpvrStoreState
    <2>1. state' \subseteq Flags
      BY <1>2, StateWrites DEF TypeOK, SpvrStoreState, LossOrLow, LowBattery, Flags
    <2>2. spvr' \in SpvrPoints
      BY <1>2, StateWrites DEF SpvrStoreState, SpvrPoints, StatePoints, OverridePoints
    <2>3. regState' \subseteq Flags
      BY <1>2 DEF SpvrStoreState
    <2>4. loaded' \in BOOLEAN
          /\ UNCHANGED <<armHeld, radioAge, regMode, navVars, thrust, rcVars, taskVars>>
      BY <1>2 DEF SpvrStoreState
    <2> QED
      BY <2>1, <2>2, <2>3, <2>4 DEF TypeOK, navVars, legVars, rcVars, taskVars
  <1>3. CASE SpvrStoreOverride
    <2>1. override' \in {0, POSHOLD, MISSION}
      BY <1>3, OverrideWrites DEF SpvrStoreOverride
    <2>2. spvr' \in SpvrPoints
      BY <1>3, OverrideWrites DEF SpvrStoreOverride, SpvrPoints, StatePoints, OverridePoints
    <2>3. regMode' \in Modes /\ mode' \in Modes
      BY <1>3 DEF TypeOK, SpvrStoreOverride, Modes, MANUAL, MISSION
    <2> QED
      BY <1>3, <2>1, <2>2, <2>3, ZenonT(30) DEF TypeOK, SpvrStoreOverride, legVars, rcVars, taskVars
  <1> QED
    BY <1>1, <1>2, <1>3

LEMMA TypePlan == TypeOK /\ SpvrPlan => TypeOK'
  <1> SUFFICES ASSUME TypeOK, SpvrPlan PROVE TypeOK'
    OBVIOUS
  <1>1. legs' \in Seq(Legs) /\ temp' \in BOOLEAN /\ leg' \in Nat
    <2>1. CASE navCapable
      <3>1. PICK option \in FsOptions, far \in BOOLEAN, below \in BOOLEAN :
              ReplaceMission(FailsafePlan(option, far, below))
        BY <2>1 DEF SpvrPlan
      <3> QED
        BY <3>1, PlanType DEF TypeOK, ReplaceMission
    <2>2. CASE ~navCapable
      BY <2>2 DEF TypeOK, SpvrPlan
    <2> QED
      BY <2>1, <2>2
  <1>2. spvr' \in SpvrPoints
    BY DEF SpvrPlan, SpvrPoints, StatePoints, OverridePoints
  <1> QED
    BY <1>1, <1>2 DEF TypeOK, SpvrPlan, rcVars, taskVars

LEMMA TypeRest ==
  TypeOK /\ ((\E ok \in BOOLEAN : SpvrArm(ok)) \/ SpvrRadio \/ SpvrCentre \/ CommStep) => TypeOK'
  <1> SUFFICES ASSUME TypeOK,
                      (\E ok \in BOOLEAN : SpvrArm(ok)) \/ SpvrRadio \/ SpvrCentre \/ CommStep
               PROVE  TypeOK'
    OBVIOUS
  <1>1. ASSUME NEW ok \in BOOLEAN, SpvrArm(ok) PROVE TypeOK'
    <2>1. state' \subseteq Flags /\ spvr' \in SpvrPoints
      BY <1>1 DEF TypeOK, SpvrArm, Armed, Flags, LowBattery, SpvrPoints, StatePoints, OverridePoints
    <2> QED
      BY <1>1, <2>1 DEF TypeOK, SpvrArm, navVars, legVars, rcVars, taskVars
  <1>2. CASE SpvrRadio
    <2>1. spvr' \in SpvrPoints
      BY <1>2, BatteryPoints DEF SpvrRadio, SpvrPoints, StatePoints, OverridePoints
    <2>2. radioAge' \in 0 .. Loss2Ticks + 1
      BY <1>2, FlightAssumption DEF TypeOK, SpvrRadio
    <2> QED
      BY <1>2, <2>1, <2>2 DEF TypeOK, SpvrRadio, navVars, legVars, rcVars, taskVars
  <1>3. CASE SpvrCentre
    <2>1. spvr' \in SpvrPoints
      BY <1>3, BatteryPoints DEF SpvrCentre, SpvrPoints, StatePoints, OverridePoints
    <2>2. rc' \in Frame
      BY <1>3 DEF TypeOK, SpvrCentre, Frame
    <2> QED
      BY <1>3, <2>1, <2>2 DEF TypeOK, SpvrCentre, navVars, legVars, taskVars
  <1>4. CASE CommStep
    <2>1. state' \subseteq Flags
      BY <1>4 DEF TypeOK, CommStep, CommCheck, CommCalibrate, Flags
    <2> QED
      BY <1>4, <2>1 DEF TypeOK, CommStep, CommCheck, CommCalibrate, spvrVars, navVars, legVars, rcVars
  <1> QED
    BY <1>1, <1>2, <1>3, <1>4

\* Every reachable state has the types the fields of the code have: no write of
\* any task leaves the range of a mode, an override, a clock or a leg.
THEOREM TypeCorrect == Spec => []TypeOK
  <1>1. TypeOK /\ [Next]_vars => TypeOK'
    <2> SUFFICES ASSUME TypeOK, [Next]_vars PROVE TypeOK'
      OBVIOUS
    <2>1. CASE UNCHANGED vars
      BY <2>1 DEF TypeOK, vars, spvrVars, navVars, legVars, rcVars, taskVars
    <2> QED
      BY <2>1, TypeLink, TypeControl, TypeSelect, TypeCommands, TypeLegs, TypeTick, TypeWrites,
         TypePlan, TypeRest DEF Next, RunStep, SpvrStep
  <1> QED
    BY <1>1, TypeInit, PTL DEF Spec

-------------------------------------------------------------------------------
(* The base status.  BaseOK is not inductive by itself: what a store of the    *)
(* supervisor writes is what it loaded, so the register must be fine as well,  *)
(* and it is only looked at where the supervisor is about to store it.         *)

StateWriting == loaded /\ spvr \in StatePoints

BaseInv ==
  /\ BaseOK(state)
  /\ loaded => spvr \in StatePoints \cup OverridePoints
  /\ StateWriting => BaseOK(regState)

LEMMA BaseOfFlags ==
  ASSUME NEW s, BaseOK(s), NEW set \in SUBSET LossOrLow, NEW clear \in SUBSET LossOrLow
  PROVE  BaseOK((s \ clear) \cup set)
  BY DEF BaseOK, LossOrLow, LowBattery

LEMMA BaseOfThrottle ==
  ASSUME NEW s, BaseOK(s)
  PROVE  /\ "ARMED" \in s => BaseOK(s \cup {"FLYING"})
         /\ BaseOK(s \ {"FLYING"})
  BY DEF BaseOK

LEMMA BaseOfStores == BaseOK({"CALIBRATION"}) /\ BaseOK(Disarmed) /\ BaseOK(Armed)
  BY DEF BaseOK, Disarmed, Armed, LowBattery

\* The tasks other than the supervisor store a whole status or one flag.
LEMMA BaseOthers ==
  ASSUME BaseInv,
         LinkStep \/ RunStep \/ CommStep
         \/ \E pid \in BOOLEAN, next \in {"idle", "select"} : Control(pid, next)
  PROVE  BaseInv'
  <1>1. UNCHANGED <<spvr, loaded, regState>>
    BY DEF LinkStep, LinkUp, LinkLost, StrayFrame, RunStep, RunSelect, RunCommands, RunLegs,
           CommStep, CommCheck, CommCalibrate, Control, spvrVars
  <1>2. BaseOK(state')
    <2>1. CASE LinkStep \/ RunSelect \/ RunCommands
      BY <2>1 DEF BaseInv, LinkStep, LinkUp, LinkLost, StrayFrame, RunSelect, RunCommands
    <2>2. CASE RunLegs
      BY <2>2, BaseOfStores DEF BaseInv, RunLegs, Shutdown, CalibrationEnds
    <2>3. CASE CommStep
      BY <2>3, BaseOfStores DEF BaseInv, CommStep, CommCheck, CommCalibrate
    <2>4. ASSUME NEW pid \in BOOLEAN, NEW next \in {"idle", "select"}, Control(pid, next)
          PROVE  BaseOK(state')
      BY <2>4, BaseOfThrottle DEF BaseInv, Control
    <2> QED
      BY <2>1, <2>2, <2>3, <2>4 DEF RunStep
  <1> QED
    BY <1>1, <1>2 DEF BaseInv, StateWriting

\* The supervisor loads what BaseOK holds of, and stores it with other flags.
LEMMA BaseSpvr == BaseInv /\ SpvrStep => BaseInv'
  <1> SUFFICES ASSUME BaseInv, SpvrStep PROVE BaseInv'
    OBVIOUS
  <1>1. CASE SpvrTick
    <2>1. BaseOK(state')
      BY <1>1, BaseOfStores
         DEF BaseInv, SpvrTick, TickCalibrating, TickDisarmed, TickArmed, StickCommand
    <2>2. ~loaded'
      BY <1>1 DEF BaseInv, SpvrTick, StatePoints, OverridePoints
    <2> QED
      BY <2>1, <2>2 DEF BaseInv, StateWriting
  <1>2. ASSUME NEW ok \in BOOLEAN, SpvrArm(ok) PROVE BaseInv'
    <2>1. BaseOK(state')
      BY <1>2, BaseOfStores DEF BaseInv, SpvrArm
    <2>2. ~loaded'
      BY <1>2 DEF BaseInv, SpvrArm, StatePoints, OverridePoints
    <2> QED
      BY <2>1, <2>2 DEF BaseInv, StateWriting
  <1>3. CASE SpvrRadio \/ SpvrPlan \/ SpvrCentre
    <2>1. BaseOK(state') /\ ~loaded'
      BY <1>3 DEF BaseInv, SpvrRadio, SpvrPlan, SpvrCentre, StatePoints, OverridePoints
    <2> QED
      BY <2>1 DEF BaseInv, StateWriting
  <1>4. CASE SpvrLoad
    BY <1>4 DEF BaseInv, SpvrLoad, StateWriting
  <1>5. CASE SpvrStoreState
    <2>1. BaseOK(regState)
      BY <1>5 DEF BaseInv, SpvrStoreState, StateWriting
    <2>2. BaseOK(state')
      BY <1>5, <2>1, StateWrites, BaseOfFlags DEF SpvrStoreState
    <2> QED
      BY <1>5, <2>2 DEF BaseInv, SpvrStoreState, StateWriting
  <1>6. CASE SpvrStoreOverride
    BY <1>6 DEF BaseInv, SpvrStoreOverride, StateWriting
  <1> QED
    BY <1>1, <1>2, <1>3, <1>4, <1>5, <1>6 DEF SpvrStep

\* supervisor.c:67: the base statuses exclude each other in every reachable state
\* and only an armed craft flies, whatever interleaves with the supervisor's
\* read-modify-writes of the byte.
THEOREM BaseStatesHold == Spec => []BaseStates
  <1>1. Init => BaseInv
    BY DEF Init, BaseInv, StateWriting, BaseOK
  <1>2. BaseInv /\ [Next]_vars => BaseInv'
    <2> SUFFICES ASSUME BaseInv, [Next]_vars PROVE BaseInv'
      OBVIOUS
    <2>1. CASE UNCHANGED vars
      BY <2>1 DEF BaseInv, StateWriting, vars, spvrVars
    <2> QED
      BY <2>1, BaseOthers, BaseSpvr DEF Next
  <1>3. BaseInv => BaseStates
    BY DEF BaseInv, BaseStates
  <1> QED
    BY <1>1, <1>2, <1>3, PTL DEF Spec

-------------------------------------------------------------------------------
(* Radio loss.  The flag and the override are written one after the other, so  *)
(* a flagged loss is overridden except between the two writes, and so is a     *)
(* loss in the register, which the next store may bring back.                  *)

Overridden(s) ==
  "RADIO_LOSS1" \in s => override >= POSHOLD \/ spvr \in {"regain", "holdOverride"}

LossInv ==
  /\ Overridden(state)
  /\ loaded => spvr \in StatePoints \cup OverridePoints
  /\ StateWriting => Overridden(regState)

\* Stage 1 is set by the write of that name, and the regained radio clears it.
LEMMA Loss1Writes ==
  ASSUME NEW w \in StatePoints, NEW s,
         "RADIO_LOSS1" \in (s \ StateWrite[w].clear) \cup StateWrite[w].set
  PROVE  \/ w = "loss1" /\ StateWrite[w].next = {"holdOverride"}
         \/ w # "regain" /\ "RADIO_LOSS1" \in s
  <1>1. CASE w = "regain"
    BY <1>1 DEF StateWrite
  <1>2. CASE w = "loss1"
    BY <1>2 DEF StateWrite
  <1>3. CASE w \in {"loss2", "low1", "low2"}
    <2>1. "RADIO_LOSS1" \notin StateWrite[w].set
      BY <1>3 DEF StateWrite
    <2> QED
      BY <1>3, <2>1
  <1> QED
    BY <1>1, <1>2, <1>3 DEF StatePoints

\* Only the regained radio takes the override back, and goes on to the flags.
LEMMA ReleaseWrites ==
  ASSUME NEW w \in OverridePoints
  PROVE  \/ w = "regainOverride" /\ OverrideWrite[w].next = {"regain"}
         \/ OverrideWrite[w].value >= POSHOLD
  <1>1. CASE w = "regainOverride"
    BY <1>1 DEF OverrideWrite
  <1>2. CASE w \in {"holdOverride", "descendOverride"}
    BY <1>2 DEF OverrideWrite, POSHOLD
  <1>3. CASE w = "missionOverride"
    BY <1>3 DEF OverrideWrite, POSHOLD, MISSION
  <1> QED
    BY <1>1, <1>2, <1>3 DEF OverridePoints

LEMMA LossOthers ==
  ASSUME LossInv,
         LinkStep \/ RunStep \/ CommStep
         \/ \E pid \in BOOLEAN, next \in {"idle", "select"} : Control(pid, next)
  PROVE  LossInv'
  <1>1. UNCHANGED <<spvr, loaded, regState, override>>
    BY DEF LinkStep, LinkUp, LinkLost, StrayFrame, RunStep, RunSelect, RunCommands, RunLegs,
           CommStep, CommCheck, CommCalibrate, Control, spvrVars, navVars
  <1>2. "RADIO_LOSS1" \in state' => "RADIO_LOSS1" \in state
    <2>1. CASE LinkStep \/ RunSelect \/ RunCommands
      BY <2>1 DEF LinkStep, LinkUp, LinkLost, StrayFrame, RunSelect, RunCommands
    <2>2. CASE RunLegs
      BY <2>2 DEF RunLegs, Shutdown, CalibrationEnds, Disarmed, LowBattery
    <2>3. CASE CommStep
      BY <2>3 DEF CommStep, CommCheck, CommCalibrate
    <2>4. ASSUME NEW pid \in BOOLEAN, NEW next \in {"idle", "select"}, Control(pid, next)
          PROVE  "RADIO_LOSS1" \in state' => "RADIO_LOSS1" \in state
      BY <2>4 DEF Control
    <2> QED
      BY <2>1, <2>2, <2>3, <2>4 DEF RunStep
  <1> QED
    BY <1>1, <1>2 DEF LossInv, StateWriting, Overridden

LEMMA LossSpvr == LossInv /\ SpvrStep => LossInv'
  <1> SUFFICES ASSUME LossInv, SpvrStep PROVE LossInv'
    OBVIOUS
  <1>1. CASE SpvrTick \/ SpvrRadio \/ SpvrPlan \/ SpvrCentre \/ \E ok \in BOOLEAN : SpvrArm(ok)
    <2>1. "RADIO_LOSS1" \in state' => "RADIO_LOSS1" \in state
      BY <1>1 DEF SpvrTick, TickCalibrating, TickDisarmed, TickArmed, StickCommand, SpvrRadio,
                  SpvrPlan, SpvrCentre, SpvrArm, Armed, Disarmed, LowBattery
    <2>2. override' = override
      BY <1>1 DEF SpvrTick, SpvrRadio, SpvrPlan, SpvrCentre, SpvrArm, navVars
    <2>3. spvr \in {"idle", "radio", "plan", "centre", "descend", "arming"}
      BY <1>1 DEF SpvrTick, SpvrRadio, SpvrPlan, SpvrCentre, SpvrArm
    <2>4. ~loaded'
      BY <1>1, <2>3 DEF LossInv, SpvrTick, SpvrRadio, SpvrPlan, SpvrCentre, SpvrArm,
                        StatePoints, OverridePoints
    <2>5. "RADIO_LOSS1" \in state' => override' >= POSHOLD
      BY <2>1, <2>2, <2>3 DEF LossInv, Overridden
    <2> QED
      BY <2>4, <2>5 DEF LossInv, StateWriting, Overridden
  <1>2. CASE SpvrLoad
    BY <1>2 DEF LossInv, SpvrLoad, StateWriting, Overridden, navVars
  <1>3. CASE SpvrStoreState
    <2>1. ~loaded' /\ override' = override /\ spvr \in StatePoints /\ Overridden(regState)
      BY <1>3 DEF LossInv, SpvrStoreState, StateWriting, navVars
    <2>2. ASSUME "RADIO_LOSS1" \in state'
          PROVE  override' >= POSHOLD \/ spvr' = "holdOverride"
      <3>1. \/ StateWrite[spvr].next = {"holdOverride"}
            \/ spvr # "regain" /\ "RADIO_LOSS1" \in regState
        BY <1>3, <2>1, <2>2, Loss1Writes DEF SpvrStoreState
      <3>2. CASE StateWrite[spvr].next = {"holdOverride"}
        BY <1>3, <3>2 DEF SpvrStoreState
      <3>3. CASE spvr # "regain" /\ "RADIO_LOSS1" \in regState
        BY <2>1, <3>3 DEF Overridden, StatePoints
      <3> QED
        BY <3>1, <3>2, <3>3
    <2> QED
      BY <2>1, <2>2 DEF LossInv, StateWriting, Overridden
  <1>4. CASE SpvrStoreOverride
    <2>1. ~loaded' /\ state' = state /\ spvr \in OverridePoints
      BY <1>4 DEF SpvrStoreOverride
    <2>2. override' >= POSHOLD \/ spvr' = "regain"
      BY <1>4, <2>1, ReleaseWrites DEF SpvrStoreOverride
    <2> QED
      BY <2>1, <2>2 DEF LossInv, StateWriting, Overridden
  <1> QED
    BY <1>1, <1>2, <1>3, <1>4 DEF SpvrStep

\* supervisor.c:331-441: when the supervisor sleeps, a flagged radio loss has an
\* override: nav never follows the mode switch frozen in the channels.
THEOREM FailsafeHolds == Spec => []FailsafeInCharge
  <1>1. Init => LossInv
    BY DEF Init, LossInv, StateWriting, Overridden
  <1>2. LossInv /\ [Next]_vars => LossInv'
    <2> SUFFICES ASSUME LossInv, [Next]_vars PROVE LossInv'
      OBVIOUS
    <2>1. CASE UNCHANGED vars
      BY <2>1 DEF LossInv, StateWriting, Overridden, vars, spvrVars, navVars
    <2> QED
      BY <2>1, LossOthers, LossSpvr DEF Next
  <1>3. LossInv => FailsafeInCharge
    BY DEF LossInv, Overridden, FailsafeInCharge
  <1> QED
    BY <1>1, <1>2, <1>3, PTL DEF Spec

-------------------------------------------------------------------------------
(* The stages of a radio loss.  Between the decision for stage 2 and its store *)
(* nobody may clear stage 1.  Only a landing or the end of a calibration would *)
(* (Disarmed): the first needs the mission mode, which run does not enter as   *)
(* the override of stage 1 is position hold; so the invariant follows the      *)
(* override through stage 1.                                                   *)

Alone(s) == "RADIO_LOSS1" \in s /\ "RADIO_LOSS2" \notin s

StagesOK(s) ==
  /\ "RADIO_LOSS2" \in s => "RADIO_LOSS1" \in s
  /\ Alone(s) => override = POSHOLD \/ spvr \in {"regain", "holdOverride"}

Declaring ==
  /\ Alone(state) /\ "CALIBRATION" \notin state /\ mode < MISSION
  /\ loaded => Alone(regState)

StageInv ==
  /\ StagesOK(state)
  /\ loaded => spvr \in StatePoints \cup OverridePoints
  /\ StateWriting => StagesOK(regState)
  /\ spvr = "loss2" => Declaring
  /\ spvr \in {"plan", "missionOverride", "descendOverride"} => ~Alone(state)

\* A write touches no stage, or it is one of the three that declare or clear them.
LEMMA StageWrites ==
  /\ \A w \in {"low1", "low2"} :
       /\ \A stage \in {"RADIO_LOSS1", "RADIO_LOSS2"} :
            stage \notin StateWrite[w].set \cup StateWrite[w].clear
       /\ StateWrite[w].next \subseteq {"idle"}
  /\ StateWrite["loss1"].set = {"RADIO_LOSS1"} /\ StateWrite["loss1"].clear = {}
  /\ StateWrite["loss1"].next = {"holdOverride"}
  /\ StateWrite["loss2"].set = {"RADIO_LOSS2"} /\ StateWrite["loss2"].clear = {}
  /\ StateWrite["loss2"].next = {"plan"}
  /\ StateWrite["regain"].set = {}
  /\ StateWrite["regain"].clear = {"RADIO_LOSS1", "RADIO_LOSS2"}
  /\ StateWrite["regain"].next \subseteq {"idle", "low1", "low2"}
  <1>1. StateWrite["low1"] = [set |-> {"LOW_BATTERY1"}, clear |-> {}, next |-> {"idle"}]
        /\ StateWrite["low2"] = [set |-> {"LOW_BATTERY2"}, clear |-> {}, next |-> {"idle"}]
    BY DEF StateWrite
  <1>2. StateWrite["loss1"] = [set |-> {"RADIO_LOSS1"}, clear |-> {}, next |-> {"holdOverride"}]
        /\ StateWrite["loss2"] = [set |-> {"RADIO_LOSS2"}, clear |-> {}, next |-> {"plan"}]
    BY DEF StateWrite
  <1>3. StateWrite["regain"] =
          [set |-> {}, clear |-> {"RADIO_LOSS1", "RADIO_LOSS2"}, next |-> Battery]
    BY DEF StateWrite
  <1> QED
    BY <1>1, <1>2, <1>3, BatteryPoints

\* With position hold requested by the supervisor, run stays out of the mission.
LEMMA HoldKeepsOut ==
  ASSUME TypeOK, RunSelect, override = POSHOLD, mode < MISSION
  PROVE  mode' < MISSION
  <1>1. PICK f \in Seen, fix \in Fixes, flow \in Flow, slow \in BOOLEAN :
          SelectMission(f, fix) \/ SelectHold(f, fix, flow, slow) \/ SelectManual(f, fix)
    BY DEF RunSelect
  <1>2. Request(f, fix) = POSHOLD
    BY DEF Request, POSHOLD
  <1>3. ~SelectMission(f, fix)
    BY <1>2 DEF SelectMission, POSHOLD, MISSION
  <1>4. CASE SelectHold(f, fix, flow, slow)
    BY <1>2, <1>4 DEF TypeOK, SelectHold, Modes, MANUAL, ALTHOLD, POSHOLD, DVH, MISSION
  <1>5. CASE SelectManual(f, fix)
    BY <1>5 DEF SelectManual, MANUAL, MISSION
  <1> QED
    BY <1>1, <1>3, <1>4, <1>5

\* A step of another task than the supervisor.
OthersStep ==
  \/ LinkStep \/ RunStep \/ CommStep
  \/ \E pid \in BOOLEAN, next \in {"idle", "select"} : Control(pid, next)

\* They leave the supervisor where it is, with its register and its override.
LEMMA OthersLeave ==
  ASSUME OthersStep
  PROVE  UNCHANGED <<spvr, loaded, regState, regMode, override>>
  BY DEF OthersStep, LinkStep, LinkUp, LinkLost, StrayFrame, RunStep, RunSelect, RunCommands,
         RunLegs, CommStep, CommCheck, CommCalibrate, Control, spvrVars, navVars

\* They change no flag but FLYING, or store a status without a radio loss.
LEMMA OthersKeepOrClear ==
  ASSUME OthersStep
  PROVE  \/ \A flag \in Flags \ {"FLYING"} : flag \in state' <=> flag \in state
         \/ state' \cap {"RADIO_LOSS1", "RADIO_LOSS2"} = {}
  <1>1. CASE LinkStep \/ RunSelect \/ RunCommands
    BY <1>1 DEF LinkStep, LinkUp, LinkLost, StrayFrame, RunSelect, RunCommands
  <1>2. CASE RunLegs
    BY <1>2 DEF RunLegs, Shutdown, CalibrationEnds, Disarmed, LowBattery
  <1>3. CASE CommStep
    BY <1>3 DEF CommStep, CommCheck, CommCalibrate
  <1>4. ASSUME NEW pid \in BOOLEAN, NEW next \in {"idle", "select"}, Control(pid, next)
        PROVE  \A flag \in Flags \ {"FLYING"} : flag \in state' <=> flag \in state
    BY <1>4 DEF Control
  <1> QED
    BY <1>1, <1>2, <1>3, <1>4 DEF OthersStep, RunStep

LEMMA StageOthers ==
  ASSUME TypeOK, StageInv, OthersStep
  PROVE  StageInv'
  <1>1. UNCHANGED <<spvr, loaded, regState, override>>
    BY OthersLeave
  <1>2. \/ \A flag \in Flags \ {"FLYING"} : flag \in state' <=> flag \in state
        \/ state' \cap {"RADIO_LOSS1", "RADIO_LOSS2"} = {}
    BY OthersKeepOrClear
  <1>3. StagesOK(state)' /\ (StateWriting => StagesOK(regState))'
    BY <1>1, <1>2 DEF StageInv, StagesOK, StateWriting, Alone, Flags
  <1>4. Alone(state') => Alone(state)
    BY <1>2 DEF Alone, Flags
  <1>5. ASSUME spvr = "loss2" PROVE Declaring'
    <2>1. override = POSHOLD /\ Declaring
      BY <1>5 DEF StageInv, StagesOK, Declaring
    <2>2. ASSUME RunLegs PROVE state' = state /\ mode' = mode
      BY <2>1, <2>2 DEF TypeOK, RunLegs, Arrive, NextLeg, Shutdown, CalibrationEnds, Declaring,
                        Modes, MANUAL, MISSION
    <2>3. mode' < MISSION
      <3>1. CASE RunSelect
        BY <2>1, <3>1, HoldKeepsOut DEF Declaring
      <3>2. CASE ~RunSelect
        <4>1. mode' = mode
          BY <2>2, <3>2 DEF OthersStep, LinkStep, LinkUp, LinkLost, StrayFrame, RunStep, RunCommands,
                 CommStep, CommCheck, CommCalibrate, Control, navVars
        <4> QED
          BY <2>1, <4>1 DEF Declaring
      <3> QED
        BY <3>1, <3>2
    <2>4. ~CommStep
      BY <1>5 DEF CommStep, CommCheck, CommCalibrate, SpvrBlocked
    <2>5. \A flag \in Flags \ {"FLYING"} : flag \in state' <=> flag \in state
      BY <2>2, <2>4 DEF OthersStep, LinkStep, LinkUp, LinkLost, StrayFrame, RunStep, RunSelect,
                        RunCommands, Control
    <2> QED
      BY <1>1, <2>1, <2>3, <2>5 DEF Declaring, Alone, Flags
  <1> QED
    BY <1>1, <1>3, <1>4, <1>5 DEF StageInv

\* The ages of the two stages are ordered: stage 2 is declared of a loss in stage 1.
LEMMA StageRadio ==
  ASSUME TypeOK, BaseStates, StageInv, SpvrRadio
  PROVE  StageInv'
  <1>1. ~loaded /\ spvr' \notin {"regain", "holdOverride", "plan", "missionOverride", "descendOverride"}
        /\ override' = override /\ state' = state /\ loaded' = loaded /\ mode' = mode
    BY BatteryPoints DEF StageInv, SpvrRadio, StatePoints, OverridePoints, navVars
  <1>2. ASSUME spvr' = "loss2" PROVE Declaring
    <2>1. /\ "FLYING" \in state /\ (mode < MISSION \/ "RADIO_LOSS2" \in state)
          /\ ~RadioLost("RADIO_LOSS1", Loss1Ticks) /\ RadioLost("RADIO_LOSS2", Loss2Ticks)
      BY <1>2, BatteryPoints DEF SpvrRadio
    <2>2. Alone(state)
      BY <2>1, FlightAssumption DEF RadioLost, Alone, TypeOK
    <2>3. "CALIBRATION" \notin state
      BY <2>1 DEF BaseStates, BaseOK
    <2> QED
      BY <1>1, <2>1, <2>2, <2>3 DEF Declaring, Alone
  <1>3. StagesOK(state)'
    BY <1>1 DEF StageInv, StagesOK, Alone, SpvrRadio
  <1> QED
    BY <1>1, <1>2, <1>3 DEF StageInv, StateWriting, Declaring

LEMMA StageStore ==
  ASSUME StageInv, SpvrStoreState
  PROVE  StageInv'
  <1>1. /\ spvr \in StatePoints /\ loaded /\ ~loaded' /\ override' = override
        /\ state' = (regState \ StateWrite[spvr].clear) \cup StateWrite[spvr].set
        /\ spvr' \in StateWrite[spvr].next
    BY DEF SpvrStoreState, navVars
  <1>2. StagesOK(regState)
    BY <1>1 DEF StageInv, StateWriting
  <1>3. CASE spvr \in {"low1", "low2"}
    <2>1. spvr' = "idle" /\ (\A stage \in {"RADIO_LOSS1", "RADIO_LOSS2"} :
                               stage \in state' <=> stage \in regState)
      BY <1>1, <1>3, StageWrites
    <2> QED
      BY <1>1, <1>2, <1>3, <2>1 DEF StageInv, StagesOK, StateWriting, Alone
  <1>4. CASE spvr = "loss1"
    <2>1. spvr' = "holdOverride" /\ state' = regState \cup {"RADIO_LOSS1"}
      BY <1>1, <1>4, StageWrites
    <2> QED
      BY <1>1, <2>1 DEF StageInv, StagesOK, StateWriting, Alone
  <1>5. CASE spvr = "loss2"
    <2>1. spvr' = "plan" /\ state' = regState \cup {"RADIO_LOSS2"} /\ Alone(regState)
      BY <1>1, <1>5, StageWrites DEF StageInv, Declaring
    <2> QED
      BY <1>1, <2>1 DEF StageInv, StagesOK, StateWriting, Alone
  <1>6. CASE spvr = "regain"
    <2>1. /\ spvr' \in {"idle", "low1", "low2"}
          /\ state' \cap {"RADIO_LOSS1", "RADIO_LOSS2"} = {}
      BY <1>1, <1>6, StageWrites
    <2> QED
      BY <1>1, <2>1 DEF StageInv, StagesOK, StateWriting, Alone
  <1> QED
    BY <1>1, <1>3, <1>4, <1>5, <1>6 DEF StatePoints

LEMMA StageOverride ==
  ASSUME StageInv, SpvrStoreOverride
  PROVE  StageInv'
  <1>1. /\ spvr \in OverridePoints /\ ~loaded' /\ state' = state
        /\ override' = OverrideWrite[spvr].value /\ spvr' \in OverrideWrite[spvr].next
    BY DEF SpvrStoreOverride
  <1>2. spvr' \in {"idle", "low1", "low2", "regain", "centre", "descend"}
    BY <1>1, OverrideWrites
  <1>3. CASE spvr = "regainOverride"
    <2>1. spvr' = "regain"
      BY <1>1, <1>3 DEF OverrideWrite
    <2> QED
      BY <1>1, <2>1 DEF StageInv, StagesOK, StateWriting, Alone
  <1>4. CASE spvr = "holdOverride"
    <2>1. override' = POSHOLD
      BY <1>1, <1>4 DEF OverrideWrite
    <2> QED
      BY <1>1, <1>2, <2>1 DEF StageInv, StagesOK, StateWriting, Alone
  <1>5. CASE spvr \in {"missionOverride", "descendOverride"}
    BY <1>1, <1>2, <1>5 DEF StageInv, StagesOK, StateWriting, Alone
  <1> QED
    BY <1>1, <1>3, <1>4, <1>5 DEF OverridePoints

LEMMA StageSpvr ==
  ASSUME TypeOK, BaseStates, StageInv, SpvrStep
  PROVE  StageInv'
  <1>1. CASE SpvrTick \/ SpvrCentre \/ \E ok \in BOOLEAN : SpvrArm(ok)
    <2>1. \/ state' \cap {"RADIO_LOSS1", "RADIO_LOSS2"} = state \cap {"RADIO_LOSS1", "RADIO_LOSS2"}
          \/ state' \cap {"RADIO_LOSS1", "RADIO_LOSS2"} = {}
      BY <1>1 DEF SpvrTick, TickCalibrating, TickDisarmed, TickArmed, StickCommand,
                  SpvrCentre, SpvrArm, Armed, Disarmed, LowBattery
    <2>2. override' = override /\ loaded' = loaded
      BY <1>1 DEF SpvrTick, SpvrCentre, SpvrArm, navVars
    <2>3. spvr \in {"idle", "arming", "centre", "descend"}
      BY <1>1 DEF SpvrTick, SpvrCentre, SpvrArm
    <2>4. spvr' \in {"radio", "arming", "idle", "low1", "low2"}
      BY <1>1, BatteryPoints
         DEF SpvrTick, TickCalibrating, TickDisarmed, TickArmed, StickCommand, SpvrCentre, SpvrArm
    <2>5. ~loaded'
      BY <2>2, <2>3 DEF StageInv, StatePoints, OverridePoints
    <2>6. StagesOK(state)'
      BY <2>1, <2>2, <2>3, <2>4 DEF StageInv, StagesOK, Alone
    <2> QED
      BY <2>4, <2>5, <2>6 DEF StageInv, StateWriting
  <1>2. CASE SpvrRadio
    BY <1>2, StageRadio
  <1>3. CASE SpvrLoad
    BY <1>3 DEF StageInv, SpvrLoad, StateWriting, StagesOK, Declaring, Alone, navVars,
                StatePoints, OverridePoints
  <1>4. CASE SpvrStoreState
    BY <1>4, StageStore
  <1>5. CASE SpvrStoreOverride
    BY <1>5, StageOverride
  <1>6. CASE SpvrPlan
    <2>1. /\ spvr = "plan" /\ spvr' \in {"missionOverride", "descendOverride"}
          /\ override' = override /\ state' = state /\ loaded' = loaded
      BY <1>6 DEF SpvrPlan
    <2>2. ~loaded
      BY <2>1 DEF StageInv, StatePoints, OverridePoints
    <2> QED
      BY <2>1, <2>2 DEF StageInv, StagesOK, StateWriting, Alone
  <1> QED
    BY <1>1, <1>2, <1>3, <1>4, <1>5, <1>6 DEF SpvrStep

\* The parts of StageInv hold in every reachable state; the proofs about the
\* recovery, which rest on them, cite this theorem.
THEOREM StagesInductive == Spec => []StageInv
  <1>1. Init => StageInv
    BY DEF Init, StageInv, StateWriting, StagesOK, Alone
  <1>2. TypeOK /\ BaseStates /\ StageInv /\ [Next]_vars => StageInv'
    <2> SUFFICES ASSUME TypeOK, BaseStates, StageInv, [Next]_vars PROVE StageInv'
      OBVIOUS
    <2>1. CASE UNCHANGED vars
      BY <2>1 DEF StageInv, StateWriting, StagesOK, Declaring, Alone, vars, spvrVars, navVars
    <2> QED
      BY <2>1, StageOthers, StageSpvr DEF Next, OthersStep
  <1> QED
    BY <1>1, <1>2, TypeCorrect, BaseStatesHold, PTL DEF Spec

\* supervisor.c:344-356: stage 2 of a radio loss is never flagged without stage 1,
\* on which nav's refusal of the pilot's switches depends.
THEOREM StagesHold == Spec => []LossStages
  <1>1. StageInv => LossStages
    BY DEF StageInv, StagesOK, LossStages
  <1> QED
    BY <1>1, StagesInductive, PTL

===============================================================================

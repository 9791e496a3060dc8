---------------------------- MODULE RecoveryProofs ----------------------------
(***************************************************************************)
(* Theorems about the recovery of Flight: what the pilot's frozen switches *)
(* cannot do to it, that it flies a whole plan ending in a landing, and    *)
(* that it knows the home position it flies to.  They rest on the types,   *)
(* the base status and the stages of a loss, proved in FlightProofs.       *)
(***************************************************************************)
EXTENDS FlightProofs

-------------------------------------------------------------------------------
(* Home and the home switch *)

\* nav.c:490: while a radio loss is flagged no step of any task moves a home
\* position that was set.
THEOREM HomeIsLeft == Spec => HomeStays
  <1>1. [Next]_vars => [("RADIO_LOSS1" \in state /\ home # "unset") => home' = home]_vars
    <2> SUFFICES ASSUME Next, "RADIO_LOSS1" \in state, home # "unset" PROVE home' = home
      BY DEF vars, navVars
    <2>1. CASE RunSelect
      BY <2>1 DEF RunSelect, SelectMission, SelectHold, SelectManual, NeedsHome
    <2>2. CASE RunCommands
      BY <2>2 DEF RunCommands, CommandsAllowed
    <2>3. CASE RunLegs \/ LinkStep \/ CommStep
      BY <2>3 DEF RunLegs, LinkStep, LinkUp, LinkLost, StrayFrame, CommStep, CommCheck,
                  CommCalibrate, navVars
    <2>4. CASE SpvrStep
      BY <2>4 DEF SpvrStep, SpvrTick, SpvrArm, SpvrRadio, SpvrLoad, SpvrStoreState,
                  SpvrStoreOverride, SpvrPlan, SpvrCentre, navVars
    <2>5. ASSUME NEW pid \in BOOLEAN, NEW next \in {"idle", "select"}, Control(pid, next)
          PROVE  home' = home
      BY <2>5 DEF Control, navVars
    <2> QED
      BY <2>1, <2>2, <2>3, <2>4, <2>5 DEF Next, RunStep
  <1> QED
    BY <1>1, PTL DEF Spec, HomeStays

-------------------------------------------------------------------------------
(* Stage 2 is flagged in the air.  Between the decision and the last of its    *)
(* writes run stays out of the mission, so that navClearWaypoints() is not     *)
(* refused, and nobody disarms; the pilot, who may clear the mission only      *)
(* while disarmed, cannot touch the plan.                                      *)

InFlight(s) == "RADIO_LOSS2" \in s => "ARMED" \in s

Planning == spvr \in {"plan", "missionOverride"}

PlanInv ==
  /\ InFlight(state)
  /\ StateWriting => InFlight(regState)
  /\ spvr = "loss2" => "ARMED" \in state /\ (loaded => "ARMED" \in regState)
  /\ Planning => "RADIO_LOSS2" \in state /\ override = POSHOLD /\ mode < MISSION
  /\ Planning /\ loaded => regMode < MISSION

\* While stage 2 is being declared, a step of another task keeps every flag but
\* FLYING and stays out of the mission.
LEMMA DeclaringKept ==
  ASSUME TypeOK, BaseStates, StageInv, PlanInv, OthersStep, spvr = "loss2" \/ Planning
  PROVE  /\ \A flag \in Flags \ {"FLYING"} : flag \in state' <=> flag \in state
         /\ mode' < MISSION
  <1>1. override = POSHOLD /\ mode < MISSION
    BY DEF StageInv, StagesOK, Declaring, PlanInv, Planning
  <1>2. "CALIBRATION" \notin state
    <2>1. CASE spvr = "loss2"
      BY <2>1 DEF StageInv, Declaring
    <2>2. CASE Planning
      BY <2>2 DEF PlanInv, InFlight, BaseStates, BaseOK
    <2> QED
      BY <2>1, <2>2
  <1>3. ~CommStep
    BY DEF CommStep, CommCheck, CommCalibrate, SpvrBlocked, Planning
  <1>4. ASSUME RunLegs PROVE state' = state /\ mode' = mode
    BY <1>1, <1>2, <1>4 DEF TypeOK, RunLegs, Arrive, NextLeg, Shutdown, CalibrationEnds,
                            Modes, MANUAL, MISSION
  <1>5. \A flag \in Flags \ {"FLYING"} : flag \in state' <=> flag \in state
    BY <1>3, <1>4 DEF OthersStep, LinkStep, LinkUp, LinkLost, StrayFrame, RunStep, RunSelect,
                      RunCommands, Control
  <1>6. mode' < MISSION
    <2>1. CASE RunSelect
      BY <1>1, <2>1, HoldKeepsOut
    <2>2. CASE ~RunSelect
      <3>1. mode' = mode
        BY <1>4, <2>2 DEF OthersStep, LinkStep, LinkUp, LinkLost, StrayFrame, RunStep,
                          RunCommands, CommStep, CommCheck, CommCalibrate, Control, navVars
      <3> QED
        BY <1>1, <3>1
    <2> QED
      BY <2>1, <2>2
  <1> QED
    BY <1>5, <1>6

LEMMA PlanOthers ==
  ASSUME TypeOK, BaseStates, StageInv, PlanInv, OthersStep
  PROVE  PlanInv'
  <1>1. UNCHANGED <<spvr, loaded, regState, regMode, override>>
    BY OthersLeave
  <1>2. InFlight(state)'
    BY OthersKeepOrClear DEF PlanInv, InFlight, Flags
  <1>3. (StateWriting => InFlight(regState))'
    BY <1>1 DEF PlanInv, StateWriting, InFlight
  <1>4. ASSUME spvr = "loss2"
        PROVE  "ARMED" \in state' /\ (loaded => "ARMED" \in regState)
    BY <1>4, DeclaringKept DEF PlanInv, Flags
  <1>5. ASSUME Planning
        PROVE  /\ "RADIO_LOSS2" \in state' /\ override = POSHOLD /\ mode' < MISSION
               /\ loaded => regMode < MISSION
    BY <1>5, DeclaringKept DEF PlanInv, Flags
  <1> QED
    BY <1>1, <1>2, <1>3, <1>4, <1>5 DEF PlanInv, Planning

\* The fields of the two stores, one line per point.
LEMMA StageTargets ==
  \A w \in StatePoints :
    /\ w # "loss2" => "plan" \notin StateWrite[w].next
    /\ StateWrite[w].next \subseteq {"idle", "low1", "low2", "holdOverride", "plan"}
    /\ "ARMED" \notin StateWrite[w].set \cup StateWrite[w].clear
    /\ w \notin {"loss2", "regain"} =>
         "RADIO_LOSS2" \notin StateWrite[w].set \cup StateWrite[w].clear
  <1>1. \A w \in {"low1", "low2", "loss1", "loss2", "regain"} :
          w # "loss2" => "plan" \notin StateWrite[w].next
    BY StageWrites
  <1>2. \A w \in {"low1", "low2", "loss1", "loss2", "regain"} :
          w \notin {"loss2", "regain"} =>
            "RADIO_LOSS2" \notin StateWrite[w].set \cup StateWrite[w].clear
    BY StageWrites
  <1> QED
    BY <1>1, <1>2, StateWrites DEF StatePoints, LossOrLow, LowBattery

LEMMA PlanStore ==
  ASSUME StageInv, PlanInv, SpvrStoreState
  PROVE  PlanInv'
  <1>1. /\ spvr \in StatePoints /\ loaded /\ ~loaded' /\ override' = override /\ mode' = mode
        /\ state' = (regState \ StateWrite[spvr].clear) \cup StateWrite[spvr].set
        /\ spvr' \in StateWrite[spvr].next
    BY DEF SpvrStoreState, navVars
  <1>2. InFlight(regState) /\ (spvr = "loss2" => "ARMED" \in regState)
    BY <1>1 DEF PlanInv, StateWriting
  <1>3. "ARMED" \in state' <=> "ARMED" \in regState
    BY <1>1, StageTargets
  <1>4. "RADIO_LOSS2" \in state' => spvr = "loss2" \/ "RADIO_LOSS2" \in regState
    <2>1. CASE spvr = "regain"
      BY <1>1, <2>1, StageWrites
    <2>2. CASE spvr # "regain"
      BY <1>1, <2>2, StageTargets
    <2> QED
      BY <2>1, <2>2
  <1>5. InFlight(state)'
    BY <1>2, <1>3, <1>4 DEF InFlight
  <1>6. spvr' \in {"idle", "low1", "low2", "holdOverride", "plan"}
    BY <1>1, StageTargets
  <1>7. ASSUME spvr' = "plan"
        PROVE  "RADIO_LOSS2" \in state' /\ override' = POSHOLD /\ mode' < MISSION
    <2>1. spvr = "loss2"
      BY <1>1, <1>7, StageTargets
    <2>2. override = POSHOLD /\ mode < MISSION
      BY <2>1 DEF StageInv, StagesOK, Declaring
    <2>3. "RADIO_LOSS2" \in state'
      BY <1>1, <2>1, StageWrites
    <2> QED
      BY <1>1, <2>2, <2>3
  <1> QED
    BY <1>1, <1>5, <1>6, <1>7 DEF PlanInv, StateWriting, Planning

LEMMA PlanSpvr ==
  ASSUME TypeOK, BaseStates, StageInv, PlanInv, SpvrStep
  PROVE  PlanInv'
  <1>1. CASE SpvrTick \/ SpvrCentre \/ \E ok \in BOOLEAN : SpvrArm(ok)
    <2>1. state' = state \/ "RADIO_LOSS2" \notin state'
      BY <1>1 DEF SpvrTick, TickCalibrating, TickDisarmed, TickArmed, StickCommand,
                  SpvrCentre, SpvrArm, Armed, Disarmed, LowBattery
    <2>2. spvr' \in {"radio", "arming", "idle", "low1", "low2"}
      BY <1>1, BatteryPoints
         DEF SpvrTick, TickCalibrating, TickDisarmed, TickArmed, StickCommand, SpvrCentre, SpvrArm
    <2>3. ~loaded /\ loaded' = loaded
      BY <1>1 DEF StageInv, SpvrTick, SpvrCentre, SpvrArm, StatePoints, OverridePoints
    <2> QED
      BY <2>1, <2>2, <2>3 DEF PlanInv, InFlight, StateWriting, Planning
  <1>2. CASE SpvrRadio
    <2>1. /\ ~loaded /\ loaded' = loaded /\ state' = state
          /\ spvr' \in {"regainOverride", "loss1", "loss2", "idle", "low1", "low2"}
      BY <1>2, BatteryPoints DEF StageInv, SpvrRadio, StatePoints, OverridePoints
    <2>2. spvr' = "loss2" => "ARMED" \in state
      BY <1>2, BatteryPoints DEF SpvrRadio, BaseStates, BaseOK
    <2> QED
      BY <2>1, <2>2 DEF PlanInv, InFlight, StateWriting, Planning
  <1>3. CASE SpvrLoad
    <2>1. /\ spvr' = spvr /\ state' = state /\ override' = override /\ mode' = mode
          /\ spvr \in StatePoints => regState' = state
          /\ spvr \notin StatePoints => regMode' = mode
      BY <1>3 DEF SpvrLoad, navVars
    <2> QED
      BY <2>1 DEF PlanInv, InFlight, StateWriting, Planning, StatePoints
  <1>4. CASE SpvrStoreState
    BY <1>4, PlanStore
  <1>5. CASE SpvrStoreOverride
    <2>1. spvr' \in {"idle", "low1", "low2", "regain", "centre", "descend"}
          /\ state' = state /\ ~loaded'
      BY <1>5, OverrideWrites DEF SpvrStoreOverride
    <2> QED
      BY <2>1 DEF PlanInv, InFlight, StateWriting, Planning
  <1>6. CASE SpvrPlan
    <2>1. /\ spvr = "plan" /\ spvr' \in {"missionOverride", "descendOverride"}
          /\ override' = override /\ state' = state /\ loaded' = loaded /\ mode' = mode
      BY <1>6 DEF SpvrPlan
    <2>2. ~loaded
      BY <2>1 DEF StageInv, StatePoints, OverridePoints
    <2> QED
      BY <2>1, <2>2 DEF PlanInv, InFlight, StateWriting, Planning
  <1> QED
    BY <1>1, <1>2, <1>3, <1>4, <1>5, <1>6 DEF SpvrStep

\* The parts of PlanInv hold in every reachable state: stage 2 is flagged in the
\* air only, and while it is declared the craft is in no mission.
THEOREM PlanInductive == Spec => []PlanInv
  <1>1. Init => PlanInv
    BY DEF Init, PlanInv, InFlight, StateWriting, Planning
  <1>2. TypeOK /\ BaseStates /\ StageInv /\ PlanInv /\ [Next]_vars => PlanInv'
    <2> SUFFICES ASSUME TypeOK, BaseStates, StageInv, PlanInv, [Next]_vars PROVE PlanInv'
      OBVIOUS
    <2>1. CASE UNCHANGED vars
      BY <2>1 DEF PlanInv, InFlight, StateWriting, Planning, vars, spvrVars, navVars
    <2> QED
      BY <2>1, PlanOthers, PlanSpvr DEF Next, OthersStep
  <1> QED
    BY <1>1, <1>2, TypeCorrect, BaseStatesHold, StagesInductive, PTL DEF Spec

-------------------------------------------------------------------------------
(* The recovery mission and the pilot's switches *)

\* In recovery nothing but a new plan writes legs, and only the end of a leg moves on.
LEMMA RecoveryStep ==
  ASSUME TypeOK, BaseStates, StageInv, PlanInv, Recovering, Next
  PROVE  legs' = legs /\ (leg' > leg => loiter)
  <1>1. "RADIO_LOSS1" \in state /\ "ARMED" \in state /\ "DISARMED" \notin state
    BY DEF StageInv, StagesOK, PlanInv, InFlight, BaseStates, BaseOK, Recovering
  <1>2. ~Planning
    BY DEF PlanInv, Recovering, POSHOLD, MISSION
  <1>3. leg \in Nat
    BY DEF TypeOK
  <1>4. CASE RunSelect
    <2>1. legs' = legs /\ leg' \in {0, leg}
      BY <1>4 DEF RunSelect, SelectMission, SelectHold, SelectManual
    <2> QED
      BY <1>3, <2>1
  <1>5. CASE RunCommands
    <2>1. legs' = legs /\ leg' = leg
      BY <1>1, <1>5 DEF RunCommands, CommandsAllowed, legVars
    <2> QED
      BY <1>3, <2>1
  <1>6. CASE RunLegs
    <2>1. legs' = legs /\ (leg' = leg \/ loiter)
      BY <1>6 DEF RunLegs, Arrive, NextLeg
    <2> QED
      BY <1>3, <2>1
  <1>7. CASE LinkStep \/ CommStep \/ \E pid \in BOOLEAN, next \in {"idle", "select"} : Control(pid, next)
    <2>1. legs' = legs /\ leg' = leg
      BY <1>7 DEF LinkStep, LinkUp, LinkLost, StrayFrame, CommStep, CommCheck, CommCalibrate,
                  Control, navVars, legVars
    <2> QED
      BY <1>3, <2>1
  <1>8. CASE SpvrStep
    <2>1. legs' = legs /\ leg' = leg
      BY <1>1, <1>2, <1>8
         DEF SpvrStep, SpvrTick, TickCalibrating, TickDisarmed, TickArmed, SpvrArm, SpvrRadio,
             SpvrLoad, SpvrStoreState, SpvrStoreOverride, SpvrPlan, SpvrCentre, Planning,
             navVars, legVars
    <2> QED
      BY <1>3, <2>1
  <1> QED
    BY <1>4, <1>5, <1>6, <1>7, <1>8 DEF Next, RunStep

\* nav.c:490: the switches frozen in the channels neither edit a recovery mission
\* nor skip one of its legs.
THEOREM RecoveryIsKept == Spec => RecoveryKept
  <1>1. TypeOK /\ BaseStates /\ StageInv /\ PlanInv /\ [Next]_vars
          => [(Recovering /\ "RADIO_LOSS2" \in state')
                => legs' = legs /\ (leg' > leg => loiter)]_vars
    BY RecoveryStep DEF vars
  <1> QED
    BY <1>1, TypeCorrect, BaseStatesHold, StagesInductive, PlanInductive, PTL
       DEF Spec, RecoveryKept

-------------------------------------------------------------------------------
(* Home is known.  Position hold is entered with a capable GPS only when there *)
(* is no flow sensor, and then sets home.  The override of stage 1 makes run   *)
(* request position hold, and stage 2 is a later tick, with a loop of run in   *)
(* between: when the supervisor looks at navCapable again, either position     *)
(* hold was reached, and home set, or the GPS was found incapable.             *)

Holding(m) == m \in {POSHOLD, DVH, MISSION}

\* Run completed a loop, or at least its mode selection, in stage 1.
Settled ==
  \/ /\ Alone(state) /\ "ARMED" \in state
     /\ \/ ran
        \/ spvr = "idle" /\ run \in {"commands", "legs"}
        \/ spvr \in {"arming", "radio", "loss2"}
  \/ spvr = "plan"

HomeInv ==
  /\ ran => spvr = "idle"
  /\ Holding(mode) \/ Holding(regMode) => home # "unset"
  /\ override = MISSION \/ spvr = "missionOverride" => home # "unset"
  /\ Settled /\ navCapable => home # "unset"

\* Without a flow sensor run enters position hold, or higher, with home set.
LEMMA HoldSetsHome ==
  ASSUME TypeOK, Flow \subseteq {FALSE}, RunSelect, Holding(mode) => home # "unset"
  PROVE  /\ Holding(mode') => home' # "unset"
         /\ home # "unset" => home' # "unset"
         /\ override = POSHOLD /\ "ARMED" \in state /\ navCapable' => home' # "unset"
  <1>1. PICK f \in Seen, fix \in Fixes, flow \in Flow, slow \in BOOLEAN :
          /\ navCapable' = Capable(fix)
          /\ SelectMission(f, fix) \/ SelectHold(f, fix, flow, slow) \/ SelectManual(f, fix)
    BY DEF RunSelect
  <1>2. override = POSHOLD => Request(f, fix) = POSHOLD
    BY DEF Request, POSHOLD
  <1>3. CASE SelectMission(f, fix)
    BY <1>2, <1>3 DEF SelectMission, Holding, POSHOLD, DVH, MISSION
  <1>4. CASE SelectManual(f, fix)
    BY <1>2, <1>4 DEF SelectManual, Holding, MANUAL, POSHOLD, DVH, MISSION
  <1>5. CASE SelectHold(f, fix, flow, slow)
    <2> DEFINE req  == IF Request(f, fix) = POSHOLD /\ f.tilt THEN DVH ELSE Request(f, fix)
               alt  == IF mode < ALTHOLD \/ req = ALTHOLD THEN ALTHOLD ELSE mode
               hold == Capable(fix) /\ req > ALTHOLD /\ alt \notin {POSHOLD, DVH}
    <2>1. flow = FALSE
      BY <1>1
    <2>2. CASE hold
      <3>1. IF NeedsHome(fix) THEN SetHome(fix) ELSE UNCHANGED home
        BY <1>5, <2>1, <2>2 DEF SelectHold
      <3>2. home' # "unset"
        BY <2>2, <3>1 DEF NeedsHome, SetHome
      <3> QED
        BY <3>2
    <2>3. CASE ~hold
      <3>1. home' = home
        BY <1>5, <2>1, <2>3 DEF SelectHold
      <3>2. \/ mode' = alt
            \/ mode' = DVH /\ Capable(fix) /\ req = DVH
            \/ mode' \in {POSHOLD, DVH} /\ alt = DVH
        BY <1>5, <2>1, <2>3 DEF SelectHold
      <3>3. alt = mode \/ alt = ALTHOLD
        OBVIOUS
      <3>4. Capable(fix) /\ req > ALTHOLD => alt \in {POSHOLD, DVH}
        BY <2>3
      <3>5. alt \in {POSHOLD, DVH} => Holding(mode)
        BY <3>3 DEF Holding, ALTHOLD, POSHOLD, DVH
      <3>6. Holding(mode') => Holding(mode)
        <4>1. CASE mode' = alt
          BY <3>3, <4>1 DEF Holding, ALTHOLD, POSHOLD, DVH, MISSION
        <4>2. CASE mode' = DVH /\ Capable(fix) /\ req = DVH
          <5>1. req > ALTHOLD
            BY <4>2 DEF DVH, ALTHOLD
          <5> QED
            BY <3>4, <3>5, <4>2, <5>1
        <4>3. CASE mode' \in {POSHOLD, DVH} /\ alt = DVH
          BY <3>5, <4>3
        <4> QED
          BY <3>2, <4>1, <4>2, <4>3
      <3>7. ASSUME override = POSHOLD, Capable(fix) PROVE Holding(mode)
        <4>1. req > ALTHOLD
          BY <1>2, <3>7 DEF POSHOLD, DVH, ALTHOLD
        <4> QED
          BY <3>4, <3>5, <3>7, <4>1
      <3> HIDE DEF req, alt, hold
      <3> QED
        BY <1>1, <3>1, <3>6, <3>7
    <2> QED
      BY <2>2, <2>3
  <1> QED
    BY <1>1, <1>3, <1>4, <1>5

\* A home position that was set is never unset.
LEMMA HomeNeverLost ==
  ASSUME Next, home # "unset"
  PROVE  home' # "unset"
  <1>1. CASE RunSelect
    BY <1>1 DEF RunSelect, SelectMission, SelectHold, SelectManual, SetHome
  <1>2. CASE RunCommands
    BY <1>2 DEF RunCommands, HomeCommand, SetHome
  <1>3. CASE RunLegs \/ LinkStep \/ CommStep
    BY <1>3 DEF RunLegs, LinkStep, LinkUp, LinkLost, StrayFrame, CommStep, CommCheck,
                CommCalibrate, navVars
  <1>4. CASE SpvrStep
    BY <1>4 DEF SpvrStep, SpvrTick, SpvrArm, SpvrRadio, SpvrLoad, SpvrStoreState,
                SpvrStoreOverride, SpvrPlan, SpvrCentre, navVars
  <1>5. ASSUME NEW pid \in BOOLEAN, NEW next \in {"idle", "select"}, Control(pid, next)
        PROVE  home' # "unset"
    BY <1>5 DEF Control, navVars
  <1> QED
    BY <1>1, <1>2, <1>3, <1>4, <1>5 DEF Next, RunStep

LEMMA HomeOthers ==
  ASSUME TypeOK, BaseStates, StageInv, PlanInv, HomeInv, Flow \subseteq {FALSE}, OthersStep
  PROVE  HomeInv'
  <1>1. UNCHANGED <<spvr, loaded, regState, regMode, override>>
    BY OthersLeave
  <1>2. home # "unset" => home' # "unset"
    BY HomeNeverLost DEF OthersStep, Next
  <1>3. ran' => spvr' = "idle"
    BY <1>1 DEF HomeInv, OthersStep, LinkStep, LinkUp, LinkLost, StrayFrame, RunStep, RunSelect,
                RunCommands, RunLegs, CommStep, CommCheck, CommCalibrate, Control, taskVars
  <1>4. Holding(mode') \/ Holding(regMode') => home' # "unset"
    <2>1. CASE RunSelect
      BY <1>1, <1>2, <2>1, HoldSetsHome DEF HomeInv
    <2>2. CASE RunLegs
      <3>1. mode' = mode \/ mode = MISSION
        BY <2>2 DEF RunLegs, Arrive, NextLeg
      <3> QED
        BY <1>1, <1>2, <3>1 DEF HomeInv, Holding
    <2>3. CASE ~RunSelect /\ ~RunLegs
      <3>1. mode' = mode
        BY <2>3 DEF OthersStep, LinkStep, LinkUp, LinkLost, StrayFrame, RunStep, RunCommands,
                    CommStep, CommCheck, CommCalibrate, Control, navVars
      <3> QED
        BY <1>1, <1>2, <3>1 DEF HomeInv
    <2> QED
      BY <2>1, <2>2, <2>3
  <1>5. ASSUME Settled', navCapable' PROVE home' # "unset"
    <2>1. spvr # "plan" => Alone(state) /\ "ARMED" \in state
      BY <1>1, <1>5, OthersKeepOrClear DEF Settled, Alone, Flags
    <2>2. CASE RunSelect
      <3>1. override = POSHOLD /\ "ARMED" \in state
        <4>1. CASE spvr = "plan"
          BY <4>1 DEF PlanInv, Planning, InFlight
        <4>2. CASE spvr # "plan"
          <5>1. spvr \in {"idle", "arming", "radio", "loss2"}
            BY <1>1, <1>3, <1>5, <4>2 DEF Settled
          <5> QED
            BY <2>1, <4>2, <5>1 DEF StageInv, StagesOK
        <4> QED
          BY <4>1, <4>2
      <3> QED
        BY <1>5, <2>2, <3>1, HoldSetsHome DEF HomeInv
    <2>3. CASE ~RunSelect
      <3>1. navCapable' = navCapable
        BY <2>3 DEF OthersStep, LinkStep, LinkUp, LinkLost, StrayFrame, RunStep, RunCommands,
                    RunLegs, CommStep, CommCheck, CommCalibrate, Control, navVars
      <3>2. \/ ran' = ran /\ (run' \in {"commands", "legs"} => run \in {"commands", "legs"})
            \/ run = "legs" /\ run' = "idle" /\ (ran' => spvr = "idle")
        BY <2>3 DEF OthersStep, LinkStep, LinkUp, LinkLost, StrayFrame, RunStep, RunCommands,
                    RunLegs, CommStep, CommCheck, CommCalibrate, Control, taskVars
      <3>3. Settled
        BY <1>1, <1>5, <2>1, <3>2 DEF Settled
      <3> QED
        BY <1>2, <1>5, <3>1, <3>3 DEF HomeInv
    <2> QED
      BY <2>2, <2>3
  <1> QED
    BY <1>1, <1>2, <1>3, <1>4, <1>5 DEF HomeInv

LEMMA HomeSpvr ==
  ASSUME BaseStates, StageInv, PlanInv, HomeInv, SpvrStep
  PROVE  HomeInv'
  <1>1. run = "idle" /\ run' = run
    BY DEF SpvrStep, SpvrTick, SpvrArm, SpvrRadio, SpvrLoad, SpvrStoreState, SpvrStoreOverride,
           SpvrPlan, SpvrCentre, RunIdle, taskVars
  <1>2. home' = home /\ navCapable' = navCapable
    BY DEF SpvrStep, SpvrTick, SpvrArm, SpvrRadio, SpvrLoad, SpvrStoreState, SpvrStoreOverride,
           SpvrPlan, SpvrCentre, navVars
  <1>3. ~ran'
    BY DEF HomeInv, SpvrStep, SpvrTick, SpvrArm, SpvrRadio, SpvrLoad, SpvrStoreState,
           SpvrStoreOverride, SpvrPlan, SpvrCentre, taskVars, StatePoints, OverridePoints
  <1>4. CASE SpvrTick \/ \E ok \in BOOLEAN : SpvrArm(ok)
    <2>1. state' = state \/ "RADIO_LOSS1" \notin state'
      BY <1>4 DEF SpvrTick, TickCalibrating, TickDisarmed, TickArmed, StickCommand,
                  SpvrArm, Armed, Disarmed, LowBattery
    <2>2. spvr' \in {"radio", "arming"} /\ (ran \/ spvr = "arming")
      BY <1>4 DEF SpvrTick, TickCalibrating, TickDisarmed, TickArmed, StickCommand, SpvrArm
    <2>3. UNCHANGED <<mode, regMode, override>>
      BY <1>4 DEF SpvrTick, SpvrArm, navVars
    <2>4. Settled' => Settled
      BY <2>1, <2>2 DEF Settled, Alone
    <2> QED
      BY <1>2, <1>3, <2>2, <2>3, <2>4 DEF HomeInv
  <1>5. CASE SpvrRadio \/ SpvrCentre
    <2>1. /\ spvr' \in {"regainOverride", "loss1", "loss2", "idle", "low1", "low2"}
          /\ spvr' = "loss2" => spvr = "radio"
          /\ UNCHANGED <<mode, regMode, override, state>>
      BY <1>5, BatteryPoints DEF SpvrRadio, SpvrCentre, navVars
    <2>2. Settled' => Settled
      BY <1>1, <1>3, <2>1 DEF Settled
    <2> QED
      BY <1>2, <1>3, <2>1, <2>2 DEF HomeInv
  <1>6. CASE SpvrLoad
    <2>1. UNCHANGED <<mode, override, state, spvr>> /\ regMode' \in {mode, regMode}
      BY <1>6 DEF SpvrLoad, navVars
    <2>2. Settled' => Settled
      BY <1>1, <1>3, <2>1 DEF Settled
    <2> QED
      BY <1>2, <1>3, <2>1, <2>2 DEF HomeInv, Holding
  <1>7. CASE SpvrStoreState
    <2>1. /\ UNCHANGED <<mode, regMode, override>>
          /\ spvr \in StatePoints /\ spvr' \in StateWrite[spvr].next
      BY <1>7 DEF SpvrStoreState, navVars
    <2>2. spvr' \in {"idle", "low1", "low2", "holdOverride", "plan"}
          /\ (spvr' = "plan" => spvr = "loss2")
      BY <2>1, StageTargets
    <2>3. spvr = "loss2" => Settled
      BY DEF Settled, StageInv, Declaring, PlanInv
    <2>4. Settled' => Settled
      BY <1>1, <1>3, <2>2, <2>3 DEF Settled
    <2> QED
      BY <1>2, <1>3, <2>1, <2>2, <2>4 DEF HomeInv
  <1>8. CASE SpvrStoreOverride
    <2>1. /\ spvr \in OverridePoints /\ mode' = regMode /\ regMode' = MANUAL
          /\ override' = OverrideWrite[spvr].value
          /\ spvr' \in {"idle", "low1", "low2", "regain", "centre", "descend"}
      BY <1>8, OverrideWrites DEF SpvrStoreOverride
    <2>2. override' = MISSION => spvr = "missionOverride"
      BY <2>1 DEF OverrideWrite, OverridePoints, POSHOLD, MISSION
    <2>3. ~Settled'
      BY <1>1, <1>3, <2>1 DEF Settled
    <2>4. ~Holding(regMode')
      BY <2>1 DEF Holding, MANUAL, POSHOLD, DVH, MISSION
    <2> QED
      BY <1>2, <1>3, <2>1, <2>2, <2>3, <2>4 DEF HomeInv
  <1>9. CASE SpvrPlan
    <2>1. /\ spvr = "plan" /\ UNCHANGED <<mode, regMode, override, state>>
          /\ \/ spvr' = "missionOverride" /\ navCapable
             \/ spvr' = "descendOverride"
      BY <1>9 DEF SpvrPlan
    <2>2. spvr' = "missionOverride" => home # "unset"
      BY <2>1 DEF HomeInv, Settled
    <2>3. ~Settled'
      BY <1>1, <1>3, <2>1 DEF Settled
    <2> QED
      BY <1>2, <1>3, <2>1, <2>2, <2>3 DEF HomeInv
  <1> QED
    BY <1>4, <1>5, <1>6, <1>7, <1>8, <1>9 DEF SpvrStep

\* nav.c:422-426: without a flow sensor, a recovery that flies home has a home
\* position.  With one it need not: position hold may begin on optical flow alone.
THEOREM HomeIsKnown == ASSUME Flow \subseteq {FALSE} PROVE Spec => []HomeKnown
  <1>1. Init => HomeInv
    BY DEF Init, HomeInv, Settled, Holding, Alone, MANUAL, POSHOLD, DVH, MISSION
  <1>2. TypeOK /\ BaseStates /\ StageInv /\ PlanInv /\ HomeInv /\ [Next]_vars => HomeInv'
    <2> SUFFICES ASSUME TypeOK, BaseStates, StageInv, PlanInv, HomeInv, [Next]_vars
                 PROVE  HomeInv'
      OBVIOUS
    <2>1. CASE UNCHANGED vars
      BY <2>1 DEF HomeInv, Settled, Alone, vars, spvrVars, navVars, taskVars
    <2> QED
      BY <2>1, HomeOthers, HomeSpvr DEF Next, OthersStep
  <1>3. HomeInv => HomeKnown
    BY DEF HomeInv, HomeKnown, Recovering
  <1> QED
    BY <1>1, <1>2, <1>3, TypeCorrect, BaseStatesHold, StagesInductive, PlanInductive, PTL DEF Spec

-------------------------------------------------------------------------------
(* The recovery lands.  One behaviour of the model has to be set apart.  When a *)
(* landing disarms between the load and the store of a battery flag, the store *)
(* brings the recovery back (see OnlyArmingArms); were run to complete another *)
(* loop between the two, the waypoint switch, free again while disarmed, could *)
(* record over the plan.  The theorem holds for every frame if no battery flag *)
(* is raised, and with any battery if the frames have the switch off.          *)

WaypointOff == \A f \in Frames : ~f.wp

Lands == leg < Len(legs) /\ legs[Len(legs)] = "LAND"

\* A store that would bring stage 2 back.
Resuming == StateWriting /\ spvr # "regain" /\ "RADIO_LOSS2" \in regState

Active == override = MISSION /\ ("RADIO_LOSS2" \in state \/ Resuming)

\* navNavigate() works on the leg that missionLeg names.
Follows == mode = MISSION /\ run \in {"commands", "legs"} => cur = leg

LandInv ==
  /\ spvr = "missionOverride" \/ Active => Lands
  /\ Active => Follows
  /\ spvr = "loss1" => "RADIO_LOSS1" \notin state /\ (loaded => "RADIO_LOSS1" \notin regState)
  /\ Batteries = {} => spvr \notin {"low1", "low2"}
  /\ WaypointOff => ~rc.wp

\* Every plan of the supervisor ends in a landing.
LEMMA PlanLands ==
  ASSUME NEW option, NEW far, NEW below
  PROVE  LET plan == FailsafePlan(option, far, below)
         IN  0 < Len(plan) /\ plan[Len(plan)] = "LAND"
  <1>1. FailsafePlan(option, far, below)
          \in {<<"GOTO", "GOTO", "HOME", "LAND">>, <<"GOTO", "HOME", "LAND">>, <<"LAND">>}
    BY DEF FailsafePlan
  <1>2. ASSUME NEW p \in {<<"GOTO", "GOTO", "HOME", "LAND">>, <<"GOTO", "HOME", "LAND">>, <<"LAND">>}
        PROVE  0 < Len(p) /\ p[Len(p)] = "LAND"
    OBVIOUS
  <1> QED
    BY <1>1, <1>2

\* With no warning of the battery the tick ends after the radio.
LEMMA NoBatteryPoints == Batteries = {} => Battery \subseteq {"idle"}
  BY DEF Battery

\* A store that would bring stage 2 back is one of a battery flag, unless stage 2
\* is flagged still.
LEMMA ResumingLow ==
  ASSUME StageInv, LandInv, Resuming
  PROVE  spvr \in {"low1", "low2"}
  <1>1. spvr # "loss2"
    BY DEF Resuming, StateWriting, StageInv, Declaring, Alone
  <1>2. spvr # "loss1"
    BY DEF Resuming, StateWriting, StageInv, StagesOK, LandInv
  <1> QED
    BY <1>1, <1>2 DEF Resuming, StateWriting, StatePoints

\* Run's commands leave the legs of a recovery alone, and of the plan before it.
LEMMA CommandsLeavePlan ==
  ASSUME StageInv, PlanInv, LandInv, Batteries = {} \/ WaypointOff, RunCommands,
         spvr = "missionOverride" \/ Active
  PROVE  legs' = legs /\ leg' = leg
  <1>1. CASE "RADIO_LOSS2" \in state
    <2>1. ~CommandsAllowed
      BY <1>1 DEF StageInv, StagesOK, CommandsAllowed
    <2> QED
      BY <2>1 DEF RunCommands, legVars
  <1>2. CASE "RADIO_LOSS2" \notin state
    <2>1. Resuming
      BY <1>2 DEF Active, PlanInv, Planning
    <2>2. WaypointOff
      BY <2>1, ResumingLow DEF LandInv
    <2>3. \A f \in Seen : ~f.wp
      BY <2>2 DEF LandInv, Seen, WaypointOff
    <2> QED
      BY <2>3 DEF RunCommands, legVars
  <1> QED
    BY <1>1, <1>2

\* The next leg of a mission that lands is one of its legs.
LEMMA NextLegLands ==
  ASSUME TypeOK, Lands, NextLeg, cur = leg, legs' = legs
  PROVE  Lands'
  <1>1. leg \in Nat /\ Len(legs) \in Nat /\ leg < Len(legs)
    BY LenProperties DEF TypeOK, Lands
  <1>2. legs[leg + 1] # "LAND" /\ leg' = leg + 1
    BY <1>1 DEF NextLeg, LegType
  <1>3. leg + 1 # Len(legs)
    BY <1>2 DEF Lands
  <1>4. leg' < Len(legs)
    BY <1>1, <1>2, <1>3
  <1> QED
    BY <1>4 DEF Lands

LEMMA LandsOthers ==
  ASSUME TypeOK, StageInv, PlanInv, LandInv, Batteries = {} \/ WaypointOff, OthersStep,
         spvr = "missionOverride" \/ Active
  PROVE  Lands' /\ (Active => Follows')
  <1>1. Lands /\ (Active => Follows)
    BY DEF LandInv
  <1>2. leg \in Nat /\ Len(legs) \in Nat
    BY LenProperties DEF TypeOK
  <1>3. CASE RunSelect
    <2>1. /\ legs' = legs
          /\ \/ leg' = leg /\ cur' = leg
             \/ leg' = 0 /\ mode' = MANUAL
      BY <1>3 DEF RunSelect, SelectMission, SelectHold, SelectManual
    <2>2. 0 < Len(legs)
      BY <1>1, <1>2 DEF Lands
    <2>3. Lands'
      BY <1>1, <2>1, <2>2 DEF Lands
    <2>4. Follows'
      BY <2>1 DEF Follows, MANUAL, MISSION
    <2> QED
      BY <2>3, <2>4
  <1>4. CASE RunCommands
    <2>1. legs' = legs /\ leg' = leg
      BY <1>4, CommandsLeavePlan
    <2>2. mode' = mode /\ cur' = cur /\ run = "commands"
      BY <1>4 DEF RunCommands
    <2> QED
      BY <1>1, <2>1, <2>2 DEF Lands, Follows
  <1>5. CASE RunLegs
    <2>1. run = "legs" /\ run' = "idle" /\ legs' = legs
      BY <1>5 DEF RunLegs
    <2>2. Lands'
      <3>1. CASE leg' = leg
        BY <1>1, <2>1, <3>1 DEF Lands
      <3>2. CASE leg' # leg
        <4>1. NextLeg
          BY <1>5, <3>2 DEF RunLegs, Arrive
        <4>2. mode = MISSION
          BY <4>1 DEF NextLeg
        <4>3. spvr # "missionOverride"
          BY <4>2 DEF PlanInv, Planning, MISSION
        <4>4. cur = leg
          BY <1>1, <2>1, <4>2, <4>3 DEF Follows
        <4> QED
          BY <1>1, <2>1, <4>1, <4>4, NextLegLands
      <3> QED
        BY <3>1, <3>2
    <2>3. Follows'
      BY <2>1 DEF Follows
    <2> QED
      BY <2>2, <2>3
  <1>6. CASE ~RunStep
    <2>1. legs' = legs /\ leg' = leg
      BY <1>6 DEF OthersStep, LinkStep, LinkUp, LinkLost, StrayFrame, CommStep, CommCheck,
                  CommCalibrate, Control, navVars, legVars
    <2>2. \/ run' \in {"idle", "select"}
          \/ run' = run /\ mode' = mode /\ cur' = cur
      BY <1>6 DEF OthersStep, LinkStep, LinkUp, LinkLost, StrayFrame, CommStep, CommCheck,
                  CommCalibrate, Control, navVars, taskVars
    <2> QED
      BY <1>1, <2>1, <2>2 DEF Lands, Follows
  <1> QED
    BY <1>3, <1>4, <1>5, <1>6 DEF RunStep

\* The waypoint switch of the channels is that of a frame, or off.
LEMMA SwitchStays ==
  ASSUME TypeOK, LandInv, Next, WaypointOff
  PROVE  ~rc'.wp
  <1>1. ~rc.wp /\ rc \in Frame
    BY DEF LandInv, TypeOK
  <1>2. CASE LinkStep
    BY <1>1, <1>2 DEF LinkStep, LinkUp, LinkLost, StrayFrame, Neutral, WaypointOff
  <1>3. CASE SpvrCentre
    BY <1>1, <1>3 DEF SpvrCentre, Frame
  <1>4. CASE ~LinkStep /\ ~SpvrCentre
    <2>1. rc' = rc
      BY <1>4 DEF Next, RunStep, RunSelect, RunCommands, RunLegs, CommStep, CommCheck,
                  CommCalibrate, Control, SpvrStep, SpvrTick, SpvrArm, SpvrRadio, SpvrLoad,
                  SpvrStoreState, SpvrStoreOverride, SpvrPlan, rcVars
    <2> QED
      BY <1>1, <2>1
  <1> QED
    BY <1>2, <1>3, <1>4

LEMMA LandOthers ==
  ASSUME TypeOK, StageInv, PlanInv, LandInv, Batteries = {} \/ WaypointOff, OthersStep
  PROVE  LandInv'
  <1>1. UNCHANGED <<spvr, loaded, regState, regMode, override>>
    BY OthersLeave
  <1>2. "RADIO_LOSS2" \in state' => "RADIO_LOSS2" \in state
    BY OthersKeepOrClear DEF Flags
  <1>3. "RADIO_LOSS1" \in state' => "RADIO_LOSS1" \in state
    BY OthersKeepOrClear DEF Flags
  <1>4. Active' => Active
    BY <1>1, <1>2 DEF Active, Resuming, StateWriting
  <1>5. WaypointOff => ~rc'.wp
    BY SwitchStays DEF OthersStep, Next
  <1>6. spvr = "missionOverride" \/ Active => Lands' /\ (Active => Follows')
    BY LandsOthers
  <1>7. (spvr = "missionOverride" \/ Active => Lands)' /\ (Active => Follows)'
    BY <1>1, <1>4, <1>6
  <1>8. (spvr = "loss1" => "RADIO_LOSS1" \notin state /\ (loaded => "RADIO_LOSS1" \notin regState))'
    BY <1>1, <1>3 DEF LandInv
  <1>9. (Batteries = {} => spvr \notin {"low1", "low2"})'
    BY <1>1 DEF LandInv
  <1> QED
    BY <1>5, <1>7, <1>8, <1>9 DEF LandInv, WaypointOff

\* The supervisor's steps other than the plan, all taken while run sleeps.
LEMMA LandStep ==
  ASSUME LandInv, run' = "idle", UNCHANGED <<legs, leg>>,
         spvr' = "missionOverride" \/ Active' => spvr = "missionOverride" \/ Active,
         (spvr = "loss1" => "RADIO_LOSS1" \notin state /\ (loaded => "RADIO_LOSS1" \notin regState))',
         (Batteries = {} => spvr \notin {"low1", "low2"})',
         WaypointOff => ~rc'.wp
  PROVE  LandInv'
  <1>1. Follows'
    BY DEF Follows
  <1>2. (spvr = "missionOverride" \/ Active => Lands)'
    BY DEF LandInv, Lands
  <1> QED
    BY <1>1, <1>2 DEF LandInv, WaypointOff

LEMMA LandSpvr ==
  ASSUME TypeOK, BaseStates, StageInv, PlanInv, LandInv, SpvrStep
  PROVE  LandInv'
  <1>1. run' = "idle"
    BY DEF SpvrStep, SpvrTick, SpvrArm, SpvrRadio, SpvrLoad, SpvrStoreState, SpvrStoreOverride,
           SpvrPlan, SpvrCentre, RunIdle, taskVars
  <1>2. WaypointOff => ~rc'.wp
    BY SwitchStays DEF Next
  <1>3. CASE SpvrTick \/ \E ok \in BOOLEAN : SpvrArm(ok)
    <2>1. spvr' \in {"radio", "arming"} /\ override' = override
      BY <1>3 DEF SpvrTick, TickCalibrating, TickDisarmed, TickArmed, StickCommand, SpvrArm, navVars
    <2>2. state' = state \/ "RADIO_LOSS2" \notin state'
      BY <1>3 DEF SpvrTick, TickCalibrating, TickDisarmed, TickArmed, StickCommand,
                  SpvrArm, Armed, Disarmed, LowBattery
    <2>3. ~Resuming'
      BY <2>1 DEF Resuming, StateWriting, StatePoints
    <2>4. Active' => Active
      BY <2>1, <2>2, <2>3 DEF Active
    <2>5. CASE legs' = legs /\ leg' = leg
      BY <1>1, <1>2, <2>1, <2>4, <2>5, LandStep
    <2>6. CASE ~(legs' = legs /\ leg' = leg)
      <3>1. "DISARMED" \in state /\ state' = state
        BY <1>3, <2>6 DEF SpvrTick, TickCalibrating, TickDisarmed, TickArmed, StickCommand,
                          SpvrArm, navVars, legVars
      <3>2. "RADIO_LOSS2" \notin state
        BY <3>1 DEF PlanInv, InFlight, BaseStates, BaseOK
      <3>3. ~Active'
        BY <2>3, <3>1, <3>2 DEF Active
      <3> QED
        BY <1>2, <2>1, <3>3 DEF LandInv, WaypointOff
    <2> QED
      BY <2>5, <2>6
  <1>4. CASE SpvrRadio \/ SpvrCentre
    <2>1. /\ spvr' \in {"regainOverride", "idle", "low1", "low2", "loss1", "loss2"}
          /\ ~loaded' /\ UNCHANGED <<state, override, legs, leg>>
      BY <1>4, BatteryPoints
         DEF SpvrRadio, SpvrCentre, StageInv, StatePoints, OverridePoints, navVars, legVars
    <2>2. spvr' = "loss1" => "RADIO_LOSS1" \notin state
      BY <1>4, BatteryPoints DEF SpvrRadio, SpvrCentre, RadioLost
    <2>3. Batteries = {} => spvr' \notin {"low1", "low2"}
      BY <1>4, NoBatteryPoints DEF SpvrRadio, SpvrCentre
    <2>4. Active' => Active
      BY <2>1 DEF Active, Resuming, StateWriting
    <2> QED
      BY <1>1, <1>2, <2>1, <2>2, <2>3, <2>4, LandStep
  <1>5. CASE SpvrLoad
    <2>1. /\ UNCHANGED <<spvr, state, override, legs, leg>>
          /\ spvr \in StatePoints => regState' = state
      BY <1>5 DEF SpvrLoad, navVars, legVars
    <2>2. Active' => Active
      BY <2>1 DEF Active, Resuming, StateWriting
    <2>3. (spvr = "loss1" => "RADIO_LOSS1" \notin state /\ (loaded => "RADIO_LOSS1" \notin regState))'
      BY <2>1 DEF LandInv, StatePoints
    <2> QED
      BY <1>1, <1>2, <2>1, <2>2, <2>3, LandStep DEF LandInv
  <1>6. CASE SpvrStoreState
    <2>1. /\ spvr \in StatePoints /\ loaded /\ ~loaded' /\ UNCHANGED <<override, legs, leg>>
          /\ state' = (regState \ StateWrite[spvr].clear) \cup StateWrite[spvr].set
          /\ spvr' \in StateWrite[spvr].next
      BY <1>6 DEF SpvrStoreState, navVars, legVars
    <2>2. spvr' \in {"idle", "low1", "low2", "holdOverride", "plan"}
      BY <2>1, StageTargets
    <2>3. Batteries = {} => spvr' \notin {"low1", "low2"}
      <3>1. spvr' \in {"low1", "low2"} => spvr = "regain"
        BY <2>1, StageWrites DEF StatePoints
      <3>2. spvr = "regain" => spvr' \in Battery
        BY <2>1 DEF StateWrite
      <3> QED
        BY <3>1, <3>2, NoBatteryPoints
    <2>4. ASSUME Active' PROVE Active
      <3>1. override = MISSION /\ "RADIO_LOSS2" \in state'
        BY <2>1, <2>4 DEF Active, Resuming, StateWriting
      <3>2. spvr # "loss2"
        BY <3>1 DEF StageInv, StagesOK, Declaring, POSHOLD, MISSION
      <3>3. spvr # "regain"
        BY <2>1, <3>1, StageWrites
      <3>4. "RADIO_LOSS2" \in regState
        BY <2>1, <3>1, <3>2, <3>3, StageTargets
      <3> QED
        BY <2>1, <3>1, <3>3, <3>4 DEF Active, Resuming, StateWriting
    <2> QED
      BY <1>1, <1>2, <2>1, <2>2, <2>3, <2>4, LandStep
  <1>7. CASE SpvrStoreOverride
    <2>1. /\ spvr \in OverridePoints /\ ~loaded' /\ UNCHANGED <<state, legs, leg>>
          /\ override' = OverrideWrite[spvr].value
          /\ spvr' \in {"idle", "low1", "low2", "regain", "centre", "descend"}
      BY <1>7, OverrideWrites DEF SpvrStoreOverride, legVars
    <2>2. override' = MISSION => spvr = "missionOverride"
      BY <2>1 DEF OverrideWrite, OverridePoints, POSHOLD, MISSION
    <2>3. Batteries = {} => spvr' \notin {"low1", "low2"}
      <3>1. OverrideWrite[spvr].next \in {Battery, {"regain"}, {"centre"}, {"descend"}}
        BY <2>1 DEF OverrideWrite, OverridePoints
      <3>2. spvr' \in OverrideWrite[spvr].next
        BY <1>7 DEF SpvrStoreOverride
      <3> QED
        BY <3>1, <3>2, NoBatteryPoints
    <2>4. Active' => spvr = "missionOverride"
      BY <2>2 DEF Active
    <2> QED
      BY <1>1, <1>2, <2>1, <2>3, <2>4, LandStep
  <1>8. CASE SpvrPlan
    <2>1. /\ spvr = "plan" /\ spvr' \in {"missionOverride", "descendOverride"}
          /\ override' = override /\ override = POSHOLD
      BY <1>8 DEF SpvrPlan, PlanInv, Planning
    <2>2. ~Active'
      BY <2>1 DEF Active, POSHOLD, MISSION
    <2>3. ASSUME spvr' = "missionOverride" PROVE Lands'
      <3>1. PICK option \in FsOptions, far \in BOOLEAN, below \in BOOLEAN :
              ReplaceMission(FailsafePlan(option, far, below))
        BY <1>8, <2>3 DEF SpvrPlan
      <3>2. mode < MISSION
        BY <2>1 DEF PlanInv, Planning
      <3>3. ~(mode >= MISSION)
        BY <3>2 DEF TypeOK, Modes, MANUAL, MISSION
      <3>4. legs' = FailsafePlan(option, far, below) /\ leg' = 0
        BY <3>1, <3>3 DEF ReplaceMission, WritePlan
      <3> QED
        BY <3>4, PlanLands DEF Lands
    <2> QED
      BY <1>2, <2>1, <2>2, <2>3 DEF LandInv, WaypointOff
  <1> QED
    BY <1>3, <1>4, <1>5, <1>6, <1>7, <1>8 DEF SpvrStep

\* supervisor.c:361-430: a recovery has a leg to fly and its last leg lands,
\* for every plan, frame and interleaving but the one set apart above.
THEOREM RecoveryLands ==
  ASSUME Batteries = {} \/ WaypointOff
  PROVE  Spec => []RecoveryEndsInLanding
  <1>1. Init => LandInv
    BY DEF Init, LandInv, Active, Resuming, StateWriting, Neutral, MISSION
  <1>2. TypeOK /\ BaseStates /\ StageInv /\ PlanInv /\ LandInv /\ [Next]_vars => LandInv'
    <2> SUFFICES ASSUME TypeOK, BaseStates, StageInv, PlanInv, LandInv, [Next]_vars
                 PROVE  LandInv'
      OBVIOUS
    <2>1. CASE UNCHANGED vars
      BY <2>1 DEF LandInv, Active, Resuming, StateWriting, Lands, Follows, WaypointOff,
                  vars, spvrVars, navVars, legVars, rcVars, taskVars
    <2> QED
      BY <2>1, LandOthers, LandSpvr DEF Next, OthersStep
  <1>3. LandInv => RecoveryEndsInLanding
    BY DEF LandInv, Active, Lands, RecoveryEndsInLanding, Recovering
  <1> QED
    BY <1>1, <1>2, <1>3, TypeCorrect, BaseStatesHold, StagesInductive, PlanInductive, PTL DEF Spec

===============================================================================

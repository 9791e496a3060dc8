------------------------------- MODULE Mission -------------------------------
(***************************************************************************)
(* How a mission gets from the ground station into navData.missionLegs,    *)
(* and how it is flown.                                                    *)
(*                                                                         *)
(* The ground station announces the number of items; the comm task then    *)
(* asks for one item after the other and stores what comes (aq_mavlink.c). *)
(* The radio link loses messages but keeps their order.  A request that is *)
(* not answered in time is repeated, so items may arrive twice, and late.  *)
(*                                                                         *)
(* navNavigate() flies the legs in the run task, which may preempt comm at *)
(* any of its steps but is not preempted by it: one action per loop.       *)
(*                                                                         *)
(* Of a leg the model keeps its type and the mission its position came     *)
(* from.  The clock is left out: a request may time out, a leg may be      *)
(* reached and a loiter time may pass at any moment.                       *)
(***************************************************************************)
EXTENDS Naturals, Sequences

CONSTANTS
  Missions,     \* the missions the ground station sends: sequences of Items
  MaxLegs,      \* NAV_MAX_MISSION_LEGS
  MaxAttempts,  \* AQMAVLINK_WP_MAX_ATTEMPTS
  MaxSent,      \* bound: counts and clears the ground station sends
  MaxLink       \* bound: messages under way in one direction

\* Positioned legs have coordinates; a return to launch is stored as HOME and
\* brings the coordinates of home.  DO_SET_HOME is an item that stores no leg but
\* a home, "SKIP" one that stores nothing (an unsupported command or frame).
Positioned == {"GOTO", "ORBIT"}
LegTypes   == Positioned \cup {"HOME", "TAKEOFF", "LAND"}
Items      == LegTypes \cup {"SETHOME", "SKIP"}

\* A mission that fills the table ends in a landing: the leg after the table is
\* not one.
ASSUME MissionAssumption ==
  /\ MaxLegs \in Nat \ {0}
  /\ MaxAttempts \in Nat
  /\ MaxSent \in Nat
  /\ MaxLink \in Nat \ {0}
  /\ Missions \in Seq(Seq(Items))
  /\ \A m \in DOMAIN Missions :
       Len(Missions[m]) = MaxLegs => Missions[m][MaxLegs] = "LAND"

Ids   == DOMAIN Missions
Index == 0 .. MaxLegs - 1

Count(m)   == Len(Missions[m])
Item(m, i) == Missions[m][i + 1]

VARIABLES
  \* the ground station
  sending,    \* the mission it sends
  heard,      \* the craft has asked for an item of it
  sent,       \* how many counts and clears
  \* the link
  up, down,
  \* mavlinkData
  wpCount, wpCurrent, wpAttempt,
  \* the comm task
  comm,       \* where it is in a message
  msg,        \* that message
  \* navData
  legs,       \* missionLegs: type, and the mission the position is of
  mode,       \* manual, position hold or mission
  leg,        \* missionLeg
  hasLeg,     \* hasMissionLeg
  loiter,     \* loiterCompleteTime # 0
  target,     \* the position held: of an item of a mission, or where the craft was
  home,       \* homeLeg: likewise, or not set
  \* history
  accepted,   \* the mission announced by the last count accepted, 0 for none
  recalled    \* the pilot has sent the craft home from the leg it flies

ground  == <<sending, heard, sent>>
wpVars  == <<wpCount, wpCurrent, wpAttempt>>
flying  == <<mode, leg, hasLeg, loiter, target, recalled>>
navVars == <<legs, flying, home>>
vars    == <<ground, up, down, wpVars, comm, msg, navVars, accepted>>

At(m, i) == [of |-> m, at |-> i]
Here     == At(0, 0)
Unset    == At(0, 1)
Place    == [of : Ids, at : Nat] \cup {Here}
Nothing == [kind |-> "none"]

UpMsgs ==
  [kind : {"COUNT"}, of : Ids] \cup [kind : {"CLEAR"}]
    \cup [kind : {"ITEM"}, of : Ids, seq : Nat] \cup [kind : {"CURRENT"}, seq : Index]

TypeOK ==
  /\ sending \in Ids \cup {0} /\ heard \in BOOLEAN /\ sent \in 0 .. MaxSent
  /\ up \in Seq(UpMsgs) /\ down \in Seq(Nat)
  /\ wpCount \in 0 .. MaxLegs /\ wpCurrent \in 0 .. MaxLegs + 1
  /\ wpAttempt \in 0 .. MaxAttempts + 1
  /\ comm \in {"idle", "clear", "store", "load"}
  /\ msg \in UpMsgs \cup {Nothing}
  /\ legs \in [Index -> [type : LegTypes \cup {"NONE"}, of : Ids \cup {0}]]
  /\ mode \in {"MANUAL", "POSHOLD", "MISSION"}
  /\ leg \in 0 .. MaxLegs /\ hasLeg \in BOOLEAN /\ loiter \in BOOLEAN /\ recalled \in BOOLEAN
  /\ target \in Place \cup {Unset} /\ home \in Place \cup {Unset}
  /\ accepted \in Ids \cup {0}

\* navLoadDefaultMission() and mavlinkInit(); the default mission is flown in
\* module Flight and counts here as an empty table.
Init ==
  /\ sending = 0 /\ heard = FALSE /\ sent = 0
  /\ up = <<>> /\ down = <<>>
  /\ wpCount = 0 /\ wpCurrent = 1 /\ wpAttempt = 0
  /\ comm = "idle" /\ msg = Nothing
  /\ legs = [i \in Index |-> [type |-> "NONE", of |-> 0]]
  /\ mode = "MANUAL" /\ leg = 0 /\ hasLeg = FALSE /\ loiter = FALSE
  /\ target = Here /\ home = Unset /\ recalled = FALSE
  /\ accepted = 0

-------------------------------------------------------------------------------
(***************************************************************************)
(* The ground station (external) and the link.  It starts an upload, or    *)
(* clears the mission, only when nothing of an earlier one is under way:   *)
(* requests carry no name of the mission they ask for.  It repeats the     *)
(* count until it is asked for an item.                                    *)
(***************************************************************************)

Quiet == up = <<>> /\ down = <<>> /\ comm = "idle" /\ wpCurrent > wpCount

StartUpload ==
  /\ Quiet /\ sent < MaxSent
  /\ \E m \in Ids : sending' = m /\ up' = <<[kind |-> "COUNT", of |-> m]>>
  /\ heard' = FALSE /\ sent' = sent + 1
  /\ UNCHANGED <<down, wpVars, comm, msg, navVars, accepted>>

SendClear ==
  /\ Quiet /\ sent < MaxSent
  /\ up' = <<[kind |-> "CLEAR"]>>
  /\ sent' = sent + 1
  /\ UNCHANGED <<sending, heard, down, wpVars, comm, msg, navVars, accepted>>

SendCurrent ==
  /\ Quiet /\ mode # "MISSION" /\ sent < MaxSent
  /\ \E i \in Index : up' = <<[kind |-> "CURRENT", seq |-> i]>>
  /\ sent' = sent + 1
  /\ UNCHANGED <<sending, heard, down, wpVars, comm, msg, navVars, accepted>>

RepeatCount ==
  /\ sending # 0 /\ ~heard /\ Len(up) < MaxLink /\ sent < MaxSent
  /\ up' = Append(up, [kind |-> "COUNT", of |-> sending])
  /\ sent' = sent + 1
  /\ UNCHANGED <<sending, heard, down, wpVars, comm, msg, navVars, accepted>>

\* It answers every request for an item it has; the answer may be lost.
Answer ==
  /\ down # <<>>
  /\ down' = Tail(down)
  /\ heard' = TRUE
  /\ IF Head(down) < Count(sending) /\ Len(up) < MaxLink
     THEN up' = Append(up, [kind |-> "ITEM", of |-> sending, seq |-> Head(down)])
     ELSE UNCHANGED up
  /\ UNCHANGED <<sending, sent, wpVars, comm, msg, navVars, accepted>>

Lose ==
  /\ \/ up # <<>> /\ up' = Tail(up) /\ UNCHANGED down
     \/ down # <<>> /\ down' = Tail(down) /\ UNCHANGED up
  /\ UNCHANGED <<ground, wpVars, comm, msg, navVars, accepted>>

-------------------------------------------------------------------------------
(***************************************************************************)
(* navLoadLeg(): an invalid leg is refused; a takeoff makes this place     *)
(* home; only then is the leg itself changed.                              *)
(***************************************************************************)

LegType(i) == IF i \in Index THEN legs[i].type ELSE "NONE"

SetTarget(i) ==
  /\ target' = CASE LegType(i) \in Positioned -> At(legs[i].of, i)
                 [] LegType(i) = "HOME"       -> home
                 [] OTHER                     -> Here
  /\ home' = IF LegType(i) = "TAKEOFF" THEN Here ELSE home
  /\ recalled' = FALSE

LoadLeg(i) ==
  IF LegType(i) = "NONE"
  THEN hasLeg' = FALSE /\ UNCHANGED <<loiter, target, home, recalled>>
  ELSE hasLeg' = TRUE /\ loiter' = FALSE /\ SetTarget(i)

-------------------------------------------------------------------------------
(***************************************************************************)
(* comm: messages                                                          *)
(***************************************************************************)

Receive(kind) ==
  /\ comm = "idle" /\ up # <<>> /\ Head(up).kind = kind
  /\ up' = Tail(up)

\* A mutant: the number of items is not looked at.
FitsAny(m) == TRUE

\* MISSION_COUNT and MISSION_CLEAR_ALL: refused if there are too many or in a
\* mission (navClearWaypoints()); otherwise the mode has been tested, and the
\* table is cleared in the next step.
Fits(m) == Count(m) <= MaxLegs

ReceiveCount ==
  /\ Receive("COUNT")
  /\ IF Fits(Head(up).of) /\ mode # "MISSION"
     THEN comm' = "clear" /\ msg' = Head(up)
     ELSE UNCHANGED <<comm, msg>>
  /\ UNCHANGED <<ground, down, wpVars, navVars, accepted>>

\* A mutant: navClearWaypoints() without its test of the mode.
ReceiveClearAlways ==
  /\ Receive("CLEAR")
  /\ comm' = "clear" /\ msg' = Head(up)
  /\ UNCHANGED <<ground, down, wpVars, navVars, accepted>>

ReceiveClear ==
  /\ Receive("CLEAR")
  /\ IF mode # "MISSION"
     THEN comm' = "clear" /\ msg' = Head(up)
     ELSE UNCHANGED <<comm, msg>>
  /\ UNCHANGED <<ground, down, wpVars, navVars, accepted>>

\* A mutant: only the first leg is cleared.
ClearedFirst == [legs EXCEPT ![0].type = "NONE"]

\* Only the types are cleared.
Cleared == [i \in Index |-> [legs[i] EXCEPT !.type = "NONE"]]

Clear ==
  /\ comm = "clear" /\ comm' = "idle" /\ msg' = Nothing
  /\ legs' = Cleared
  /\ IF msg.kind = "COUNT"
     THEN /\ accepted' = msg.of
          /\ wpCount' = Count(msg.of) /\ wpCurrent' = 0 /\ wpAttempt' = 0
     ELSE accepted' = 0 /\ UNCHANGED wpVars
  /\ UNCHANGED <<ground, up, down, flying, home>>

\* A mutant: each item counts as the one that was expected.
ExpectAnother(next) ==
  wpCurrent' = wpCurrent + 1 /\ wpAttempt' = 0 /\ UNCHANGED wpCount

\* The item that is expected next, whatever became of this one.
Expect(next) == wpCurrent' = next /\ wpAttempt' = 0 /\ UNCHANGED wpCount

\* MISSION_ITEM: the type of the leg is written before the rest of it.
ReceiveItem ==
  /\ Receive("ITEM")
  /\ LET seq  == Head(up).seq
         type == Item(Head(up).of, seq)
     IN IF seq >= MaxLegs \/ type = "SKIP"
        THEN Expect(seq + 1) /\ UNCHANGED <<legs, comm, msg>>
        ELSE /\ legs' = IF type = "SETHOME" THEN legs ELSE [legs EXCEPT ![seq].type = type]
             /\ comm' = "store" /\ msg' = Head(up)
             /\ UNCHANGED wpVars
  /\ UNCHANGED <<ground, down, flying, home, accepted>>

Store ==
  /\ comm = "store" /\ comm' = "idle" /\ msg' = Nothing
  /\ IF Item(msg.of, msg.seq) \in {"HOME", "SETHOME"}
     THEN home' = At(msg.of, msg.seq) /\ UNCHANGED legs
     ELSE legs' = [legs EXCEPT ![msg.seq].of = msg.of] /\ UNCHANGED home
  /\ Expect(msg.seq + 1)
  /\ UNCHANGED <<ground, up, down, flying, accepted>>

\* MISSION_SET_CURRENT: navLoadLeg() in the comm task, the target first.
ReceiveCurrent ==
  /\ Receive("CURRENT")
  /\ LET i == Head(up).seq IN
       IF LegType(i) = "NONE"
       THEN UNCHANGED <<comm, msg, target, home, recalled>>
       ELSE comm' = "load" /\ msg' = Head(up) /\ SetTarget(i)
  /\ UNCHANGED <<ground, down, wpVars, legs, mode, leg, hasLeg, loiter, accepted>>

Load ==
  /\ comm = "load" /\ comm' = "idle" /\ msg' = Nothing
  /\ leg' = msg.seq /\ hasLeg' = TRUE /\ loiter' = FALSE
  /\ UNCHANGED <<ground, up, down, wpVars, legs, mode, target, home, accepted, recalled>>

-------------------------------------------------------------------------------
(***************************************************************************)
(* comm: mavlinkDo(), once a message has been dealt with                   *)
(***************************************************************************)

Asking == wpCurrent < wpCount /\ wpAttempt <= MaxAttempts

\* A mutant: requests are not counted.
RequestUncounted ==
  /\ comm = "idle" /\ Asking
  /\ down' = IF Len(down) < MaxLink THEN Append(down, wpCurrent) ELSE down
  /\ UNCHANGED <<ground, up, wpVars, comm, msg, navVars, accepted>>

Request ==
  /\ comm = "idle" /\ Asking
  /\ wpAttempt' = wpAttempt + 1
  /\ down' = IF Len(down) < MaxLink THEN Append(down, wpCurrent) ELSE down
  /\ UNCHANGED <<ground, up, wpCount, wpCurrent, comm, msg, navVars, accepted>>

\* "%u waypoints loaded."
Loaded ==
  /\ comm = "idle" /\ wpCurrent = wpCount
  /\ wpCurrent' = wpCurrent + 1
  /\ UNCHANGED <<ground, up, down, wpCount, wpAttempt, comm, msg, navVars, accepted>>

\* "Error: Waypoint request timeout!"
RequestTimeout ==
  /\ comm = "idle" /\ ~Asking /\ wpCurrent # wpCount
  /\ wpAttempt > MaxAttempts
  /\ wpCurrent' = wpCount + 1
  /\ UNCHANGED <<ground, up, down, wpCount, wpAttempt, comm, msg, navVars, accepted>>

-------------------------------------------------------------------------------
(***************************************************************************)
(* run: one loop of navNavigate()                                          *)
(***************************************************************************)

runUnchanged == UNCHANGED <<ground, up, down, wpVars, comm, msg, legs, accepted>>

\* The pilot turns the mission switch on only when the craft has said that the
\* waypoints are loaded, and no new upload is being received.
PilotMayEngage ==
  /\ comm \in {"idle", "store"} /\ wpCurrent > wpCount /\ wpAttempt <= MaxAttempts
  /\ \A k \in DOMAIN up : up[k].kind = "ITEM"

Manual ==
  /\ mode' = "MANUAL" /\ leg' = 0
  /\ UNCHANGED <<hasLeg, loiter, target, home, recalled>>
  /\ runUnchanged

\* The position is held, and becomes home if there is none.
Hold ==
  /\ mode # "POSHOLD" /\ mode' = "POSHOLD" /\ target' = Here
  /\ home' = IF home = Unset THEN Here ELSE home
  /\ UNCHANGED <<leg, hasLeg, loiter, recalled>>
  /\ runUnchanged

\* The home switch: set and recall.
SetHome ==
  /\ home' = Here
  /\ UNCHANGED flying
  /\ runUnchanged

RecallHome ==
  /\ home # Unset
  /\ target' = home /\ recalled' = TRUE
  /\ UNCHANGED <<mode, leg, hasLeg, loiter, home>>
  /\ runUnchanged

Engage ==
  /\ mode = "POSHOLD" /\ PilotMayEngage
  /\ LegType(leg) # "NONE"
  /\ mode' = "MISSION"
  /\ LoadLeg(leg)
  /\ UNCHANGED leg
  /\ runUnchanged

\* The waypoint switch: the next leg, or the first after the last.  A leg loaded
\* becomes missionLeg.
LegCount == IF \E i \in Index : legs[i].type = "NONE"
            THEN CHOOSE i \in Index : /\ legs[i].type = "NONE"
                                      /\ \A j \in 0 .. i - 1 : legs[j].type # "NONE"
            ELSE MaxLegs

Skip ==
  /\ mode = "MISSION" /\ hasLeg
  /\ LET next == IF leg + 1 < LegCount THEN leg + 1 ELSE 0 IN
       /\ LoadLeg(next)
       /\ leg' = IF LegType(next) = "NONE" THEN leg ELSE next
  /\ UNCHANGED mode
  /\ runUnchanged

\* Also in the loop that skipped to no leg at all.
Arrive ==
  /\ mode = "MISSION" /\ ~loiter
  /\ LegType(leg) # "LAND"
  /\ loiter' = TRUE
  /\ UNCHANGED <<mode, leg, hasLeg, target, home, recalled>>
  /\ runUnchanged

NextLeg ==
  /\ mode = "MISSION" /\ loiter /\ LegType(leg) # "LAND"
  /\ leg' = leg + 1
  /\ LoadLeg(leg + 1)
  /\ mode' = IF LegType(leg + 1) = "NONE" THEN "POSHOLD" ELSE mode
  /\ runUnchanged

-------------------------------------------------------------------------------

Ground == StartUpload \/ SendClear \/ SendCurrent \/ RepeatCount \/ Answer \/ Lose
Comm   == ReceiveCount \/ ReceiveClear \/ Clear \/ ReceiveItem \/ Store
          \/ ReceiveCurrent \/ Load
          \/ Request \/ Loaded \/ RequestTimeout
Run    == Manual \/ Hold \/ SetHome \/ RecallHome \/ Engage \/ Skip \/ Arrive \/ NextLeg

Next == Ground \/ Comm \/ Run

Spec == Init /\ [][Next]_vars

\* The comm task keeps handling messages and calling mavlinkDo(); nothing is asked
\* of the ground station, the link or the pilot.
FairSpec == Spec /\ WF_vars(Comm)

-------------------------------------------------------------------------------
(***************************************************************************)
(* Properties                                                              *)
(***************************************************************************)

\* What item i of mission m leaves in the table.
Stored(m, i) ==
  CASE Item(m, i) \in {"SKIP", "SETHOME"} -> legs[i].type = "NONE"
    [] Item(m, i) = "HOME"                -> legs[i].type = "HOME" /\ home # Unset
    [] OTHER                              -> legs[i].type = Item(m, i) /\ legs[i].of = m

\* Although an item that comes late sets the upload back or forward without a
\* look at what was asked for, everything before the item expected next has been
\* stored: when the craft says that the waypoints are loaded, all of them are.
LoadedIsSent ==
  accepted # 0 /\ (wpCurrent <= wpCount \/ wpAttempt <= MaxAttempts) =>
    \A i \in 0 .. wpCount - 1 : i < wpCurrent => Stored(accepted, i)

\* The leg the run task flies is a leg of the mission that was sent last and
\* accepted, and the position it flies to is that leg's own, although comm goes on
\* storing late items while the craft is under way.
FlownIsSent ==
  mode = "MISSION" /\ hasLeg =>
    /\ accepted # 0
    /\ leg < Count(accepted)
    /\ recalled \/
       CASE Item(accepted, leg) \in Positioned -> target = At(accepted, leg)
         [] Item(accepted, leg) = "HOME"       -> target # Unset
         [] OTHER                              -> target = Here

\* A mission under way is not changed: counts and clears are refused, and what is
\* still stored is what the table already holds.
MissionKept == [][mode = "MISSION" /\ mode' = "MISSION" => legs' = legs]_vars

\* An upload ends, loaded or timed out, whatever is lost.
UploadEnds == wpCurrent < wpCount ~> wpCurrent >= wpCount

===============================================================================

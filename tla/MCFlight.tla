------------------------------- MODULE MCFlight -------------------------------
(***************************************************************************)
(* Constants for TLC.  A frame stands for every stick and switch position  *)
(* that the model treats alike; a run takes the frames its question needs. *)
(***************************************************************************)
EXTENDS Flight

F(throt, rudd, tilt, sw, hom, wp) ==
  [throt |-> throt, rudd |-> rudd, tilt |-> tilt, sw |-> sw, hom |-> hom, wp |-> wp]

ArmSticks    == F("low", "right", FALSE, MANUAL, "off", FALSE)
DisarmSticks == F("low", "left", FALSE, MANUAL, "off", FALSE)
Hover        == F("up", "centre", FALSE, POSHOLD, "off", FALSE)
HoverHome    == F("up", "centre", FALSE, POSHOLD, "set", FALSE)
Autonomous   == F("up", "centre", FALSE, MISSION, "off", FALSE)
SetHomeHere  == F("up", "centre", FALSE, POSHOLD, "set", TRUE)
Skip         == F("up", "centre", FALSE, MISSION, "off", TRUE)
ClearAll     == F("low", "left", TRUE, MANUAL, "off", TRUE)

FailsafeFrames == {ArmSticks, DisarmSticks, HoverHome, Autonomous}
LiveFrames     == {ArmSticks, Hover}
PilotFrames    == {ArmSticks, ClearAll, SetHomeHere, Skip}
===============================================================================

------------------------------ MODULE MCMission ------------------------------
(***************************************************************************)
(* Missions that fill the table, are too long, and have an item that       *)
(* stores no leg; every type of item.                                      *)
(***************************************************************************)
EXTENDS Mission

MCMissions == << <<"TAKEOFF", "GOTO", "LAND">>,
                 <<"SETHOME", "GOTO", "HOME", "LAND">>,
                 <<"ORBIT", "SKIP">>,
                 <<"GOTO", "HOME">> >>
===============================================================================

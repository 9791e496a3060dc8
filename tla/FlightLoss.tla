------------------------------ MODULE FlightLoss ------------------------------
(***************************************************************************)
(* Flight with a history of the radio: how long ago, in supervisor ticks,  *)
(* the supervisor last ran with the link up.  supervisorData.              *)
(* lastGoodRadioMicros is meant to say this, but is only kept while the    *)
(* craft flies outside a mission.                                          *)
(***************************************************************************)
EXTENDS Flight

VARIABLE lost   \* ticks since the last one that began with the link up

LossInit == Init /\ lost = 0

LossNext ==
  /\ Next
  /\ lost' = IF SpvrTick THEN (IF link THEN 0 ELSE Tick(lost, Loss2Ticks + 1)) ELSE lost

LossSpec == LossInit /\ [][LossNext]_<<vars, lost>>

\* supervisor.h:33, "15 seconds": radio loss stage 2 is declared only when the
\* link has been down for SUPERVISOR_RADIO_LOSS2.
Loss2AfterTimeout ==
  [][("RADIO_LOSS2" \notin state /\ "RADIO_LOSS2" \in state') => lost > Loss2Ticks]_<<vars, lost>>

===============================================================================

------------------------------- MODULE MCCommTx -------------------------------
(***************************************************************************)
(* Two serial ports and one behind the CAN bus.  The first serial port     *)
(* carries MAVLink, sent by run (waypoint reached); the other two carry    *)
(* telemetry, sent by comm.  No port carries the third stream.  With three *)
(* buffers and rings of two slots a port may be sending, have a full ring  *)
(* and be given one more.                                                  *)
(***************************************************************************)
EXTENDS CommTx

MCPortStreams == [p \in Ports |-> IF p = 0 THEN "mavlink" ELSE "telemetry"]
MCSends == {<<"run", "mavlink">>, <<"comm", "telemetry">>, <<"run", "cli">>}
===============================================================================

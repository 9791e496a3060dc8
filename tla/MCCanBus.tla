------------------------------- MODULE MCCanBus -------------------------------
(***************************************************************************)
(* Two UARTs behind the bus with buffers of up to two messages, and a ring *)
(* of three slots, which holds two; control and the supervisor send in     *)
(* between.                                                                *)
(***************************************************************************)
EXTENDS CanBus
===============================================================================

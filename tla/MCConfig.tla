------------------------------- MODULE MCConfig -------------------------------
(***************************************************************************)
(* Two parameters and two transmitters; two saves, of one task or of both, *)
(* one of which may be stopped anywhere by the other, by a binding or by   *)
(* the loss of the power.                                                  *)
(***************************************************************************)
EXTENDS Config
===============================================================================

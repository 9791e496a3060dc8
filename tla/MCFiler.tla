------------------------------- MODULE MCFiler -------------------------------
(***************************************************************************)
(* A log and one more slot; a parameter file of one chunk that may be      *)
(* rewritten with two lines.                                               *)
(***************************************************************************)
EXTENDS Filer

MCNewLines == <<3, 4>>
MCCard     == [n \in {"params"} |-> <<1>>]
===============================================================================

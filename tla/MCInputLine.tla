----------------------------- MODULE MCInputLine -----------------------------
(***************************************************************************)
(* Instance of InputLine for TLC: arrays of four characters, so that a     *)
(* line can be empty, partly filled, one short of full, and full; two      *)
(* letters tell the line typed from the last one.                          *)
(***************************************************************************)
EXTENDS InputLine
=============================================================================

----------------------------- MODULE MCLifecycle -----------------------------
(***************************************************************************)
(* Instances of Lifecycle for TLC.                                         *)
(*                                                                         *)
(* Two threads started one after the other make every restart; three lines *)
(* let a command stand before and after another, or a blank line, and be   *)
(* left over for the second thread.                                        *)
(***************************************************************************)
EXTENDS Lifecycle

MCSides == {"server", "client"}
MCLine == {"quit", "other", "blank"}
=============================================================================

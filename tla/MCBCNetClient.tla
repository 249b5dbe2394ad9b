---------------------------- MODULE MCBCNetClient ----------------------------
(***************************************************************************)
(* Instances of BCNetClient for TLC: two handles, so that a connection     *)
(* follows another and callbacks of the dead one are pending; one message  *)
(* of the server, one unread at a time.                                    *)
(***************************************************************************)
EXTENDS BCNetClient
=============================================================================

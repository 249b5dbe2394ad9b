---------------------------- MODULE MCBCNetServer ----------------------------
(***************************************************************************)
(* Instances of BCNetServer for TLC.                                       *)
(*                                                                         *)
(* Two handles make every race between two clients, and the case of a      *)
(* client that comes after another has left.  They are numbers, not        *)
(* symmetric values, since /kick -user looks at their order.               *)
(***************************************************************************)
EXTENDS BCNetServer

CONSTANT ned    \* a nickname a client chooses

MCChosenNick == {ned}

\* No text with ned's name fits a packet of 1024 bytes, not even the shortest
\* (1005 + 10 > 1012); without ned all of them do.
MCChosenLength == [n \in MCChosenNick |-> 1005]

\* "User 1" is also the default nickname of the second client.
MCRequested == {ned, 1, NoNick}
=============================================================================

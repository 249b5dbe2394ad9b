---------------------------- MODULE SteamSockets ----------------------------
(***************************************************************************)
(* The part of Valve's GameNetworkingSockets that BCNet calls, as far as   *)
(* the headers under BCNet/external promise it: connection handles, the    *)
(* state of each connection, the queue of status-changed callbacks and the *)
(* messages received but not yet read.                                     *)
(*                                                                         *)
(* The library runs a thread of its own, so a peer may connect, leave or   *)
(* send between any two calls of the program.  Three promises of the       *)
(* header shape everything built on top of this module:                    *)
(*  - every change of a connection's state posts a callback to a queue,    *)
(*    also the changes caused by the program's own calls;                  *)
(*  - a callback says what happened when it was posted, and the connection *)
(*    may have changed again before it is run;                             *)
(*  - closing a handle discards its unread messages, but not the callbacks *)
(*    already posted for it.                                               *)
(*                                                                         *)
(* ClosedByPeer and ProblemDetectedLocally are one state here, "Ended":    *)
(* both clients of the library handle them under the same case labels and  *)
(* tell them apart only in a log line.                                     *)
(***************************************************************************)
EXTENDS Naturals, Sequences

CONSTANT
  Conn          \* connection handles (HSteamNetConnection); never used twice

VARIABLES
  conn,         \* state of the connection behind each handle
  callbacks,    \* status-changed callbacks posted and not yet run
  pollGroup,    \* connections put in the poll group
  inbox         \* messages received on each connection and not yet read

socketVars == <<conn, callbacks, pollGroup, inbox>>

\* States in which the handle is valid.
Alive == {"Connecting", "Connected", "Ended"}

\* "Fresh" is a handle not given out yet, "None" one that was closed here.
ConnState == Alive \cup {"Fresh", "None"}

Callback == [conn : Conn, old : ConnState, new : ConnState]

SocketsTypeOK(Msg) ==
  /\ conn \in [Conn -> ConnState]
  /\ callbacks \in Seq(Callback)
  /\ pollGroup \subseteq Conn
  /\ inbox \in [Conn -> Seq(Msg)]

SocketsInit ==
  /\ conn = [c \in Conn |-> "Fresh"]
  /\ callbacks = <<>>
  /\ pollGroup = {}
  /\ inbox = [c \in Conn |-> <<>>]

\* A connection changes state and the callback that reports it is posted.
Transition(c, new) ==
  /\ conn' = [conn EXCEPT ![c] = new]
  /\ callbacks' = Append(callbacks, [conn |-> c, old |-> conn[c], new |-> new])

\* ConnectByIPAddress gives out a new handle.
ConnectByIPAddress(c) ==
  /\ conn[c] = "Fresh"
  /\ Transition(c, "Connecting")
  /\ UNCHANGED <<pollGroup, inbox>>

\* AcceptConnection and SetConnectionPollGroup on a connection that still waits:
\* over IP the handshake is over at once.
AcceptConnection(c) ==
  /\ Transition(c, "Connected")
  /\ pollGroup' = pollGroup \cup {c}
  /\ UNCHANGED inbox

\* CloseConnection: the handle dies and leaves the poll group, its unread
\* messages are discarded.  On an invalid handle the call only returns false.
CloseConnection(c) ==
  IF conn[c] \in Alive
  THEN /\ Transition(c, "None")
       /\ pollGroup' = pollGroup \ {c}
       /\ inbox' = [inbox EXCEPT ![c] = <<>>]
  ELSE UNCHANGED socketVars

\* GameNetworkingSockets_Kill: every handle dies, no callback is run any more.
KillSockets ==
  /\ conn' = [c \in Conn |-> IF conn[c] \in Alive THEN "None" ELSE conn[c]]
  /\ callbacks' = <<>>
  /\ pollGroup' = {}
  /\ inbox' = [c \in Conn |-> <<>>]

-----------------------------------------------------------------------------
(* What the peer and the network do, on the library's own thread.          *)

\* A client attempts to connect to the listen socket: a new handle as well.
PeerConnects(c) == ConnectByIPAddress(c)

\* The server accepts the connection this side has asked for.
PeerAccepts(c) ==
  /\ conn[c] = "Connecting"
  /\ Transition(c, "Connected")
  /\ UNCHANGED <<pollGroup, inbox>>

\* The peer closes the connection, or it is lost (timeout, local error).
ConnectionEnds(c) ==
  /\ conn[c] \in {"Connecting", "Connected"}
  /\ Transition(c, "Ended")
  /\ UNCHANGED <<pollGroup, inbox>>

\* A message of the peer arrives; at most `bound` wait unread per connection.
PeerSends(c, m, bound) ==
  /\ conn[c] = "Connected"
  /\ Len(inbox[c]) < bound
  /\ inbox' = [inbox EXCEPT ![c] = Append(@, m)]
  /\ UNCHANGED <<conn, callbacks, pollGroup>>
=============================================================================

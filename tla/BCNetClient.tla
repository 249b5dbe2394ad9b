----------------------------- MODULE BCNetClient -----------------------------
(***************************************************************************)
(* The client of BCNet: its network thread (DoNetworking), the thread of   *)
(* the application that calls Stop, and the connection they share, over    *)
(* the sockets of module SteamSockets.                                     *)
(*                                                                         *)
(* m_networking, m_shouldQuit, m_connection and m_connectionStatus are     *)
(* plain members both threads read and write without a lock.  Functions    *)
(* are cut at each access between which the other thread can make a        *)
(* difference: `todo` is what a thread still has to do in CloseConnection, *)
(* which both run, or in the handler of a callback, and `pc` the rest of   *)
(* the network thread.  Stop only ever resets what it shares, so a test    *)
(* and the write after it are one step where a reset in between is as good *)
(* as one before both or after them (110-113, 176, 224 with 237, 400 with  *)
(* 410 or 442, 244-257, 543-159, 165-169).                                 *)
(*                                                                         *)
(* The assert on the handle of a callback ends a debug build; a release    *)
(* build goes on.  `fault` also records a call into the library after it   *)
(* was killed.  `reported` and `crossed` are history.                      *)
(***************************************************************************)
EXTENDS SteamSockets

CONSTANTS
  Invalid,      \* k_HSteamNetConnection_Invalid
  Garbage,      \* what m_connection holds before it is first assigned
  Message,      \* messages of the server
  MaxInbox,     \* bound on the unread messages
  Debug,        \* TRUE iff asserts are compiled in
  Stops         \* TRUE iff the application calls Stop

ASSUME HandleAssumption == {Invalid, Garbage} \cap Conn = {} /\ Invalid # Garbage
ASSUME BoundAssumption == MaxInbox \in Nat
ASSUME BuildAssumption == Debug \in BOOLEAN /\ Stops \in BOOLEAN

Thread == {"net", "app"}
Status == {"DISCONNECTED", "CONNECTING", "CONNECTED", "FAILED"}

VARIABLES
  pc,           \* where the network thread is
  app,          \* where the application is in Stop
  todo,         \* what each thread does next in CloseConnection or a handler
  dispatch,     \* callbacks RunCallbacks has swapped out and not yet handled
  networking,   \* m_networking
  shouldQuit,   \* m_shouldQuit
  connection,   \* m_connection
  status,       \* m_connectionStatus
  fault,        \* "handle": the assert failed; "killed": the library was gone
  reported,     \* what the last of the two callbacks told the application
  crossed       \* TRUE once both threads had written a status and not yet told it

shared == <<networking, shouldQuit, connection, status>>
vars == <<socketVars, pc, app, todo, dispatch, shared, fault, reported, crossed>>

TypeOK ==
  /\ SocketsTypeOK(Message)
  /\ pc \in {"loop", "turn", "poll", "callbacks", "commands", "command", "connect",
             "dialed", "rearm", "disarm", "kill", "done"}
  /\ app \in {"running", "stop", "join", "stopped"}
  /\ todo \in [Thread -> {"nothing", "reset", "close", "forget", "report", "down", "up"}]
  /\ dispatch \in Seq(Callback)
  /\ pc # "callbacks" => dispatch = <<>>
  /\ networking \in BOOLEAN
  /\ shouldQuit \in BOOLEAN
  /\ connection \in Conn \cup {Invalid, Garbage}
  /\ status \in Status
  /\ fault \in {"none", "handle", "killed"}
  /\ reported \in {"down", "up"}
  /\ crossed \in BOOLEAN

Init ==
  /\ SocketsInit
  /\ pc = "loop"
  /\ app = "running"
  /\ todo = [t \in Thread |-> "nothing"]
  /\ dispatch = <<>>
  /\ networking = FALSE
  /\ shouldQuit = FALSE
  /\ connection = Garbage
  /\ status = "DISCONNECTED"
  /\ fault = "none"
  /\ reported = "down"
  /\ crossed = FALSE

Valid(handle) == handle \in Conn /\ conn[handle] \in Alive

\* CloseConnection of the library on whatever m_connection holds.
CloseHandle == IF Valid(connection) THEN CloseConnection(connection) ELSE UNCHANGED socketVars

-----------------------------------------------------------------------------
(* CloseConnection, run by either thread, and the end of the handler of a  *)
(* lost connection, which does the same.                                   *)

\* The call: nothing happens if m_networking is FALSE.
EnterClose(t) ==
  todo' = IF networking THEN [todo EXCEPT ![t] = "reset"] ELSE todo

Doing(t, what, next) ==
  /\ fault = "none"
  /\ todo[t] = what
  /\ todo' = [todo EXCEPT ![t] = next]
  /\ UNCHANGED <<pc, app, dispatch, shouldQuit>>

ResetNetworking(t) ==
  /\ Doing(t, "reset", "close")
  /\ networking' = FALSE
  /\ UNCHANGED <<socketVars, connection, status, fault, reported, crossed>>

CloseSocket(t) ==
  /\ Doing(t, "close", "forget")
  /\ CloseHandle
  /\ fault' = IF pc = "done" THEN "killed" ELSE fault
  /\ UNCHANGED <<networking, connection, status, reported, crossed>>

ForgetHandle(t) ==
  /\ Doing(t, "forget", "report")
  /\ connection' = Invalid
  /\ UNCHANGED <<socketVars, networking, status, fault, reported, crossed>>

\* Mutants: the status is left as it is, or the callback is not called.
ReportClosedStays(t) ==
  /\ Doing(t, "report", "down")
  /\ UNCHANGED <<socketVars, networking, connection, status, fault, reported, crossed>>

ReportClosedQuietly(t) ==
  /\ Doing(t, "report", "nothing")
  /\ status' = "DISCONNECTED"
  /\ UNCHANGED <<socketVars, networking, connection, fault, reported, crossed>>

ReportClosed(t) ==
  /\ Doing(t, "report", "down")
  /\ status' = "DISCONNECTED"
  /\ crossed' = (crossed \/ \E other \in Thread : todo[other] = "up")
  /\ UNCHANGED <<socketVars, networking, connection, fault, reported>>

DisconnectedCallback(t) ==
  /\ Doing(t, "down", "nothing")
  /\ reported' = "down"
  /\ UNCHANGED <<socketVars, networking, connection, status, fault, crossed>>

ClosingStep(t) ==
  \/ ResetNetworking(t) \/ CloseSocket(t) \/ ForgetHandle(t) \/ ReportClosed(t)
  \/ DisconnectedCallback(t)

-----------------------------------------------------------------------------
(* The network thread.                                                     *)

At(label) == pc = label /\ todo["net"] = "nothing" /\ fault = "none"

Goto(label, next) ==
  /\ At(label)
  /\ pc' = next
  /\ UNCHANGED <<app, dispatch, fault, reported, crossed>>

\* The head of the loop; when it is left, CloseConnection is called.
LoopTest ==
  /\ Goto("loop", "turn")
  /\ ~shouldQuit
  /\ UNCHANGED <<socketVars, todo, shared>>

LoopExit ==
  /\ Goto("loop", "kill")
  /\ shouldQuit
  /\ EnterClose("net")
  /\ UNCHANGED <<socketVars, shared>>

Turn ==
  /\ Goto("turn", IF networking THEN "poll" ELSE "commands")
  /\ UNCHANGED <<socketVars, todo, shared>>

ReceiveMessage ==
  /\ At("poll")
  /\ networking
  /\ Valid(connection)
  /\ inbox[connection] # <<>>
  /\ inbox' = [inbox EXCEPT ![connection] = Tail(@)]
  /\ UNCHANGED <<conn, callbacks, pollGroup, pc, app, todo, dispatch, shared, fault,
                 reported, crossed>>

\* No message waits, or the handle is invalid, or m_networking was reset:
\* RunCallbacks swaps out the queue.
RunCallbacks ==
  /\ At("poll")
  /\ (networking /\ Valid(connection)) => inbox[connection] = <<>>
  /\ networking' = (networking /\ Valid(connection))
  /\ dispatch' = callbacks
  /\ callbacks' = <<>>
  /\ pc' = "callbacks"
  /\ UNCHANGED <<conn, pollGroup, inbox, app, todo, shouldQuit, connection, status,
                 fault, reported, crossed>>

\* The callback at the head of the queue, and the assert on its handle.
Event(c, new) ==
  /\ At("callbacks")
  /\ dispatch # <<>>
  /\ c = Head(dispatch).conn
  /\ new = Head(dispatch).new

\* Mutant: no assert looks at the handle.
ExpectedAny(c) == TRUE

Expected(c) == c = connection \/ connection = Invalid

\* The next callback is handled as far as `next`.
Handling(c, new, next) ==
  /\ Event(c, new)
  /\ Expected(c) \/ ~Debug
  /\ dispatch' = Tail(dispatch)
  /\ todo' = [todo EXCEPT !["net"] = next]
  /\ UNCHANGED <<socketVars, pc, app, shouldQuit, connection, fault, reported>>

AssertFails(c) ==
  /\ \E new \in ConnState : Event(c, new)
  /\ ~Expected(c) /\ Debug
  /\ fault' = "handle"
  /\ UNCHANGED <<socketVars, pc, app, todo, dispatch, shared, reported, crossed>>

NothingToHandle(c) ==
  /\ \E new \in {"None", "Connecting"} : Handling(c, new, "nothing")
  /\ UNCHANGED <<networking, status, crossed>>

\* Mutant: the handle is not closed.
HandleEndedLeaks(c) ==
  /\ Handling(c, "Ended", "forget")
  /\ networking' = FALSE
  /\ status' = "FAILED"
  /\ UNCHANGED crossed

\* ClosedByPeer and ProblemDetectedLocally; the rest are the steps of CloseConnection.
HandleEnded(c) ==
  /\ Handling(c, "Ended", "close")
  /\ networking' = FALSE
  /\ status' = "FAILED"
  /\ UNCHANGED crossed

HandleConnected(c) ==
  /\ Handling(c, "Connected", "up")
  /\ status' = "CONNECTED"
  /\ crossed' = (crossed \/ todo["app"] = "down")
  /\ UNCHANGED networking

ConnectedCallback ==
  /\ Doing("net", "up", "nothing")
  /\ reported' = "up"
  /\ UNCHANGED <<socketVars, networking, connection, status, fault, crossed>>

CallbacksDone ==
  /\ Goto("callbacks", "commands")
  /\ dispatch = <<>>
  /\ UNCHANGED <<socketVars, todo, shared>>

\* HandleUserCommands takes a command unless the client is told to quit; what it does
\* is done whether or not the client has been told to by then.
TakeCommand ==
  /\ Goto("commands", "command")
  /\ ~shouldQuit
  /\ UNCHANGED <<socketVars, todo, shared>>

\* A command that changes nothing: /nick, /connect in vain, a mistyped one.
OtherCommand ==
  /\ Goto("command", "commands")
  /\ UNCHANGED <<socketVars, todo, shared>>

\* /connect with an address that cannot be parsed.
ConnectBadAddress ==
  /\ Goto("command", "commands")
  /\ status # "CONNECTED"
  /\ ~networking
  /\ status' = "FAILED"
  /\ UNCHANGED <<socketVars, todo, networking, shouldQuit, connection>>

\* /connect, up to the call into the library ...
Connect ==
  /\ Goto("command", "connect")
  /\ status # "CONNECTED"
  /\ ~networking
  /\ status' = "CONNECTING"
  /\ networking' = TRUE
  /\ UNCHANGED <<socketVars, todo, shouldQuit, connection>>

\* Mutant: the new handle is not kept.
ConnectForgetsHandle(c) ==
  /\ Goto("connect", "dialed")
  /\ ConnectByIPAddress(c)
  /\ UNCHANGED <<todo, shared>>

\* ... which gives a new handle, or none ...
ConnectGivesHandle(c) ==
  /\ Goto("connect", "dialed")
  /\ ConnectByIPAddress(c)
  /\ connection' = c
  /\ UNCHANGED <<todo, networking, shouldQuit, status>>

ConnectGivesNone ==
  /\ Goto("connect", "dialed")
  /\ connection' = Invalid
  /\ UNCHANGED <<socketVars, todo, networking, shouldQuit, status>>

\* ... and the test of m_connection, which Stop may have reset.
ConnectSucceeds ==
  /\ Goto("dialed", "commands")
  /\ connection # Invalid
  /\ UNCHANGED <<socketVars, todo, shared>>

\* Mutant: the failure is not noted.
ConnectFailsQuietly ==
  /\ Goto("dialed", "commands")
  /\ connection = Invalid
  /\ networking' = FALSE
  /\ UNCHANGED <<socketVars, todo, shouldQuit, connection, status>>

ConnectFails ==
  /\ Goto("dialed", "commands")
  /\ connection = Invalid
  /\ status' = "FAILED"
  /\ networking' = FALSE
  /\ UNCHANGED <<socketVars, todo, shouldQuit, connection>>

\* /disconnect
Disconnect ==
  /\ Goto("command", "commands")
  /\ status = "CONNECTED"
  /\ EnterClose("net")
  /\ UNCHANGED <<socketVars, shared>>

\* /quit and /exit
QuitCommand ==
  /\ Goto("command", "commands")
  /\ shouldQuit' = TRUE
  /\ UNCHANGED <<socketVars, todo, networking, connection, status>>

\* HandleUserCommands returns; m_networking = !m_shouldQuit is a read ...
CommandsDone ==
  /\ Goto("commands", IF shouldQuit THEN "disarm" ELSE "rearm")
  /\ UNCHANGED <<socketVars, todo, shared>>

\* ... and a write.
Rearm ==
  /\ Goto("rearm", "loop")
  /\ networking' = TRUE
  /\ UNCHANGED <<socketVars, todo, shouldQuit, connection, status>>

Disarm ==
  /\ Goto("disarm", "loop")
  /\ networking' = FALSE
  /\ UNCHANGED <<socketVars, todo, shouldQuit, connection, status>>

\* GameNetworkingSockets_Kill, and the thread returns.
Kill ==
  /\ Goto("kill", "done")
  /\ KillSockets
  /\ UNCHANGED <<todo, shared>>

-----------------------------------------------------------------------------
(* The other threads: the application's, the console's, the library's.     *)

\* Mutant: the flag is set only after the join, as in BCNetServer::Stop.
StopCallWaits ==
  /\ Stops
  /\ app = "running"
  /\ fault = "none"
  /\ app' = IF shouldQuit THEN "stopped" ELSE "stop"
  /\ UNCHANGED <<socketVars, pc, todo, dispatch, shared, fault, reported, crossed>>

\* Stop: nothing to do if the client is quitting already.
StopCall ==
  /\ Stops
  /\ app = "running"
  /\ fault = "none"
  /\ app' = IF shouldQuit THEN "stopped" ELSE "stop"
  /\ shouldQuit' = TRUE
  /\ UNCHANGED <<socketVars, pc, todo, dispatch, networking, connection, status, fault,
                 reported, crossed>>

StopClose ==
  /\ app = "stop"
  /\ fault = "none"
  /\ EnterClose("app")
  /\ app' = "join"
  /\ UNCHANGED <<socketVars, pc, dispatch, shared, fault, reported, crossed>>

StopJoin ==
  /\ app = "join"
  /\ todo["app"] = "nothing"
  /\ fault = "none"
  /\ pc = "done"
  /\ app' = "stopped"
  /\ UNCHANGED <<socketVars, pc, todo, dispatch, shared, fault, reported, crossed>>

\* fgets fails on stdin.
ConsoleEnds ==
  /\ fault = "none"
  /\ ~shouldQuit
  /\ shouldQuit' = TRUE
  /\ UNCHANGED <<socketVars, pc, app, todo, dispatch, networking, connection, status,
                 fault, reported, crossed>>

\* The library: a connection attempt ends one way or the other, a connection
\* may end, messages arrive.
Resolve(c) ==
  /\ fault = "none"
  /\ conn[c] = "Connecting"
  /\ PeerAccepts(c) \/ ConnectionEnds(c)
  /\ UNCHANGED <<pc, app, todo, dispatch, shared, fault, reported, crossed>>

PeerStep ==
  /\ fault = "none"
  /\ \E c \in Conn : \/ conn[c] = "Connected" /\ ConnectionEnds(c)
                     \/ \E m \in Message : PeerSends(c, m, MaxInbox)
  /\ UNCHANGED <<pc, app, todo, dispatch, shared, fault, reported, crossed>>

Stopped ==
  /\ fault # "none" \/ (pc = "done" /\ app \in {"running", "stopped"})
  /\ UNCHANGED vars

-----------------------------------------------------------------------------
HandleCallback(c) ==
  AssertFails(c) \/ NothingToHandle(c) \/ HandleEnded(c) \/ HandleConnected(c)

NetworkThread ==
  \/ LoopTest \/ LoopExit \/ Turn \/ ReceiveMessage \/ RunCallbacks \/ CallbacksDone
  \/ \E c \in Conn : HandleCallback(c) \/ ConnectGivesHandle(c)
  \/ ConnectedCallback
  \/ TakeCommand \/ OtherCommand \/ ConnectBadAddress \/ Connect \/ ConnectGivesNone
  \/ ConnectSucceeds \/ ConnectFails \/ Disconnect \/ QuitCommand
  \/ CommandsDone \/ Rearm \/ Disarm
  \/ ClosingStep("net")
  \/ Kill

StopThread == StopClose \/ ClosingStep("app") \/ StopJoin

Next ==
  \/ NetworkThread
  \/ StopCall \/ StopThread
  \/ ConsoleEnds
  \/ \E c \in Conn : Resolve(c)
  \/ PeerStep
  \/ Stopped

Spec == Init /\ [][Next]_vars

\* Both threads are scheduled, the user's commands come to an end (the queue is
\* found empty some time), and every connection attempt succeeds or times out.
FairSpec ==
  /\ Spec
  /\ WF_vars(NetworkThread)
  /\ SF_vars(CommandsDone)
  /\ WF_vars(StopThread)
  /\ \A c \in Conn : WF_vars(Resolve(c))

-----------------------------------------------------------------------------
(* Properties.                                                             *)

\* A callback for c with this new state is posted and not yet handled.
Pending(c, new) ==
  \E q \in {dispatch, callbacks} : \E i \in 1..Len(q) : q[i].conn = c /\ q[i].new = new

\* The network thread is at work, in neither a handler nor CloseConnection.
Settled == ~shouldQuit /\ fault = "none" /\ todo["net"] = "nothing"

\* No connection is lost track of: however connecting, disconnecting and the loss
\* of a connection follow each other, the only live handle is m_connection.
OnlyHandleAlive ==
  Settled => \A c \in Conn : conn[c] \in Alive => c = connection

\* GetConnectionStatus lags behind the connection by callbacks that are on their
\* way, and by nothing else.  (In a build with asserts: without them the late report of
\* an earlier connection closes the present one, whose end nobody then reports.)
StatusLagsByCallbacks ==
  Settled =>
    /\ status = "CONNECTED" => /\ connection \in Conn
                               /\ \/ conn[connection] = "Connected"
                                  \/ conn[connection] = "Ended" /\ Pending(connection, "Ended")
    /\ status = "CONNECTING" /\ pc \notin {"connect", "dialed"} =>
         /\ connection \in Conn
         /\ \/ conn[connection] = "Connecting"
            \/ Pending(connection, "Connected") \/ Pending(connection, "Ended")
    /\ \A c \in Conn : conn[c] = "Connected" => status = "CONNECTED" \/ Pending(c, "Connected")

\* When no thread has a status to write or a callback to make, the application has been
\* told last that it is connected exactly when the status says so: after any sequence of
\* attempts, losses and /disconnect, after a /quit that leaves the connection to Kill, and
\* after a Stop that ran CloseConnection beside the network thread.  Excepted is a Stop
\* whose callback has crossed that of a Connected handler: 442, 183, 185, 445 tell the
\* application "up" last and leave the status DISCONNECTED.
CallbacksMatchStatus ==
  (\A t \in Thread : todo[t] = "nothing") /\ ~crossed => (reported = "up" <=> status = "CONNECTED")

\* The assert on the handle of a callback fails only for a callback that outlived
\* its handle; the library is called after it was killed only by a Stop which the
\* network thread has overtaken.
OnlyStaleCallbacksFault ==
  /\ fault = "handle" => conn[Head(dispatch).conn] = "None"
  /\ fault = "killed" => app = "join" /\ todo = [net |-> "nothing", app |-> "forget"]

\* The server does not saturate the loop that reads messages.
LoopDrains == []<>(pc # "poll")

\* The end of a connection is noticed and its handle closed; a connection attempt
\* does not stay CONNECTING.
StatusCatchesUp ==
  LoopDrains =>
    /\ \A c \in Conn : (conn[c] = "Ended") ~> (conn[c] = "None" \/ fault # "none")
    /\ (status = "CONNECTING") ~> (status # "CONNECTING" \/ shouldQuit \/ fault # "none")

\* Whatever the network thread is doing when it is called, Stop returns (once the
\* console thread has: its fgets is not modelled).
StopReturns == LoopDrains => (app = "stop") ~> (app = "stopped" \/ fault # "none")

\* What GetConnectionStatus means for the one connection of module Session: FAILED is
\* as good as DISCONNECTED, a connection that is being closed is over when its handle is
\* and not when the status says so, and a client that has been told to quit may say
\* anything; it is "last" while it can still begin an attempt.
Phase ==
  CASE shouldQuit -> IF pc \in {"command", "connect"} THEN "last" ELSE "left"
    [] ~shouldQuit /\ pc = "connect" -> "dialing"
    [] ~shouldQuit /\ pc = "dialed" -> IF connection = Invalid THEN "down" ELSE "trying"
    [] OTHER ->
         CASE todo["net"] \in {"reset", "close"} -> IF Valid(connection) THEN "ending" ELSE "down"
           [] todo["net"] \in {"forget", "report"} -> "down"
           [] OTHER -> CASE status = "CONNECTING" -> "trying"
                         [] status = "CONNECTED" -> "up"
                         [] OTHER -> "down"

\* In a build with asserts the client, its threads and callbacks are one connection at
\* a time (module Session): no callback of an earlier connection begins, confirms or
\* ends a later one, and a client told to quit begins at most the attempt of a command
\* it has taken before.
S == INSTANCE Session WITH link <- conn, phase <- Phase, leaving <- shouldQuit

Session == S!Spec

-----------------------------------------------------------------------------
(* A claim the source makes and the code does not keep.                    *)

\* BCNetClient.cpp:400 asserts that a callback is for the current connection.
CallbackIsCurrent == fault # "handle"
=============================================================================

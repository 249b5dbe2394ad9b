------------------------------ MODULE Lifecycle ------------------------------
(***************************************************************************)
(* The life of a BCNetServer or a BCNetClient: Start, Stop and the         *)
(* destructor, called by a thread of the application, with the two threads *)
(* they start and join, and the command queue between these threads.       *)
(*                                                                         *)
(* Both classes are written the same way and differ in the order of a few  *)
(* lines; `side` says which one this is.  What the network thread does     *)
(* with peers is left to BCNetServer and BCNetClient; here it sets itself  *)
(* up, which may fail, obeys commands, and ends.  The library's calls for  *)
(* that are GameNetworkingSockets_Init, the listen socket, the poll group  *)
(* and GameNetworkingSockets_Kill.                                         *)
(*                                                                         *)
(* m_shouldQuit and m_networking are plain members which all three threads *)
(* read and write; one read or write is one step.  The last three          *)
(* variables are history.                                                  *)
(***************************************************************************)
EXTENDS Integers, Sequences

CONSTANTS
  Sides,        \* which classes: "server", "client" or both
  Line,         \* what can be typed or pushed: "quit", "other", "blank"
  MaxLines,     \* bound on the lines pushed in a behaviour
  MaxStarts     \* bound on the threads started by Start

ASSUME SideAssumption == Sides \subseteq {"server", "client"}
ASSUME LineAssumption == Line \subseteq {"quit", "other", "blank"}
ASSUME BoundAssumption == MaxLines \in Nat /\ MaxStarts \in Nat

VARIABLES
  side,         \* the class of the object
  app,          \* where the application's thread is in a call
  net,          \* the network thread; "none" when there is nothing to join
  console,      \* the thread that reads stdin, likewise
  networking,   \* m_networking
  shouldQuit,   \* m_shouldQuit
  registered,   \* TRUE once m_commandCallbacks holds the default commands
  queue,        \* m_commandQueue
  library,      \* TRUE between GameNetworkingSockets_Init and _Kill
  starts,       \* how often Start has started the network thread
  failed,       \* TRUE iff a set-up failed and none has been torn down since
  pushed,       \* every line pushed so far
  taken,        \* every line popped so far
  ignored       \* places in `taken` of lines popped with no command registered

threads == <<app, net, console>>
flags == <<networking, shouldQuit>>
lines == <<queue, pushed, taken, ignored>>
vars == <<side, threads, flags, registered, lines, library, starts, failed>>

Server == side = "server"
Over == {"none", "ended"}      \* a thread that does not run

TypeOK ==
  /\ side \in {"server", "client"}
  /\ app \in {"idle", "startNet", "startConsole", "register", "stopClose", "stopNet",
              "stopConsole", "stopFlags", "deleteNet", "deleteConsole", "deleteFlags", "gone"}
  /\ app \in {"stopFlags", "deleteFlags"} => Server   \* only it sets the flags last
  /\ net \in {"none", "setUp", "loop", "turn", "exit", "ended"}
  /\ console \in {"none", "test", "read", "ended"}
  /\ networking \in BOOLEAN /\ shouldQuit \in BOOLEAN
  /\ registered \in BOOLEAN
  /\ queue \in Seq(Line) /\ pushed \in Seq(Line) /\ taken \in Seq(Line)
  /\ library \in BOOLEAN
  /\ starts \in Nat
  /\ failed \in BOOLEAN
  /\ ignored \subseteq 1..Len(taken)

Init ==
  /\ side \in Sides
  /\ app = "idle" /\ net = "none" /\ console = "none"
  /\ networking = FALSE /\ shouldQuit = FALSE
  /\ registered = FALSE
  /\ queue = <<>> /\ pushed = <<>> /\ taken = <<>> /\ ignored = {}
  /\ library = FALSE
  /\ starts = 0
  /\ failed = FALSE

Push(l) ==
  /\ Len(pushed) < MaxLines
  /\ queue' = Append(queue, l)
  /\ pushed' = Append(pushed, l)
  /\ UNCHANGED <<taken, ignored>>

-----------------------------------------------------------------------------
(* The application.                                                        *)

AppGoes(from, to) == app = from /\ app' = to

\* Start returns at once when m_networking is TRUE.
StartCall ==
  /\ ~networking
  /\ starts < MaxStarts
  /\ AppGoes("idle", "startNet")
  /\ UNCHANGED <<side, net, console, flags, registered, lines, library, starts, failed>>

\* An old network thread is joined, a new one started; the same for the console.
StartNetwork ==
  /\ AppGoes("startNet", "startConsole")
  /\ net \in Over
  /\ net' = "setUp"
  /\ starts' = starts + 1
  /\ UNCHANGED <<side, console, flags, registered, lines, library, failed>>

StartConsole ==
  /\ AppGoes("startConsole", "register")
  /\ console \in Over
  /\ console' = "test"
  /\ UNCHANGED <<side, net, flags, registered, lines, library, starts, failed>>

\* Only then are the default commands put in the map.
Register ==
  /\ AppGoes("register", "idle")
  /\ registered' = TRUE
  /\ UNCHANGED <<side, net, console, flags, lines, library, starts, failed>>

\* Stop of the server joins first ...
StopServer ==
  /\ Server
  /\ ~shouldQuit /\ networking
  /\ AppGoes("idle", "stopNet")
  /\ UNCHANGED <<side, net, console, flags, registered, lines, library, starts, failed>>

\* ... Stop of the client sets m_shouldQuit first, then closes the connection.
StopClient ==
  /\ ~Server
  /\ ~shouldQuit
  /\ AppGoes("idle", "stopClose")
  /\ shouldQuit' = TRUE
  /\ UNCHANGED <<side, net, console, networking, registered, lines, library, starts, failed>>

StopClose ==
  /\ AppGoes("stopClose", "stopNet")
  /\ networking' = FALSE
  /\ UNCHANGED <<side, net, console, shouldQuit, registered, lines, library, starts, failed>>

\* delete: the server joins and then sets the flags, the client the other way.
DeleteServer ==
  /\ Server
  /\ AppGoes("idle", "deleteNet")
  /\ UNCHANGED <<side, net, console, flags, registered, lines, library, starts, failed>>

DeleteClient ==
  /\ ~Server
  /\ AppGoes("idle", "deleteNet")
  /\ shouldQuit' = TRUE /\ networking' = FALSE
  /\ UNCHANGED <<side, net, console, registered, lines, library, starts, failed>>

JoinNetwork ==
  /\ AppGoes("stopNet", "stopConsole") \/ AppGoes("deleteNet", "deleteConsole")
  /\ net \in Over
  /\ net' = "none"
  /\ UNCHANGED <<side, console, flags, registered, lines, library, starts, failed>>

\* Mutant: only a console thread that has ended already is joined.
JoinConsoleHasty ==
  /\ \/ AppGoes("stopConsole", IF Server THEN "stopFlags" ELSE "idle")
     \/ AppGoes("deleteConsole", IF Server THEN "deleteFlags" ELSE "gone")
  /\ console' = IF console \in Over THEN "none" ELSE console
  /\ UNCHANGED <<side, net, flags, registered, lines, library, starts, failed>>

\* Mutant: the client sets its flags after the joins as well.
JoinConsoleThenFlags ==
  /\ AppGoes("stopConsole", "stopFlags") \/ AppGoes("deleteConsole", "deleteFlags")
  /\ console \in Over
  /\ console' = "none"
  /\ UNCHANGED <<side, net, flags, registered, lines, library, starts, failed>>

JoinConsole ==
  /\ \/ AppGoes("stopConsole", IF Server THEN "stopFlags" ELSE "idle")
     \/ AppGoes("deleteConsole", IF Server THEN "deleteFlags" ELSE "gone")
  /\ console \in Over
  /\ console' = "none"
  /\ UNCHANGED <<side, net, flags, registered, lines, library, starts, failed>>

SetFlags ==
  /\ AppGoes("stopFlags", "idle") \/ AppGoes("deleteFlags", "gone")
  /\ shouldQuit' = TRUE /\ networking' = FALSE
  /\ UNCHANGED <<side, net, console, registered, lines, library, starts, failed>>

PushInputAsCommand(l) ==
  /\ app = "idle"
  /\ Push(l)
  /\ UNCHANGED <<side, threads, flags, registered, library, starts, failed>>

-----------------------------------------------------------------------------
(* The network thread: DoNetworking.                                       *)

NetGoes(from, to) == net = from /\ net' = to

\* Init fails; or, in the server, the listen socket or the poll group does, and
\* the library stays as it is.
SetUpFails ==
  /\ NetGoes("setUp", "ended")
  /\ library' \in IF Server THEN {library, TRUE} ELSE {library}
  /\ failed' = TRUE
  /\ UNCHANGED <<side, app, console, flags, registered, lines, starts>>

\* Mutant: the flag of an earlier end is reset, so that Start can be called again.
SetUpResets ==
  /\ NetGoes("setUp", "loop")
  /\ library' = TRUE
  /\ networking' = (Server \/ networking)
  /\ shouldQuit' = FALSE
  /\ UNCHANGED <<side, app, console, registered, lines, starts, failed>>

SetUp ==
  /\ NetGoes("setUp", "loop")
  /\ library' = TRUE
  /\ networking' = (Server \/ networking)
  /\ UNCHANGED <<side, app, console, shouldQuit, registered, lines, starts, failed>>

\* while (!m_shouldQuit)
LoopTest ==
  /\ NetGoes("loop", IF shouldQuit THEN "exit" ELSE "turn")
  /\ UNCHANGED <<side, app, console, flags, registered, lines, library, starts, failed>>

\* The client polls, connects and disconnects: m_networking may come out either way.
ClientNetworks ==
  /\ ~Server
  /\ net = "turn"
  /\ networking' \in BOOLEAN
  /\ UNCHANGED <<side, threads, shouldQuit, registered, lines, library, starts, failed>>

\* The first n lines of the queue are blank but for the last of them.
FirstCommandAt(n) == queue[n] # "blank" /\ \A i \in 1..(n - 1) : queue[i] = "blank"

\* Mutants: the latest command first; or the queue is emptied.
NextCommandLatest(n) ==
  /\ n = 1
  /\ queue' = SubSeq(queue, 1, Len(queue) - 1)
  /\ taken' = Append(taken, queue[Len(queue)])
  /\ UNCHANGED pushed

NextCommandClears(n) ==
  /\ FirstCommandAt(n)
  /\ queue' = <<>>
  /\ taken' = taken \o queue
  /\ UNCHANGED pushed

\* GetNextCommand pops, under the lock, up to the first line that is not blank.
NextCommand(n) ==
  /\ FirstCommandAt(n)
  /\ queue' = SubSeq(queue, n + 1, Len(queue))
  /\ taken' = taken \o SubSeq(queue, 1, n)
  /\ UNCHANGED pushed

\* Mutant: the loop over the commands does not look at m_shouldQuit.
HandleCommandAlways(n) ==
  /\ net = "turn"
  /\ NextCommand(n)
  /\ shouldQuit' = (shouldQuit \/ (queue[n] = "quit" /\ registered))
  /\ ignored' = IF registered THEN ignored ELSE ignored \cup {Len(taken')}
  /\ UNCHANGED <<side, threads, networking, registered, library, starts, failed>>

\* One command of HandleUserCommands; one that is not in the map is "invalid".
HandleCommand(n) ==
  /\ net = "turn"
  /\ ~shouldQuit
  /\ NextCommand(n)
  /\ shouldQuit' = (queue[n] = "quit" /\ registered)
  /\ ignored' = IF registered THEN ignored ELSE ignored \cup {Len(taken')}
  /\ UNCHANGED <<side, threads, networking, registered, library, starts, failed>>

\* No command is left, or the loop has to end: m_networking = !m_shouldQuit.
TurnDone ==
  /\ NetGoes("turn", "loop")
  /\ \/ shouldQuit /\ UNCHANGED lines
     \/ /\ ~shouldQuit
        /\ \A i \in 1..Len(queue) : queue[i] = "blank"
        /\ queue' = <<>>
        /\ taken' = taken \o queue
        /\ UNCHANGED <<pushed, ignored>>
  /\ networking' = ~shouldQuit
  /\ UNCHANGED <<side, app, console, shouldQuit, registered, library, starts, failed>>

\* Mutant: the flag is reset for the next Start.
ExitResets ==
  /\ NetGoes("exit", "ended")
  /\ networking' = (Server /\ networking)
  /\ shouldQuit' = FALSE
  /\ library' = FALSE
  /\ failed' = FALSE
  /\ UNCHANGED <<side, app, console, registered, lines, starts>>

\* The end of DoNetworking; CloseConnection of the client resets m_networking.
Exit ==
  /\ NetGoes("exit", "ended")
  /\ networking' = (Server /\ networking)
  /\ library' = FALSE
  /\ failed' = FALSE
  /\ UNCHANGED <<side, app, console, shouldQuit, registered, lines, starts>>

-----------------------------------------------------------------------------
(* The console thread.                                                     *)

ConsoleGoes(from, to) == console = from /\ console' = to

ConsoleTest ==
  /\ ConsoleGoes("test", IF shouldQuit THEN "ended" ELSE "read")
  /\ UNCHANGED <<side, app, net, flags, registered, lines, library, starts, failed>>

ConsoleLine(l) ==
  /\ ConsoleGoes("read", "test")
  /\ Push(l)
  /\ UNCHANGED <<side, app, net, flags, registered, library, starts, failed>>

\* fgets fails.
ConsoleEnds ==
  /\ ConsoleGoes("read", "ended")
  /\ shouldQuit' = TRUE
  /\ UNCHANGED <<side, app, net, networking, registered, lines, library, starts, failed>>

-----------------------------------------------------------------------------
\* The calls of the application, and the steps that bring a call to its end.
Call == StartCall \/ StopServer \/ StopClient \/ DeleteServer \/ DeleteClient

CallGoesOn ==
  StartNetwork \/ StartConsole \/ Register \/ StopClose \/ JoinNetwork \/ JoinConsole \/ SetFlags

NetworkThread ==
  \/ SetUpFails \/ SetUp \/ LoopTest \/ TurnDone \/ Exit
  \/ \E n \in 1..Len(queue) : HandleCommand(n)

\* The object is gone.
Finished == app = "gone" /\ UNCHANGED vars

Next ==
  \/ Call \/ CallGoesOn
  \/ NetworkThread \/ ClientNetworks
  \/ ConsoleTest \/ ConsoleEnds
  \/ \E l \in Line : ConsoleLine(l) \/ PushInputAsCommand(l)
  \/ Finished

Spec == Init /\ [][Next]_vars

\* All threads are scheduled.  Nothing is assumed of who types, nor of when the
\* application calls.
FairSpec ==
  Spec /\ WF_vars(CallGoesOn) /\ WF_vars(NetworkThread) /\ WF_vars(ConsoleTest)

-----------------------------------------------------------------------------
(* Properties.                                                             *)

\* m_commandQueue: the lines of both producers are taken in the order in which
\* they were pushed, and none is lost or taken twice, by however many threads.
FirstInFirstOut == pushed = taken \o queue

\* No command is obeyed after /quit, not even by a thread started later.
NothingAfterQuit ==
  \A i \in 1..(Len(taken) - 1) : taken[i] = "quit" => i \in ignored

\* IsConnected (m_networking) is TRUE only while the network thread is in its
\* loop, unless it was told to quit.
NetworkingMeansServing == networking /\ ~shouldQuit => net \in {"loop", "turn"}

\* IsRunning (!m_shouldQuit) is TRUE of an object whose network thread does not
\* run only before the first Start and after a set-up that failed.
RunningMeansThread == ~shouldQuit /\ net \in Over => starts = 0 \/ failed

\* What IsConnected and IsRunning say of the network thread, through any starts,
\* stops, failures and ends of it.
FlagsTellTruth == NetworkingMeansServing /\ RunningMeansThread

\* When the object is destroyed none of its threads is left, and the library was
\* released, unless a set-up failed.
NothingSurvives == app = "gone" => net = "none" /\ console = "none" /\ (library => failed)

\* The person at the console types on, or ends the input.
StdinFlows == []<>(console # "read")

\* /quit is obeyed if the network thread runs, unless it comes in the moment when
\* the command is not registered yet; and once m_shouldQuit is set, by whichever
\* thread, the network thread ends.
QuitIsObeyed ==
  /\ ((\E i \in 1..Len(queue) : queue[i] = "quit") /\ net \in {"loop", "turn"})
        ~> (shouldQuit \/ ignored # {})
  /\ shouldQuit ~> net \in Over

\* Start, Stop and the destructor return, if someone asks the object to quit and
\* someone types: the console thread only looks at m_shouldQuit between two lines.
CallsReturn ==
  StdinFlows /\ <>shouldQuit => (app \notin {"idle", "gone"} ~> app \in {"idle", "gone"})

-----------------------------------------------------------------------------
(* A claim the source makes and the code does not keep.                    *)

\* IBCNetServer.h:51: Stop "Stops the server."
StopStops == Server /\ app = "stopNet" ~> net \in Over
=============================================================================

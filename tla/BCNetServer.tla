----------------------------- MODULE BCNetServer -----------------------------
(***************************************************************************)
(* The server of BCNet: the loop of its network thread (DoNetworking), the *)
(* handlers it runs and the client table they keep, over the sockets of    *)
(* module SteamSockets.                                                    *)
(*                                                                         *)
(* One turn of the loop reads messages until none waits, swaps out the     *)
(* queue of status callbacks and handles each, then obeys the commands of  *)
(* the operator.  `dispatch` holds the callbacks swapped out.  Everything  *)
(* else in the process only sets flags: the console thread m_shouldQuit,   *)
(* the application m_maxClients.  m_networking is not a variable: between  *)
(* the assignments of this thread it is TRUE whenever the loop tests it.   *)
(*                                                                         *)
(* An assert that fails ends the run; `fault` says which one.  (With       *)
(* asserts compiled out, what follows dereferences end(): undefined.)      *)
(*                                                                         *)
(* The last five variables are history: they record what the server told   *)
(* the application and its clients, and what became of a connection.       *)
(***************************************************************************)
EXTENDS Integers, FiniteSetsExt, SteamSockets

CONSTANTS
  ChosenNick,   \* nicknames that are not of the form "User <number>"
  ChosenLength, \* how long each of them is
  NoNick,       \* the empty string
  Kinds,        \* the kinds of packets clients send, out of PacketKind
  Requested,    \* the nicknames clients, and the application, ask for
  MaxChoices,   \* the limits the application sets with SetMaxClients
  MaxInbox,     \* bound on the unread messages of a connection
  Kicks         \* TRUE iff the operator uses /kick

\* The nickname "User k" is the number k.
Nickname == Int \cup ChosenNick \cup {NoNick}

\* "short" is a packet of less than the four bytes of its id; "other" one of
\* the application, or one without a payload.
PacketKind == {"nickname", "whosonline", "other", "short"}
Msg == [kind : PacketKind, name : Nickname]
Sent == [kind : Kinds \cap {"nickname"}, name : Requested]
          \cup [kind : Kinds \ {"nickname"}, name : {NoNick}]

ASSUME ConnAssumption == Conn \subseteq Nat /\ IsFiniteSet(Conn)
ASSUME NickAssumption == /\ NoNick \notin Int \cup ChosenNick
                         /\ ChosenLength \in [ChosenNick -> Nat]
ASSUME PacketAssumption == Kinds \subseteq PacketKind /\ Requested \subseteq Nickname
ASSUME LimitAssumption == MaxChoices \subseteq Nat /\ MaxInbox \in Nat
ASSUME FlagAssumption == Kicks \in BOOLEAN

VARIABLES
  pc,           \* where the network thread is
  dispatch,     \* callbacks RunCallbacks has swapped out and not yet handled
  clients,      \* m_connectedClients: the handles that are keys of the map
  nick,         \* nickName of each client (NoNick where there is none)
  clientCount,  \* m_clientCount
  maxClients,   \* m_maxClients
  shouldQuit,   \* m_shouldQuit
  fault,        \* the assert that failed, if one did
  appClients,   \* clients connectedCallback named, disconnectedCallback not yet
  fate,         \* how a connection that is no client any more came to its end
  welcomed,     \* clients whose Connected callback has been handled
  told,         \* told[c]: the peers client c was last told are online
  missed        \* clients a text about the others did not reach: it did not fit

tableVars == <<clients, nick, clientCount>>
historyVars == <<appClients, fate, welcomed, told, missed>>
vars == <<socketVars, pc, dispatch, tableVars, maxClients, shouldQuit, fault,
          historyVars>>

TypeOK ==
  /\ SocketsTypeOK(Msg)
  /\ pc \in {"loop", "poll", "callbacks", "admit", "commands", "closing", "done"}
  /\ dispatch \in Seq(Callback)
  /\ pc = "admit" => dispatch # <<>>   \* its head is being handled
  /\ clients \subseteq Conn
  /\ nick \in [Conn -> Nickname]
  /\ clientCount \in Int
  /\ maxClients \in Nat
  /\ shouldQuit \in BOOLEAN
  /\ fault \in {"none", "sender", "peer", "oldstate", "duplicate"}
  /\ appClients \subseteq Conn
  /\ fate \in [Conn -> {"none", "refused", "left", "kicked"}]
  /\ welcomed \subseteq Conn
  /\ told \in [Conn -> SUBSET Conn]
  /\ missed \subseteq Conn

Init ==
  /\ SocketsInit
  /\ pc = "loop"
  /\ dispatch = <<>>
  /\ clients = {}
  /\ nick = [c \in Conn |-> NoNick]
  /\ clientCount = 0
  /\ maxClients \in MaxChoices
  /\ shouldQuit = FALSE
  /\ fault = "none"
  /\ appClients = {}
  /\ fate = [c \in Conn |-> "none"]
  /\ welcomed = {}
  /\ told = [c \in Conn |-> {}]
  /\ missed = {}

-----------------------------------------------------------------------------
(* The loop.                                                               *)

At(label) == pc = label /\ fault = "none"

AssertThat(holds, name) == fault' = IF holds THEN "none" ELSE name

\* Mutant: the server lets its clients finish.
LoopTestLingers ==
  /\ At("loop")
  /\ pc' = IF shouldQuit /\ clients = {} THEN "closing" ELSE "poll"
  /\ UNCHANGED <<socketVars, dispatch, tableVars, maxClients, shouldQuit, fault,
                 historyVars>>

\* while (!m_shouldQuit)
LoopTest ==
  /\ At("loop")
  /\ pc' = IF shouldQuit THEN "closing" ELSE "poll"
  /\ UNCHANGED <<socketVars, dispatch, tableVars, maxClients, shouldQuit, fault,
                 historyVars>>

\* PollNetworkMessages takes the next message, one of a connection of the group,
\* and asserts that the sender is a client.  (A negative number of messages, which
\* would reset m_networking, is the answer for a poll group that does not exist.)
Receive(c) ==
  /\ At("poll")
  /\ c \in pollGroup
  /\ inbox[c] # <<>>
  /\ inbox' = [inbox EXCEPT ![c] = Tail(@)]
  /\ AssertThat(c \in clients, "sender")
  /\ UNCHANGED <<conn, callbacks, pollGroup, pc, dispatch, clients, clientCount,
                 maxClients, shouldQuit, appClients, fate, welcomed>>

-----------------------------------------------------------------------------
(* The texts the server sends about its clients.                           *)

\* The decimal digits of a number.
Digits[k \in Nat] == IF k < 10 THEN 1 ELSE 1 + Digits[k \div 10]

\* std::string("User " + k), and any other nickname.
NickLength(n) ==
  CASE n \in ChosenNick -> ChosenLength[n]
    [] n = NoNick -> 0
    [] n \in Nat -> 5 + Digits[n]
    [] OTHER -> 6 + Digits[-n]

\* "Current Users [n]: \n", and every name with the two characters after it; only
\* one blank follows the last.
PrintConnectedUsers ==
  19 + Digits[clientCount] + MapThenSumSet(LAMBDA c : NickLength(nick[c]) + 2, clients) - 1

HasConnected == 15   \* " has connected!"
HasLeft == 10        \* " has left."

\* A packet of 1024 bytes holds a DefaultPacketID, a size_t and the text.  WriteString
\* drops a text that does not fit, and the packet goes without it.
Fits(length) == 4 + 8 + length <= 1024

\* The client a list sent to c reaches, and those a line about c does.
ListReaches(c) == {d \in {c} : Fits(PrintConnectedUsers)}
LineReaches(c, line) == {d \in clients \ {c} : Fits(NickLength(nick[c]) + line)}

-----------------------------------------------------------------------------
(* The messages.                                                           *)

\* The id of a packet too short to hold one is never written: any branch of the
\* switch may be taken, and reading a nickname from it yields the empty string.
ReadAs(m, kind) == m.kind \in {kind, "short"}

\* Mutant: default nicknames are not looked at.
ChosenNicknameExists(n) == n \in ChosenNick /\ \E c \in clients : nick[c] = n

NicknameExists(n) == \E c \in clients : nick[c] = n

\* PACKET_NICKNAME
NicknamePacket(c) ==
  /\ Receive(c)
  /\ LET m == Head(inbox[c])
     IN /\ ReadAs(m, "nickname")
        /\ nick' = IF m.name = NoNick \/ NicknameExists(m.name)
                     THEN nick
                     ELSE [nick EXCEPT ![c] = m.name]
  /\ UNCHANGED <<told, missed>>

\* PACKET_WHOSONLINE
WhosOnlinePacket(c) ==
  /\ Receive(c)
  /\ ReadAs(Head(inbox[c]), "whosonline")
  /\ told' = [d \in Conn |-> IF d \in ListReaches(c) THEN clients ELSE told[d]]
  /\ missed' = missed \ ListReaches(c)
  /\ UNCHANGED nick

\* Everything else goes to the application.
OtherPacket(c) ==
  /\ Receive(c)
  /\ ReadAs(Head(inbox[c]), "other")
  /\ UNCHANGED <<nick, told, missed>>

\* No message waits: RunCallbacks swaps out the queue.
RunCallbacks ==
  /\ At("poll")
  /\ \A c \in pollGroup : inbox[c] = <<>>
  /\ pc' = "callbacks"
  /\ dispatch' = callbacks
  /\ callbacks' = <<>>
  /\ UNCHANGED <<conn, pollGroup, inbox, tableVars, maxClients, shouldQuit, fault,
                 historyVars>>

-----------------------------------------------------------------------------
(* OnSteamNetConnectionStatusChanged, one action per path through it.      *)

\* The callback at the head of the queue says that c went from old to new.
Event(c, old, new) ==
  /\ At("callbacks")
  /\ dispatch # <<>>
  /\ Head(dispatch) = [conn |-> c, old |-> old, new |-> new]

Handled == dispatch' = Tail(dispatch) /\ pc' = "callbacks"

\* State None: nothing to do.
NoneCallback(c) ==
  /\ \E old \in ConnState : Event(c, old, "None")
  /\ Handled
  /\ UNCHANGED <<socketVars, tableVars, maxClients, shouldQuit, fault, historyVars>>

\* A peer wants to connect; the assert is that the handle is new.
Incoming(c) ==
  /\ \E old \in ConnState : Event(c, old, "Connecting")
  /\ AssertThat(c \notin clients, "duplicate")

\* AcceptConnection fails: the connection ended before it was looked at.
ConnectingTooLate(c) ==
  /\ Incoming(c)
  /\ conn[c] # "Connecting"
  /\ CloseConnection(c)
  /\ Handled
  /\ UNCHANGED <<tableVars, maxClients, shouldQuit, historyVars>>

\* Mutant: the callback is consumed before the capacity is looked at.
AcceptConsumes(c) ==
  /\ Incoming(c)
  /\ conn[c] = "Connecting"
  /\ AcceptConnection(c)
  /\ pc' = "admit"
  /\ dispatch' = Tail(dispatch)
  /\ UNCHANGED <<tableVars, maxClients, shouldQuit, historyVars>>

Accept(c) ==
  /\ Incoming(c)
  /\ conn[c] = "Connecting"
  /\ AcceptConnection(c)
  /\ pc' = "admit"
  /\ UNCHANGED <<dispatch, tableVars, maxClients, shouldQuit, historyVars>>

\* (m_clientCount + 1) > m_maxClients compares unsigned: negative is huge.
Full == clientCount + 1 < 0 \/ clientCount + 1 > maxClients

\* Mutant: a client that is turned away stays connected.
RefuseKeepsHandle(c) ==
  /\ At("admit")
  /\ c = Head(dispatch).conn
  /\ Full
  /\ fate' = [fate EXCEPT ![c] = "refused"]
  /\ Handled
  /\ UNCHANGED <<socketVars, tableVars, maxClients, shouldQuit, fault, appClients,
                 welcomed, told, missed>>

Refuse(c) ==
  /\ At("admit")
  /\ c = Head(dispatch).conn
  /\ Full
  /\ CloseConnection(c)
  /\ fate' = [fate EXCEPT ![c] = "refused"]
  /\ Handled
  /\ UNCHANGED <<tableVars, maxClients, shouldQuit, fault, appClients, welcomed,
                 told, missed>>

Admit(c) ==
  /\ At("admit")
  /\ c = Head(dispatch).conn
  /\ ~Full
  /\ clients' = clients \cup {c}
  /\ nick' = [nick EXCEPT ![c] = clientCount]
  /\ clientCount' = clientCount + 1
  /\ appClients' = appClients \cup {c}
  /\ Handled
  /\ UNCHANGED <<socketVars, maxClients, shouldQuit, fault, fate, welcomed, told,
                 missed>>

\* Mutant: the client is looked up with operator[], which adds it.
ConnectedTooLateAdds(c) ==
  /\ \E old \in ConnState : Event(c, old, "Connected")
  /\ c \notin clients
  /\ clients' = clients \cup {c}
  /\ Handled
  /\ UNCHANGED <<socketVars, nick, clientCount, maxClients, shouldQuit, fault,
                 historyVars>>

\* Connected, but the table has no such client (any more).
ConnectedTooLate(c) ==
  /\ \E old \in ConnState : Event(c, old, "Connected")
  /\ c \notin clients
  /\ Handled
  /\ UNCHANGED <<socketVars, tableVars, maxClients, shouldQuit, fault, historyVars>>

\* Mutants: only the client is told, or only the others.
WelcomeClientOnly(c) ==
  /\ \E old \in ConnState : Event(c, old, "Connected")
  /\ c \in clients
  /\ welcomed' = welcomed \cup {c}
  /\ told' = [d \in Conn |-> IF d \in ListReaches(c) THEN clients ELSE told[d]]
  /\ missed' = (missed \cup {c}) \ ListReaches(c)
  /\ Handled
  /\ UNCHANGED <<socketVars, tableVars, maxClients, shouldQuit, fault, appClients,
                 fate>>

WelcomeOthersOnly(c) ==
  /\ \E old \in ConnState : Event(c, old, "Connected")
  /\ c \in clients
  /\ told' = [d \in Conn |-> IF d \in LineReaches(c, HasConnected) THEN told[d] \cup {c}
                             ELSE told[d]]
  /\ missed' = missed \cup ((clients \ {c}) \ LineReaches(c, HasConnected))
  /\ Handled
  /\ UNCHANGED <<socketVars, tableVars, maxClients, shouldQuit, fault, appClients,
                 fate, welcomed>>

\* The client gets the list of users, everyone else a line with its name.
Welcome(c) ==
  /\ \E old \in ConnState : Event(c, old, "Connected")
  /\ c \in clients
  /\ welcomed' = welcomed \cup {c}
  /\ told' = [d \in Conn |->
                IF d \in ListReaches(c) THEN clients
                ELSE IF d \in LineReaches(c, HasConnected) THEN told[d] \cup {c}
                ELSE told[d]]
  /\ missed' = (missed \cup (clients \ LineReaches(c, HasConnected))) \ ListReaches(c)
  /\ Handled
  /\ UNCHANGED <<socketVars, tableVars, maxClients, shouldQuit, fault, appClients,
                 fate>>

\* The assert that the peer is a client fails.
UnknownPeer(c) ==
  /\ Event(c, "Connected", "Ended")
  /\ c \notin clients
  /\ AssertThat(FALSE, "peer")
  /\ UNCHANGED <<socketVars, pc, dispatch, tableVars, maxClients, shouldQuit,
                 historyVars>>

\* Mutant: the counter is forgotten.
EraseUncounted(c) ==
  /\ clients' = clients \ {c}
  /\ nick' = [nick EXCEPT ![c] = NoNick]
  /\ UNCHANGED clientCount

\* m_connectedClients.erase and m_clientCount--, here and in KickClient.
Erase(c) ==
  /\ clients' = clients \ {c}
  /\ nick' = [nick EXCEPT ![c] = NoNick]
  /\ clientCount' = clientCount - 1

\* Mutant: the handle of a lost client leaks.
ClientLeftLeaks(c) ==
  /\ Event(c, "Connected", "Ended")
  /\ c \in clients
  /\ told' = [d \in Conn |-> IF d \in LineReaches(c, HasLeft) THEN told[d] \ {c}
                             ELSE told[d]]
  /\ missed' = missed \cup ((clients \ {c}) \ LineReaches(c, HasLeft))
  /\ appClients' = appClients \ {c}
  /\ Erase(c)
  /\ fate' = [fate EXCEPT ![c] = "left"]
  /\ Handled
  /\ UNCHANGED <<socketVars, maxClients, shouldQuit, fault, welcomed>>

\* The others learn that c has left, the application is called back, the table
\* forgets c and the handle is closed.
ClientLeft(c) ==
  /\ Event(c, "Connected", "Ended")
  /\ c \in clients
  /\ told' = [d \in Conn |-> IF d \in LineReaches(c, HasLeft) THEN told[d] \ {c}
                             ELSE told[d]]
  /\ missed' = missed \cup ((clients \ {c}) \ LineReaches(c, HasLeft))
  /\ appClients' = appClients \ {c}
  /\ Erase(c)
  /\ CloseConnection(c)
  /\ fate' = [fate EXCEPT ![c] = "left"]
  /\ Handled
  /\ UNCHANGED <<maxClients, shouldQuit, fault, welcomed>>

\* It was never accepted: only the handle is closed.
AttemptFailed(c) ==
  /\ \E old \in ConnState \ {"Connected"} :
       Event(c, old, "Ended") /\ AssertThat(old = "Connecting", "oldstate")
  /\ CloseConnection(c)
  /\ Handled
  /\ UNCHANGED <<tableVars, maxClients, shouldQuit, historyVars>>

CallbacksDone ==
  /\ At("callbacks")
  /\ dispatch = <<>>
  /\ pc' = "commands"
  /\ UNCHANGED <<socketVars, dispatch, tableVars, maxClients, shouldQuit, fault,
                 historyVars>>

-----------------------------------------------------------------------------
(* HandleUserCommands: the commands that change state, run by this thread.  *)

InCommand == At("commands") /\ ~shouldQuit

\* Mutant: the connection is not closed.
KickKeepsHandle(c) ==
  /\ Erase(c)
  /\ fate' = [fate EXCEPT ![c] = "kicked"]
  /\ UNCHANGED <<socketVars, pc, dispatch, maxClients, shouldQuit, fault, appClients,
                 welcomed, told, missed>>

\* Both KickClient functions, once they have found the client.
Kick(c) ==
  /\ CloseConnection(c)
  /\ Erase(c)
  /\ fate' = [fate EXCEPT ![c] = "kicked"]
  /\ UNCHANGED <<pc, dispatch, maxClients, shouldQuit, fault, appClients, welcomed,
                 told, missed>>

\* /kick -id
KickById(c) == Kicks /\ InCommand /\ c \in clients /\ Kick(c)

\* /kick -user: the map is searched in the order of the handles.
KickByName(n) ==
  /\ Kicks
  /\ InCommand
  /\ \E c \in clients : /\ nick[c] = n
                        /\ \A d \in clients : nick[d] = n => c <= d
                        /\ Kick(c)

\* A command of the application calls SetClientNickname for a client.  (operator[]
\* would also add an id that is no client to the map: the application does not.)
Rename(c, n) ==
  /\ InCommand
  /\ c \in clients
  /\ nick' = [nick EXCEPT ![c] = n]
  /\ UNCHANGED <<socketVars, pc, dispatch, clients, clientCount, maxClients,
                 shouldQuit, fault, historyVars>>

\* /quit and /exit
QuitCommand ==
  /\ InCommand
  /\ shouldQuit' = TRUE
  /\ UNCHANGED <<socketVars, pc, dispatch, tableVars, maxClients, fault, historyVars>>

CommandsDone ==
  /\ At("commands")
  /\ pc' = "loop"
  /\ UNCHANGED <<socketVars, dispatch, tableVars, maxClients, shouldQuit, fault,
                 historyVars>>

-----------------------------------------------------------------------------
(* The end of DoNetworking.                                                *)

\* "Closing all connections...": one client after the other.
ShutdownClose(c) ==
  /\ At("closing")
  /\ c \in clients
  /\ conn[c] \in Alive
  /\ CloseConnection(c)
  /\ UNCHANGED <<pc, dispatch, tableVars, maxClients, shouldQuit, fault, historyVars>>

\* The table is cleared; listen socket, poll group and library go.
ShutdownFinish ==
  /\ At("closing")
  /\ \A c \in clients : conn[c] \notin Alive
  /\ clients' = {}
  /\ nick' = [c \in Conn |-> NoNick]
  /\ clientCount' = 0
  /\ KillSockets
  /\ pc' = "done"
  /\ UNCHANGED <<dispatch, maxClients, shouldQuit, fault, historyVars>>

\* The thread has returned, or the process was aborted.
Stopped == (pc = "done" \/ fault # "none") /\ UNCHANGED vars

-----------------------------------------------------------------------------
(* The other threads: the library's, the console's, the application's.     *)

Running == pc # "done" /\ fault = "none"

PeerStep ==
  /\ Running
  /\ \E c \in Conn : \/ PeerConnects(c)
                     \/ ConnectionEnds(c)
                     \/ \E m \in Sent : PeerSends(c, m, MaxInbox)
  /\ UNCHANGED <<pc, dispatch, tableVars, maxClients, shouldQuit, fault, historyVars>>

\* fgets fails on stdin.
ConsoleEnds ==
  /\ Running
  /\ ~shouldQuit
  /\ shouldQuit' = TRUE
  /\ UNCHANGED <<socketVars, pc, dispatch, tableVars, maxClients, fault, historyVars>>

SetMaxClients(max) ==
  /\ Running
  /\ maxClients' = max
  /\ UNCHANGED <<socketVars, pc, dispatch, tableVars, shouldQuit, fault, historyVars>>

-----------------------------------------------------------------------------
HandleMessage(c) == NicknamePacket(c) \/ WhosOnlinePacket(c) \/ OtherPacket(c)

HandleCallback(c) ==
  \/ NoneCallback(c)
  \/ ConnectingTooLate(c) \/ Accept(c) \/ Refuse(c) \/ Admit(c)
  \/ ConnectedTooLate(c) \/ Welcome(c)
  \/ UnknownPeer(c) \/ ClientLeft(c) \/ AttemptFailed(c)

HandleCommand ==
  \/ \E c \in Conn : KickById(c) \/ \E n \in Requested \ {NoNick} : Rename(c, n)
  \/ \E n \in {nick[c] : c \in clients} : KickByName(n)
  \/ QuitCommand

NetworkThread ==
  \/ LoopTest
  \/ RunCallbacks
  \/ CallbacksDone
  \/ HandleCommand
  \/ CommandsDone
  \/ \E c \in Conn : HandleMessage(c) \/ HandleCallback(c) \/ ShutdownClose(c)
  \/ ShutdownFinish

Next ==
  \/ NetworkThread
  \/ PeerStep
  \/ ConsoleEnds
  \/ \E max \in MaxChoices : SetMaxClients(max)
  \/ Stopped

Spec == Init /\ [][Next]_vars

\* The network thread is scheduled, and an operator's commands come to an end:
\* HandleUserCommands finds the queue empty some time.
FairSpec == Spec /\ WF_vars(NetworkThread) /\ WF_vars(CommandsDone)

-----------------------------------------------------------------------------
(* Properties.                                                             *)

Processing == pc # "done" /\ fault = "none"

\* A callback for c with this change is posted and not yet handled.
Pending(c, old, new) ==
  \E q \in {dispatch, callbacks} : \E i \in 1..Len(q) :
     q[i] = [conn |-> c, old |-> old, new |-> new]

Admitting(c) == pc = "admit" /\ c = Head(dispatch).conn

\* The counter the application reads with GetConnectedCount, and admission is
\* decided by, is the size of the client table, through every way a client
\* enters or leaves it.
CountIsClients == clientCount = Cardinality(clients)

\* Whatever happened before, a step that admits a client leaves at most
\* m_maxClients clients in the table.
AdmissionRespectsLimit ==
  [][\A c \in Conn : c \in clients' \ clients => Cardinality(clients') <= maxClients]_vars

\* The poll group holds exactly the clients (and the connection being admitted),
\* so that a message always comes from a client: the assert in
\* PollNetworkMessages.
GroupIsClients ==
  Processing /\ pc # "closing" =>
    \A c \in Conn : c \in pollGroup <=> c \in clients \/ Admitting(c)

\* No connection is forgotten.  One that waits to be accepted, or has ended, has
\* the callback on its way that will decide it or close its handle; one that is
\* up is a client's or is being admitted.  And the table holds no dead client the
\* server will not learn of.
EveryConnectionIsHandled ==
  Processing =>
    \A c \in Conn :
      /\ conn[c] = "Connecting" => Pending(c, "Fresh", "Connecting")
      /\ conn[c] = "Connected" => c \in clients \/ Admitting(c)
      /\ conn[c] = "Ended" => \E old \in {"Connecting", "Connected"} : Pending(c, old, "Ended")
      /\ c \in clients /\ pc # "closing" =>
           conn[c] = "Connected" \/ (conn[c] = "Ended" /\ Pending(c, "Connected", "Ended"))

\* The only assert that can fail is the one in the handler of a lost connection,
\* and only for a connection the server itself closed: kicked, or turned away
\* because the server is full.
OnlyClosedPeersFault ==
  fault # "none" =>
    fault = "peer" /\ fate[Head(dispatch).conn] \in {"kicked", "refused"}

\* What clients are told of each other: two clients that have both been welcomed
\* know of each other, in whichever order they were accepted and welcomed; and a
\* client believes online only clients and users that were kicked.  A client that a
\* text did not reach, because it did not fit its packet, knows no better until a
\* list does reach it.
RosterAccurate ==
  pc # "done" =>
    \A c \in clients \ missed :
      /\ c \in welcomed => clients \cap welcomed \subseteq told[c]
      /\ told[c] \subseteq clients \cup {d \in Conn : fate[d] = "kicked"}

SameNick == {p \in clients \X clients : p[1] # p[2] /\ nick[p[1]] = nick[p[2]]}

\* A nickname packet never gives two clients the same nickname.
PacketsKeepNicksApart == [][pc = "poll" => SameNick' \subseteq SameNick]_vars

\* The client table is a membership with a limit (module Membership): a connection
\* joins once, when there is room, is turned away only when there is none, and
\* never returns, whatever callbacks of it are still handled.
M == INSTANCE Membership WITH
       members <- clients,
       gone <- {c \in Conn : fate[c] # "none"},
       limit <- maxClients,
       closed <- pc = "done"

Membership == M!Spec

\* Clients do not saturate the loop that reads messages until none waits.
LoopDrains == []<>(pc # "poll")

\* Every connection attempt is accepted, refused or closed; a connection that ended
\* is taken out of the table and its handle is closed.
ConnectionsAreDealtWith ==
  LoopDrains =>
    \A c \in Conn :
      /\ (conn[c] = "Connecting") ~> (conn[c] # "Connecting" \/ fault # "none")
      /\ (conn[c] = "Ended") ~> ((conn[c] = "None" /\ c \notin clients) \/ fault # "none")

\* Every client is sent the list of users, unless it goes before that.  (The packet
\* is sent; that the list is in it is another matter, see `missed`.)
ClientsAreWelcomed ==
  LoopDrains => \A c \in Conn : (c \in clients) ~> (c \in welcomed \/ c \notin clients \/ fault # "none")

\* /quit, or the end of the console, ends the server.
QuitEndsServer == LoopDrains => (shouldQuit ~> (pc = "done" \/ fault # "none"))

-----------------------------------------------------------------------------
(* Claims the source makes and the code does not keep.                     *)

\* BCNetServer.cpp:535 asserts that the peer whose connection ended is a client.
LostPeerIsClient == fault # "peer"

\* "This callback is called whenever a client disconnects from the server"
\* (IBCNetServer.h:83): the application has been told of every client in the table
\* and of every one that is in it no more.  KickClient does not call back.
AppKnowsClients == pc # "done" => appClients = clients
=============================================================================

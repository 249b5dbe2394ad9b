-------------------------- MODULE BCNetServerProofs --------------------------
(***************************************************************************)
(* Proofs about BCNetServer, for any set of handles, nicknames, packets    *)
(* and limits.                                                             *)
(*                                                                         *)
(* The first half needs of the callbacks only what they say of the past    *)
(* (ServerInv): the poll group is the client table, the counter its size,  *)
(* and the table implements Membership.                                    *)
(*                                                                         *)
(* The second half, from Rank on, follows each callback through the queue: *)
(* no connection is forgotten, and the one assert that can fail fails only *)
(* for a connection the server has closed.  A connection only grows older  *)
(* (Rank), so that each of its states is reported once (QueueInv).  It is  *)
(* therefore admitted once, and whoever left the table because its loss    *)
(* was handled has no second loss on its way: a loss that is still to be   *)
(* handled is of a client, of the connection being admitted, or of one     *)
(* that was kicked or refused.                                             *)
(*                                                                         *)
(* What the clients are told rests on FateInv alone: who has gone never    *)
(* comes back.                                                             *)
(***************************************************************************)
EXTENDS BCNetServer, FiniteSetTheorems, TLAPS

-----------------------------------------------------------------------------
(* Type correctness.                                                       *)

\* A transition of the library keeps the types of its state.
LEMMA TransitionTypes ==
  ASSUME conn \in [Conn -> ConnState], callbacks \in Seq(Callback),
         NEW c \in Conn, NEW new \in ConnState, Transition(c, new)
  PROVE  conn' \in [Conn -> ConnState] /\ callbacks' \in Seq(Callback)
<1>1. [conn |-> c, old |-> conn[c], new |-> new] \in Callback
  BY DEF Callback
<1> QED
  BY <1>1 DEF Transition

\* CloseConnection keeps the types, whether the handle is valid or not.
LEMMA CloseTypes ==
  ASSUME SocketsTypeOK(Msg), NEW c \in Conn, CloseConnection(c)
  PROVE  SocketsTypeOK(Msg)'
<1>1. CASE conn[c] \in Alive
  <2>1. Transition(c, "None") /\ pollGroup' = pollGroup \ {c}
        /\ inbox' = [inbox EXCEPT ![c] = <<>>]
    BY <1>1 DEF CloseConnection
  <2>2. conn' \in [Conn -> ConnState] /\ callbacks' \in Seq(Callback)
    BY <2>1, TransitionTypes DEF SocketsTypeOK, ConnState
  <2>3. <<>> \in Seq(Msg)
    OBVIOUS
  <2>4. inbox' \in [Conn -> Seq(Msg)]
    BY <2>1, <2>3 DEF SocketsTypeOK
  <2>5. pollGroup' \subseteq Conn
    BY <2>1 DEF SocketsTypeOK
  <2> QED
    BY <2>2, <2>4, <2>5 DEF SocketsTypeOK
<1>2. CASE conn[c] \notin Alive
  BY <1>2 DEF CloseConnection, SocketsTypeOK, socketVars
<1> QED
  BY <1>1, <1>2

\* AcceptConnection keeps the types.
LEMMA AcceptTypes ==
  ASSUME SocketsTypeOK(Msg), NEW c \in Conn, AcceptConnection(c)
  PROVE  SocketsTypeOK(Msg)'
<1>1. conn' \in [Conn -> ConnState] /\ callbacks' \in Seq(Callback)
  BY TransitionTypes DEF AcceptConnection, SocketsTypeOK, ConnState, Alive
<1> QED
  BY <1>1 DEF AcceptConnection, SocketsTypeOK

\* What the peers do keeps the types.
LEMMA PeerTypes ==
  ASSUME SocketsTypeOK(Msg), PeerStep
  PROVE  SocketsTypeOK(Msg)'
<1>1. PICK c \in Conn : \/ PeerConnects(c)
                        \/ ConnectionEnds(c)
                        \/ \E m \in Sent : PeerSends(c, m, MaxInbox)
  BY DEF PeerStep
<1>2. CASE PeerConnects(c)
  BY <1>2, TransitionTypes DEF PeerConnects, ConnectByIPAddress, SocketsTypeOK, ConnState, Alive
<1>3. CASE ConnectionEnds(c)
  BY <1>3, TransitionTypes DEF ConnectionEnds, SocketsTypeOK, ConnState, Alive
<1>4. CASE \E m \in Sent : PeerSends(c, m, MaxInbox)
  <2>1. PICK m \in Sent : PeerSends(c, m, MaxInbox)
    BY <1>4
  <2>2. m \in Msg
    BY PacketAssumption DEF Sent, Msg, Nickname
  <2>3. Append(inbox[c], m) \in Seq(Msg)
    BY <2>2 DEF SocketsTypeOK
  <2> QED
    BY <2>1, <2>3 DEF PeerSends, SocketsTypeOK
<1> QED
  BY <1>1, <1>2, <1>3, <1>4

\* The callback at the head of the queue, taken off.
LEMMA HeadOfDispatch ==
  ASSUME dispatch \in Seq(Callback), dispatch # <<>>
  PROVE  Head(dispatch) \in Callback /\ Tail(dispatch) \in Seq(Callback)
OBVIOUS

\* Every variable of the server keeps its type, through every message, callback
\* and command, for any set of handles, packets and limits.
THEOREM TypeCorrect == Spec => []TypeOK
<1>1. Init => TypeOK
  <2> SUFFICES ASSUME Init
               PROVE  TypeOK
    OBVIOUS
  <2>1. SocketsTypeOK(Msg)
    BY DEF Init, SocketsInit, SocketsTypeOK, ConnState
  <2>2. nick \in [Conn -> Nickname] /\ maxClients \in Nat
    BY LimitAssumption DEF Init, Nickname
  <2>3. told \in [Conn -> SUBSET Conn] /\ dispatch \in Seq(Callback)
    BY DEF Init
  <2>4. fate \in [Conn -> {"none", "refused", "left", "kicked"}]
    BY DEF Init
  <2>5. shouldQuit \in BOOLEAN
    BY Zenon DEF Init
  <2>6. clientCount \in Int
    BY DEF Init
  <2> QED
    BY <2>1, <2>2, <2>3, <2>4, <2>5, <2>6 DEF Init, TypeOK
<1>2. TypeOK /\ [Next]_vars => TypeOK'
  <2> SUFFICES ASSUME TypeOK, [Next]_vars
               PROVE  TypeOK'
    OBVIOUS
  <2> USE DEF tableVars, historyVars, At, Event, AssertThat, Handled
  <2>1. CASE UNCHANGED vars
    BY <2>1 DEF vars, TypeOK, SocketsTypeOK, socketVars
  <2>2. CASE LoopTest
    BY <2>2 DEF LoopTest, TypeOK, SocketsTypeOK, socketVars
  <2>3. CASE RunCallbacks
    BY <2>3 DEF RunCallbacks, TypeOK, SocketsTypeOK
  <2>4. CASE CallbacksDone
    BY <2>4 DEF CallbacksDone, TypeOK, SocketsTypeOK, socketVars
  <2>5. CASE CommandsDone
    BY <2>5 DEF CommandsDone, TypeOK, SocketsTypeOK, socketVars
  <2>6. CASE HandleCommand
    <3>1. ASSUME NEW c \in Conn, Kick(c), pc = "commands"
          PROVE  TypeOK'
      <4>1. SocketsTypeOK(Msg)'
        BY <3>1, CloseTypes DEF Kick, TypeOK
      <4> QED
        BY <3>1, <4>1 DEF Kick, Erase, TypeOK, Nickname
    <3>2. ASSUME NEW c \in Conn, KickById(c)
          PROVE  TypeOK'
      BY <3>1, <3>2 DEF KickById, InCommand
    <3>3. ASSUME NEW n, KickByName(n)
          PROVE  TypeOK'
      BY <3>1, <3>3 DEF KickByName, InCommand, TypeOK
    <3>4. ASSUME NEW c \in Conn, NEW n \in Requested, Rename(c, n)
          PROVE  TypeOK'
      BY <3>4, PacketAssumption DEF Rename, TypeOK, SocketsTypeOK, socketVars, Nickname
    <3>5. CASE QuitCommand
      BY <3>5 DEF QuitCommand, TypeOK, SocketsTypeOK, socketVars
    <3> QED
      BY <2>6, <3>2, <3>3, <3>4, <3>5 DEF HandleCommand
  <2>7. ASSUME NEW c \in Conn, HandleMessage(c)
        PROVE  TypeOK'
    <3>1. Receive(c)
      BY <2>7 DEF HandleMessage, NicknamePacket, WhosOnlinePacket, OtherPacket
    <3>2. Head(inbox[c]) \in Msg /\ Tail(inbox[c]) \in Seq(Msg)
      <4>1. inbox[c] \in Seq(Msg) /\ inbox[c] # <<>>
        BY <3>1 DEF Receive, TypeOK, SocketsTypeOK
      <4> QED
        BY <4>1
    <3>3. SocketsTypeOK(Msg)'
      BY <3>1, <3>2 DEF Receive, TypeOK, SocketsTypeOK
    <3>4. CASE NicknamePacket(c)
      <4>1. Head(inbox[c]).name \in Nickname
        BY <3>2 DEF Msg
      <4> QED
        BY <3>1, <3>3, <3>4, <4>1 DEF Receive, NicknamePacket, TypeOK
    <3>5. CASE WhosOnlinePacket(c)
      BY <3>1, <3>3, <3>5 DEF Receive, WhosOnlinePacket, TypeOK
    <3>6. CASE OtherPacket(c)
      BY <3>1, <3>3, <3>6 DEF Receive, OtherPacket, TypeOK
    <3> QED
      BY <2>7, <3>4, <3>5, <3>6 DEF HandleMessage
  <2>8. ASSUME NEW c \in Conn, HandleCallback(c)
        PROVE  TypeOK'
    <3> DEFINE Events == \E old, new : Event(c, old, new)
    <3>1. ASSUME Events \/ pc = "admit"
          PROVE  Tail(dispatch) \in Seq(Callback)
      BY <3>1, HeadOfDispatch DEF TypeOK
    <3>2. CASE NoneCallback(c)
      BY <3>1, <3>2 DEF NoneCallback, TypeOK, SocketsTypeOK, socketVars
    <3>3. CASE ConnectingTooLate(c)
      BY <3>1, <3>3, CloseTypes DEF ConnectingTooLate, Incoming, TypeOK
    <3>4. CASE Accept(c)
      BY <3>1, <3>4, AcceptTypes DEF Accept, Incoming, TypeOK
    <3>5. CASE Refuse(c)
      BY <3>1, <3>5, CloseTypes DEF Refuse, TypeOK
    <3>6. CASE Admit(c)
      BY <3>1, <3>6 DEF Admit, TypeOK, SocketsTypeOK, socketVars, Nickname
    <3>7. CASE ConnectedTooLate(c)
      BY <3>1, <3>7 DEF ConnectedTooLate, TypeOK, SocketsTypeOK, socketVars
    <3>8. CASE Welcome(c)
      BY <3>1, <3>8 DEF Welcome, TypeOK, SocketsTypeOK, socketVars
    <3>9. CASE UnknownPeer(c)
      BY <3>9 DEF UnknownPeer, TypeOK, SocketsTypeOK, socketVars
    <3>10. CASE ClientLeft(c)
      BY <3>1, <3>10, CloseTypes DEF ClientLeft, Erase, TypeOK, Nickname
    <3>11. CASE AttemptFailed(c)
      BY <3>1, <3>11, CloseTypes DEF AttemptFailed, TypeOK
    <3> QED
      BY <2>8, <3>2, <3>3, <3>4, <3>5, <3>6, <3>7, <3>8, <3>9, <3>10, <3>11 DEF HandleCallback
  <2>9. ASSUME NEW c \in Conn, ShutdownClose(c)
        PROVE  TypeOK'
    BY <2>9, CloseTypes DEF ShutdownClose, TypeOK
  <2>10. CASE ShutdownFinish
    BY <2>10 DEF ShutdownFinish, KillSockets, TypeOK, SocketsTypeOK, ConnState, Nickname
  <2>11. CASE PeerStep
    BY <2>11, PeerTypes DEF PeerStep, TypeOK
  <2>12. CASE ConsoleEnds
    BY <2>12 DEF ConsoleEnds, TypeOK, SocketsTypeOK, socketVars
  <2>13. ASSUME NEW max \in MaxChoices, SetMaxClients(max)
         PROVE  TypeOK'
    BY <2>13, LimitAssumption DEF SetMaxClients, TypeOK, SocketsTypeOK, socketVars
  <2> QED
    BY <2>1, <2>2, <2>3, <2>4, <2>5, <2>6, <2>7, <2>8, <2>9, <2>10, <2>11, <2>12, <2>13
    DEF Next, NetworkThread, Stopped
<1> QED
  BY <1>1, <1>2, PTL DEF Spec

-----------------------------------------------------------------------------
(* The poll group.                                                         *)
(*                                                                         *)
(* GroupIsClients is not inductive: the handler of a connection that ended *)
(* while connecting closes its handle, which would take it out of the      *)
(* group, so one has to know that it was never in.  ServerInv adds that    *)
(* connections in the group are up or have been, that whoever ended while  *)
(* connecting was and will never be in the group as long as the callback   *)
(* that says so is pending, and that the connection being admitted is new. *)

\* Ended, and never accepted.
NeverUp(c) == conn[c] \in {"Ended", "None"} /\ c \notin pollGroup

EndedEarly(event) == event.new = "Ended" /\ event.old # "Connected"

GroupWasUp == \A c \in pollGroup : conn[c] \in {"Connected", "Ended"}

PostedSound ==
  \A i \in 1..Len(callbacks) : EndedEarly(callbacks[i]) => NeverUp(callbacks[i].conn)

DispatchSound ==
  \A i \in 1..Len(dispatch) : EndedEarly(dispatch[i]) => NeverUp(dispatch[i].conn)

AdmittedIsNew == At("admit") => Head(dispatch).conn \notin clients

ServerInv == GroupIsClients /\ GroupWasUp /\ PostedSound /\ DispatchSound /\ AdmittedIsNew

NeverUpStays == \A c \in Conn : NeverUp(c) => NeverUp(c)'

\* Posting a callback: what the queue says stays true, and so does the new one.
LEMMA TransitionSound ==
  ASSUME TypeOK, PostedSound, NeverUpStays, NEW c \in Conn, NEW new \in ConnState,
         Transition(c, new), new = "Ended" /\ conn[c] # "Connected" => NeverUp(c)'
  PROVE  PostedSound'
<1>1. callbacks \in Seq(Callback)
  BY DEF TypeOK, SocketsTypeOK
<1>2. SUFFICES ASSUME NEW i \in 1..Len(callbacks'), NEW e, e = callbacks'[i], EndedEarly(e)
               PROVE  NeverUp(e.conn)'
  BY DEF PostedSound, EndedEarly, NeverUp
<1>3. callbacks' = Append(callbacks, [conn |-> c, old |-> conn[c], new |-> new])
  BY DEF Transition
<1>4. CASE i \in 1..Len(callbacks)
  <2>1. e = callbacks[i] /\ e \in Callback
    BY <1>1, <1>2, <1>3, <1>4
  <2>2. e.conn \in Conn /\ NeverUp(e.conn)
    BY <1>2, <1>4, <2>1 DEF PostedSound, Callback
  <2> QED
    BY <2>2 DEF NeverUpStays
<1>5. CASE i = Len(callbacks) + 1
  <2>1. e = [conn |-> c, old |-> conn[c], new |-> new]
    BY <1>1, <1>2, <1>3, <1>5
  <2> QED
    BY <1>2, <2>1 DEF EndedEarly
<1>6. Len(callbacks') = Len(callbacks) + 1 /\ Len(callbacks) \in Nat
  BY <1>1, <1>3
<1> QED
  BY <1>4, <1>5, <1>6

\* CloseConnection of any handle keeps the posted callbacks truthful.
LEMMA CloseSound ==
  ASSUME TypeOK, GroupWasUp, PostedSound, NEW c \in Conn, CloseConnection(c)
  PROVE  GroupWasUp' /\ PostedSound' /\ NeverUpStays
<1>1. CASE conn[c] \in Alive
  <2>1. Transition(c, "None") /\ pollGroup' = pollGroup \ {c}
    BY <1>1 DEF CloseConnection
  <2>2. NeverUpStays /\ GroupWasUp'
    BY <2>1 DEF Transition, NeverUpStays, NeverUp, GroupWasUp, TypeOK, SocketsTypeOK
  <2>3. PostedSound'
    BY <2>1, <2>2, TransitionSound DEF ConnState
  <2> QED
    BY <2>2, <2>3
<1>2. CASE conn[c] \notin Alive
  BY <1>2 DEF CloseConnection, socketVars, NeverUpStays, NeverUp, GroupWasUp, PostedSound
<1> QED
  BY <1>1, <1>2

\* So does accepting a connection, which is up from then on.
LEMMA AcceptSound ==
  ASSUME TypeOK, GroupWasUp, PostedSound, NEW c \in Conn,
         conn[c] = "Connecting", AcceptConnection(c)
  PROVE  GroupWasUp' /\ PostedSound' /\ NeverUpStays
<1>1. Transition(c, "Connected") /\ pollGroup' = pollGroup \cup {c}
  BY DEF AcceptConnection
<1>2. NeverUpStays /\ GroupWasUp'
  BY <1>1 DEF Transition, NeverUpStays, NeverUp, GroupWasUp, TypeOK, SocketsTypeOK
<1>3. PostedSound'
  BY <1>1, <1>2, TransitionSound DEF ConnState, Alive
<1> QED
  BY <1>2, <1>3

\* So does everything the peers do: connect, send, leave.
LEMMA PeerSound ==
  ASSUME TypeOK, GroupWasUp, PostedSound, PeerStep
  PROVE  GroupWasUp' /\ PostedSound' /\ NeverUpStays /\ pollGroup' = pollGroup
<1>1. PICK c \in Conn : \/ PeerConnects(c)
                        \/ ConnectionEnds(c)
                        \/ \E m \in Sent : PeerSends(c, m, MaxInbox)
  BY DEF PeerStep
<1>2. CASE PeerConnects(c)
  <2>1. NeverUpStays /\ GroupWasUp'
    BY <1>2 DEF PeerConnects, ConnectByIPAddress, Transition, NeverUpStays, NeverUp, GroupWasUp, TypeOK, SocketsTypeOK
  <2>2. PostedSound'
    BY <1>2, <2>1, TransitionSound DEF PeerConnects, ConnectByIPAddress, ConnState, Alive
  <2> QED
    BY <1>2, <2>1, <2>2 DEF PeerConnects, ConnectByIPAddress
<1>3. CASE ConnectionEnds(c)
  <2>1. NeverUpStays /\ GroupWasUp'
    BY <1>3 DEF ConnectionEnds, Transition, NeverUpStays, NeverUp, GroupWasUp, TypeOK, SocketsTypeOK
  <2>2. conn[c] # "Connected" => NeverUp(c)'
    BY <1>3 DEF ConnectionEnds, Transition, NeverUp, GroupWasUp, TypeOK, SocketsTypeOK
  <2>3. PostedSound'
    BY <1>3, <2>1, <2>2, TransitionSound DEF ConnectionEnds, ConnState, Alive
  <2> QED
    BY <1>3, <2>1, <2>3 DEF ConnectionEnds
<1>4. CASE \E m \in Sent : PeerSends(c, m, MaxInbox)
  BY <1>4 DEF PeerSends, NeverUpStays, NeverUp, GroupWasUp, PostedSound
<1> QED
  BY <1>1, <1>2, <1>3, <1>4

\* A queue that loses its head, or nothing, still tells the truth.
LEMMA DispatchStays ==
  ASSUME TypeOK, DispatchSound, NeverUpStays,
         dispatch' = dispatch \/ (dispatch # <<>> /\ dispatch' = Tail(dispatch))
  PROVE  DispatchSound'
<1>1. dispatch \in Seq(Callback)
  BY DEF TypeOK
<1>2. SUFFICES ASSUME NEW i \in 1..Len(dispatch'), NEW e, e = dispatch'[i], EndedEarly(e)
               PROVE  NeverUp(e.conn)'
  BY DEF DispatchSound, EndedEarly, NeverUp
<1>3. PICK j \in 1..Len(dispatch) : dispatch'[i] = dispatch[j]
  <2>1. CASE dispatch' = dispatch
    BY <2>1
  <2>2. CASE dispatch # <<>> /\ dispatch' = Tail(dispatch)
    <3>1. dispatch'[i] = dispatch[i + 1] /\ i + 1 \in 1..Len(dispatch)
      BY <1>1, <2>2
    <3> QED
      BY <3>1
  <2> QED
    BY <2>1, <2>2
<1>4. e = dispatch[j] /\ e \in Callback
  BY <1>1, <1>2, <1>3
<1>5. e.conn \in Conn /\ NeverUp(e.conn)
  BY <1>2, <1>4 DEF DispatchSound, Callback
<1> QED
  BY <1>5 DEF NeverUpStays

\* CloseConnection takes its connection, and no other, out of the poll group.
LEMMA GroupAfterClose ==
  ASSUME GroupWasUp, NEW c \in Conn, CloseConnection(c)
  PROVE  pollGroup' = pollGroup \ {c}
BY DEF GroupWasUp, CloseConnection, socketVars, Alive

\* Steps that leave the sockets alone.
LEMMA SocketsStay ==
  ASSUME TypeOK, ServerInv, UNCHANGED socketVars,
         dispatch' = dispatch \/ (dispatch # <<>> /\ dispatch' = Tail(dispatch))
  PROVE  GroupWasUp' /\ PostedSound' /\ DispatchSound' /\ pollGroup' = pollGroup
<1>1. NeverUpStays /\ GroupWasUp' /\ PostedSound'
  BY DEF ServerInv, socketVars, NeverUpStays, NeverUp, GroupWasUp, PostedSound
<1> QED
  BY <1>1, DispatchStays DEF ServerInv, socketVars

\* The inductive invariant of the server: the poll group is the client table
\* (GroupIsClients), and the posted callbacks say enough about the past that the
\* handlers of OnSteamNetConnectionStatusChanged admit a connection only once.
THEOREM ServerInvariant == Spec => []ServerInv
<1> USE DEF Processing, Admitting, At
<1>1. Init => ServerInv
  BY DEF Init, SocketsInit, ServerInv, GroupIsClients, GroupWasUp, PostedSound, DispatchSound,
         AdmittedIsNew
<1>2. TypeOK /\ TypeOK' /\ ServerInv /\ [Next]_vars => ServerInv'
  <2> SUFFICES ASSUME TypeOK, TypeOK', ServerInv, [Next]_vars
               PROVE  ServerInv'
    OBVIOUS
  <2> USE DEF tableVars, historyVars, Event, AssertThat, Handled
  <2>1. CASE UNCHANGED vars
    <3>1. UNCHANGED socketVars /\ dispatch' = dispatch
      BY <2>1 DEF vars
    <3> QED
      BY <2>1, <3>1, SocketsStay DEF vars, ServerInv, GroupIsClients, AdmittedIsNew
  <2>2. ASSUME LoopTest \/ CallbacksDone \/ CommandsDone \/ ConsoleEnds \/ QuitCommand
               \/ \E max \in MaxChoices : SetMaxClients(max)
        PROVE  ServerInv'
    <3>1. /\ UNCHANGED <<socketVars, dispatch, clients, fault>>
          /\ pc' = pc \/ (pc # "admit" /\ pc' # "admit" /\ pc # "closing" /\ pc # "done")
      BY <2>2 DEF LoopTest, CallbacksDone, CommandsDone, ConsoleEnds, QuitCommand, SetMaxClients,
                  InCommand
    <3> QED
      BY <3>1, SocketsStay DEF ServerInv, GroupIsClients, AdmittedIsNew
  <2>3. CASE RunCallbacks
    <3>1. DispatchSound' /\ PostedSound'
      BY <2>3 DEF RunCallbacks, ServerInv, DispatchSound, PostedSound, NeverUp
    <3> QED
      BY <2>3, <3>1 DEF RunCallbacks, ServerInv, GroupIsClients, GroupWasUp, AdmittedIsNew
  <2>4. ASSUME NEW c \in Conn, Kick(c), At("commands"), c \in clients
        PROVE  ServerInv'
    <3>1. pollGroup' = pollGroup \ {c} /\ GroupWasUp' /\ PostedSound' /\ NeverUpStays
      BY <2>4, GroupAfterClose, CloseSound DEF Kick, ServerInv
    <3>2. DispatchSound'
      BY <2>4, <3>1, DispatchStays DEF Kick, ServerInv
    <3> QED
      BY <2>4, <3>1, <3>2 DEF Kick, Erase, ServerInv, GroupIsClients, AdmittedIsNew
  <2>5. ASSUME NEW c \in Conn, NEW n \in Requested, Rename(c, n)
        PROVE  ServerInv'
    <3>1. clients' = clients /\ UNCHANGED <<socketVars, dispatch, pc, fault>>
      BY <2>5 DEF Rename
    <3> QED
      BY <3>1, SocketsStay DEF ServerInv, GroupIsClients, AdmittedIsNew
  <2>6. CASE HandleCommand
    BY <2>2, <2>4, <2>5, <2>6 DEF HandleCommand, KickById, KickByName, InCommand, TypeOK
  <2>7. ASSUME NEW c \in Conn, HandleMessage(c)
        PROVE  ServerInv'
    <3>1. Receive(c)
      BY <2>7 DEF HandleMessage, NicknamePacket, WhosOnlinePacket, OtherPacket
    <3>2. GroupWasUp' /\ PostedSound' /\ DispatchSound'
      BY <3>1 DEF Receive, ServerInv, GroupWasUp, PostedSound, DispatchSound, NeverUp
    <3> QED
      BY <3>1, <3>2 DEF Receive, ServerInv, GroupIsClients, AdmittedIsNew
  <2>8. ASSUME NEW c \in Conn, HandleCallback(c)
        PROVE  ServerInv'
    <3>1. CASE NoneCallback(c) \/ ConnectedTooLate(c) \/ Welcome(c) \/ UnknownPeer(c)
      <4>1. /\ UNCHANGED <<socketVars, clients>> /\ pc = "callbacks" /\ pc' = "callbacks"
            /\ dispatch' = dispatch \/ (dispatch # <<>> /\ dispatch' = Tail(dispatch))
            /\ fault = "none"
        BY <3>1 DEF NoneCallback, ConnectedTooLate, Welcome, UnknownPeer
      <4> QED
        BY <4>1, SocketsStay DEF ServerInv, GroupIsClients, AdmittedIsNew
    <3>2. CASE ConnectingTooLate(c)
      <4>1. pollGroup' = pollGroup \ {c} /\ GroupWasUp' /\ PostedSound' /\ NeverUpStays
        BY <3>2, GroupAfterClose, CloseSound DEF ConnectingTooLate, ServerInv
      <4>2. DispatchSound'
        BY <3>2, <4>1, DispatchStays DEF ConnectingTooLate, Incoming, ServerInv
      <4> QED
        BY <3>2, <4>1, <4>2 DEF ConnectingTooLate, Incoming, ServerInv, GroupIsClients, AdmittedIsNew
    <3>3. CASE Accept(c)
      <4>1. pollGroup' = pollGroup \cup {c} /\ GroupWasUp' /\ PostedSound' /\ NeverUpStays
        BY <3>3, AcceptSound DEF Accept, AcceptConnection, ServerInv
      <4>2. DispatchSound'
        BY <3>3, <4>1, DispatchStays DEF Accept, ServerInv
      <4>3. Head(dispatch).conn = c /\ dispatch' = dispatch /\ pc = "callbacks" /\ fault = "none"
            /\ pc' = "admit" /\ clients' = clients /\ (fault' = "none" => c \notin clients)
        BY <3>3 DEF Accept, Incoming
      <4> QED
        BY <4>1, <4>2, <4>3 DEF ServerInv, GroupIsClients, AdmittedIsNew
    <3>4. CASE Refuse(c)
      <4>1. pollGroup' = pollGroup \ {c} /\ GroupWasUp' /\ PostedSound' /\ NeverUpStays
        BY <3>4, GroupAfterClose, CloseSound DEF Refuse, ServerInv
      <4>2. DispatchSound'
        BY <3>4, <4>1, DispatchStays DEF Refuse, ServerInv, TypeOK
      <4> QED
        BY <3>4, <4>1, <4>2 DEF Refuse, ServerInv, GroupIsClients, AdmittedIsNew
    <3>5. CASE Admit(c)
      <4>1. GroupWasUp' /\ PostedSound' /\ DispatchSound' /\ pollGroup' = pollGroup
        BY <3>5, SocketsStay DEF Admit, TypeOK
      <4> QED
        BY <3>5, <4>1 DEF Admit, ServerInv, GroupIsClients, AdmittedIsNew
    <3>6. CASE ClientLeft(c)
      <4>1. pollGroup' = pollGroup \ {c} /\ GroupWasUp' /\ PostedSound' /\ NeverUpStays
        BY <3>6, GroupAfterClose, CloseSound DEF ClientLeft, ServerInv
      <4>2. DispatchSound'
        BY <3>6, <4>1, DispatchStays DEF ClientLeft, ServerInv
      <4> QED
        BY <3>6, <4>1, <4>2 DEF ClientLeft, Erase, ServerInv, GroupIsClients, AdmittedIsNew
    <3>7. CASE AttemptFailed(c)
      <4>1. pollGroup' = pollGroup \ {c} /\ GroupWasUp' /\ PostedSound' /\ NeverUpStays
        BY <3>7, GroupAfterClose, CloseSound DEF AttemptFailed, ServerInv
      <4>2. DispatchSound'
        BY <3>7, <4>1, DispatchStays DEF AttemptFailed, ServerInv
      <4>3. c \notin pollGroup
        <5>1. dispatch \in Seq(Callback) /\ dispatch # <<>>
          BY <3>7 DEF AttemptFailed, TypeOK
        <5>2. 1 \in 1..Len(dispatch) /\ dispatch[1] = Head(dispatch)
          BY <5>1
        <5>3. EndedEarly(dispatch[1]) /\ dispatch[1].conn = c
          BY <3>7, <5>2 DEF AttemptFailed, EndedEarly
        <5> QED
          BY <5>2, <5>3 DEF ServerInv, DispatchSound, NeverUp
      <4> QED
        BY <3>7, <4>1, <4>2, <4>3 DEF AttemptFailed, ServerInv, GroupIsClients, AdmittedIsNew
    <3> QED
      BY <2>8, <3>1, <3>2, <3>3, <3>4, <3>5, <3>6, <3>7 DEF HandleCallback
  <2>9. ASSUME NEW c \in Conn, ShutdownClose(c)
        PROVE  ServerInv'
    <3>1. GroupWasUp' /\ PostedSound' /\ NeverUpStays
      BY <2>9, CloseSound DEF ShutdownClose, ServerInv
    <3>2. DispatchSound'
      BY <2>9, <3>1, DispatchStays DEF ShutdownClose, ServerInv
    <3> QED
      BY <2>9, <3>1, <3>2 DEF ShutdownClose, ServerInv, GroupIsClients, AdmittedIsNew
  <2>10. CASE ShutdownFinish
    <3>1. NeverUpStays /\ GroupWasUp' /\ PostedSound'
      BY <2>10 DEF ShutdownFinish, KillSockets, NeverUpStays, NeverUp, GroupWasUp, PostedSound, Alive
    <3>2. DispatchSound'
      BY <2>10, <3>1, DispatchStays DEF ShutdownFinish, ServerInv
    <3> QED
      BY <2>10, <3>1, <3>2 DEF ShutdownFinish, ServerInv, GroupIsClients, AdmittedIsNew
  <2>11. CASE PeerStep
    <3>1. GroupWasUp' /\ PostedSound' /\ NeverUpStays /\ pollGroup' = pollGroup
      BY <2>11, PeerSound DEF ServerInv
    <3>2. UNCHANGED <<dispatch, pc, clients, fault>>
      BY <2>11 DEF PeerStep
    <3>3. DispatchSound'
      BY <3>1, <3>2, DispatchStays DEF ServerInv
    <3> QED
      BY <3>1, <3>2, <3>3 DEF ServerInv, GroupIsClients, AdmittedIsNew
  <2> QED
    BY <2>1, <2>2, <2>3, <2>6, <2>7, <2>8, <2>9, <2>10, <2>11 DEF Next, NetworkThread, Stopped
<1> QED
  BY <1>1, <1>2, TypeCorrect, PTL DEF Spec

\* The poll group holds the clients and the connection being admitted, for any
\* number of connections: a message always comes from a client, which is what
\* the assert in PollNetworkMessages says.
THEOREM GroupCorrect == Spec => []GroupIsClients
<1>1. ServerInv => GroupIsClients
  BY DEF ServerInv
<1> QED
  BY <1>1, ServerInvariant, PTL

-----------------------------------------------------------------------------
(* The client counter.                                                     *)

\* The client table is finite, so that its size can be counted.
LEMMA ClientsFinite == TypeOK => IsFiniteSet(clients)
BY ConnAssumption, FS_Subset DEF TypeOK

\* Erasing a client keeps the counter right, in ClientLeft and in a kick.
LEMMA EraseCounts ==
  ASSUME TypeOK, CountIsClients, NEW c \in clients, Erase(c)
  PROVE  CountIsClients'
<1>1. Cardinality(clients \ {c}) = Cardinality(clients) - 1
  BY ClientsFinite, FS_RemoveElement
<1> QED
  BY <1>1 DEF Erase, CountIsClients

\* Admitting a connection that is no client yet keeps the counter right.
LEMMA AdmitCounts ==
  ASSUME TypeOK, CountIsClients, NEW c \in Conn, Admit(c), c \notin clients
  PROVE  CountIsClients'
<1>1. Cardinality(clients \cup {c}) = Cardinality(clients) + 1
  BY ClientsFinite, FS_AddElement
<1> QED
  BY <1>1 DEF Admit, CountIsClients

\* m_clientCount, which the application reads with GetConnectedCount, is the size
\* of the client table, in whatever order clients are admitted, leave, are kicked
\* and are closed at the end.
THEOREM CountCorrect == Spec => []CountIsClients
<1>1. Init => CountIsClients
  BY FS_EmptySet DEF Init, CountIsClients
<1>2. TypeOK /\ ServerInv /\ CountIsClients /\ [Next]_vars => CountIsClients'
  <2> SUFFICES ASSUME TypeOK, ServerInv, CountIsClients, [Next]_vars
               PROVE  CountIsClients'
    OBVIOUS
  <2> DEFINE TableStays == UNCHANGED <<clients, clientCount>>
  <2>1. ASSUME TableStays
        PROVE  CountIsClients'
    BY <2>1 DEF CountIsClients
  <2>2. CASE HandleCommand
    <3>1. ASSUME NEW c \in clients, Kick(c)
          PROVE  CountIsClients'
      BY <3>1, EraseCounts DEF Kick
    <3>2. ASSUME NEW c \in Conn, NEW n \in Requested, Rename(c, n)
          PROVE  CountIsClients'
      BY <2>1, <3>2 DEF Rename
    <3> QED
      BY <2>1, <2>2, <3>1, <3>2 DEF HandleCommand, KickById, KickByName, QuitCommand, tableVars
  <2>3. ASSUME NEW c \in Conn, HandleMessage(c)
        PROVE  CountIsClients'
    BY <2>1, <2>3 DEF HandleMessage, NicknamePacket, WhosOnlinePacket, OtherPacket, Receive
  <2>4. ASSUME NEW c \in Conn, HandleCallback(c)
        PROVE  CountIsClients'
    <3>1. CASE Admit(c)
      <4>1. c \notin clients
        BY <3>1 DEF Admit, ServerInv, AdmittedIsNew
      <4> QED
        BY <3>1, <4>1, AdmitCounts
    <3>2. CASE ClientLeft(c)
      BY <3>2, EraseCounts DEF ClientLeft
    <3>3. CASE ~Admit(c) /\ ~ClientLeft(c)
      BY <2>1, <2>4, <3>3 DEF HandleCallback, NoneCallback, ConnectingTooLate, Accept, Refuse,
        ConnectedTooLate, Welcome, UnknownPeer, AttemptFailed, tableVars
    <3> QED
      BY <3>1, <3>2, <3>3
  <2>5. CASE ShutdownFinish
    BY <2>5, FS_EmptySet DEF ShutdownFinish, CountIsClients
  <2>6. ASSUME \/ UNCHANGED vars \/ LoopTest \/ RunCallbacks \/ CallbacksDone \/ CommandsDone
               \/ PeerStep \/ ConsoleEnds
               \/ \E c \in Conn : ShutdownClose(c)
               \/ \E max \in MaxChoices : SetMaxClients(max)
        PROVE  CountIsClients'
    BY <2>1, <2>6 DEF vars, LoopTest, RunCallbacks, CallbacksDone, CommandsDone, PeerStep,
      ConsoleEnds, ShutdownClose, SetMaxClients, tableVars
  <2> QED
    BY <2>2, <2>3, <2>4, <2>5, <2>6 DEF Next, NetworkThread, Stopped
<1> QED
  BY <1>1, <1>2, TypeCorrect, ServerInvariant, PTL DEF Spec

\* A client is admitted only while that leaves at most m_maxClients of them:
\* Admit alone brings a client into the table, and it looks at a correct counter.
THEOREM AdmissionCorrect == Spec => AdmissionRespectsLimit
<1> DEFINE Respects == \A c \in Conn : c \in clients' \ clients => Cardinality(clients') <= maxClients
<1>1. TypeOK /\ CountIsClients /\ CountIsClients' /\ [Next]_vars => [Respects]_vars
  <2> SUFFICES ASSUME TypeOK, CountIsClients, CountIsClients', [Next]_vars,
                      NEW c \in Conn, c \in clients' \ clients
               PROVE  Cardinality(clients') <= maxClients
    OBVIOUS
  <2>1. PICK d \in Conn : Admit(d)
    <3>1. ~(clients' \subseteq clients)
      OBVIOUS
    <3>2. ASSUME NEW d \in Conn, HandleMessage(d)
          PROVE  FALSE
      BY <3>1, <3>2 DEF HandleMessage, NicknamePacket, WhosOnlinePacket, OtherPacket, Receive
    <3>3. ASSUME NEW d \in Conn, HandleCallback(d), ~Admit(d)
          PROVE  FALSE
      BY <3>1, <3>3 DEF HandleCallback, NoneCallback, ConnectingTooLate, Accept, Refuse,
        ConnectedTooLate, Welcome, UnknownPeer, ClientLeft, Erase, AttemptFailed, tableVars
    <3>4. ~HandleCommand
      BY <3>1 DEF HandleCommand, KickById, KickByName, Kick, Erase, Rename, QuitCommand, tableVars
    <3>5. ~ShutdownFinish
      BY <3>1 DEF ShutdownFinish
    <3>6. \A d \in Conn : ~ShutdownClose(d)
      BY <3>1 DEF ShutdownClose, tableVars
    <3>7. ~(\/ UNCHANGED vars \/ LoopTest \/ RunCallbacks \/ CallbacksDone \/ CommandsDone
            \/ PeerStep \/ ConsoleEnds \/ \E max \in MaxChoices : SetMaxClients(max))
      BY <3>1 DEF vars, LoopTest, RunCallbacks, CallbacksDone, CommandsDone, PeerStep, ConsoleEnds,
        SetMaxClients, tableVars
    <3> QED
      BY <3>2, <3>3, <3>4, <3>5, <3>6, <3>7 DEF Next, NetworkThread, Stopped
  <2>2. clientCount' = clientCount + 1 /\ ~(clientCount + 1 > maxClients)
    BY <2>1 DEF Admit, Full
  <2> QED
    BY <2>2 DEF CountIsClients, TypeOK
<1> QED
  BY <1>1, TypeCorrect, CountCorrect, PTL DEF Spec, AdmissionRespectsLimit

-----------------------------------------------------------------------------
(* The refinement of Membership.                                           *)
(*                                                                         *)
(* What has to be known of the past is that a connection with a fate is    *)
(* over for the library too, so that no callback of it is accepted again,  *)
(* and that the connection being admitted has none.                        *)

FatedAreOver == \A c \in Conn : fate[c] # "none" => conn[c] = "None"

AdmittedHasNoFate == pc = "admit" => fate[Head(dispatch).conn] = "none"

FateInv == FatedAreOver /\ AdmittedHasNoFate

\* Closing a connection of the poll group ends it, and brings no other back.
LEMMA CloseEnds ==
  ASSUME TypeOK, ServerInv, NEW c \in Conn, CloseConnection(c)
  PROVE  /\ c \in pollGroup => conn'[c] = "None"
         /\ \A d \in Conn : conn[d] = "None" => conn'[d] = "None"
BY DEF TypeOK, SocketsTypeOK, ServerInv, GroupWasUp, CloseConnection, Transition, Alive, socketVars

\* No call into the library brings a closed connection back.
LEMMA NoneStays ==
  ASSUME TypeOK, PeerStep, NEW d \in Conn, conn[d] = "None"
  PROVE  conn'[d] = "None"
BY DEF PeerStep, PeerConnects, ConnectByIPAddress, ConnectionEnds, PeerSends, Transition, TypeOK,
       SocketsTypeOK

\* A client, and the connection being admitted, are in the poll group while the
\* thread works.
LEMMA InGroup ==
  ASSUME ServerInv, NEW c \in Conn, fault = "none", pc \notin {"closing", "done"},
         c \in clients \/ (pc = "admit" /\ c = Head(dispatch).conn)
  PROVE  c \in pollGroup
BY DEF ServerInv, GroupIsClients, Processing, Admitting

\* Whoever was refused, has left or was kicked is closed, and is not admitted.
LEMMA FateInvariant == Spec => []FateInv
<1>1. Init => FateInv
  BY DEF Init, FateInv, FatedAreOver, AdmittedHasNoFate
<1>2. TypeOK /\ ServerInv /\ FateInv /\ [Next]_vars => FateInv'
  <2> SUFFICES ASSUME TypeOK, ServerInv, FateInv, [Next]_vars
               PROVE  FateInv'
    OBVIOUS
  <2> USE DEF At
  <2> DEFINE NoneKept == \A d \in Conn : conn[d] = "None" => conn'[d] = "None"
  <2>1. ASSUME NoneKept, fate' = fate, pc' # "admit" \/ (pc' = pc /\ dispatch' = dispatch)
        PROVE  FateInv'
    BY <2>1 DEF FateInv, FatedAreOver, AdmittedHasNoFate
  <2>2. ASSUME NEW c \in Conn, NEW f \in {"refused", "left", "kicked"}, CloseConnection(c),
               c \in pollGroup, fate' = [fate EXCEPT ![c] = f], pc' # "admit"
        PROVE  FateInv'
    <3>1. conn'[c] = "None" /\ NoneKept
      BY <2>2, CloseEnds
    <3> QED
      BY <2>2, <3>1 DEF FateInv, FatedAreOver, AdmittedHasNoFate, TypeOK
  <2>3. ASSUME NEW c \in clients, Kick(c), At("commands")
        PROVE  FateInv'
    <3>1. c \in pollGroup /\ c \in Conn
      BY <2>3, InGroup DEF TypeOK
    <3> QED
      BY <2>2, <2>3, <3>1 DEF Kick
  <2>4. CASE HandleCommand
    <3>1. ASSUME NEW c \in Conn, NEW n \in Requested, Rename(c, n)
          PROVE  FateInv'
      BY <2>1, <3>1 DEF Rename, InCommand, socketVars, historyVars
    <3>2. ASSUME QuitCommand
          PROVE  FateInv'
      BY <2>1, <3>2 DEF QuitCommand, InCommand, socketVars, historyVars
    <3> QED
      BY <2>3, <2>4, <3>1, <3>2 DEF HandleCommand, KickById, KickByName, InCommand
  <2>5. ASSUME NEW c \in Conn, HandleMessage(c)
        PROVE  FateInv'
    <3>1. Receive(c)
      BY <2>5 DEF HandleMessage, NicknamePacket, WhosOnlinePacket, OtherPacket
    <3> QED
      BY <2>1, <3>1 DEF Receive
  <2>6. ASSUME NEW c \in Conn, HandleCallback(c)
        PROVE  FateInv'
    <3> USE DEF Event, Handled, AssertThat
    <3>1. CASE NoneCallback(c) \/ ConnectedTooLate(c) \/ Welcome(c) \/ UnknownPeer(c) \/ Admit(c)
      <4>1. NoneKept /\ fate' = fate /\ pc' # "admit"
        BY <3>1 DEF NoneCallback, ConnectedTooLate, Welcome, UnknownPeer, Admit, socketVars,
          historyVars
      <4> QED
        BY <2>1, <4>1
    <3>2. CASE ConnectingTooLate(c) \/ AttemptFailed(c)
      <4>1. CloseConnection(c) /\ fate' = fate /\ pc' # "admit"
        BY <3>2 DEF ConnectingTooLate, AttemptFailed, Incoming, historyVars
      <4> QED
        BY <2>1, <4>1, CloseEnds
    <3>3. CASE Accept(c)
      <4>1. /\ conn[c] = "Connecting" /\ Transition(c, "Connected") /\ fate' = fate
            /\ dispatch' = dispatch /\ c = Head(dispatch).conn
        BY <3>3 DEF Accept, AcceptConnection, Incoming, historyVars
      <4>2. NoneKept
        BY <4>1 DEF Transition, TypeOK, SocketsTypeOK
      <4>3. fate[c] = "none"
        BY <4>1 DEF FateInv, FatedAreOver
      <4> QED
        BY <4>1, <4>2, <4>3 DEF FateInv, FatedAreOver, AdmittedHasNoFate
    <3>4. CASE Refuse(c)
      <4>1. c \in pollGroup
        BY <3>4, InGroup DEF Refuse
      <4> QED
        BY <2>2, <3>4, <4>1 DEF Refuse
    <3>5. CASE ClientLeft(c)
      <4>1. c \in pollGroup
        BY <3>5, InGroup DEF ClientLeft
      <4> QED
        BY <2>2, <3>5, <4>1 DEF ClientLeft
    <3> QED
      BY <2>6, <3>1, <3>2, <3>3, <3>4, <3>5 DEF HandleCallback
  <2>7. ASSUME NEW c \in Conn, ShutdownClose(c)
        PROVE  FateInv'
    <3>1. NoneKept
      BY <2>7, CloseEnds DEF ShutdownClose
    <3> QED
      BY <2>1, <2>7, <3>1 DEF ShutdownClose, historyVars
  <2>8. CASE ShutdownFinish
    <3>1. NoneKept
      BY <2>8 DEF ShutdownFinish, KillSockets, Alive, TypeOK, SocketsTypeOK
    <3> QED
      BY <2>1, <2>8, <3>1 DEF ShutdownFinish, historyVars
  <2>9. CASE PeerStep
    <3>1. NoneKept
      BY <2>9, NoneStays
    <3> QED
      BY <2>1, <2>9, <3>1 DEF PeerStep, historyVars
  <2>10. ASSUME \/ UNCHANGED vars \/ LoopTest \/ RunCallbacks \/ CallbacksDone \/ CommandsDone
                \/ ConsoleEnds \/ \E max \in MaxChoices : SetMaxClients(max)
         PROVE  FateInv'
    <3>1. NoneKept /\ fate' = fate /\ (pc' # "admit" \/ (pc' = pc /\ dispatch' = dispatch))
      BY <2>10 DEF vars, LoopTest, RunCallbacks, CallbacksDone, CommandsDone, ConsoleEnds,
        SetMaxClients, socketVars, historyVars
    <3> QED
      BY <2>1, <3>1
  <2> QED
    BY <2>4, <2>5, <2>6, <2>7, <2>8, <2>9, <2>10 DEF Next, NetworkThread, Stopped
<1> QED
  BY <1>1, <1>2, TypeCorrect, ServerInvariant, PTL DEF Spec

\* The instance M has a copy of Cardinality of its own: the same number.
LEMMA SameCardinality == ASSUME NEW S PROVE M!Cardinality(S) = Cardinality(S)
BY Zenon DEF M!Cardinality, Cardinality

\* The server implements Membership, for every set of connections: what
\* OnSteamNetConnectionStatusChanged, KickClient and the end of DoNetworking do to
\* the client table is joining once while there is room, being turned away while
\* there is none, leaving for good, and nothing else.
THEOREM MembershipImplemented == Spec => Membership
<1>1. Init => M!Init
  <2> SUFFICES ASSUME Init
               PROVE  M!Init
    OBVIOUS
  <2>1. {c \in Conn : fate[c] # "none"} = {}
    BY DEF Init
  <2> QED
    BY <2>1, LimitAssumption DEF Init, M!Init
<1>2. TypeOK /\ TypeOK' /\ ServerInv /\ CountIsClients /\ FateInv /\ [Next]_vars
        => [M!Next]_(M!membershipVars)
  <2> SUFFICES ASSUME TypeOK, TypeOK', ServerInv, CountIsClients, FateInv, [Next]_vars
               PROVE  M!Next \/ UNCHANGED M!membershipVars
    OBVIOUS
  <2> USE DEF At
  <2>1. ASSUME UNCHANGED <<clients, fate, maxClients>>, pc' = "done" <=> pc = "done"
        PROVE  UNCHANGED M!membershipVars
    BY <2>1 DEF M!membershipVars
  <2>2. ASSUME NEW c \in clients, Erase(c), NEW f \in {"left", "kicked"},
               fate' = [fate EXCEPT ![c] = f], maxClients' = maxClients, pc # "done", pc' # "done"
        PROVE  M!Next
    <3>1. c \in Conn /\ {d \in Conn : fate'[d] # "none"} = {d \in Conn : fate[d] # "none"} \cup {c}
      BY <2>2 DEF TypeOK
    <3>2. M!Leave(c)
      BY <2>2, <3>1 DEF M!Leave, Erase
    <3> QED
      BY <3>1, <3>2 DEF M!Next
  <2>3. CASE HandleCommand
    <3>1. ASSUME NEW c \in clients, Kick(c), InCommand
          PROVE  M!Next
      BY <2>2, <3>1 DEF Kick, InCommand
    <3>2. ASSUME NEW c \in Conn, NEW n \in Requested, Rename(c, n)
          PROVE  UNCHANGED M!membershipVars
      BY <2>1, <3>2 DEF Rename, historyVars
    <3>3. ASSUME QuitCommand
          PROVE  UNCHANGED M!membershipVars
      BY <2>1, <3>3 DEF QuitCommand, tableVars, historyVars
    <3> QED
      BY <2>3, <3>1, <3>2, <3>3 DEF HandleCommand, KickById, KickByName
  <2>4. ASSUME NEW c \in Conn, HandleMessage(c)
        PROVE  UNCHANGED M!membershipVars
    <3>1. Receive(c)
      BY <2>4 DEF HandleMessage, NicknamePacket, WhosOnlinePacket, OtherPacket
    <3> QED
      BY <2>1, <3>1 DEF Receive
  <2>5. ASSUME NEW c \in Conn, HandleCallback(c)
        PROVE  M!Next \/ UNCHANGED M!membershipVars
    <3> USE DEF Event, Handled, AssertThat
    <3>1. ASSUME \/ NoneCallback(c) \/ ConnectingTooLate(c) \/ Accept(c) \/ ConnectedTooLate(c)
                 \/ Welcome(c) \/ UnknownPeer(c) \/ AttemptFailed(c)
          PROVE  UNCHANGED M!membershipVars
      BY <2>1, <3>1 DEF NoneCallback, ConnectingTooLate, Accept, ConnectedTooLate, Welcome,
        UnknownPeer, AttemptFailed, Incoming, tableVars, historyVars
    <3>2. CASE Refuse(c)
      <4>1. /\ pc = "admit" /\ fate[c] = "none" /\ c \notin clients
        BY <3>2 DEF Refuse, FateInv, AdmittedHasNoFate, ServerInv, AdmittedIsNew
      <4>2. Cardinality(clients) >= maxClients
        <5>1. clientCount = Cardinality(clients) /\ Cardinality(clients) \in Nat /\ maxClients \in Nat
          BY ClientsFinite, FS_CardinalityType DEF CountIsClients, TypeOK
        <5> QED
          BY <3>2, <5>1 DEF Refuse, Full
      <4>3. {d \in Conn : fate'[d] # "none"} = {d \in Conn : fate[d] # "none"} \cup {c}
        BY <3>2 DEF Refuse, TypeOK
      <4>4. M!TurnAway(c)
        BY <3>2, <4>1, <4>2, <4>3, SameCardinality DEF M!TurnAway, M!New, Refuse, tableVars
      <4> QED
        BY <4>4 DEF M!Next
    <3>3. CASE Admit(c)
      <4>1. /\ pc = "admit" /\ fate[c] = "none" /\ c \notin clients
        BY <3>3 DEF Admit, FateInv, AdmittedHasNoFate, ServerInv, AdmittedIsNew
      <4>2. Cardinality(clients) < maxClients
        <5>1. clientCount = Cardinality(clients) /\ Cardinality(clients) \in Nat /\ maxClients \in Nat
          BY ClientsFinite, FS_CardinalityType DEF CountIsClients, TypeOK
        <5> QED
          BY <3>3, <5>1 DEF Admit, Full
      <4>3. M!Join(c)
        BY <3>3, <4>1, <4>2, SameCardinality DEF M!Join, M!New, Admit
      <4> QED
        BY <4>3 DEF M!Next
    <3>4. CASE ClientLeft(c)
      BY <2>2, <3>4 DEF ClientLeft
    <3> QED
      BY <2>5, <3>1, <3>2, <3>3, <3>4 DEF HandleCallback
  <2>6. CASE ShutdownFinish
    <3>1. M!Close
      BY <2>6 DEF ShutdownFinish, M!Close, historyVars
    <3> QED
      BY <3>1 DEF M!Next
  <2>7. ASSUME NEW max \in MaxChoices, SetMaxClients(max)
        PROVE  M!Next
    <3>1. M!SetLimit
      BY <2>7, LimitAssumption DEF SetMaxClients, M!SetLimit, tableVars, historyVars
    <3> QED
      BY <3>1 DEF M!Next
  <2>8. ASSUME \/ UNCHANGED vars \/ LoopTest \/ RunCallbacks \/ CallbacksDone \/ CommandsDone
               \/ PeerStep \/ ConsoleEnds \/ \E c \in Conn : ShutdownClose(c)
        PROVE  UNCHANGED M!membershipVars
    BY <2>1, <2>8 DEF vars, LoopTest, RunCallbacks, CallbacksDone, CommandsDone, PeerStep,
      ConsoleEnds, ShutdownClose, tableVars, historyVars
  <2> QED
    BY <2>3, <2>4, <2>5, <2>6, <2>7, <2>8 DEF Next, NetworkThread, Stopped
<1> QED
  BY <1>1, <1>2, TypeCorrect, ServerInvariant, CountCorrect, FateInvariant, PTL
  DEF Spec, Membership, M!Spec

-----------------------------------------------------------------------------
(* The queue.                                                              *)

Rank(state) ==
  IF state = "Fresh" THEN 0 ELSE
  IF state = "Connecting" THEN 1 ELSE
  IF state = "Connected" THEN 2 ELSE
  IF state = "Ended" THEN 3 ELSE 4

Legal(event) ==
  /\ Rank(event.old) < Rank(event.new)
  /\ event.new = "Ended" => event.old \in {"Connecting", "Connected"}

SameChange(e, f) == e.conn = f.conn /\ e.new = f.new

\* The library changes nothing that is reported, or one connection grows older.
LibraryStep ==
  \/ UNCHANGED <<conn, callbacks>>
  \/ \E c \in Conn, new \in ConnState :
       Transition(c, new) /\ Legal([conn |-> c, old |-> conn[c], new |-> new])

Past(q) == \A i \in 1..Len(q) : Legal(q[i]) /\ Rank(q[i].new) <= Rank(conn[q[i].conn])

Once(q) == \A i, j \in 1..Len(q) : SameChange(q[i], q[j]) => i = j

Apart(p, q) == \A i \in 1..Len(p), j \in 1..Len(q) : ~SameChange(p[i], q[j])

\* What waits to be handled has happened, and nothing is reported twice.
QueueInv ==
  /\ Past(dispatch) /\ Past(callbacks)
  /\ Once(dispatch) /\ Once(callbacks)
  /\ Apart(dispatch, callbacks)

\* The callbacks to be handled, without their order.
EventsOf(q) == {q[i] : i \in 1..Len(q)}
Waiting == EventsOf(dispatch) \cup EventsOf(callbacks)

\* e was posted by the step.
Posted(e) ==
  /\ e \in Callback
  /\ conn[e.conn] = e.old
  /\ conn' = [conn EXCEPT ![e.conn] = e.new]
  /\ Legal(e)

\* Every callback that waits is well typed.
LEMMA WaitingTypes ==
  ASSUME TypeOK
  PROVE  Waiting \subseteq Callback
<1>1. ASSUME NEW q \in Seq(Callback), NEW i \in 1..Len(q) PROVE q[i] \in Callback
  OBVIOUS
<1> QED
  BY <1>1 DEF Waiting, EventsOf, TypeOK, SocketsTypeOK

\* A step of the library adds at most the callback it posts to the library's queue.
LEMMA PostStep ==
  ASSUME TypeOK, QueueInv, LibraryStep
  PROVE  /\ \A q \in Seq(Callback) : Past(q) => \A i \in 1..Len(q) :
              Legal(q[i]) /\ Rank(q[i].new) <= Rank(conn'[q[i].conn])
         /\ Past(callbacks)' /\ Once(callbacks)'
         /\ Apart(dispatch, callbacks')
         /\ EventsOf(callbacks) \subseteq EventsOf(callbacks')
         /\ \A e \in EventsOf(callbacks') : e \in EventsOf(callbacks) \/ Posted(e)
<1> DEFINE Aged == \A c \in Conn : Rank(conn[c]) <= Rank(conn'[c])
<1>0. dispatch \in Seq(Callback) /\ callbacks \in Seq(Callback) /\ conn \in [Conn -> ConnState]
  BY DEF TypeOK, SocketsTypeOK
<1>1. Aged
  <2>1. ASSUME NEW c \in Conn, NEW new \in ConnState, Transition(c, new),
               Legal([conn |-> c, old |-> conn[c], new |-> new])
        PROVE  Aged
    <3>1. Rank(conn[c]) < Rank(new) /\ conn' = [conn EXCEPT ![c] = new]
      BY <2>1 DEF Legal, Transition
    <3> QED
      BY <1>0, <3>1 DEF Rank
  <2>2. CASE UNCHANGED conn
    BY <2>2 DEF Rank
  <2> QED
    BY <2>1, <2>2 DEF LibraryStep
<1>2. ASSUME NEW q \in Seq(Callback), Past(q), NEW i \in 1..Len(q)
      PROVE  Legal(q[i]) /\ Rank(q[i].new) <= Rank(conn'[q[i].conn])
  <2>1. q[i].conn \in Conn
    <3>1. q[i] \in Callback
      OBVIOUS
    <3> QED
      BY <3>1 DEF Callback
  <2>2. /\ Legal(q[i]) /\ Rank(q[i].new) <= Rank(conn[q[i].conn])
        /\ Rank(conn[q[i].conn]) <= Rank(conn'[q[i].conn])
    BY <1>1, <1>2, <2>1 DEF Past
  <2>3. \A s : Rank(s) \in Int
    BY DEF Rank
  <2> QED
    BY <2>2, <2>3
<1>3. CASE UNCHANGED <<conn, callbacks>>
  BY <1>0, <1>2, <1>3 DEF QueueInv, Past, Once, Apart
<1>4. ASSUME NEW c \in Conn, NEW new \in ConnState, Transition(c, new),
             NEW e, e = [conn |-> c, old |-> conn[c], new |-> new], Legal(e)
      PROVE  /\ Past(callbacks)' /\ Once(callbacks)'
             /\ Apart(dispatch, callbacks')
             /\ EventsOf(callbacks) \subseteq EventsOf(callbacks')
             /\ \A f \in EventsOf(callbacks') : f \in EventsOf(callbacks) \/ Posted(f)
  <2>1. callbacks' = Append(callbacks, e) /\ conn' = [conn EXCEPT ![c] = new]
    BY <1>4 DEF Transition
  <2>2. e \in Callback /\ e.conn = c /\ e.new = new /\ e.old = conn[c]
    BY <1>0, <1>4 DEF Callback
  <2>3. /\ Len(callbacks') = Len(callbacks) + 1 /\ Len(callbacks) \in Nat
        /\ \A i \in 1..Len(callbacks) : callbacks'[i] = callbacks[i]
        /\ callbacks'[Len(callbacks) + 1] = e
    BY <1>0, <2>1, <2>2
  <2>4. \A q \in {dispatch, callbacks} : \A i \in 1..Len(q) : ~SameChange(q[i], e)
    <3>1. SUFFICES ASSUME NEW q \in {dispatch, callbacks}, NEW i \in 1..Len(q), SameChange(q[i], e)
                   PROVE  FALSE
      OBVIOUS
    <3>2. Rank(new) <= Rank(conn[c])
      BY <2>2, <3>1 DEF QueueInv, Past, SameChange
    <3>3. Rank(conn[c]) < Rank(new)
      BY <1>4, <2>2 DEF Legal
    <3>4. Rank(conn[c]) \in Int /\ Rank(new) \in Int
      BY DEF Rank
    <3> QED
      BY <3>2, <3>3, <3>4
  <2>5. Past(callbacks)'
    <3>1. ASSUME NEW i \in 1..Len(callbacks')
          PROVE  Legal(callbacks'[i]) /\ Rank(callbacks'[i].new) <= Rank(conn'[callbacks'[i].conn])
      <4>1. CASE i \in 1..Len(callbacks)
        BY <1>0, <1>2, <2>3, <4>1 DEF QueueInv
      <4>2. CASE i = Len(callbacks) + 1
        <5>1. conn'[c] = new /\ callbacks'[i] = e
          BY <1>0, <2>1, <2>3, <4>2
        <5> QED
          BY <1>4, <2>2, <5>1 DEF Rank
      <4> QED
        BY <2>3, <4>1, <4>2
    <3> QED
      BY <3>1 DEF Past, Legal, Rank
  <2>6. Once(callbacks)'
    <3>1. ASSUME NEW i \in 1..Len(callbacks'), NEW j \in 1..Len(callbacks'),
                 SameChange(callbacks'[i], callbacks'[j])
          PROVE  i = j
      <4>1. CASE i \in 1..Len(callbacks) /\ j \in 1..Len(callbacks)
        BY <2>3, <3>1, <4>1 DEF QueueInv, Once
      <4>2. CASE i = Len(callbacks) + 1 \/ j = Len(callbacks) + 1
        BY <2>3, <2>4, <3>1, <4>2 DEF SameChange
      <4> QED
        BY <2>3, <4>1, <4>2
    <3> QED
      BY <3>1 DEF Once, SameChange
  <2>7. Apart(dispatch, callbacks')
    <3>1. ASSUME NEW i \in 1..Len(dispatch), NEW j \in 1..Len(callbacks')
          PROVE  ~SameChange(dispatch[i], callbacks'[j])
      <4>1. CASE j \in 1..Len(callbacks)
        BY <2>3, <4>1 DEF QueueInv, Apart
      <4>2. CASE j = Len(callbacks) + 1
        BY <2>3, <2>4, <4>2
      <4> QED
        BY <2>3, <4>1, <4>2
    <3> QED
      BY <3>1 DEF Apart
  <2>8. Posted(e)
    BY <1>4, <2>1, <2>2 DEF Posted
  <2>9. EventsOf(callbacks) \subseteq EventsOf(callbacks')
    BY <2>3 DEF EventsOf
  <2>10. \A f \in EventsOf(callbacks') : f \in EventsOf(callbacks) \/ f = e
    <3>1. ASSUME NEW i \in 1..Len(callbacks')
          PROVE  callbacks'[i] \in EventsOf(callbacks) \/ callbacks'[i] = e
      BY <2>3 DEF EventsOf
    <3> QED
      BY <3>1 DEF EventsOf
  <2> QED
    BY <2>5, <2>6, <2>7, <2>8, <2>9, <2>10
<1>5. /\ Past(callbacks)' /\ Once(callbacks)'
      /\ Apart(dispatch, callbacks')
      /\ EventsOf(callbacks) \subseteq EventsOf(callbacks')
      /\ \A f \in EventsOf(callbacks') : f \in EventsOf(callbacks) \/ Posted(f)
  BY <1>3, <1>4 DEF LibraryStep, QueueInv, EventsOf, Past, Once
<1> QED
  BY <1>2, <1>5

\* The callback that the step handles, and no other of the same change, is gone.
Gone(e) == dispatch' # dispatch /\ SameChange(e, Head(dispatch))

HandlesOneOrNone ==
  dispatch' = dispatch \/ (dispatch # <<>> /\ dispatch' = Tail(dispatch))

\* A step that handles one callback, or none, and posts one, or none.
LEMMA QueueStep ==
  ASSUME TypeOK, QueueInv, LibraryStep, HandlesOneOrNone
  PROVE  /\ QueueInv'
         /\ \A e \in Waiting : ~Gone(e) => e \in Waiting'
         /\ \A e \in Waiting' : (e \in Waiting /\ ~Gone(e)) \/ Posted(e)
<1>0. dispatch \in Seq(Callback) /\ callbacks \in Seq(Callback)
  BY DEF TypeOK, SocketsTypeOK
<1>1. /\ \A i \in 1..Len(dispatch) :
           Legal(dispatch[i]) /\ Rank(dispatch[i].new) <= Rank(conn'[dispatch[i].conn])
      /\ Past(callbacks)' /\ Once(callbacks)'
      /\ Apart(dispatch, callbacks')
      /\ EventsOf(callbacks) \subseteq EventsOf(callbacks')
      /\ \A e \in EventsOf(callbacks') : e \in EventsOf(callbacks) \/ Posted(e)
  BY <1>0, PostStep DEF QueueInv
<1>2. CASE dispatch' = dispatch
  <2>1. QueueInv'
    BY <1>1, <1>2 DEF QueueInv, Past, Once, Apart
  <2> QED
    BY <1>1, <1>2, <2>1 DEF Waiting, Gone, EventsOf
<1>3. CASE dispatch # <<>> /\ dispatch' = Tail(dispatch)
  <2>1. /\ Len(dispatch') = Len(dispatch) - 1 /\ Len(dispatch) \in Nat \ {0}
        /\ \A i \in 1..Len(dispatch') : i + 1 \in 1..Len(dispatch)
                                        /\ dispatch'[i] = dispatch[i + 1]
        /\ Head(dispatch) = dispatch[1] /\ 1 \in 1..Len(dispatch)
    BY <1>0, <1>3
  <2>2. Past(dispatch)' /\ Once(dispatch)' /\ Apart(dispatch', callbacks')
    <3>1. Past(dispatch)'
      BY <1>1, <2>1 DEF Past
    <3>2. ASSUME NEW i \in 1..Len(dispatch'), NEW j \in 1..Len(dispatch'),
                 SameChange(dispatch'[i], dispatch'[j])
          PROVE  i = j
      <4>1. SameChange(dispatch[i + 1], dispatch[j + 1])
        BY <2>1, <3>2
      <4>2. i + 1 = j + 1
        BY <2>1, <4>1 DEF QueueInv, Once
      <4> QED
        BY <2>1, <4>2
    <3>3. Apart(dispatch', callbacks')
      BY <1>1, <2>1 DEF Apart
    <3> QED
      BY <3>1, <3>2, <3>3 DEF Once, SameChange
  <2>3. dispatch' # dispatch
    BY <2>1
  <2>4. ASSUME NEW e \in Waiting, ~Gone(e) PROVE e \in Waiting'
    <3>1. CASE e \in EventsOf(callbacks)
      BY <1>1, <3>1 DEF Waiting
    <3>2. ASSUME NEW i \in 1..Len(dispatch), e = dispatch[i] PROVE e \in Waiting'
      <4>1. i # 1
        BY <2>1, <2>3, <2>4, <3>2 DEF Gone, SameChange
      <4>2. i - 1 \in 1..Len(dispatch') /\ dispatch'[i - 1] = e
        BY <2>1, <3>2, <4>1
      <4> QED
        BY <4>2 DEF Waiting, EventsOf
    <3> QED
      BY <2>4, <3>1, <3>2 DEF Waiting, EventsOf
  <2>5. ASSUME NEW e \in Waiting' PROVE (e \in Waiting /\ ~Gone(e)) \/ Posted(e)
    <3>1. ASSUME NEW i \in 1..Len(callbacks), e = callbacks[i]
          PROVE  e \in Waiting /\ ~Gone(e)
      BY <2>1, <3>1 DEF Waiting, EventsOf, Gone, QueueInv, Apart, SameChange
    <3>2. ASSUME NEW i \in 1..Len(dispatch'), e = dispatch'[i]
          PROVE  e \in Waiting /\ ~Gone(e)
      <4>1. i + 1 \in 1..Len(dispatch) /\ e = dispatch[i + 1] /\ i + 1 # 1
        BY <2>1, <3>2
      <4>2. ~SameChange(e, Head(dispatch))
        BY <2>1, <4>1 DEF QueueInv, Once
      <4> QED
        BY <4>1, <4>2 DEF Waiting, EventsOf, Gone
    <3>3. e \in EventsOf(dispatch)' \/ e \in EventsOf(callbacks)'
      BY <2>5 DEF Waiting
    <3>4. EventsOf(callbacks)' = EventsOf(callbacks')
      BY DEF EventsOf
    <3> QED
      BY <1>1, <3>1, <3>2, <3>3, <3>4 DEF EventsOf
  <2> QED
    BY <1>1, <2>2, <2>4, <2>5 DEF QueueInv, Apart
<1> QED
  BY <1>2, <1>3 DEF HandlesOneOrNone

\* RunCallbacks moves the queue: what waits stays the same.
LEMMA SwapStep ==
  ASSUME QueueInv, dispatch = <<>>, dispatch' = callbacks, callbacks' = <<>>, conn' = conn
  PROVE  QueueInv' /\ Waiting' = Waiting
BY DEF QueueInv, Past, Once, Apart, Waiting, EventsOf

\* What the library does when the server closes or accepts, or a peer acts.
LEMMA CloseLibrary ==
  ASSUME TypeOK, NEW c \in Conn, CloseConnection(c)
  PROVE  /\ LibraryStep
         /\ conn'[c] \notin Alive
         /\ \A d \in Conn : d # c => conn'[d] = conn[d]
         /\ \A e : Posted(e) => e.conn = c /\ e.new = "None"
<1>0. conn \in [Conn -> ConnState]
  BY DEF TypeOK, SocketsTypeOK
<1>1. CASE conn[c] \in Alive
  <2>1. Transition(c, "None") /\ conn' = [conn EXCEPT ![c] = "None"]
    BY <1>1 DEF CloseConnection, Transition
  <2>2. Legal([conn |-> c, old |-> conn[c], new |-> "None"])
    BY <1>1 DEF Legal, Rank, Alive
  <2>3. LibraryStep
    BY <2>1, <2>2 DEF LibraryStep, ConnState
  <2>4. ASSUME NEW e, Posted(e) PROVE e.conn = c /\ e.new = "None"
    <3>1. e.conn \in Conn /\ conn'[e.conn] = e.new /\ conn[e.conn] # e.new
      BY <1>0, <2>4 DEF Posted, Callback, Legal, Rank
    <3> QED
      BY <1>0, <2>1, <3>1
  <2> QED
    BY <1>0, <2>1, <2>3, <2>4 DEF Alive
<1>2. CASE conn[c] \notin Alive
  <2>1. UNCHANGED socketVars
    BY <1>2 DEF CloseConnection
  <2>2. ASSUME NEW e, Posted(e) PROVE FALSE
    <3>1. e.conn \in Conn /\ conn'[e.conn] = e.new /\ conn[e.conn] # e.new
      BY <1>0, <2>2 DEF Posted, Callback, Legal, Rank
    <3> QED
      BY <2>1, <3>1 DEF socketVars
  <2> QED
    BY <1>2, <2>1, <2>2 DEF socketVars, LibraryStep
<1> QED
  BY <1>1, <1>2

\* A step that leaves the connections alone posts nothing.
LEMMA NothingPosted ==
  ASSUME TypeOK, UNCHANGED conn, NEW e
  PROVE  ~Posted(e)
<1>1. ASSUME Posted(e) PROVE FALSE
  <2>1. e.conn \in Conn /\ conn'[e.conn] = e.new /\ conn[e.conn] # e.new
    BY <1>1 DEF Posted, Callback, Legal, Rank, TypeOK, SocketsTypeOK
  <2> QED
    BY <2>1
<1> QED
  BY <1>1

\* A transition posts the callback that says so, and only that one.
LEMMA MoveLibrary ==
  ASSUME TypeOK, NEW c \in Conn, NEW new \in ConnState, Transition(c, new),
         NEW e, e = [conn |-> c, old |-> conn[c], new |-> new], Legal(e)
  PROVE  /\ LibraryStep
         /\ conn' = [conn EXCEPT ![c] = new]
         /\ e \in EventsOf(callbacks')
         /\ \A f : Posted(f) => f = e
<1>0. conn \in [Conn -> ConnState] /\ callbacks \in Seq(Callback)
  BY DEF TypeOK, SocketsTypeOK
<1>1. conn' = [conn EXCEPT ![c] = new] /\ callbacks' = Append(callbacks, e)
  BY DEF Transition
<1>2. e \in Callback
  BY <1>0 DEF Callback
<1>3. Len(callbacks') \in 1..Len(callbacks') /\ callbacks'[Len(callbacks')] = e
  BY <1>0, <1>1, <1>2
<1>4. ASSUME NEW f, Posted(f) PROVE f = e
  <2>1. f \in Callback /\ conn[f.conn] = f.old /\ conn'[f.conn] = f.new /\ f.old # f.new
    BY <1>0, <1>4 DEF Posted, Callback, Legal, Rank
  <2>2. f.conn \in Conn /\ f = [conn |-> f.conn, old |-> f.old, new |-> f.new]
    BY <2>1 DEF Callback
  <2> QED
    BY <1>0, <1>1, <2>1, <2>2
<1> QED
  BY <1>1, <1>3, <1>4 DEF LibraryStep, EventsOf

-----------------------------------------------------------------------------
(* The invariant.                                                          *)

Working == Processing /\ pc # "closing"

\* The queue swapped out is empty outside the handlers, and the connection being
\* admitted is the one whose attempt is handled.
PlaceSound ==
  /\ pc \notin {"callbacks", "admit"} => dispatch = <<>>
  /\ pc = "admit" => Head(dispatch).new = "Connecting"

\* An attempt that waits to be looked at is no client's, and a loss that waits is a
\* client's, or of a connection the server has closed.
Known(e) ==
  /\ e.new = "Connecting" => e.conn \notin clients
  /\ e.new = "Ended" /\ e.old = "Connected" =>
       e.conn \in clients \/ Admitting(e.conn) \/ fate[e.conn] \in {"kicked", "refused"}

EventsKnown == Working => \A e \in Waiting : Known(e)

\* What EveryConnectionIsHandled says of one connection, in terms of Waiting.
Change(c, old, new) == [conn |-> c, old |-> old, new |-> new]
Cared(c) ==
  /\ conn[c] = "Connecting" => Change(c, "Fresh", "Connecting") \in Waiting
  /\ conn[c] = "Connected" => c \in clients \/ Admitting(c)
  /\ conn[c] = "Ended" =>
       \E old \in {"Connecting", "Connected"} : Change(c, old, "Ended") \in Waiting
  /\ c \in clients /\ pc # "closing" =>
       conn[c] = "Connected" \/ (conn[c] = "Ended" /\ Change(c, "Connected", "Ended") \in Waiting)

AllCared == Processing => \A c \in Conn : Cared(c)

CallbackInv == QueueInv /\ PlaceSound /\ EventsKnown /\ AllCared /\ OnlyClosedPeersFault

\* Pending, in the words of the specification, is to be in Waiting.
LEMMA PendingIsWaiting ==
  ASSUME NEW c, NEW old, NEW new
  PROVE  Pending(c, old, new) <=> Change(c, old, new) \in Waiting
BY DEF Pending, Change, Waiting, EventsOf

\* A connection the step does not touch is still cared for.
LEMMA CaredKept ==
  ASSUME NEW d \in Conn, Cared(d), conn'[d] = conn[d], d \in clients' <=> d \in clients,
         Admitting(d) => Admitting(d)', pc' # "closing" => pc # "closing",
         \A e \in Waiting : e.conn = d /\ e.new \in {"Connecting", "Ended"} => e \in Waiting'
  PROVE  Cared(d)'
<1>1. ASSUME NEW old, NEW new \in {"Connecting", "Ended"}, Change(d, old, new) \in Waiting
      PROVE  Change(d, old, new)' \in Waiting'
  BY <1>1 DEF Change
<1> QED
  BY <1>1 DEF Cared, Change

\* Steps that leave connections and table alone, and handle at most a callback that
\* says a connection is up or closed.
LEMMA QuietStep ==
  ASSUME TypeOK, TypeOK', CallbackInv, HandlesOneOrNone, Processing, fault' = "none", PlaceSound',
         UNCHANGED <<conn, callbacks, clients, fate>>,
         \/ dispatch' = dispatch
         \/ pc # "admit" /\ Head(dispatch).new \notin {"Connecting", "Ended"},
         pc' = pc \/ (pc # "admit" /\ pc' # "admit" /\ pc # "closing")
  PROVE  CallbackInv'
<1>1. LibraryStep
  BY DEF LibraryStep
<1>2. /\ QueueInv'
      /\ \A e \in Waiting : ~Gone(e) => e \in Waiting'
      /\ \A e \in Waiting' : e \in Waiting
  BY <1>1, QueueStep, NothingPosted DEF CallbackInv
<1>3. \A c \in Conn : Admitting(c)' <=> Admitting(c)
  BY DEF Admitting
<1>4. ASSUME Working', NEW e \in Waiting' PROVE Known(e)'
  <2>1. e \in Waiting /\ e.conn \in Conn
    BY <1>2, WaitingTypes DEF Callback
  <2>2. Known(e)
    BY <1>4, <2>1 DEF CallbackInv, EventsKnown, Working, Processing
  <2> QED
    BY <1>3, <2>1, <2>2 DEF Known
<1>5. ASSUME NEW d \in Conn PROVE Cared(d)'
  <2>1. \A e \in Waiting : e.new \in {"Connecting", "Ended"} => e \in Waiting'
    BY <1>2 DEF Gone, SameChange
  <2> QED
    BY <1>3, <2>1, CaredKept DEF CallbackInv, AllCared
<1>6. EventsKnown' /\ AllCared'
  BY <1>4, <1>5 DEF EventsKnown, AllCared
<1> QED
  BY <1>2, <1>6 DEF CallbackInv, OnlyClosedPeersFault

\* Steps that close one connection, which is no client any more, or was none; if the
\* library's word of its loss still waits, it is because it was kicked or refused.
LEMMA CloseStep ==
  ASSUME TypeOK, TypeOK', CallbackInv, HandlesOneOrNone, Processing, fault' = "none", PlaceSound',
         NEW c \in Conn, CloseConnection(c),
         clients' = clients \/ clients' = clients \ {c}, Working' => c \notin clients',
         \A d \in Conn : d # c => fate'[d] = fate[d],
         dispatch' # dispatch => Head(dispatch).conn = c,
         \A d \in Conn : d # c => ~Admitting(d), pc' # "admit", pc' # "closing" => pc # "closing",
         Working' => \A e \in Waiting :
           e.conn = c /\ e.new = "Ended" /\ e.old = "Connected" /\ ~Gone(e) =>
             fate'[c] \in {"kicked", "refused"}
  PROVE  CallbackInv'
<1>1. /\ LibraryStep /\ conn'[c] \notin Alive
      /\ \A d \in Conn : d # c => conn'[d] = conn[d]
      /\ \A e : Posted(e) => e.conn = c /\ e.new = "None"
  BY CloseLibrary
<1>2. /\ QueueInv'
      /\ \A e \in Waiting : ~Gone(e) => e \in Waiting'
      /\ \A e \in Waiting' : (e \in Waiting /\ ~Gone(e)) \/ Posted(e)
  BY <1>1, QueueStep DEF CallbackInv
<1>3. ASSUME Working', NEW e \in Waiting' PROVE Known(e)'
  <2>1. CASE Posted(e)
    BY <1>1, <2>1 DEF Known
  <2>2. CASE e \in Waiting /\ ~Gone(e)
    <3>1. Known(e) /\ e.conn \in Conn
      BY <1>3, <2>2, WaitingTypes DEF CallbackInv, EventsKnown, Working, Processing, Callback
    <3>2. CASE e.conn = c
      BY <1>3, <2>2, <3>2 DEF Known
    <3>3. CASE e.conn # c
      BY <3>1, <3>3 DEF Known
    <3> QED
      BY <3>2, <3>3
  <2> QED
    BY <1>2, <2>1, <2>2
<1>4. ASSUME Processing', NEW d \in Conn PROVE Cared(d)'
  <2>1. CASE d = c
    BY <1>1, <1>4, <2>1 DEF Cared, Working, Alive
  <2>2. CASE d # c
    <3>1. \A e \in Waiting : e.conn = d => e \in Waiting'
      BY <1>2, <2>2 DEF Gone, SameChange
    <3>2. d \in clients' <=> d \in clients
      BY <2>2
    <3> QED
      BY <1>1, <2>2, <3>1, <3>2, CaredKept DEF CallbackInv, AllCared
  <2> QED
    BY <2>1, <2>2
<1>5. EventsKnown' /\ AllCared'
  BY <1>3, <1>4 DEF EventsKnown, AllCared
<1> QED
  BY <1>2, <1>5 DEF CallbackInv, OnlyClosedPeersFault

\* A callback that waits and says that a connection ended before it was up is right:
\* ServerInv, in terms of Waiting.
LEMMA WaitingSound ==
  ASSUME ServerInv, NEW e \in Waiting, EndedEarly(e)
  PROVE  NeverUp(e.conn)
BY DEF ServerInv, PostedSound, DispatchSound, Waiting, EventsOf

\* The callback at the head waits, and is known and legal.
LEMMA HeadKnown ==
  ASSUME TypeOK, CallbackInv, Working, dispatch # <<>>
  PROVE  /\ Head(dispatch) \in Waiting /\ Known(Head(dispatch)) /\ Legal(Head(dispatch))
         /\ Tail(dispatch) # dispatch
<1>1. 1 \in 1..Len(dispatch) /\ Head(dispatch) = dispatch[1] /\ Len(Tail(dispatch)) # Len(dispatch)
  BY DEF TypeOK
<1> QED
  BY <1>1 DEF CallbackInv, QueueInv, Past, EventsKnown, Waiting, EventsOf

\* Every callback path of OnSteamNetConnectionStatusChanged keeps the invariant.
LEMMA CallbackStep ==
  ASSUME TypeOK, TypeOK', ServerInv, ServerInv', CallbackInv, NEW c \in Conn, HandleCallback(c)
  PROVE  CallbackInv'
<1> USE DEF At, Event, Handled, AssertThat, tableVars, historyVars
<1>0. Working /\ pc \in {"callbacks", "admit"} /\ dispatch # <<>> /\ Head(dispatch).conn = c
  BY DEF HandleCallback, NoneCallback, ConnectingTooLate, Accept, Incoming, Refuse, Admit,
         ConnectedTooLate, Welcome, UnknownPeer, ClientLeft, AttemptFailed, Working, Processing,
         TypeOK
<1>1. /\ Head(dispatch) \in Waiting /\ Known(Head(dispatch)) /\ Legal(Head(dispatch))
      /\ Tail(dispatch) # dispatch
  BY <1>0, HeadKnown
<1>2. PlaceSound /\ EventsKnown /\ AllCared /\ Processing
  BY <1>0 DEF CallbackInv, Working
<1>3. \A d \in Conn : d # c => ~Admitting(d)
  BY <1>0 DEF Admitting
<1>4. CASE NoneCallback(c) \/ ConnectedTooLate(c) \/ Welcome(c)
  <2> USE DEF NoneCallback, ConnectedTooLate, Welcome
  <2>1. /\ UNCHANGED <<conn, callbacks, clients, fate>> /\ fault' = "none" /\ pc = "callbacks"
        /\ dispatch' = Tail(dispatch) /\ pc' = "callbacks"
        /\ Head(dispatch).new \notin {"Connecting", "Ended"}
    BY <1>4 DEF socketVars
  <2>2. PlaceSound' /\ HandlesOneOrNone
    BY <1>0, <2>1 DEF PlaceSound, HandlesOneOrNone
  <2> QED
    BY <1>2, <2>1, <2>2, QuietStep
<1>5. CASE ConnectingTooLate(c)
  <2> USE DEF ConnectingTooLate, Incoming
  <2>1. c \notin clients
    BY <1>1, <1>5 DEF Known
  <2>2. /\ CloseConnection(c) /\ fault' = "none" /\ pc = "callbacks" /\ UNCHANGED <<clients, fate>>
        /\ dispatch' = Tail(dispatch) /\ pc' = "callbacks"
    BY <1>5, <2>1
  <2>3. PlaceSound' /\ HandlesOneOrNone
    BY <1>0, <2>2 DEF PlaceSound, HandlesOneOrNone
  <2>4. \A e \in Waiting : e.conn = c /\ e.new = "Ended" /\ e.old = "Connected" =>
          fate'[c] \in {"kicked", "refused"}
    BY <1>0, <1>2, <2>1, <2>2 DEF EventsKnown, Known, Admitting
  <2> QED
    BY <1>0, <1>2, <1>3, <2>1, <2>2, <2>3, <2>4, CloseStep
<1>6. CASE Accept(c)
  <2> USE DEF Accept, Incoming
  <2> DEFINE new == [conn |-> c, old |-> conn[c], new |-> "Connected"]
  <2>1. /\ conn[c] = "Connecting" /\ Transition(c, "Connected")
        /\ UNCHANGED <<clients, fate, dispatch>>
        /\ pc = "callbacks" /\ pc' = "admit" /\ Head(dispatch).new = "Connecting"
        /\ c \notin clients /\ fault' = "none"
    BY <1>1, <1>6 DEF AcceptConnection, Known
  <2>2. Legal(new)
    BY <2>1 DEF Legal, Rank
  <2>3. LibraryStep /\ conn' = [conn EXCEPT ![c] = "Connected"] /\ \A f : Posted(f) => f = new
    <3>1. "Connected" \in ConnState
      BY DEF ConnState, Alive
    <3> QED
      BY <2>1, <2>2, <3>1, MoveLibrary
  <2>4. /\ QueueInv'
        /\ \A e \in Waiting : ~Gone(e) => e \in Waiting'
        /\ \A e \in Waiting' : (e \in Waiting /\ ~Gone(e)) \/ Posted(e)
    BY <2>1, <2>3, QueueStep DEF CallbackInv, HandlesOneOrNone
  <2>5. PlaceSound'
    BY <2>1 DEF PlaceSound
  <2>6. Admitting(c)' /\ \A d \in Conn : Admitting(d) => Admitting(d)'
    BY <1>0, <1>3, <2>1 DEF Admitting
  <2>7. ASSUME NEW e \in Waiting' PROVE Known(e)'
    <3>1. CASE e = new
      BY <3>1 DEF Known
    <3>2. CASE e \in Waiting
      <4>1. Known(e) /\ e.conn \in Conn
        BY <1>0, <1>2, <3>2, WaitingTypes DEF EventsKnown, Callback
      <4> QED
        BY <2>1, <2>6, <4>1 DEF Known
    <3> QED
      BY <2>3, <2>4, <3>1, <3>2
  <2>8. ASSUME NEW d \in Conn PROVE Cared(d)'
    <3>1. \A e \in Waiting : e \in Waiting'
      BY <2>1, <2>4 DEF Gone
    <3>2. CASE d # c
      <4>1. conn'[d] = conn[d]
        BY <2>3, <3>2 DEF TypeOK, SocketsTypeOK
      <4> QED
        BY <1>2, <2>1, <2>6, <3>1, <4>1, CaredKept DEF AllCared
    <3>3. CASE d = c
      <4>1. conn'[c] = "Connected"
        BY <2>3 DEF TypeOK, SocketsTypeOK
      <4> QED
        BY <2>6, <3>3, <4>1 DEF Cared
    <3> QED
      BY <3>2, <3>3
  <2>9. EventsKnown' /\ AllCared'
    BY <2>7, <2>8 DEF EventsKnown, AllCared
  <2> QED
    BY <2>1, <2>4, <2>5, <2>9 DEF CallbackInv, OnlyClosedPeersFault
<1>7. CASE Refuse(c)
  <2>1. /\ CloseConnection(c) /\ fault' = "none" /\ pc = "admit" /\ UNCHANGED clients
        /\ dispatch' = Tail(dispatch) /\ pc' = "callbacks" /\ fate' = [fate EXCEPT ![c] = "refused"]
    BY <1>7 DEF Refuse
  <2>2. c \notin clients
    BY <1>7, <1>0 DEF Refuse, ServerInv, AdmittedIsNew
  <2>3. PlaceSound' /\ HandlesOneOrNone
    BY <1>0, <2>1 DEF PlaceSound, HandlesOneOrNone
  <2>4. fate'[c] = "refused" /\ \A d \in Conn : d # c => fate'[d] = fate[d]
    BY <2>1 DEF TypeOK
  <2> QED
    BY <1>0, <1>2, <1>3, <2>1, <2>2, <2>3, <2>4, CloseStep
<1>8. CASE Admit(c)
  <2>1. /\ UNCHANGED <<conn, callbacks, fate>> /\ fault' = "none" /\ pc = "admit"
        /\ clients' = clients \cup {c} /\ dispatch' = Tail(dispatch) /\ pc' = "callbacks"
    BY <1>8 DEF Admit, socketVars
  <2>2. HandlesOneOrNone /\ LibraryStep /\ PlaceSound' /\ Head(dispatch).new = "Connecting"
    BY <1>0, <1>2, <2>1 DEF HandlesOneOrNone, LibraryStep, PlaceSound
  <2>3. /\ QueueInv'
        /\ \A e \in Waiting : ~Gone(e) => e \in Waiting'
        /\ \A e \in Waiting' : e \in Waiting /\ ~Gone(e)
    BY <2>1, <2>2, QueueStep, NothingPosted DEF CallbackInv
  <2>4. \A e : Gone(e) <=> e.conn = c /\ e.new = "Connecting"
    BY <1>0, <1>1, <2>1, <2>2 DEF Gone, SameChange
  <2>5. ASSUME NEW e \in Waiting' PROVE Known(e)'
    <3>1. Known(e) /\ e.conn \in Conn
      BY <1>0, <1>2, <2>3, WaitingTypes DEF EventsKnown, Callback
    <3>2. e.new = "Connecting" => e.conn # c
      BY <2>3, <2>4
    <3> QED
      BY <1>3, <2>1, <3>1, <3>2 DEF Known
  <2>6. Cared(c)'
    <3>1. conn[c] \in {"Connected", "Ended"} /\ c \in pollGroup
      BY <1>0, <2>1 DEF ServerInv, GroupWasUp, GroupIsClients, Processing, Admitting, Working
    <3>2. CASE conn[c] = "Connected"
      BY <2>1, <3>2 DEF Cared
    <3>3. CASE conn[c] = "Ended"
      <4>1. PICK old \in {"Connecting", "Connected"} : Change(c, old, "Ended") \in Waiting
        BY <1>2, <3>3 DEF AllCared, Cared
      <4>2. old = "Connected"
        <5>1. ASSUME old = "Connecting" PROVE FALSE
          <6>1. EndedEarly(Change(c, old, "Ended")) /\ Change(c, old, "Ended").conn = c
            BY <5>1 DEF EndedEarly, Change
          <6> QED
            BY <3>1, <4>1, <6>1, WaitingSound DEF NeverUp
        <5> QED
          BY <4>1, <5>1
      <4>3. Change(c, "Connected", "Ended") \in Waiting'
        BY <2>3, <2>4, <4>1, <4>2 DEF Change
      <4>4. conn'[c] = "Ended" /\ Change(c, "Connected", "Ended")' = Change(c, "Connected", "Ended")
        BY <2>1, <3>3 DEF Change
      <4> QED
        BY <4>3, <4>4 DEF Cared, Change
    <3> QED
      BY <3>1, <3>2, <3>3
  <2>7. ASSUME NEW d \in Conn, d # c PROVE Cared(d)'
    <3>1. \A e \in Waiting : e.conn = d => e \in Waiting'
      BY <2>3, <2>4, <2>7
    <3> QED
      BY <1>2, <1>3, <2>1, <2>7, <3>1, CaredKept DEF AllCared
  <2>8. EventsKnown' /\ AllCared'
    BY <2>5, <2>6, <2>7 DEF EventsKnown, AllCared
  <2> QED
    BY <2>1, <2>2, <2>3, <2>8 DEF CallbackInv, OnlyClosedPeersFault
<1>9. CASE UnknownPeer(c)
  <2>1. /\ UNCHANGED <<socketVars, pc, dispatch, clients, fate>> /\ fault' = "peer"
        /\ pc = "callbacks" /\ Head(dispatch).old = "Connected" /\ Head(dispatch).new = "Ended"
        /\ c \notin clients
    BY <1>9 DEF UnknownPeer
  <2>2. fate[c] \in {"kicked", "refused"}
    BY <1>0, <1>1, <2>1 DEF Known, Admitting
  <2>3. OnlyClosedPeersFault'
    BY <1>0, <2>1, <2>2 DEF OnlyClosedPeersFault
  <2>4. QueueInv' /\ PlaceSound'
    BY <1>2, <2>1 DEF CallbackInv, QueueInv, Past, Once, Apart, PlaceSound, socketVars
  <2>5. EventsKnown' /\ AllCared'
    BY <2>1 DEF EventsKnown, AllCared, Working, Processing
  <2> QED
    BY <2>3, <2>4, <2>5 DEF CallbackInv
<1>10. CASE ClientLeft(c)
  <2>1. /\ CloseConnection(c) /\ fault' = fault /\ pc = "callbacks" /\ c \in clients
        /\ clients' = clients \ {c} /\ Head(dispatch).new = "Ended"
        /\ dispatch' = Tail(dispatch) /\ pc' = "callbacks" /\ fate' = [fate EXCEPT ![c] = "left"]
    BY <1>10 DEF ClientLeft, Erase
  <2>2. PlaceSound' /\ HandlesOneOrNone /\ fault' = "none"
    BY <1>0, <2>1 DEF PlaceSound, HandlesOneOrNone, Working, Processing
  <2>3. \A d \in Conn : d # c => fate'[d] = fate[d]
    BY <2>1 DEF TypeOK
  <2>4. \A e : e.conn = c /\ e.new = "Ended" => Gone(e)
    BY <1>0, <1>1, <2>1 DEF Gone, SameChange
  <2> QED
    BY <1>0, <1>2, <1>3, <2>1, <2>2, <2>3, <2>4, CloseStep
<1>11. CASE AttemptFailed(c)
  <2>1. /\ CloseConnection(c) /\ pc = "callbacks" /\ UNCHANGED <<clients, fate>>
        /\ Head(dispatch).new = "Ended" /\ Head(dispatch).old # "Connected"
        /\ fault' = IF Head(dispatch).old = "Connecting" THEN "none" ELSE "oldstate"
        /\ dispatch' = Tail(dispatch) /\ pc' = "callbacks"
    BY <1>11 DEF AttemptFailed
  <2>2. PlaceSound' /\ HandlesOneOrNone /\ fault' = "none"
    BY <1>0, <1>1, <2>1 DEF PlaceSound, HandlesOneOrNone, Legal
  <2>3. c \notin pollGroup
    BY <1>0, <1>1, <2>1, WaitingSound DEF EndedEarly, NeverUp
  <2>4. c \notin clients
    BY <1>0, <2>3 DEF ServerInv, GroupIsClients, Working
  <2>5. \A e : e.conn = c /\ e.new = "Ended" => Gone(e)
    BY <1>0, <1>1, <2>1 DEF Gone, SameChange
  <2> QED
    BY <1>0, <1>2, <1>3, <2>1, <2>2, <2>4, <2>5, CloseStep
<1> QED
  BY <1>4, <1>5, <1>6, <1>7, <1>8, <1>9, <1>10, <1>11 DEF HandleCallback

\* What the peers do keeps the invariant: an attempt and a loss post the callback
\* that EveryConnectionIsHandled asks for.
LEMMA PeerActs ==
  ASSUME TypeOK, TypeOK', ServerInv, ServerInv', CallbackInv, PeerStep
  PROVE  CallbackInv'
<1>0. /\ Processing /\ fault = "none"
      /\ UNCHANGED <<pc, dispatch, clients, fate, fault>>
  BY DEF PeerStep, Running, Processing, tableVars, historyVars
<1>1. PlaceSound' /\ HandlesOneOrNone
  BY <1>0 DEF CallbackInv, PlaceSound, HandlesOneOrNone
<1>2. ASSUME UNCHANGED <<conn, callbacks>> PROVE CallbackInv'
  BY <1>0, <1>1, <1>2, QuietStep
<1>3. ASSUME NEW c \in Conn, NEW new \in ConnState, Transition(c, new),
             NEW e, e = Change(c, conn[c], new), Legal(e),
             \/ conn[c] = "Fresh" /\ new = "Connecting"
             \/ conn[c] \in {"Connecting", "Connected"} /\ new = "Ended"
      PROVE  CallbackInv'
  <2>1. /\ LibraryStep /\ conn' = [conn EXCEPT ![c] = new]
        /\ e \in EventsOf(callbacks') /\ \A f : Posted(f) => f = e
    BY <1>3, MoveLibrary DEF Change
  <2>2. /\ QueueInv'
        /\ \A f \in Waiting : f \in Waiting'
        /\ \A f \in Waiting' : f \in Waiting \/ f = e
    BY <1>0, <1>1, <2>1, QueueStep DEF CallbackInv, Gone
  <2>3. e \in Waiting'
    BY <2>1 DEF Waiting, EventsOf
  <2>4. \A d \in Conn : Admitting(d)' <=> Admitting(d)
    BY <1>0 DEF Admitting
  <2>5. ASSUME Working' PROVE Known(e)'
    <3>1. e.conn = c /\ e.old = conn[c] /\ e.new = new
      BY <1>3 DEF Change
    <3>2. conn[c] = "Fresh" => c \notin clients
      BY <1>0, <2>5 DEF ServerInv, GroupIsClients, GroupWasUp, Working, Processing
    <3>3. conn[c] = "Connected" => c \in clients \/ Admitting(c)
      BY <1>0 DEF CallbackInv, AllCared, Cared
    <3> QED
      BY <1>0, <1>3, <2>4, <3>1, <3>2, <3>3 DEF Known
  <2>6. ASSUME Working', NEW f \in Waiting' PROVE Known(f)'
    <3>1. CASE f \in Waiting
      <4>1. Known(f) /\ f.conn \in Conn
        BY <1>0, <2>6, <3>1, WaitingTypes
           DEF CallbackInv, EventsKnown, Working, Processing, Callback
      <4> QED
        BY <1>0, <2>4, <4>1 DEF Known
    <3> QED
      BY <2>2, <2>5, <2>6, <3>1
  <2>7. ASSUME NEW d \in Conn, d # c PROVE Cared(d)'
    <3>1. conn'[d] = conn[d] /\ Cared(d)
      BY <1>0, <2>1, <2>7 DEF CallbackInv, AllCared, TypeOK, SocketsTypeOK
    <3> QED
      BY <1>0, <2>2, <2>4, <3>1, CaredKept
  <2>8. Cared(c)'
    <3>1. conn'[c] = new
      BY <2>1 DEF TypeOK, SocketsTypeOK
    <3>2. CASE conn[c] = "Fresh" /\ new = "Connecting"
      <4>1. c \in clients => pc = "closing"
        BY <1>0, <3>2 DEF ServerInv, GroupIsClients, GroupWasUp, Processing
      <4> QED
        BY <1>0, <1>3, <2>3, <3>1, <3>2, <4>1 DEF Cared, Change
    <3>3. CASE conn[c] \in {"Connecting", "Connected"} /\ new = "Ended"
      <4>1. c \in clients /\ pc # "closing" => conn[c] = "Connected"
        BY <1>0, <3>3 DEF CallbackInv, AllCared, Cared
      <4>2. Change(c, conn[c], "Ended") \in Waiting'
        BY <1>3, <2>3, <3>3
      <4>3. \E old \in {"Connecting", "Connected"} : Change(c, old, "Ended")' \in Waiting'
        BY <3>3, <4>2 DEF Change
      <4> QED
        BY <1>0, <3>1, <3>3, <4>1, <4>2, <4>3 DEF Cared, Change
    <3> QED
      BY <1>3, <3>2, <3>3
  <2>9. EventsKnown' /\ AllCared'
    BY <2>6, <2>7, <2>8 DEF EventsKnown, AllCared
  <2> QED
    BY <1>0, <1>1, <2>2, <2>9 DEF CallbackInv, OnlyClosedPeersFault
<1>4. ASSUME NEW c \in Conn, PeerConnects(c) PROVE CallbackInv'
  <2>1. /\ conn[c] = "Fresh" /\ Transition(c, "Connecting")
        /\ Legal(Change(c, conn[c], "Connecting")) /\ "Connecting" \in ConnState
    BY <1>4 DEF PeerConnects, ConnectByIPAddress, Legal, Rank, Change, ConnState, Alive
  <2> QED
    BY <1>3, <2>1
<1>5. ASSUME NEW c \in Conn, ConnectionEnds(c) PROVE CallbackInv'
  <2>1. /\ conn[c] \in {"Connecting", "Connected"} /\ Transition(c, "Ended")
        /\ Legal(Change(c, conn[c], "Ended")) /\ "Ended" \in ConnState
    BY <1>5 DEF ConnectionEnds, Legal, Rank, Change, ConnState, Alive
  <2> QED
    BY <1>3, <2>1
<1> QED
  BY <1>2, <1>4, <1>5 DEF PeerStep, PeerSends

\* CallbackInv is inductive, given types and ServerInv.
LEMMA CallbackInvariant == Spec => []CallbackInv
<1> USE DEF At, tableVars, historyVars
<1>1. Init => CallbackInv
  <2> SUFFICES ASSUME Init
               PROVE  CallbackInv
    OBVIOUS
  <2>1. Waiting = {} /\ QueueInv
    BY DEF Init, SocketsInit, Waiting, EventsOf, QueueInv, Past, Once, Apart
  <2>2. EventsKnown /\ AllCared /\ PlaceSound
    BY <2>1 DEF Init, SocketsInit, EventsKnown, AllCared, Cared, PlaceSound
  <2> QED
    BY <2>1, <2>2 DEF Init, CallbackInv, OnlyClosedPeersFault
<1>2. TypeOK /\ TypeOK' /\ ServerInv /\ ServerInv' /\ CallbackInv /\ [Next]_vars => CallbackInv'
  <2> SUFFICES ASSUME TypeOK, TypeOK', ServerInv, ServerInv', CallbackInv, [Next]_vars
               PROVE  CallbackInv'
    OBVIOUS
  <2>1. CASE UNCHANGED vars
    <3>1. QueueInv' /\ Waiting' = Waiting /\ PlaceSound' /\ OnlyClosedPeersFault'
      BY <2>1 DEF vars, socketVars, CallbackInv, QueueInv, Past, Once, Apart, Waiting, EventsOf,
                  PlaceSound, OnlyClosedPeersFault
    <3>2. EventsKnown' /\ AllCared'
      BY <2>1, <3>1 DEF vars, socketVars, CallbackInv, EventsKnown, AllCared, Known, Cared, Change,
                        Working, Processing, Admitting
    <3> QED
      BY <3>1, <3>2 DEF CallbackInv
  <2>2. CASE LoopTest \/ CallbacksDone \/ CommandsDone \/ ConsoleEnds \/ QuitCommand
             \/ \E max \in MaxChoices : SetMaxClients(max)
    <3>1. /\ UNCHANGED <<conn, callbacks, clients, fate, dispatch>> /\ fault' = "none" /\ Processing
          /\ pc' = pc \/ (pc # "admit" /\ pc' # "admit" /\ pc # "closing")
          /\ pc' \in {"callbacks", "admit"} => pc' = pc
          /\ pc = "callbacks" /\ pc' # pc => dispatch = <<>>
      BY <2>2 DEF LoopTest, CallbacksDone, CommandsDone, ConsoleEnds, QuitCommand, SetMaxClients,
                  InCommand, Running, Processing, socketVars
    <3>2. PlaceSound' /\ HandlesOneOrNone
      BY <3>1 DEF CallbackInv, PlaceSound, HandlesOneOrNone
    <3> QED
      BY <3>1, <3>2, QuietStep
  <2>3. CASE RunCallbacks
    <3>1. /\ pc = "poll" /\ pc' = "callbacks" /\ dispatch' = callbacks /\ callbacks' = <<>>
          /\ UNCHANGED <<conn, clients, fate>> /\ fault = "none" /\ fault' = "none"
      BY <2>3 DEF RunCallbacks
    <3>2. QueueInv' /\ Waiting' = Waiting
      BY <3>1, SwapStep DEF CallbackInv, PlaceSound
    <3>3. EventsKnown' /\ AllCared'
      BY <3>1, <3>2 DEF CallbackInv, EventsKnown, AllCared, Known, Cared, Change, Working,
                        Processing, Admitting
    <3> QED
      BY <3>1, <3>2, <3>3 DEF CallbackInv, PlaceSound, OnlyClosedPeersFault
  <2>4. ASSUME NEW c \in Conn, Kick(c), At("commands") PROVE CallbackInv'
    <3>1. /\ CloseConnection(c) /\ clients' = clients \ {c} /\ UNCHANGED <<pc, dispatch, fault>>
          /\ fate' = [fate EXCEPT ![c] = "kicked"] /\ fault' = "none" /\ pc = "commands"
      BY <2>4 DEF Kick, Erase
    <3>2. fate'[c] = "kicked" /\ \A d \in Conn : d # c => fate'[d] = fate[d]
      BY <3>1 DEF TypeOK
    <3>3. PlaceSound' /\ HandlesOneOrNone /\ Processing /\ \A d \in Conn : ~Admitting(d)
      BY <3>1 DEF CallbackInv, PlaceSound, HandlesOneOrNone, Processing, Admitting
    <3> QED
      BY <3>1, <3>2, <3>3, CloseStep
  <2>5. ASSUME NEW c \in Conn, NEW n \in Requested, Rename(c, n) PROVE CallbackInv'
    <3>1. /\ UNCHANGED <<conn, callbacks, clients, fate, dispatch, pc>> /\ fault' = "none"
          /\ Processing
      BY <2>5 DEF Rename, InCommand, Processing, socketVars
    <3>2. PlaceSound' /\ HandlesOneOrNone
      BY <3>1 DEF CallbackInv, PlaceSound, HandlesOneOrNone
    <3> QED
      BY <3>1, <3>2, QuietStep
  <2>6. CASE HandleCommand
    BY <2>2, <2>4, <2>5, <2>6 DEF HandleCommand, KickById, KickByName, InCommand, TypeOK
  <2>7. ASSUME NEW c \in Conn, HandleMessage(c) PROVE CallbackInv'
    <3>1. Receive(c)
      BY <2>7 DEF HandleMessage, NicknamePacket, WhosOnlinePacket, OtherPacket
    <3>2. c \in clients
      BY <3>1 DEF Receive, ServerInv, GroupIsClients, Processing, Admitting
    <3>3. /\ UNCHANGED <<conn, callbacks, clients, fate, dispatch, pc>> /\ fault' = "none"
          /\ Processing
      BY <3>1, <3>2 DEF Receive, AssertThat, Processing
    <3>4. PlaceSound' /\ HandlesOneOrNone
      BY <3>3 DEF CallbackInv, PlaceSound, HandlesOneOrNone
    <3> QED
      BY <3>3, <3>4, QuietStep
  <2>8. ASSUME NEW c \in Conn, HandleCallback(c) PROVE CallbackInv'
    BY <2>8, CallbackStep
  <2>9. ASSUME NEW c \in Conn, ShutdownClose(c) PROVE CallbackInv'
    <3>1. /\ CloseConnection(c) /\ UNCHANGED <<pc, dispatch, clients, fate>> /\ pc = "closing"
          /\ fault' = "none" /\ fault = "none"
      BY <2>9 DEF ShutdownClose
    <3>2. /\ PlaceSound' /\ HandlesOneOrNone /\ Processing /\ ~Working'
          /\ \A d \in Conn : ~Admitting(d)
      BY <3>1 DEF CallbackInv, PlaceSound, HandlesOneOrNone, Processing, Working, Admitting
    <3> QED
      BY <3>1, <3>2, CloseStep
  <2>10. CASE ShutdownFinish
    <3>1. /\ dispatch' = <<>> /\ callbacks' = <<>> /\ pc' = "done" /\ fault' = "none"
      BY <2>10 DEF ShutdownFinish, KillSockets, CallbackInv, PlaceSound
    <3>2. QueueInv'
      BY <3>1 DEF QueueInv, Past, Once, Apart
    <3> QED
      BY <3>1, <3>2 DEF CallbackInv, PlaceSound, EventsKnown, AllCared, Working, Processing,
                        OnlyClosedPeersFault
  <2>11. CASE PeerStep
    BY <2>11, PeerActs
  <2> QED
    BY <2>1, <2>2, <2>3, <2>6, <2>7, <2>8, <2>9, <2>10, <2>11 DEF Next, NetworkThread, Stopped
<1> QED
  BY <1>1, <1>2, TypeCorrect, ServerInvariant, PTL DEF Spec

-----------------------------------------------------------------------------
(* What follows.                                                           *)

\* While the network thread is at work no connection is forgotten, whatever peers,
\* operator and application do and in whatever order: each has its place in the
\* table or a callback on its way that will accept it, admit it or close it.
THEOREM HandledCorrect == Spec => []EveryConnectionIsHandled
<1>1. CallbackInv => EveryConnectionIsHandled
  BY PendingIsWaiting DEF CallbackInv, AllCared, Cared, EveryConnectionIsHandled
<1> QED
  BY <1>1, CallbackInvariant, PTL

\* Of the asserts of OnSteamNetConnectionStatusChanged and PollNetworkMessages only the
\* one about a lost peer can fail, and only for a connection that was kicked or refused.
THEOREM FaultCorrect == Spec => []OnlyClosedPeersFault
<1>1. CallbackInv => OnlyClosedPeersFault
  BY DEF CallbackInv
<1> QED
  BY <1>1, CallbackInvariant, PTL

\* As long as the operator kicks nobody, connectedCallback and disconnectedCallback have
\* told the application, while the network thread works, of exactly the clients in the
\* table.  (With a kick they have not: the run ServerKick.)
THEOREM AppCorrect ==
  ASSUME ~Kicks
  PROVE  Spec => []AppKnowsClients
<1> USE DEF At, tableVars, historyVars
<1>1. Init => AppKnowsClients
  BY DEF Init, AppKnowsClients
<1>2. TypeOK /\ AppKnowsClients /\ [Next]_vars => AppKnowsClients'
  <2> SUFFICES ASSUME TypeOK, AppKnowsClients, [Next]_vars
               PROVE  AppKnowsClients'
    OBVIOUS
  <2>1. ASSUME UNCHANGED <<appClients, clients>>, pc' # "done" => pc # "done"
        PROVE  AppKnowsClients'
    BY <2>1 DEF AppKnowsClients
  <2>3. CASE HandleCommand
    <3>1. ASSUME NEW c \in Conn, NEW n \in Requested, Rename(c, n) PROVE AppKnowsClients'
      BY <2>1, <3>1 DEF Rename, InCommand
    <3>2. CASE QuitCommand
      BY <2>1, <3>2 DEF QuitCommand, InCommand
    <3> QED
      BY <2>3, <3>1, <3>2 DEF HandleCommand, KickById, KickByName
  <2>4. ASSUME NEW c \in Conn, HandleMessage(c) PROVE AppKnowsClients'
    BY <2>1, <2>4 DEF HandleMessage, NicknamePacket, WhosOnlinePacket, OtherPacket, Receive
  <2>5. ASSUME NEW c \in Conn, HandleCallback(c) PROVE AppKnowsClients'
    <3> USE DEF Handled, Event
    <3>1. CASE Refuse(c)
      BY <2>1, <3>1 DEF Refuse
    <3>2. CASE Admit(c)
      BY <3>2 DEF Admit, AppKnowsClients
    <3>3. CASE ClientLeft(c)
      BY <3>3 DEF ClientLeft, Erase, AppKnowsClients, TypeOK
    <3>4. CASE NoneCallback(c) \/ ConnectingTooLate(c) \/ Accept(c) \/ ConnectedTooLate(c)
               \/ Welcome(c) \/ UnknownPeer(c) \/ AttemptFailed(c)
      BY <2>1, <3>4 DEF NoneCallback, ConnectingTooLate, Accept, Incoming, ConnectedTooLate,
                        Welcome, UnknownPeer, AttemptFailed
    <3> QED
      BY <2>5, <3>1, <3>2, <3>3, <3>4 DEF HandleCallback
  <2>6. CASE ShutdownFinish
    BY <2>6 DEF ShutdownFinish, AppKnowsClients
  <2>7. CASE \/ UNCHANGED vars \/ LoopTest \/ RunCallbacks \/ CallbacksDone \/ CommandsDone
             \/ PeerStep \/ ConsoleEnds \/ \E c \in Conn : ShutdownClose(c)
             \/ \E max \in MaxChoices : SetMaxClients(max)
    BY <2>1, <2>7 DEF vars, LoopTest, RunCallbacks, CallbacksDone, CommandsDone, PeerStep,
                      ConsoleEnds, ShutdownClose, SetMaxClients, Running
  <2> QED
    BY <2>3, <2>4, <2>5, <2>6, <2>7 DEF Next, NetworkThread, Stopped
<1> QED
  BY <1>1, <1>2, TypeCorrect, PTL DEF Spec

-----------------------------------------------------------------------------
(* What clients are told of each other.                                    *)

\* Nobody has been told anything, or welcomed, before it enters the table.
NewAreUntold ==
  Processing =>
    \A c \in Conn : c \notin clients /\ fate[c] = "none" => told[c] = {} /\ c \notin welcomed

\* While the network thread works, two clients that have both been welcomed know of each
\* other, and nobody believes online whom the server does not have, but for users it
\* kicked; this of the clients that no text has missed, as one too long for its packet
\* does, since they last got a list.  How long the texts are does not matter.
THEOREM RosterCorrect == Spec => []RosterAccurate
<1> DEFINE RosterInv == RosterAccurate /\ NewAreUntold
<1> USE DEF At, tableVars, historyVars
<1>1. Init => RosterInv
  BY DEF Init, RosterAccurate, NewAreUntold
<1>2. TypeOK /\ ServerInv /\ FateInv /\ RosterInv /\ [Next]_vars => RosterInv'
  <2> SUFFICES ASSUME TypeOK, ServerInv, FateInv, RosterInv, [Next]_vars
               PROVE  RosterInv'
    OBVIOUS
  <2>1. ASSUME UNCHANGED <<clients, fate, told, missed, welcomed>>,
               pc' # "done" => pc # "done",
               Processing' => Processing
        PROVE  RosterInv'
    BY <2>1 DEF RosterAccurate, NewAreUntold
  <2>2. ASSUME NEW c \in clients, Kick(c), Processing PROVE RosterInv'
    BY <2>2 DEF Kick, Erase, RosterAccurate, NewAreUntold, Processing, TypeOK
  <2>3. CASE HandleCommand
    <3>1. ASSUME NEW c \in Conn, NEW n \in Requested, Rename(c, n) PROVE RosterInv'
      BY <2>1, <3>1 DEF Rename, InCommand, Processing
    <3>2. CASE QuitCommand
      BY <2>1, <3>2 DEF QuitCommand, InCommand, Processing
    <3> QED
      BY <2>2, <2>3, <3>1, <3>2 DEF HandleCommand, KickById, KickByName, InCommand, Processing
  <2>4. ASSUME NEW c \in Conn, HandleMessage(c) PROVE RosterInv'
    <3>1. /\ UNCHANGED <<clients, fate, welcomed, pc>> /\ Processing
          /\ c \notin clients => ~Processing'
      BY <2>4 DEF HandleMessage, NicknamePacket, WhosOnlinePacket, OtherPacket, Receive,
                  AssertThat, Processing
    <3>2. \/ UNCHANGED <<told, missed>>
          \/ \E R \in SUBSET {c} :
               /\ told' = [d \in Conn |-> IF d \in R THEN clients ELSE told[d]]
               /\ missed' = missed \ R
      <4>1. ListReaches(c) \in SUBSET {c}
        BY DEF ListReaches
      <4> QED
        BY <2>4, <4>1 DEF HandleMessage, NicknamePacket, WhosOnlinePacket, OtherPacket
    <3>3. CASE UNCHANGED <<told, missed>>
      BY <3>1, <3>3 DEF RosterAccurate, NewAreUntold, Processing
    <3>4. ASSUME NEW R \in SUBSET {c},
                 told' = [d \in Conn |-> IF d \in R THEN clients ELSE told[d]],
                 missed' = missed \ R
          PROVE  RosterInv'
      BY <3>1, <3>4 DEF RosterAccurate, NewAreUntold, Processing, TypeOK
    <3> QED
      BY <3>2, <3>3, <3>4
  <2>5. ASSUME NEW c \in Conn, HandleCallback(c) PROVE RosterInv'
    <3> USE DEF Handled, Event
    <3>1. CASE Refuse(c)
      <4>1. /\ fate[c] = "none" /\ fate' = [fate EXCEPT ![c] = "refused"] /\ Processing
            /\ UNCHANGED <<clients, told, missed, welcomed>>
        BY <3>1 DEF Refuse, FateInv, AdmittedHasNoFate, Processing
      <4> QED
        BY <4>1 DEF RosterAccurate, NewAreUntold, Processing, TypeOK
    <3>2. CASE Admit(c)
      <4>1. /\ clients' = clients \cup {c} /\ UNCHANGED <<fate, told, missed, welcomed>>
            /\ Processing /\ c \notin clients /\ fate[c] = "none"
        BY <3>2 DEF Admit, FateInv, AdmittedHasNoFate, ServerInv, AdmittedIsNew, Processing
      <4> QED
        BY <4>1 DEF RosterAccurate, NewAreUntold, Processing
    <3>3. CASE Welcome(c)
      <4> DEFINE L == ListReaches(c)
                 R == LineReaches(c, HasConnected)
      <4>1. /\ c \in clients /\ UNCHANGED <<clients, fate>> /\ Processing
            /\ welcomed' = welcomed \cup {c}
            /\ told' = [d \in Conn |-> IF d \in L THEN clients
                                       ELSE IF d \in R THEN told[d] \cup {c}
                                       ELSE told[d]]
            /\ missed' = (missed \cup (clients \ R)) \ L
        BY <3>3 DEF Welcome, Processing
      <4>2. L \subseteq {c} /\ R \subseteq clients \ {c}
        BY DEF ListReaches, LineReaches
      <4> HIDE DEF L, R
      <4>3. NewAreUntold'
        BY <4>1, <4>2 DEF NewAreUntold, Processing, TypeOK
      <4>4. ASSUME NEW d \in clients, d \notin missed'
            PROVE  /\ d \in welcomed' => clients \cap welcomed' \subseteq told'[d]
                   /\ told'[d] \subseteq clients \cup {e \in Conn : fate[e] = "kicked"}
        <5>1. CASE d \in L
          BY <4>1, <5>1 DEF TypeOK
        <5>2. CASE d \notin L
          <6>1. d \in R /\ d # c /\ d \notin missed /\ told'[d] = told[d] \cup {c}
            BY <4>1, <4>2, <4>4, <5>2 DEF TypeOK
          <6> QED
            BY <4>1, <6>1 DEF RosterAccurate, Processing
        <5> QED
          BY <5>1, <5>2
      <4> QED
        BY <4>1, <4>3, <4>4 DEF RosterAccurate
    <3>4. CASE ClientLeft(c)
      <4> DEFINE R == LineReaches(c, HasLeft)
      <4>1. /\ c \in clients /\ clients' = clients \ {c} /\ welcomed' = welcomed /\ Processing
            /\ fate' = [fate EXCEPT ![c] = "left"]
            /\ told' = [d \in Conn |-> IF d \in R THEN told[d] \ {c} ELSE told[d]]
            /\ missed' = missed \cup ((clients \ {c}) \ R)
        BY <3>4 DEF ClientLeft, Erase, Processing
      <4>2. R \subseteq clients \ {c}
        BY DEF LineReaches
      <4> HIDE DEF R
      <4> QED
        BY <4>1, <4>2 DEF RosterAccurate, NewAreUntold, Processing, TypeOK
    <3>5. CASE NoneCallback(c) \/ ConnectingTooLate(c) \/ Accept(c) \/ ConnectedTooLate(c)
               \/ UnknownPeer(c) \/ AttemptFailed(c)
      BY <2>1, <3>5 DEF NoneCallback, ConnectingTooLate, Accept, Incoming, ConnectedTooLate,
                        UnknownPeer, AttemptFailed, Processing
    <3> QED
      BY <2>5, <3>1, <3>2, <3>3, <3>4, <3>5 DEF HandleCallback
  <2>6. CASE ShutdownFinish
    BY <2>6 DEF ShutdownFinish, RosterAccurate, NewAreUntold, Processing
  <2>7. CASE \/ UNCHANGED vars \/ LoopTest \/ RunCallbacks \/ CallbacksDone \/ CommandsDone
             \/ PeerStep \/ ConsoleEnds \/ \E c \in Conn : ShutdownClose(c)
             \/ \E max \in MaxChoices : SetMaxClients(max)
    BY <2>1, <2>7 DEF vars, LoopTest, RunCallbacks, CallbacksDone, CommandsDone, PeerStep,
                      ConsoleEnds, ShutdownClose, SetMaxClients, Running, Processing
  <2> QED
    BY <2>3, <2>4, <2>5, <2>6, <2>7 DEF Next, NetworkThread, Stopped
<1> QED
  BY <1>1, <1>2, TypeCorrect, ServerInvariant, FateInvariant, PTL DEF Spec

\* However nicknames came to be shared (the default ones may be, and the application may
\* give one twice), no step in which a packet is read makes two more clients share one.
THEOREM NicknamesCorrect == Spec => PacketsKeepNicksApart
<1>1. TypeOK /\ [Next]_vars => (pc = "poll" => SameNick' \subseteq SameNick)
  <2> SUFFICES ASSUME TypeOK, [Next]_vars, pc = "poll"
               PROVE  SameNick' \subseteq SameNick
    OBVIOUS
  <2>1. ASSUME UNCHANGED <<clients, nick>> PROVE SameNick' \subseteq SameNick
    BY <2>1 DEF SameNick
  <2>2. ASSUME NEW c \in Conn, HandleMessage(c) PROVE SameNick' \subseteq SameNick
    <3>1. clients' = clients
      BY <2>2 DEF HandleMessage, NicknamePacket, WhosOnlinePacket, OtherPacket, Receive
    <3>2. CASE nick' = nick
      BY <2>1, <3>1, <3>2
    <3>3. CASE nick' # nick
      <4>1. NicknamePacket(c)
        BY <2>2, <3>3 DEF HandleMessage, WhosOnlinePacket, OtherPacket
      <4>2. PICK n : nick' = [nick EXCEPT ![c] = n] /\ ~NicknameExists(n)
        BY <3>3, <4>1 DEF NicknamePacket
      <4>3. ASSUME NEW d \in clients, NEW e \in clients, d # e, nick'[d] = nick'[e]
            PROVE  nick[d] = nick[e]
        BY <4>2, <4>3 DEF NicknameExists, TypeOK
      <4> QED
        BY <3>1, <4>3 DEF SameNick
    <3> QED
      BY <3>2, <3>3
  <2>3. CASE UNCHANGED vars \/ RunCallbacks \/ PeerStep \/ ConsoleEnds
             \/ \E max \in MaxChoices : SetMaxClients(max)
    BY <2>1, <2>3 DEF vars, RunCallbacks, PeerStep, ConsoleEnds, SetMaxClients, tableVars
  <2> QED
    BY <2>2, <2>3 DEF Next, NetworkThread, HandleCommand, HandleCallback, LoopTest,
       CallbacksDone, CommandsDone, ShutdownClose, ShutdownFinish, Stopped, KickById,
       KickByName, Rename, QuitCommand, InCommand, At, NoneCallback, ConnectingTooLate,
       Incoming, Accept, Refuse, Admit, ConnectedTooLate, Welcome, UnknownPeer, ClientLeft,
       AttemptFailed, Event
<1>2. TypeOK /\ [Next]_vars => [pc = "poll" => SameNick' \subseteq SameNick]_vars
  BY <1>1
<1> QED
  BY <1>2, TypeCorrect, PTL DEF Spec, PacketsKeepNicksApart
=============================================================================

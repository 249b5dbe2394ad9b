-------------------------- MODULE BCNetClientProofs --------------------------
(***************************************************************************)
(* Proofs about BCNetClient, for any number of handles, both builds, with  *)
(* and without a call of Stop.                                             *)
(*                                                                         *)
(* The only live handle is m_connection because CloseConnection and the    *)
(* handler of a lost connection close it before they forget it, and        *)
(* /connect is obeyed only while m_networking is FALSE, which until the    *)
(* client is told to quit means that no handle is alive, or the one that   *)
(* is will be closed before the next command (HandleSound).                *)
(* Once it is told to, that holds for a thread that still polls or runs    *)
(* callbacks, which is where the assert looks at handles.                  *)
(*                                                                         *)
(* What the application was told last is the status, up to the callbacks   *)
(* that the two threads have still to make (ReportInv), until one of Stop  *)
(* has crossed one of a Connected handler.                                 *)
(*                                                                         *)
(* How far the status is behind the connection (StatusCorrect, for a build *)
(* with asserts) needs the queued callbacks too: each reports what a       *)
(* handle has become, a handle is reported up at most once, and what a     *)
(* handle has become and the status does not say yet is reported (LagInv). *)
(* From the same invariants follows that such a build is a session of the  *)
(* abstract module Session (SessionImplemented): a callback changes the    *)
(* status only when it is about m_connection.                              *)
(***************************************************************************)
EXTENDS BCNetClient, TLAPS

-----------------------------------------------------------------------------
(* Type correctness.                                                       *)

\* A transition of the library keeps the types of its state.
LEMMA TransitionTypes ==
  ASSUME SocketsTypeOK(Message), NEW c \in Conn, NEW new \in ConnState, Transition(c, new)
  PROVE  conn' \in [Conn -> ConnState] /\ callbacks' \in Seq(Callback)
<1>1. [conn |-> c, old |-> conn[c], new |-> new] \in Callback
  BY DEF SocketsTypeOK, Callback
<1> QED
  BY <1>1 DEF Transition, SocketsTypeOK

\* Closing m_connection keeps them, whatever it holds.
LEMMA CloseTypes ==
  ASSUME SocketsTypeOK(Message), CloseHandle
  PROVE  SocketsTypeOK(Message)'
<1>1. CASE Valid(connection)
  <2>1. /\ connection \in Conn /\ Transition(connection, "None")
        /\ pollGroup' = pollGroup \ {connection}
        /\ inbox' = [inbox EXCEPT ![connection] = <<>>]
    BY <1>1 DEF CloseHandle, Valid, CloseConnection
  <2>2. conn' \in [Conn -> ConnState] /\ callbacks' \in Seq(Callback)
    BY <2>1, TransitionTypes DEF ConnState
  <2>3. <<>> \in Seq(Message)
    OBVIOUS
  <2> QED
    BY <2>1, <2>2, <2>3 DEF SocketsTypeOK
<1>2. CASE ~Valid(connection)
  BY <1>2 DEF CloseHandle, SocketsTypeOK, socketVars
<1> QED
  BY <1>1, <1>2

\* A new handle, and what the peer and the network do, keep them.
LEMMA PeerTypes ==
  ASSUME SocketsTypeOK(Message), NEW c \in Conn,
         \/ ConnectByIPAddress(c) \/ PeerAccepts(c) \/ ConnectionEnds(c)
         \/ \E m \in Message : PeerSends(c, m, MaxInbox)
  PROVE  SocketsTypeOK(Message)'
<1>1. CASE ConnectByIPAddress(c) \/ PeerAccepts(c) \/ ConnectionEnds(c)
  <2>1. (\E new \in Alive : Transition(c, new)) /\ UNCHANGED <<pollGroup, inbox>>
    BY <1>1 DEF ConnectByIPAddress, PeerAccepts, ConnectionEnds, Alive
  <2>2. conn' \in [Conn -> ConnState] /\ callbacks' \in Seq(Callback)
    BY <2>1, TransitionTypes DEF ConnState
  <2> QED
    BY <2>1, <2>2 DEF SocketsTypeOK
<1>2. ASSUME NEW m \in Message, PeerSends(c, m, MaxInbox)
      PROVE  SocketsTypeOK(Message)'
  <2>1. Append(inbox[c], m) \in Seq(Message)
    BY DEF SocketsTypeOK
  <2> QED
    BY <1>2, <2>1 DEF PeerSends, SocketsTypeOK
<1> QED
  BY <1>1, <1>2

\* Every variable of the client keeps its type.
THEOREM ClientTypeCorrect == Spec => []TypeOK
<1>1. Init => TypeOK
  <2> SUFFICES ASSUME Init
               PROVE  TypeOK
    OBVIOUS
  <2>1. SocketsTypeOK(Message)
    BY DEF Init, SocketsInit, SocketsTypeOK, ConnState
  <2>2. networking \in BOOLEAN /\ shouldQuit \in BOOLEAN /\ crossed \in BOOLEAN
    BY Zenon DEF Init
  <2>3. /\ todo \in [Thread -> {"nothing", "reset", "close", "forget", "report", "down", "up"}]
        /\ dispatch \in Seq(Callback)
    BY DEF Init
  <2> QED
    BY <2>1, <2>2, <2>3 DEF Init, TypeOK, Status
<1>2. TypeOK /\ [Next]_vars => TypeOK'
  <2> SUFFICES ASSUME TypeOK, [Next]_vars
               PROVE  TypeOK'
    OBVIOUS
  <2> USE DEF At, Goto, shared
  <2>0. ASSUME UNCHANGED socketVars PROVE SocketsTypeOK(Message)'
    BY <2>0 DEF TypeOK, SocketsTypeOK, socketVars
  <2>1. CASE UNCHANGED vars
    BY <2>0, <2>1 DEF vars, TypeOK
  <2>2. ASSUME NEW t \in Thread, ClosingStep(t) PROVE TypeOK'
    <3> USE DEF Doing
    <3>1. CASE CloseSocket(t)
      BY <3>1, CloseTypes DEF CloseSocket, TypeOK
    <3>2. CASE ReportClosed(t)
      <4>1. crossed' \in BOOLEAN
        BY <3>2, Zenon DEF ReportClosed, TypeOK
      <4> QED
        BY <2>0, <3>2, <4>1 DEF ReportClosed, TypeOK, Status
    <3>3. CASE ResetNetworking(t) \/ ForgetHandle(t) \/ DisconnectedCallback(t)
      BY <2>0, <3>3 DEF ResetNetworking, ForgetHandle, DisconnectedCallback, TypeOK
    <3> QED
      BY <2>2, <3>1, <3>2, <3>3 DEF ClosingStep
  <2>3. CASE ConnectedCallback
    BY <2>0, <2>3 DEF ConnectedCallback, Doing, TypeOK, Thread
  <2>4. CASE LoopTest \/ Turn \/ TakeCommand \/ OtherCommand \/ CallbacksDone \/ CommandsDone
    BY <2>0, <2>4 DEF LoopTest, Turn, TakeCommand, OtherCommand, CallbacksDone, CommandsDone, TypeOK
  <2>5. CASE LoopExit \/ Disconnect
    BY <2>0, <2>5 DEF LoopExit, Disconnect, EnterClose, TypeOK, Thread
  <2>6. CASE ReceiveMessage
    <3>1. Tail(inbox[connection]) \in Seq(Message)
      BY <2>6 DEF ReceiveMessage, Valid, TypeOK, SocketsTypeOK
    <3>2. SocketsTypeOK(Message)'
      BY <2>6, <3>1 DEF ReceiveMessage, TypeOK, SocketsTypeOK
    <3> QED
      BY <2>6, <3>2 DEF ReceiveMessage, TypeOK
  <2>7. CASE RunCallbacks
    <3>1. SocketsTypeOK(Message)'
      BY <2>7 DEF RunCallbacks, TypeOK, SocketsTypeOK
    <3>2. networking' \in BOOLEAN
      BY <2>7, Zenon DEF RunCallbacks, TypeOK, Valid
    <3> QED
      BY <2>7, <3>1, <3>2 DEF RunCallbacks, TypeOK, SocketsTypeOK
  <2>8. ASSUME NEW c \in Conn, HandleCallback(c) PROVE TypeOK'
    <3> USE DEF Event
    <3>1. CASE AssertFails(c)
      BY <2>0, <3>1 DEF AssertFails, TypeOK
    <3>2. ASSUME NEW new, NEW next \in {"nothing", "close", "up"}, Handling(c, new, next)
          PROVE  /\ SocketsTypeOK(Message)' /\ dispatch' \in Seq(Callback)
                 /\ todo' \in [Thread -> {"nothing", "reset", "close", "forget", "report",
                                         "down", "up"}]
                 /\ pc' = "callbacks" /\ UNCHANGED <<app, shouldQuit, connection, fault, reported>>
      <4>1. dispatch # <<>> /\ dispatch' = Tail(dispatch) /\ dispatch \in Seq(Callback)
        BY <3>2 DEF Handling, TypeOK
      <4>2. dispatch' \in Seq(Callback)
        BY <4>1
      <4> QED
        BY <2>0, <3>2, <4>2 DEF Handling, TypeOK, Thread
    <3>3. CASE NothingToHandle(c)
      BY <3>2, <3>3 DEF NothingToHandle, TypeOK
    <3>4. CASE HandleEnded(c)
      BY <3>2, <3>4 DEF HandleEnded, TypeOK, Status
    <3>5. CASE HandleConnected(c)
      <4>1. crossed' \in BOOLEAN
        BY <3>5, Zenon DEF HandleConnected, TypeOK
      <4> QED
        BY <3>2, <3>5, <4>1 DEF HandleConnected, TypeOK, Status
    <3> QED
      BY <2>8, <3>1, <3>3, <3>4, <3>5 DEF HandleCallback
  <2>9. CASE ConnectBadAddress \/ Connect \/ ConnectGivesNone
    BY <2>0, <2>9 DEF ConnectBadAddress, Connect, ConnectGivesNone, TypeOK, Status
  <2>10. CASE ConnectSucceeds \/ ConnectFails \/ Rearm \/ Disarm
    BY <2>0, <2>10 DEF ConnectSucceeds, ConnectFails, Rearm, Disarm, TypeOK, Status
  <2>11. ASSUME NEW c \in Conn, ConnectGivesHandle(c) PROVE TypeOK'
    BY <2>11, PeerTypes DEF ConnectGivesHandle, TypeOK
  <2>12. CASE QuitCommand \/ ConsoleEnds \/ StopCall
    BY <2>0, <2>12 DEF QuitCommand, ConsoleEnds, StopCall, TypeOK
  <2>13. CASE Kill
    <3>1. SocketsTypeOK(Message)'
      BY <2>13 DEF Kill, KillSockets, TypeOK, SocketsTypeOK, ConnState
    <3> QED
      BY <2>13, <3>1 DEF Kill, TypeOK
  <2>14. CASE StopClose \/ StopJoin
    BY <2>0, <2>14 DEF StopClose, StopJoin, EnterClose, TypeOK, Thread
  <2>15. ASSUME NEW c \in Conn, Resolve(c) PROVE TypeOK'
    BY <2>15, PeerTypes DEF Resolve, TypeOK
  <2>16. CASE PeerStep
    BY <2>16, PeerTypes DEF PeerStep, TypeOK
  <2>17. CASE Stopped
    BY <2>1, <2>17 DEF Stopped
  <2> QED
    BY <2>1, <2>2, <2>3, <2>4, <2>5, <2>6, <2>7, <2>8, <2>9, <2>10, <2>11, <2>12, <2>13, <2>14,
       <2>15, <2>16, <2>17 DEF Next, NetworkThread, StopThread, Thread
<1> QED
  BY <1>1, <1>2, PTL DEF Spec

-----------------------------------------------------------------------------
(* The invariant.                                                          *)

NoneAlive == \A c \in Conn : conn[c] \notin Alive
OneAlive == \A c \in Conn : conn[c] \in Alive => c = connection

\* Where the two threads may be in CloseConnection and in the handlers.
PlacesSound ==
  /\ todo["app"] # "nothing" => app = "join"
  /\ app # "running" => shouldQuit
  /\ todo["net"] # "nothing" => pc \in {"callbacks", "commands", "kill"}
  /\ pc \in {"disarm", "kill", "done"} => shouldQuit

\* The part of the loop in which callbacks are handled, once it was begun.
Polling == pc \in {"turn", "poll", "callbacks"}

\* Which handles may be alive.
HandleSound ==
  /\ ~shouldQuit \/ Polling => OneAlive
  /\ ~shouldQuit \/ Polling => \A t \in Thread : todo[t] = "forget" => NoneAlive
  /\ ~shouldQuit /\ ~networking => todo["net"] = "close" \/ NoneAlive
  /\ ~shouldQuit /\ pc = "connect" => NoneAlive /\ networking

\* A callback is about a handle that was given out.
NeverFresh(q) == \A n \in 1..Len(q) : conn[q[n].conn] # "Fresh"
QueuesSound == NeverFresh(dispatch) /\ NeverFresh(callbacks)

ClientInv == PlacesSound /\ HandleSound /\ QueuesSound /\ OnlyStaleCallbacksFault

-----------------------------------------------------------------------------
(* What the library does to the invariant.                                 *)

\* What a step that moves connections may do: a handle once given out stays so,
\* and at most one callback, of such a handle, is posted.
Posts ==
  /\ \A c \in Conn : conn[c] # "Fresh" => conn'[c] # "Fresh"
  /\ \/ callbacks' = callbacks
     \/ \E e \in Callback : callbacks' = Append(callbacks, e) /\ conn'[e.conn] # "Fresh"

\* A transition to any state but Fresh is such a step.
LEMMA TransitionPosts ==
  ASSUME SocketsTypeOK(Message), NEW c \in Conn, NEW new \in ConnState \ {"Fresh"},
         Transition(c, new)
  PROVE  Posts /\ conn' = [conn EXCEPT ![c] = new]
<1> DEFINE e == [conn |-> c, old |-> conn[c], new |-> new]
<1>1. e \in Callback /\ e.conn = c
  BY DEF SocketsTypeOK, Callback
<1>2. conn'[c] # "Fresh" /\ callbacks' = Append(callbacks, e)
  BY DEF Transition, SocketsTypeOK
<1>3. \A d \in Conn : conn[d] # "Fresh" => conn'[d] # "Fresh"
  BY <1>2 DEF Transition, SocketsTypeOK
<1> QED
  BY <1>1, <1>2, <1>3 DEF Posts, Transition

\* A call of CloseConnection on m_connection leaves no handle alive, if no other was.
LEMMA CloseEffect ==
  ASSUME SocketsTypeOK(Message), CloseHandle
  PROVE  Posts /\ (OneAlive => NoneAlive')
<1>1. CASE Valid(connection)
  <2>1. connection \in Conn /\ Transition(connection, "None")
    BY <1>1 DEF CloseHandle, Valid, CloseConnection
  <2>2. Posts /\ conn' = [conn EXCEPT ![connection] = "None"]
    BY <2>1, TransitionPosts DEF ConnState
  <2> QED
    BY <2>1, <2>2 DEF SocketsTypeOK, OneAlive, NoneAlive, Alive
<1>2. CASE ~Valid(connection)
  <2>1. UNCHANGED socketVars
    BY <1>2 DEF CloseHandle
  <2> QED
    BY <1>2, <2>1 DEF socketVars, Posts, OneAlive, NoneAlive, Valid
<1> QED
  BY <1>1, <1>2

\* What the network does to a connection neither gives out a handle nor closes one.
LEMMA PeerEffect ==
  ASSUME SocketsTypeOK(Message), NEW c \in Conn,
         PeerAccepts(c) \/ ConnectionEnds(c)
  PROVE  Posts /\ \A d \in Conn : conn'[d] \in Alive <=> conn[d] \in Alive
<1>1. conn[c] \in Alive /\ \E new \in Alive : Transition(c, new)
  BY DEF PeerAccepts, ConnectionEnds, Alive
<1>2. PICK new \in Alive : Transition(c, new)
  BY <1>1
<1>3. Posts /\ conn' = [conn EXCEPT ![c] = new]
  BY <1>2, TransitionPosts DEF ConnState, Alive
<1> QED
  BY <1>1, <1>3 DEF SocketsTypeOK

\* The queues stay sound when a step posts a callback and handles one or none.
LEMMA QueuesKept ==
  ASSUME TypeOK, QueuesSound, Posts,
         dispatch' = dispatch \/ (dispatch # <<>> /\ dispatch' = Tail(dispatch))
  PROVE  QueuesSound'
<1>1. ASSUME NEW q \in Seq(Callback), NEW n \in 1..Len(q) PROVE q[n].conn \in Conn
  <2>1. q[n] \in Callback
    OBVIOUS
  <2> QED
    BY <2>1 DEF Callback
<1>2. dispatch \in Seq(Callback) /\ callbacks \in Seq(Callback)
  BY DEF TypeOK, SocketsTypeOK
<1>3. \A n \in 1..Len(dispatch) : conn'[dispatch[n].conn] # "Fresh"
  BY <1>1, <1>2 DEF QueuesSound, NeverFresh, Posts
<1>4. \A n \in 1..Len(callbacks) : conn'[callbacks[n].conn] # "Fresh"
  BY <1>1, <1>2 DEF QueuesSound, NeverFresh, Posts
<1>5. \A n \in 1..Len(dispatch') : conn'[dispatch'[n].conn] # "Fresh"
  <2>1. CASE dispatch # <<>> /\ dispatch' = Tail(dispatch)
    <3>1. \A n \in 1..Len(dispatch') : n + 1 \in 1..Len(dispatch)
                                       /\ dispatch'[n] = dispatch[n + 1]
      BY <1>2, <2>1
    <3> QED
      BY <1>3, <3>1
  <2> QED
    BY <1>3, <2>1
<1>6. \A n \in 1..Len(callbacks') : conn'[callbacks'[n].conn] # "Fresh"
  <2>1. ASSUME NEW e \in Callback, callbacks' = Append(callbacks, e), conn'[e.conn] # "Fresh"
        PROVE  \A n \in 1..Len(callbacks') : conn'[callbacks'[n].conn] # "Fresh"
    BY <1>2, <1>4, <2>1
  <2> QED
    BY <1>4, <2>1 DEF Posts
<1> QED
  BY <1>5, <1>6 DEF QueuesSound, NeverFresh

-----------------------------------------------------------------------------
(* The invariant is inductive.                                             *)

\* Before the first step no handle was given out.
LEMMA ClientInvInit == Init => ClientInv
BY DEF Init, SocketsInit, ClientInv, PlacesSound, HandleSound, QueuesSound, NeverFresh,
       OneAlive, NoneAlive, Alive, OnlyStaleCallbacksFault, Thread

\* Every step keeps the invariant; the assert, and a CloseConnection that finds the
\* library killed, are the two that set `fault`.
LEMMA ClientInvNext == TypeOK /\ ClientInv /\ [Next]_vars => ClientInv'
<1> SUFFICES ASSUME TypeOK, ClientInv, [Next]_vars
             PROVE  ClientInv'
  OBVIOUS
<1> USE DEF At, Goto, Doing, shared
<1>a. SocketsTypeOK(Message) /\ dispatch \in Seq(Callback) /\ callbacks \in Seq(Callback)
      /\ todo \in [Thread -> {"nothing", "reset", "close", "forget", "report", "down", "up"}]
      /\ PlacesSound /\ HandleSound /\ QueuesSound
      /\ (pc # "callbacks" => dispatch = <<>>)
  BY DEF TypeOK, SocketsTypeOK, ClientInv
<1>b. ASSUME UNCHANGED <<conn, callbacks>> PROVE Posts
  BY <1>b DEF Posts
<1>c. ASSUME UNCHANGED <<conn, connection>>
      PROVE  (OneAlive' <=> OneAlive) /\ (NoneAlive' <=> NoneAlive)
  BY <1>c DEF OneAlive, NoneAlive
<1>d. ASSUME fault' = "none" PROVE OnlyStaleCallbacksFault'
  BY <1>d DEF OnlyStaleCallbacksFault
<1>e. ASSUME UNCHANGED socketVars, UNCHANGED <<dispatch, connection>>
      PROVE  QueuesSound' /\ (OneAlive' <=> OneAlive) /\ (NoneAlive' <=> NoneAlive)
  BY <1>a, <1>b, <1>c, <1>e, QueuesKept DEF socketVars
<1>f. NoneAlive => OneAlive
  BY DEF NoneAlive, OneAlive
<1>g. NoneAlive' => OneAlive'
  BY DEF NoneAlive, OneAlive
<1>1. CASE UNCHANGED vars
  <2>1. QueuesSound' /\ (OneAlive' <=> OneAlive) /\ (NoneAlive' <=> NoneAlive)
    BY <1>1, <1>e DEF vars
  <2>2. PlacesSound' /\ HandleSound'
    BY <1>1, <1>a, <2>1 DEF vars, PlacesSound, HandleSound, Polling
  <2>3. OnlyStaleCallbacksFault'
    BY <1>1 DEF vars, socketVars, ClientInv, OnlyStaleCallbacksFault
  <2> QED
    BY <2>1, <2>2, <2>3 DEF ClientInv
<1>2. ASSUME NEW t \in Thread, CloseSocket(t) PROVE ClientInv'
  <2>1. Posts /\ (OneAlive => NoneAlive')
    BY <1>2, <1>a, CloseEffect DEF CloseSocket
  <2>2. QueuesSound'
    BY <1>2, <1>a, <2>1, QueuesKept DEF CloseSocket
  <2>3. PlacesSound'
    BY <1>2, <1>a DEF CloseSocket, PlacesSound, Thread
  <2>4. HandleSound'
    BY <1>2, <1>a, <1>f, <1>g, <2>1 DEF CloseSocket, HandleSound, PlacesSound, Polling, Thread
  <2>5. OnlyStaleCallbacksFault'
    <3>1. fault' = "killed" => t = "app" /\ app = "join" /\ todo["net"] = "nothing"
      BY <1>2, <1>a DEF CloseSocket, PlacesSound, Thread
    <3>2. t = "app" /\ todo["net"] = "nothing" => todo' = [net |-> "nothing", app |-> "forget"]
      BY <1>2, <1>a DEF CloseSocket, Thread
    <3> QED
      BY <1>2, <3>1, <3>2 DEF CloseSocket, OnlyStaleCallbacksFault
  <2> QED
    BY <2>2, <2>3, <2>4, <2>5 DEF ClientInv
<1>3. ASSUME NEW t \in Thread, ResetNetworking(t) \/ ReportClosed(t) \/ DisconnectedCallback(t)
      PROVE  ClientInv'
  <2> USE <1>3 DEF ResetNetworking, ReportClosed, DisconnectedCallback
  <2>1. QueuesSound' /\ (OneAlive' <=> OneAlive) /\ (NoneAlive' <=> NoneAlive)
    BY <1>e
  <2>2. UNCHANGED <<pc, app, shouldQuit, fault>> /\ fault = "none" /\ todo[t] # "nothing"
    OBVIOUS
  <2>3. /\ \A u \in Thread : todo'[u] = "forget" => todo[u] = "forget"
        /\ \A u \in Thread : todo'[u] # "nothing" => todo[u] # "nothing"
    BY <1>a
  <2>4. PlacesSound'
    BY <1>a, <2>2, <2>3 DEF PlacesSound, Thread
  <2>5. HandleSound'
    <3>1. CASE ResetNetworking(t)
      BY <3>1, <1>a, <2>1, <2>2, <2>3 DEF HandleSound, PlacesSound, Polling, Thread
    <3>2. CASE ReportClosed(t) \/ DisconnectedCallback(t)
      <4>1. networking' = networking /\ todo[t] # "close"
        BY <3>2
      <4>2. todo["net"] = "close" => todo'["net"] = "close"
        BY <3>2, <1>a, <4>1 DEF Thread
      <4> QED
        BY <1>a, <2>1, <2>2, <2>3, <4>1, <4>2 DEF HandleSound, Polling
    <3> QED
      BY <3>1, <3>2
  <2> QED
    BY <1>d, <2>1, <2>2, <2>4, <2>5 DEF ClientInv
<1>4. ASSUME NEW t \in Thread, ForgetHandle(t) PROVE ClientInv'
  <2> USE <1>4 DEF ForgetHandle
  <2>1. Posts /\ (NoneAlive <=> NoneAlive')
    BY <1>b DEF socketVars, NoneAlive
  <2>2. QueuesSound'
    BY <1>a, <2>1, QueuesKept
  <2>3. PlacesSound'
    BY <1>a DEF PlacesSound, Thread
  <2>4. ~shouldQuit \/ Polling => NoneAlive
    BY <1>a DEF HandleSound
  <2>5. HandleSound'
    BY <1>a, <1>g, <2>1, <2>4 DEF HandleSound, PlacesSound, Polling, Thread
  <2> QED
    BY <1>d, <2>2, <2>3, <2>5 DEF ClientInv
<1>5. CASE ConnectedCallback
  <2> USE <1>5 DEF ConnectedCallback
  <2>1. QueuesSound' /\ (OneAlive' <=> OneAlive) /\ (NoneAlive' <=> NoneAlive)
    BY <1>e
  <2>2. PlacesSound' /\ HandleSound'
    BY <1>a, <2>1 DEF PlacesSound, HandleSound, Polling, Thread
  <2> QED
    BY <1>d, <2>1, <2>2 DEF ClientInv
<1>6. CASE LoopTest \/ Turn \/ CallbacksDone \/ TakeCommand \/ OtherCommand \/ CommandsDone
  <2> USE <1>6 DEF LoopTest, Turn, CallbacksDone, TakeCommand, OtherCommand, CommandsDone
  <2>1. QueuesSound' /\ (OneAlive' <=> OneAlive) /\ (NoneAlive' <=> NoneAlive)
    BY <1>e
  <2>2. PlacesSound' /\ HandleSound'
    BY <1>a, <2>1 DEF PlacesSound, HandleSound, Polling
  <2> QED
    BY <1>d, <2>1, <2>2 DEF ClientInv
<1>7. CASE LoopExit \/ Disconnect \/ QuitCommand
  <2> USE <1>7 DEF LoopExit, Disconnect, QuitCommand, EnterClose
  <2>1. QueuesSound' /\ (OneAlive' <=> OneAlive) /\ (NoneAlive' <=> NoneAlive)
    BY <1>e
  <2>2. PlacesSound' /\ HandleSound'
    BY <1>a, <2>1 DEF PlacesSound, HandleSound, Polling, Thread
  <2> QED
    BY <1>d, <2>1, <2>2 DEF ClientInv
<1>8. CASE ReceiveMessage
  <2>1. QueuesSound' /\ (OneAlive' <=> OneAlive) /\ (NoneAlive' <=> NoneAlive)
    BY <1>8, <1>a, <1>b, <1>c, QueuesKept DEF ReceiveMessage
  <2>2. PlacesSound' /\ HandleSound'
    BY <1>8, <1>a, <2>1 DEF ReceiveMessage, PlacesSound, HandleSound, Polling
  <2> QED
    BY <1>8, <1>d, <2>1, <2>2 DEF ClientInv, ReceiveMessage
<1>9. CASE RunCallbacks
  <2>1. (OneAlive' <=> OneAlive) /\ (NoneAlive' <=> NoneAlive)
    BY <1>9, <1>c DEF RunCallbacks
  <2>2. QueuesSound'
    BY <1>9, <1>a DEF RunCallbacks, QueuesSound, NeverFresh
  <2>3. ~networking' => ~networking \/ ~Valid(connection)
    BY <1>9, Zenon DEF RunCallbacks
  <2>4. OneAlive /\ ~Valid(connection) => NoneAlive
    BY DEF OneAlive, NoneAlive, Valid
  <2>5. PlacesSound' /\ HandleSound'
    BY <1>9, <1>a, <2>1, <2>3, <2>4 DEF RunCallbacks, PlacesSound, HandleSound, Polling
  <2> QED
    BY <1>9, <1>d, <2>2, <2>5 DEF ClientInv, RunCallbacks
<1>10. ASSUME NEW c \in Conn, HandleCallback(c) PROVE ClientInv'
  <2> USE DEF Event
  <2>1. CASE AssertFails(c)
    <3>1. QueuesSound' /\ (OneAlive' <=> OneAlive) /\ (NoneAlive' <=> NoneAlive)
      BY <2>1, <1>e DEF AssertFails
    <3>2. PlacesSound' /\ HandleSound'
      BY <2>1, <1>a, <3>1 DEF AssertFails, PlacesSound, HandleSound, Polling
    <3>3. 1 \in 1..Len(dispatch) /\ dispatch[1].conn = c
      BY <2>1, <1>a DEF AssertFails
    <3>4. conn[c] # "Fresh" /\ conn[c] \notin Alive
      BY <2>1, <1>a, <3>3
         DEF AssertFails, Expected, HandleSound, Polling, OneAlive, QueuesSound, NeverFresh
    <3>5. conn[c] = "None"
      BY <1>a, <3>4 DEF SocketsTypeOK, ConnState
    <3>6. OnlyStaleCallbacksFault'
      BY <2>1, <3>5 DEF AssertFails, OnlyStaleCallbacksFault, socketVars
    <3> QED
      BY <3>1, <3>2, <3>6 DEF ClientInv
  <2>2. ASSUME NEW new, NEW next \in {"nothing", "close", "up"}, Handling(c, new, next),
               networking' = networking \/ next = "close"
        PROVE  ClientInv'
    <3> USE <2>2 DEF Handling
    <3>1. QueuesSound' /\ (OneAlive' <=> OneAlive) /\ (NoneAlive' <=> NoneAlive)
      BY <1>a, <1>b, <1>c, QueuesKept DEF socketVars
    <3>2. PlacesSound'
      BY <1>a DEF PlacesSound, Thread
    <3>3. HandleSound'
      BY <1>a, <3>1 DEF HandleSound, Polling, Thread
    <3> QED
      BY <1>d, <3>1, <3>2, <3>3 DEF ClientInv
  <2>3. CASE NothingToHandle(c)
    BY <2>2, <2>3 DEF NothingToHandle
  <2>4. CASE HandleEnded(c)
    BY <2>2, <2>4 DEF HandleEnded
  <2>5. CASE HandleConnected(c)
    BY <2>2, <2>5 DEF HandleConnected
  <2> QED
    BY <1>10, <2>1, <2>3, <2>4, <2>5 DEF HandleCallback
<1>11. CASE ConnectBadAddress \/ Connect \/ ConnectSucceeds \/ ConnectFails \/ Rearm \/ Disarm
  <2> USE <1>11 DEF ConnectBadAddress, Connect, ConnectSucceeds, ConnectFails, Rearm, Disarm
  <2>1. QueuesSound' /\ (OneAlive' <=> OneAlive) /\ (NoneAlive' <=> NoneAlive)
    BY <1>e
  <2>2. OneAlive /\ connection = Invalid => NoneAlive
    BY HandleAssumption DEF OneAlive, NoneAlive
  <2>3. PlacesSound' /\ HandleSound'
    BY <1>a, <2>1, <2>2 DEF PlacesSound, HandleSound, Polling
  <2> QED
    BY <1>d, <2>1, <2>3 DEF ClientInv
<1>12. ASSUME NEW c \in Conn, ConnectGivesHandle(c) PROVE ClientInv'
  <2>1. conn[c] = "Fresh" /\ Transition(c, "Connecting")
    BY <1>12 DEF ConnectGivesHandle, ConnectByIPAddress
  <2>2. Posts /\ conn' = [conn EXCEPT ![c] = "Connecting"]
    BY <2>1, <1>a, TransitionPosts DEF ConnState, Alive
  <2>3. QueuesSound'
    BY <1>12, <1>a, <2>2, QueuesKept DEF ConnectGivesHandle
  <2>4. NoneAlive => OneAlive'
    BY <1>12, <1>a, <2>2 DEF ConnectGivesHandle, NoneAlive, OneAlive, SocketsTypeOK
  <2>5. PlacesSound'
    BY <1>12, <1>a DEF ConnectGivesHandle, PlacesSound
  <2>6. ~shouldQuit => todo["app"] = "nothing"
    BY <1>a DEF PlacesSound
  <2>7. HandleSound'
    BY <1>12, <1>a, <2>4, <2>6 DEF ConnectGivesHandle, HandleSound, Polling, Thread
  <2> QED
    BY <1>12, <1>d, <2>3, <2>5, <2>7 DEF ClientInv, ConnectGivesHandle
<1>13. CASE ConnectGivesNone
  <2>1. Posts /\ (NoneAlive => NoneAlive' /\ OneAlive')
    BY <1>13, <1>b DEF ConnectGivesNone, socketVars, NoneAlive, OneAlive
  <2>2. QueuesSound'
    BY <1>13, <1>a, <2>1, QueuesKept DEF ConnectGivesNone
  <2>3. PlacesSound' /\ HandleSound'
    BY <1>13, <1>a, <2>1 DEF ConnectGivesNone, PlacesSound, HandleSound, Polling
  <2> QED
    BY <1>13, <1>d, <2>2, <2>3 DEF ClientInv, ConnectGivesNone
<1>14. CASE Kill
  <2>1. QueuesSound'
    BY <1>14, <1>a DEF Kill, KillSockets, QueuesSound, NeverFresh
  <2>2. PlacesSound' /\ HandleSound'
    BY <1>14, <1>a DEF Kill, PlacesSound, HandleSound, Polling
  <2> QED
    BY <1>14, <1>d, <2>1, <2>2 DEF ClientInv, Kill
<1>15. CASE StopCall \/ StopClose \/ StopJoin \/ ConsoleEnds
  <2> USE <1>15 DEF StopCall, StopClose, StopJoin, ConsoleEnds
  <2>1. QueuesSound' /\ (OneAlive' <=> OneAlive) /\ (NoneAlive' <=> NoneAlive)
    BY <1>e
  <2>2. PlacesSound' /\ HandleSound'
    BY <1>a, <2>1 DEF EnterClose, PlacesSound, HandleSound, Polling, Thread
  <2> QED
    BY <1>d, <2>1, <2>2 DEF ClientInv
<1>16. CASE (\E c \in Conn : Resolve(c)) \/ PeerStep
  <2>1. Posts /\ \A d \in Conn : conn'[d] \in Alive <=> conn[d] \in Alive
    <3>1. ASSUME NEW c \in Conn, PeerAccepts(c) \/ ConnectionEnds(c)
          PROVE  Posts /\ \A d \in Conn : conn'[d] \in Alive <=> conn[d] \in Alive
      BY <3>1, <1>a, PeerEffect
    <3>2. ASSUME NEW c \in Conn, NEW m \in Message, PeerSends(c, m, MaxInbox)
          PROVE  Posts /\ \A d \in Conn : conn'[d] \in Alive <=> conn[d] \in Alive
      BY <3>2, <1>b DEF PeerSends
    <3> QED
      BY <1>16, <3>1, <3>2 DEF Resolve, PeerStep
  <2>2. UNCHANGED <<pc, app, todo, dispatch, shared, fault>> /\ fault = "none"
    BY <1>16 DEF Resolve, PeerStep
  <2>3. QueuesSound'
    BY <2>1, <2>2, <1>a, QueuesKept
  <2>4. (OneAlive' <=> OneAlive) /\ (NoneAlive' <=> NoneAlive)
    BY <2>1, <2>2 DEF OneAlive, NoneAlive
  <2>5. PlacesSound' /\ HandleSound'
    BY <1>a, <2>2, <2>4 DEF PlacesSound, HandleSound, Polling
  <2> QED
    BY <1>d, <2>2, <2>3, <2>5 DEF ClientInv
<1>17. CASE Stopped
  BY <1>1, <1>17 DEF Stopped
<1> QED
  BY <1>1, <1>2, <1>3, <1>4, <1>5, <1>6, <1>7, <1>8, <1>9, <1>10, <1>11, <1>12, <1>13, <1>14,
     <1>15, <1>16, <1>17 DEF Next, NetworkThread, StopThread, ClosingStep, Thread

-----------------------------------------------------------------------------
(* What follows from the invariant.                                        *)

\* However /connect, /disconnect, the loss of a connection and a refused attempt
\* follow each other, no handle but m_connection stays alive.
THEOREM HandleCorrect == Spec => []OnlyHandleAlive
<1>1. ClientInv => OnlyHandleAlive
  BY DEF ClientInv, HandleSound, OneAlive, OnlyHandleAlive, Settled
<1> QED
  BY <1>1, ClientTypeCorrect, ClientInvInit, ClientInvNext, PTL DEF Spec

\* The assert on the handle of a callback fails only when the callback outlived its
\* handle, and a killed library is called only by a Stop the network thread overtook.
THEOREM StaleCorrect == Spec => []OnlyStaleCallbacksFault
<1>1. ClientInv => OnlyStaleCallbacksFault
  BY DEF ClientInv
<1> QED
  BY <1>1, ClientTypeCorrect, ClientInvInit, ClientInvNext, PTL DEF Spec

-----------------------------------------------------------------------------
(* What the application has been told.                                     *)

\* As long as the callbacks of the two threads have not crossed, the status is CONNECTED
\* exactly when the application was told so last or is about to be; what was not told yet
\* is on its way in one of the threads.
ReportInv ==
  /\ pc \in {"connect", "dialed"} => status # "CONNECTED"
  /\ ~crossed =>
       /\ \A t \in Thread : todo[t] = "down" => status # "CONNECTED"
       /\ todo["net"] = "up" => status = "CONNECTED"
       /\ status = "CONNECTED" => reported = "up" \/ todo["net"] = "up"
       /\ reported = "up" => \/ status = "CONNECTED"
                            \/ \E t \in Thread : todo[t] = "down"
                            \/ todo["net"] \in {"close", "forget", "report"}

LEMMA ReportInvNext == TypeOK /\ ClientInv /\ ReportInv /\ [Next]_vars => ReportInv'
<1> SUFFICES ASSUME TypeOK, ClientInv, ReportInv, [Next]_vars
             PROVE  ReportInv'
  OBVIOUS
<1> USE DEF At, Goto, Doing, shared
<1>a. todo \in [Thread -> {"nothing", "reset", "close", "forget", "report", "down", "up"}]
  BY DEF TypeOK
<1>b. ASSUME UNCHANGED <<todo, status, reported, crossed>>,
             pc' \in {"connect", "dialed"} => pc \in {"connect", "dialed"}
      PROVE  ReportInv'
  BY <1>b DEF ReportInv
<1>1. CASE UNCHANGED vars \/ Stopped
  BY <1>1, <1>b DEF Stopped, vars
<1>2. ASSUME NEW t \in Thread, ResetNetworking(t) \/ CloseSocket(t) \/ ForgetHandle(t)
      PROVE  ReportInv'
  <2>1. /\ UNCHANGED <<pc, status, reported, crossed>>
        /\ todo[t] \in {"reset", "close", "forget"}
        /\ \E next \in {"close", "forget", "report"} : todo' = [todo EXCEPT ![t] = next]
    BY <1>2 DEF ResetNetworking, CloseSocket, ForgetHandle
  <2> QED
    BY <1>a, <2>1 DEF ReportInv, Thread
<1>3. ASSUME NEW t \in Thread, ReportClosed(t) PROVE ReportInv'
  <2>1. todo[t] = "report" /\ todo' = [todo EXCEPT ![t] = "down"] /\ status' = "DISCONNECTED"
        /\ UNCHANGED <<pc, reported>>
    BY <1>3 DEF ReportClosed
  <2>2. ~crossed' => ~crossed /\ todo["net"] # "up"
    BY <1>3, Zenon DEF ReportClosed, Thread
  <2>3. todo'[t] = "down" /\ (todo'["net"] = "up" => todo["net"] = "up")
    BY <1>a, <2>1 DEF Thread
  <2> QED
    BY <2>1, <2>2, <2>3 DEF ReportInv, Thread
<1>4. ASSUME NEW t \in Thread, DisconnectedCallback(t) PROVE ReportInv'
  BY <1>4, <1>a DEF DisconnectedCallback, ReportInv, Thread
<1>5. CASE ConnectedCallback
  BY <1>5, <1>a DEF ConnectedCallback, ReportInv, Thread
<1>6. CASE LoopTest \/ Turn \/ CallbacksDone \/ TakeCommand \/ OtherCommand \/ CommandsDone
  BY <1>6, <1>b DEF LoopTest, Turn, CallbacksDone, TakeCommand, OtherCommand, CommandsDone
<1>7. CASE LoopExit \/ Disconnect \/ StopClose
  <2>1. /\ UNCHANGED <<status, reported, crossed>>
        /\ pc' \notin {"connect", "dialed"} \/ pc' = pc
        /\ \/ todo' = todo
           \/ \E t \in Thread : todo[t] = "nothing" /\ todo' = [todo EXCEPT ![t] = "reset"]
    <3>1. app = "stop" => todo["app"] = "nothing"
      BY DEF ClientInv, PlacesSound
    <3> QED
      BY <1>7, <3>1 DEF LoopExit, Disconnect, StopClose, EnterClose, Thread
  <2> QED
    BY <1>a, <2>1 DEF ReportInv, Thread
<1>8. CASE ReceiveMessage \/ RunCallbacks \/ QuitCommand \/ Rearm \/ Disarm \/ Kill
  BY <1>8, <1>b DEF ReceiveMessage, RunCallbacks, QuitCommand, Rearm, Disarm, Kill
<1>9. ASSUME NEW c \in Conn, HandleCallback(c) PROVE ReportInv'
  <2> USE DEF Handling, Event
  <2>1. CASE AssertFails(c)
    BY <2>1, <1>b DEF AssertFails
  <2>2. CASE NothingToHandle(c)
    BY <2>2, <1>a DEF NothingToHandle, ReportInv, Thread
  <2>3. CASE HandleEnded(c)
    BY <2>3, <1>a DEF HandleEnded, ReportInv, Thread
  <2>4. CASE HandleConnected(c)
    <3>1. pc' = "callbacks" /\ todo' = [todo EXCEPT !["net"] = "up"] /\ status' = "CONNECTED"
          /\ todo["net"] = "nothing"
      BY <2>4 DEF HandleConnected
    <3>2. ~crossed' => ~crossed /\ todo["app"] # "down"
      BY <2>4, Zenon DEF HandleConnected
    <3> QED
      BY <1>a, <3>1, <3>2 DEF ReportInv, Thread
  <2> QED
    BY <1>9, <2>1, <2>2, <2>3, <2>4 DEF HandleCallback
<1>10. CASE ConnectBadAddress \/ Connect \/ ConnectGivesNone \/ ConnectSucceeds \/ ConnectFails
  BY <1>10, <1>a DEF ConnectBadAddress, Connect, ConnectGivesNone, ConnectSucceeds, ConnectFails,
                     ReportInv
<1>11. ASSUME NEW c \in Conn, ConnectGivesHandle(c) PROVE ReportInv'
  BY <1>11, <1>b DEF ConnectGivesHandle
<1>12. CASE StopCall \/ StopJoin \/ ConsoleEnds \/ PeerStep \/ \E c \in Conn : Resolve(c)
  BY <1>12, <1>b DEF StopCall, StopJoin, ConsoleEnds, PeerStep, Resolve
<1> QED
  BY <1>1, <1>2, <1>3, <1>4, <1>5, <1>6, <1>7, <1>8, <1>9, <1>10, <1>11, <1>12
     DEF Next, NetworkThread, StopThread, ClosingStep, Thread

\* The two callbacks of the application and GetConnectionStatus agree whenever neither
\* thread has one still to make, also while Stop runs CloseConnection beside the network
\* thread; until a callback of Stop has crossed that of a Connected handler.
THEOREM CallbacksCorrect == Spec => []CallbacksMatchStatus
<1>1. Init => ReportInv
  BY DEF Init, ReportInv, Thread
<1>2. ReportInv => CallbacksMatchStatus
  BY DEF ReportInv, CallbacksMatchStatus, Thread
<1> QED
  BY <1>1, <1>2, ReportInvNext, ClientTypeCorrect, ClientInvInit, ClientInvNext, PTL DEF Spec

-----------------------------------------------------------------------------
(* How far the status is behind.                                           *)

\* What waits to be handled, the next one first.
Queue == dispatch \o callbacks
Waits(c, new) == \E n \in 1..Len(Queue) : Queue[n].conn = c /\ Queue[n].new = new

\* A callback says what has happened, and that a connection is up only while it has
\* not been closed here.
EventsTrue ==
  \A n \in 1..Len(Queue) :
    /\ Queue[n].new = "Connected" => conn[Queue[n].conn] \in {"Connected", "Ended"}
    /\ Queue[n].new = "Ended" => conn[Queue[n].conn] \in {"Ended", "None"}

\* A connection is reported to be up once, and before its end.
UpOnceFirst ==
  \A m, n \in 1..Len(Queue) :
    m < n /\ Queue[m].conn = Queue[n].conn /\ Queue[m].new \in {"Connected", "Ended"} =>
      Queue[n].new # "Connected"

NoneUpWaits == \A n \in 1..Len(Queue) : Queue[n].new # "Connected"

\* No change of a connection is missed; the end of one is noticed when its handle is
\* about to be closed.
EventsWait ==
  \A c \in Conn :
    /\ conn[c] = "Connected" => status = "CONNECTED" \/ Waits(c, "Connected")
    /\ conn[c] = "Ended" => Waits(c, "Ended") \/ todo["net"] = "close"

\* What the status says of m_connection, and where it may be while the network thread is
\* in CloseConnection or a handler.
StatusSound ==
  /\ status = "CONNECTED" =>
       /\ NoneUpWaits
       /\ todo["net"] \notin {"forget", "report"} =>
            connection \in Conn /\ conn[connection] \in {"Connected", "Ended"}
  /\ status = "CONNECTING" /\ pc # "connect" =>
       \/ connection \in Conn /\ conn[connection] \in Alive
       \/ pc = "dialed" /\ connection = Invalid
  /\ pc \in {"connect", "dialed"} => status = "CONNECTING"
  /\ todo["net"] \in {"reset", "up"} => status = "CONNECTED"
  /\ todo["net"] \in {"close", "forget", "report"} =>
       status \in {"CONNECTED", "FAILED"} /\ NoneUpWaits /\ ~networking
  /\ todo["net"] = "close" => \A c \in Conn : conn[c] # "Connecting"
  /\ todo["net"] = "down" => status = "DISCONNECTED"

Lag == EventsTrue /\ UpOnceFirst /\ EventsWait /\ StatusSound

LagInv == ~shouldQuit => Lag

\* The two queues are one, from which RunCallbacks takes nothing away.
LEMMA QueueSteps ==
  ASSUME TypeOK
  PROVE  /\ Queue \in Seq(Callback)
         /\ \A n \in 1..Len(Queue) : Queue[n] \in Callback /\ Queue[n].conn \in Conn
         /\ dispatch = <<>> => Queue = callbacks
         /\ dispatch # <<>> => /\ Queue # <<>> /\ Queue[1] = Head(dispatch)
                               /\ Tail(dispatch) \o callbacks = Tail(Queue)
         /\ \A e \in Callback : dispatch \o Append(callbacks, e) = Append(Queue, e)
<1>1. dispatch \in Seq(Callback) /\ callbacks \in Seq(Callback)
  BY DEF TypeOK, SocketsTypeOK
<1>2. Queue \in Seq(Callback)
  BY <1>1 DEF Queue
<1>3. \A n \in 1..Len(Queue) : Queue[n] \in Callback
  BY <1>2
<1>4. \A e \in Callback : e.conn \in Conn
  BY DEF Callback
<1>5. dispatch = <<>> => Queue = callbacks
  BY <1>1 DEF Queue
<1>6. dispatch # <<>> => Queue # <<>> /\ Queue[1] = Head(dispatch)
                         /\ Tail(dispatch) \o callbacks = Tail(Queue)
  <2> SUFFICES ASSUME dispatch # <<>>
               PROVE  Queue # <<>> /\ Queue[1] = Head(dispatch)
                      /\ Tail(dispatch) \o callbacks = Tail(Queue)
    OBVIOUS
  <2> DEFINE rest == Tail(dispatch) \o callbacks
  <2>1. /\ Len(dispatch) \in Nat \ {0} /\ Len(callbacks) \in Nat
        /\ Len(Queue) = Len(dispatch) + Len(callbacks)
        /\ \A n \in 1..Len(Queue) :
             Queue[n] = IF n <= Len(dispatch) THEN dispatch[n] ELSE callbacks[n - Len(dispatch)]
    BY <1>1 DEF Queue
  <2>2. /\ Len(Tail(dispatch)) = Len(dispatch) - 1 /\ Tail(dispatch) \in Seq(Callback)
        /\ \A n \in 1..(Len(dispatch) - 1) : Tail(dispatch)[n] = dispatch[n + 1]
    BY <1>1
  <2>3. rest \in Seq(Callback) /\ Len(rest) = Len(Queue) - 1
    BY <1>1, <2>1, <2>2
  <2>4. \A n \in 1..(Len(Queue) - 1) : rest[n] = Queue[n + 1]
    <3> TAKE n \in 1..(Len(Queue) - 1)
    <3>1. CASE n <= Len(dispatch) - 1
      BY <1>1, <2>1, <2>2, <3>1
    <3>2. CASE n > Len(dispatch) - 1
      <4>1. rest[n] = callbacks[n - (Len(dispatch) - 1)]
        BY <1>1, <2>1, <2>2, <3>2
      <4> QED
        BY <2>1, <3>2, <4>1
    <3> QED
      BY <2>1, <3>1, <3>2
  <2> HIDE DEF rest
  <2>5. Queue # <<>> /\ Tail(Queue) \in Seq(Callback) /\ Len(Tail(Queue)) = Len(Queue) - 1
        /\ \A n \in 1..(Len(Queue) - 1) : Tail(Queue)[n] = Queue[n + 1]
    <3> HIDE DEF Queue
    <3> QED
      BY <1>2, <2>1
  <2>6. rest = Tail(Queue)
    BY <2>3, <2>4, <2>5
  <2> QED
    BY <1>1, <2>1, <2>5, <2>6 DEF rest
<1>7. \A e \in Callback : dispatch \o Append(callbacks, e) = Append(Queue, e)
  BY <1>1 DEF Queue
<1> QED
  BY <1>2, <1>3, <1>4, <1>5, <1>6, <1>7

\* A step that changes no connection and posts nothing keeps what the queue says.
LEMMA QueueStays ==
  ASSUME Queue' = Queue, conn' = conn
  PROVE  /\ EventsTrue' <=> EventsTrue
         /\ UpOnceFirst' <=> UpOnceFirst
         /\ NoneUpWaits' <=> NoneUpWaits
         /\ \A c, new : Waits(c, new)' <=> Waits(c, new)
BY DEF EventsTrue, UpOnceFirst, NoneUpWaits, Waits

\* Handling a callback keeps the rest.
LEMMA QueueShrinks ==
  ASSUME TypeOK, dispatch # <<>>, Queue' = Tail(Queue), conn' = conn,
         EventsTrue, UpOnceFirst
  PROVE  /\ EventsTrue' /\ UpOnceFirst'
         /\ NoneUpWaits => NoneUpWaits'
         /\ \A c, new : Waits(c, new) => Waits(c, new)'
                                         \/ (Queue[1].conn = c /\ Queue[1].new = new)
<1>1. Queue \in Seq(Callback) /\ Queue # <<>>
  BY QueueSteps
<1>2. /\ Len(Queue') = Len(Queue) - 1 /\ Len(Queue) \in Nat \ {0}
      /\ \A n \in 1..Len(Queue') : n + 1 \in 1..Len(Queue) /\ Queue'[n] = Queue[n + 1]
  <2> HIDE DEF Queue
  <2>1. Len(Tail(Queue)) = Len(Queue) - 1 /\ Len(Queue) \in Nat \ {0}
        /\ \A n \in 1..Len(Tail(Queue)) : n + 1 \in 1..Len(Queue) /\ Tail(Queue)[n] = Queue[n + 1]
    BY <1>1
  <2> QED
    BY <2>1
<1>3. EventsTrue'
  BY <1>2 DEF EventsTrue
<1>4. UpOnceFirst'
  <2>1. ASSUME NEW m \in 1..Len(Queue'), NEW n \in 1..Len(Queue'), m < n,
               Queue'[m].conn = Queue'[n].conn, Queue'[m].new \in {"Connected", "Ended"}
        PROVE  Queue'[n].new # "Connected"
    <3>1. m + 1 \in 1..Len(Queue) /\ n + 1 \in 1..Len(Queue) /\ m + 1 < n + 1
      BY <1>2, <2>1
    <3> QED
      BY <1>2, <2>1, <3>1 DEF UpOnceFirst
  <2> QED
    BY <2>1 DEF UpOnceFirst
<1>5. NoneUpWaits => NoneUpWaits'
  BY <1>2 DEF NoneUpWaits
<1>6. ASSUME NEW c, NEW new, Waits(c, new), ~(Queue[1].conn = c /\ Queue[1].new = new)
      PROVE  Waits(c, new)'
  <2>1. PICK n \in 1..Len(Queue) : Queue[n].conn = c /\ Queue[n].new = new
    BY <1>6 DEF Waits
  <2>2. n - 1 \in 1..Len(Queue') /\ Queue'[n - 1] = Queue[n]
    BY <1>2, <1>6, <2>1
  <2> QED
    BY <2>1, <2>2 DEF Waits
<1> QED
  BY <1>3, <1>4, <1>5, <1>6

\* So does posting one, when a connection is attempted, is accepted, or ends.
LEMMA QueueGrows ==
  ASSUME TypeOK, EventsTrue, UpOnceFirst, dispatch' = dispatch,
         NEW c \in Conn, NEW new \in {"Connecting", "Connected", "Ended"}, Transition(c, new),
         new = "Connecting" => conn[c] = "Fresh",
         new = "Connected" => conn[c] = "Connecting",
         new = "Ended" => conn[c] \in {"Connecting", "Connected"}
  PROVE  /\ conn' = [conn EXCEPT ![c] = new]
         /\ EventsTrue' /\ UpOnceFirst' /\ Waits(c, new)'
         /\ NoneUpWaits /\ new # "Connected" => NoneUpWaits'
         /\ \A d, state : Waits(d, state) => Waits(d, state)'
<1> DEFINE e == [conn |-> c, old |-> conn[c], new |-> new]
<1>0. conn \in [Conn -> ConnState]
  BY DEF TypeOK, SocketsTypeOK
<1>1. e \in Callback /\ e.conn = c /\ e.new = new
  BY <1>0 DEF Callback, ConnState, Alive
<1>2. conn' = [conn EXCEPT ![c] = new] /\ callbacks' = Append(callbacks, e)
  BY DEF Transition
<1>3. Queue \in Seq(Callback) /\ (\A n \in 1..Len(Queue) : Queue[n].conn \in Conn)
  BY QueueSteps
<1>4. Queue' = Append(Queue, e)
  BY <1>1, <1>2, QueueSteps DEF Queue
<1>5. /\ Len(Queue') = Len(Queue) + 1 /\ Len(Queue) \in Nat /\ Queue'[Len(Queue) + 1] = e
      /\ \A n \in 1..Len(Queue) : Queue'[n] = Queue[n]
  <2> HIDE DEF Queue, e
  <2>1. /\ Len(Append(Queue, e)) = Len(Queue) + 1 /\ Len(Queue) \in Nat
        /\ Append(Queue, e)[Len(Queue) + 1] = e
        /\ \A n \in 1..Len(Queue) : Append(Queue, e)[n] = Queue[n]
    BY <1>1, <1>3
  <2> QED
    BY <1>4, <2>1
<1> HIDE DEF e
<1>6. EventsTrue'
  <2>1. ASSUME NEW n \in 1..Len(Queue')
        PROVE  /\ Queue'[n].new = "Connected" => conn'[Queue'[n].conn] \in {"Connected", "Ended"}
               /\ Queue'[n].new = "Ended" => conn'[Queue'[n].conn] \in {"Ended", "None"}
    <3>1. CASE n \in 1..Len(Queue)
      BY <1>0, <1>2, <1>3, <1>5, <3>1 DEF EventsTrue
    <3>2. CASE n = Len(Queue) + 1
      BY <1>0, <1>1, <1>2, <1>5, <3>2
    <3> QED
      BY <1>5, <3>1, <3>2
  <2> QED
    BY <2>1 DEF EventsTrue
<1>7. UpOnceFirst'
  <2>1. ASSUME NEW m \in 1..Len(Queue'), NEW n \in 1..Len(Queue'), m < n,
               Queue'[m].conn = Queue'[n].conn, Queue'[m].new \in {"Connected", "Ended"}
        PROVE  Queue'[n].new # "Connected"
    <3>1. m \in 1..Len(Queue) /\ Queue'[m] = Queue[m]
      BY <1>5, <2>1
    <3>2. CASE n \in 1..Len(Queue)
      BY <1>5, <2>1, <3>1, <3>2 DEF UpOnceFirst
    <3>3. CASE n = Len(Queue) + 1
      BY <1>1, <1>5, <2>1, <3>1, <3>3 DEF EventsTrue
    <3> QED
      BY <1>5, <3>2, <3>3
  <2> QED
    BY <2>1 DEF UpOnceFirst
<1>8. NoneUpWaits /\ new # "Connected" => NoneUpWaits'
  BY <1>1, <1>5 DEF NoneUpWaits
<1>9. \A d, state : Waits(d, state) => Waits(d, state)'
  BY <1>5 DEF Waits
<1>10. Waits(c, new)'
  <2>1. Len(Queue) + 1 \in 1..Len(Queue')
    BY <1>5
  <2> QED
    BY <1>1, <1>5, <2>1 DEF Waits
<1> QED
  BY <1>2, <1>6, <1>7, <1>8, <1>9, <1>10

\* Closing m_connection, when no report that a connection is up is left in the queue.
LEMMA QueueCloses ==
  ASSUME TypeOK, EventsTrue, NoneUpWaits, CloseHandle, dispatch' = dispatch
  PROVE  EventsTrue' /\ UpOnceFirst' /\ NoneUpWaits'
<1>0. /\ Queue \in Seq(Callback) /\ conn \in [Conn -> ConnState]
      /\ \A n \in 1..Len(Queue) : Queue[n].conn \in Conn
  BY QueueSteps DEF TypeOK, SocketsTypeOK
<1>1. CASE Valid(connection)
  <2> DEFINE e == [conn |-> connection, old |-> conn[connection], new |-> "None"]
  <2>1. connection \in Conn /\ Transition(connection, "None")
    BY <1>1 DEF CloseHandle, Valid, CloseConnection
  <2>2. e \in Callback /\ e.new = "None"
    BY <1>0, <2>1 DEF Callback, ConnState
  <2>3. conn' = [conn EXCEPT ![connection] = "None"] /\ callbacks' = Append(callbacks, e)
    BY <2>1 DEF Transition
  <2> HIDE DEF e
  <2>4. Queue' = Append(Queue, e)
    BY <2>2, <2>3, QueueSteps DEF Queue
  <2>5. \A n \in 1..Len(Queue') : (n \in 1..Len(Queue) /\ Queue'[n] = Queue[n]) \/ Queue'[n] = e
    <3> HIDE DEF Queue
    <3>1. \A n \in 1..Len(Append(Queue, e)) :
            (n \in 1..Len(Queue) /\ Append(Queue, e)[n] = Queue[n]) \/ Append(Queue, e)[n] = e
      BY <1>0, <2>2
    <3> QED
      BY <2>4, <3>1
  <2>6. \A n \in 1..Len(Queue') :
          /\ Queue'[n].new # "Connected"
          /\ Queue'[n].new = "Ended" => conn'[Queue'[n].conn] \in {"Ended", "None"}
    BY <1>0, <2>2, <2>3, <2>5 DEF EventsTrue, NoneUpWaits
  <2> QED
    BY <2>6 DEF EventsTrue, UpOnceFirst, NoneUpWaits
<1>2. CASE ~Valid(connection)
  <2>1. Queue' = Queue /\ conn' = conn
    BY <1>2 DEF CloseHandle, socketVars, Queue
  <2> QED
    BY <2>1 DEF EventsTrue, UpOnceFirst, NoneUpWaits
<1> QED
  BY <1>1, <1>2

\* Before the first step nothing waits and nothing is connected.
LEMMA LagInvInit == Init => LagInv
<1> SUFFICES ASSUME Init
             PROVE  LagInv
  OBVIOUS
<1>1. Queue = <<>>
  BY DEF Init, SocketsInit, Queue
<1> QED
  BY <1>1 DEF Init, SocketsInit, LagInv, Lag, EventsTrue, UpOnceFirst, EventsWait, StatusSound, Thread

\* In a build with asserts every step keeps the invariant.  (Without them a report of
\* an earlier connection can close the present one.)
LEMMA LagInvNext ==
  ASSUME Debug
  PROVE  TypeOK /\ ClientInv /\ ClientInv' /\ LagInv /\ [Next]_vars => LagInv'
<1> SUFFICES ASSUME TypeOK, ClientInv, ClientInv', LagInv, [Next]_vars, ~shouldQuit'
             PROVE  Lag'
  BY DEF LagInv
<1> USE DEF At, Goto, Doing, shared, Lag
<1>a. /\ todo \in [Thread -> {"nothing", "reset", "close", "forget", "report", "down", "up"}]
      /\ conn \in [Conn -> ConnState]
      /\ Queue \in Seq(Callback) /\ (\A n \in 1..Len(Queue) : Queue[n].conn \in Conn)
  BY QueueSteps DEF TypeOK, SocketsTypeOK
<1>b. ASSUME ~shouldQuit
      PROVE  /\ EventsTrue /\ UpOnceFirst /\ EventsWait /\ StatusSound /\ OneAlive
             /\ ~networking /\ todo["net"] # "close" => NoneAlive
             /\ pc = "connect" \/ todo["net"] \in {"forget", "report"} => NoneAlive
             /\ app = "running" /\ todo["app"] = "nothing"
             /\ pc \notin {"disarm", "kill", "done"}
  BY <1>b DEF LagInv, ClientInv, HandleSound, PlacesSound, StatusSound, Thread
<1>c. ASSUME ~shouldQuit, UNCHANGED <<conn, callbacks, dispatch, status, connection>>,
             \/ todo'["net"] = todo["net"]
             \/ todo'["net"] = "nothing" /\ todo["net"] \in {"down", "up"}
             \/ todo'["net"] = "reset" /\ todo["net"] = "nothing" /\ status = "CONNECTED",
             networking' => networking \/ todo["net"] = "nothing",
             pc' = "connect" <=> pc = "connect",
             \/ pc' = "dialed" <=> pc = "dialed"
             \/ pc = "dialed" /\ connection # Invalid
      PROVE  Lag'
  <2>1. Queue' = Queue /\ conn' = conn
    BY <1>c DEF Queue
  <2>2. EventsTrue' /\ UpOnceFirst' /\ EventsWait'
    BY <1>b, <1>c, <2>1, QueueStays DEF EventsWait
  <2>3. StatusSound'
    BY <1>b, <1>c, <2>1, QueueStays DEF StatusSound
  <2> QED
    BY <2>2, <2>3
<1>d. ASSUME NoneAlive' PROVE EventsWait'
  BY <1>d DEF NoneAlive, EventsWait, Alive
<1>1. CASE UNCHANGED vars
  BY <1>1, <1>c DEF vars, socketVars
<1>2. ASSUME NEW t \in Thread, ClosingStep(t) PROVE Lag'
  <2>0. ~shouldQuit /\ t = "net" /\ pc' = pc /\ UNCHANGED <<dispatch, app>>
    BY <1>2, <1>a, <1>b DEF ClosingStep, ResetNetworking, CloseSocket, ForgetHandle, ReportClosed,
                            DisconnectedCallback, Thread
  <2>1. CASE ResetNetworking(t)
    <3>1. /\ todo["net"] = "reset" /\ todo'["net"] = "close" /\ ~networking'
          /\ UNCHANGED <<conn, callbacks, status, connection>>
      BY <1>a, <2>0, <2>1 DEF ResetNetworking, socketVars, Thread
    <3>2. Queue' = Queue /\ conn' = conn
      BY <2>0, <3>1 DEF Queue
    <3>3. \A c \in Conn : conn[c] # "Connecting"
      BY <1>b, <2>0, <3>1 DEF StatusSound, OneAlive, Alive
    <3>4. StatusSound'
      BY <1>b, <2>0, <3>1, <3>2, <3>3, QueueStays DEF StatusSound
    <3> QED
      BY <1>b, <2>0, <3>1, <3>2, <3>4, QueueStays DEF EventsWait
  <2>2. CASE CloseSocket(t)
    <3>1. /\ todo["net"] = "close" /\ todo'["net"] = "forget" /\ CloseHandle
          /\ UNCHANGED <<networking, status, connection>>
      BY <1>a, <2>0, <2>2 DEF CloseSocket, Thread
    <3>2. NoneAlive'
      BY <3>1 DEF ClientInv, HandleSound, Thread
    <3>3. EventsTrue' /\ UpOnceFirst' /\ NoneUpWaits'
      BY <1>b, <2>0, <3>1, QueueCloses DEF StatusSound
    <3> QED
      BY <1>b, <1>d, <2>0, <3>1, <3>2, <3>3 DEF StatusSound
  <2>3. CASE ForgetHandle(t)
    <3>1. /\ todo["net"] = "forget" /\ todo'["net"] = "report"
          /\ UNCHANGED <<conn, callbacks, networking, status>>
      BY <1>a, <2>0, <2>3 DEF ForgetHandle, socketVars, Thread
    <3>2. Queue' = Queue /\ conn' = conn
      BY <2>0, <3>1 DEF Queue
    <3>3. StatusSound'
      BY <1>b, <2>0, <3>1, <3>2, QueueStays DEF StatusSound
    <3> QED
      BY <1>b, <2>0, <3>1, <3>2, <3>3, QueueStays DEF EventsWait
  <2>4. CASE ReportClosed(t)
    <3>1. /\ todo["net"] = "report" /\ todo'["net"] = "down" /\ status' = "DISCONNECTED"
          /\ UNCHANGED <<conn, callbacks, networking>>
      BY <1>a, <2>0, <2>4 DEF ReportClosed, socketVars, Thread
    <3>2. Queue' = Queue /\ conn' = conn /\ NoneAlive'
      BY <1>b, <2>0, <3>1 DEF Queue, NoneAlive
    <3>3. pc \notin {"connect", "dialed"}
      BY <1>b, <2>0, <3>1 DEF StatusSound
    <3> QED
      BY <1>b, <1>d, <2>0, <3>1, <3>2, <3>3, QueueStays DEF StatusSound
  <2>5. CASE DisconnectedCallback(t)
    BY <1>a, <1>c, <2>0, <2>5 DEF DisconnectedCallback, socketVars, Thread
  <2> QED
    BY <1>2, <2>1, <2>2, <2>3, <2>4, <2>5 DEF ClosingStep
<1>3. CASE LoopTest \/ Turn \/ ReceiveMessage \/ CallbacksDone \/ TakeCommand \/ OtherCommand
           \/ CommandsDone \/ Rearm
  BY <1>3, <1>c DEF LoopTest, Turn, ReceiveMessage, CallbacksDone, TakeCommand, OtherCommand,
                    CommandsDone, Rearm, socketVars
<1>4. CASE Disconnect \/ ConnectSucceeds \/ ConnectedCallback
  BY <1>4, <1>a, <1>c DEF Disconnect, ConnectSucceeds, ConnectedCallback, EnterClose, socketVars,
                          Thread
<1>5. CASE RunCallbacks
  <2>1. Queue' = Queue /\ conn' = conn
    <3>1. dispatch = <<>> /\ dispatch' = callbacks /\ callbacks' = <<>>
      BY <1>5 DEF RunCallbacks, TypeOK
    <3>2. callbacks \in Seq(Callback)
      BY DEF TypeOK, SocketsTypeOK
    <3> QED
      BY <1>5, <3>1, <3>2 DEF RunCallbacks, Queue
  <2>2. /\ ~shouldQuit /\ UNCHANGED <<todo, status, connection>> /\ todo["net"] = "nothing"
        /\ pc = "poll" /\ pc' = "callbacks"
    BY <1>5 DEF RunCallbacks
  <2>3. StatusSound'
    BY <1>b, <2>1, <2>2, QueueStays DEF StatusSound
  <2> QED
    BY <1>b, <2>1, <2>2, <2>3, QueueStays DEF EventsWait
<1>6. ASSUME NEW c \in Conn, HandleCallback(c) PROVE Lag'
  <2>1. CASE AssertFails(c)
    BY <2>1, <1>c DEF AssertFails, Event, socketVars
  <2>2. ASSUME NEW new \in ConnState, NEW next, Handling(c, new, next)
        PROVE  /\ ~shouldQuit /\ (c = connection \/ connection = Invalid)
               /\ Queue # <<>> /\ 1 \in 1..Len(Queue) /\ Queue[1].conn = c /\ Queue[1].new = new
               /\ Queue' = Tail(Queue) /\ dispatch # <<>>
               /\ UNCHANGED <<conn, callbacks, connection>>
               /\ pc = "callbacks" /\ pc' = "callbacks"
               /\ todo["net"] = "nothing" /\ todo'["net"] = next
    <3>1. /\ ~shouldQuit /\ (c = connection \/ connection = Invalid)
          /\ UNCHANGED <<conn, callbacks, connection>> /\ pc = "callbacks" /\ pc' = "callbacks"
          /\ todo["net"] = "nothing" /\ todo'["net"] = next
          /\ dispatch # <<>> /\ dispatch' = Tail(dispatch)
          /\ Head(dispatch).conn = c /\ Head(dispatch).new = new
      BY <1>a, <2>2 DEF Handling, Event, Expected, socketVars, Thread
    <3>2. Queue # <<>> /\ Queue[1] = Head(dispatch) /\ Queue' = Tail(Queue)
      BY <3>1, QueueSteps DEF Queue
    <3> HIDE DEF Queue
    <3>3. 1 \in 1..Len(Queue)
      BY <1>a, <3>2
    <3> QED
      BY <3>1, <3>2, <3>3
  <2>3. ASSUME NEW new \in ConnState, NEW next, Handling(c, new, next)
        PROVE  /\ EventsTrue' /\ UpOnceFirst' /\ (NoneUpWaits => NoneUpWaits')
               /\ \A d : \A state \in {"Connected", "Ended"} \ {new} :
                    Waits(d, state) => Waits(d, state)'
    BY <1>b, <2>2, <2>3, QueueShrinks
  <2>4. ASSUME NEW new \in {"Connected", "Ended"}, NEW next, Handling(c, new, next)
        PROVE  NoneUpWaits'
    <3>1. new \in ConnState
      BY DEF ConnState, Alive
    <3>2. ASSUME NEW n \in 2..Len(Queue) PROVE Queue[n].new # "Connected"
      <4>1. n \in 1..Len(Queue) /\ 1 < n
        BY <1>a
      <4>2. Queue[n].new = "Connected" => Queue[n].conn = connection /\ connection \in Conn
        BY <1>a, <1>b, <2>2, <2>4, <3>1, <4>1 DEF EventsTrue, OneAlive, Alive
      <4> QED
        BY <1>b, <2>2, <2>4, <3>1, <4>1, <4>2, HandleAssumption DEF UpOnceFirst
    <3> HIDE DEF Queue
    <3>3. Queue # <<>> /\ Queue' = Tail(Queue)
      BY <2>2, <2>4, <3>1
    <3>4. \A n \in 1..Len(Tail(Queue)) : n + 1 \in 2..Len(Queue) /\ Tail(Queue)[n] = Queue[n + 1]
      BY <1>a, <3>3
    <3> QED
      BY <3>2, <3>3, <3>4 DEF NoneUpWaits
  <2>5. CASE NothingToHandle(c)
    <3>1. PICK new \in {"None", "Connecting"} : Handling(c, new, "nothing")
      BY <2>5 DEF NothingToHandle
    <3>2. new \in ConnState /\ UNCHANGED <<networking, status>>
      BY <2>5 DEF NothingToHandle, ConnState, Alive
    <3>3. StatusSound'
      BY <1>b, <2>2, <2>3, <3>1, <3>2 DEF StatusSound
    <3> QED
      BY <1>b, <2>2, <2>3, <3>1, <3>2, <3>3 DEF EventsWait
  <2>6. CASE HandleConnected(c)
    <3>1. Handling(c, "Connected", "up") /\ status' = "CONNECTED" /\ "Connected" \in ConnState
      BY <2>6 DEF HandleConnected, ConnState, Alive
    <3>2. conn[c] \in {"Connected", "Ended"} /\ c = connection
      BY <1>b, <2>2, <3>1 DEF EventsTrue, OneAlive, Alive
    <3>3. NoneUpWaits'
      BY <2>4, <3>1
    <3>4. StatusSound'
      BY <2>2, <3>1, <3>2, <3>3 DEF StatusSound
    <3> QED
      BY <1>b, <2>2, <2>3, <3>1, <3>4 DEF EventsWait
  <2>7. CASE HandleEnded(c)
    <3>1. Handling(c, "Ended", "close") /\ status' = "FAILED" /\ ~networking'
          /\ "Ended" \in ConnState
      BY <2>7 DEF HandleEnded, ConnState, Alive
    <3>2. conn[c] \in {"Ended", "None"}
      BY <1>b, <2>2, <3>1 DEF EventsTrue
    <3>3. \A d \in Conn : conn[d] \notin {"Connecting", "Connected"}
      BY <1>b, <2>2, <3>1, <3>2, HandleAssumption DEF OneAlive, Alive
    <3>4. NoneUpWaits'
      BY <2>4, <3>1
    <3>5. StatusSound'
      BY <2>2, <3>1, <3>3, <3>4 DEF StatusSound
    <3>6. EventsWait'
      BY <2>2, <3>1, <3>3 DEF EventsWait
    <3> QED
      BY <2>3, <3>1, <3>5, <3>6
  <2> QED
    BY <1>6, <2>1, <2>5, <2>6, <2>7 DEF HandleCallback
<1>7. CASE ConnectBadAddress \/ Connect
  <2>1. /\ UNCHANGED <<conn, callbacks, dispatch, todo>> /\ ~shouldQuit /\ ~networking
        /\ todo["net"] = "nothing"
        /\ \/ status' = "FAILED" /\ pc' = "commands"
           \/ status' = "CONNECTING" /\ pc' = "connect"
    BY <1>7 DEF ConnectBadAddress, Connect, socketVars
  <2>2. Queue' = Queue /\ NoneAlive'
    BY <1>b, <2>1 DEF Queue, NoneAlive
  <2> QED
    BY <1>b, <1>d, <2>1, <2>2, QueueStays DEF StatusSound
<1>8. CASE ConnectGivesNone \/ ConnectFails
  <2>1. /\ UNCHANGED <<conn, callbacks, dispatch, todo>> /\ ~shouldQuit
        /\ todo["net"] = "nothing" /\ connection' = Invalid
        /\ \/ pc = "connect" /\ pc' = "dialed" /\ status' = status
           \/ pc = "dialed" /\ pc' = "commands" /\ status' = "FAILED"
    BY <1>8 DEF ConnectGivesNone, ConnectFails, socketVars
  <2>2. Queue' = Queue /\ conn' = conn
    BY <2>1 DEF Queue
  <2>3. status = "CONNECTING"
    BY <1>b, <2>1 DEF StatusSound
  <2>4. EventsWait' /\ EventsTrue' /\ UpOnceFirst'
    BY <1>b, <2>1, <2>2, <2>3, QueueStays DEF EventsWait
  <2> QED
    BY <2>1, <2>3, <2>4 DEF StatusSound
<1>9. ASSUME NEW c \in Conn, ConnectGivesHandle(c) PROVE Lag'
  <2>1. /\ conn[c] = "Fresh" /\ Transition(c, "Connecting") /\ connection' = c /\ pc = "connect"
        /\ pc' = "dialed" /\ UNCHANGED <<dispatch, todo, status>> /\ ~shouldQuit
        /\ todo["net"] = "nothing"
    BY <1>9 DEF ConnectGivesHandle, ConnectByIPAddress
  <2>2. status = "CONNECTING" /\ NoneAlive
    BY <1>b, <2>1 DEF StatusSound
  <2>3. conn' = [conn EXCEPT ![c] = "Connecting"] /\ EventsTrue' /\ UpOnceFirst'
    BY <1>b, <2>1, QueueGrows
  <2> QED
    BY <1>a, <2>1, <2>2, <2>3 DEF EventsWait, StatusSound, NoneAlive, Alive
<1>10. CASE LoopExit \/ QuitCommand \/ StopCall \/ ConsoleEnds \/ Disarm \/ Kill \/ StopClose
            \/ StopJoin
  BY <1>10, <1>b DEF LoopExit, QuitCommand, StopCall, ConsoleEnds, Disarm, Kill, StopClose,
                     StopJoin
<1>11. CASE (\E c \in Conn : Resolve(c)) \/ PeerStep
  <2>1. UNCHANGED <<pc, dispatch, todo, status, connection, networking>> /\ ~shouldQuit
    BY <1>11 DEF Resolve, PeerStep
  <2>2. ASSUME NEW c \in Conn, NEW m \in Message, PeerSends(c, m, MaxInbox)
        PROVE  Lag'
    BY <1>c, <2>1, <2>2 DEF PeerSends
  <2>3. ASSUME NEW c \in Conn, NEW new \in {"Connected", "Ended"}, Transition(c, new),
               new = "Connected" => conn[c] = "Connecting",
               conn[c] \in {"Connecting", "Connected"}
        PROVE  Lag'
    <3>1. /\ conn' = [conn EXCEPT ![c] = new] /\ EventsTrue' /\ UpOnceFirst' /\ Waits(c, new)'
          /\ (NoneUpWaits /\ new # "Connected" => NoneUpWaits')
          /\ \A d, state : Waits(d, state) => Waits(d, state)'
      BY <1>b, <2>1, <2>3, QueueGrows
    <3>2. c = connection /\ todo["net"] \notin {"forget", "report"}
      BY <1>b, <2>1, <2>3 DEF OneAlive, NoneAlive, Alive
    <3>3. EventsWait'
      BY <1>a, <1>b, <2>1, <2>3, <3>1 DEF EventsWait
    <3>4. status = "CONNECTED" \/ todo["net"] = "close" => new # "Connected"
      BY <1>b, <2>1, <2>3, <3>2 DEF StatusSound
    <3>5. \A d \in Conn : conn'[d] = "Connecting" => conn[d] = "Connecting"
      BY <1>a, <2>3, <3>1
    <3>6. StatusSound'
      BY <1>a, <1>b, <2>1, <2>3, <3>1, <3>2, <3>4, <3>5 DEF StatusSound, Alive
    <3> QED
      BY <3>1, <3>3, <3>6
  <2> QED
    BY <1>11, <2>2, <2>3 DEF Resolve, PeerStep, PeerAccepts, ConnectionEnds
<1>12. CASE Stopped
  BY <1>1, <1>12 DEF Stopped
<1> QED
  BY <1>1, <1>2, <1>3, <1>4, <1>5, <1>6, <1>7, <1>8, <1>9, <1>10, <1>11, <1>12
     DEF Next, NetworkThread, StopThread, Thread

\* In a build with asserts GetConnectionStatus is behind the connection by callbacks on
\* their way and by nothing else: CONNECTED is a connection that is up or whose end
\* waits to be handled, CONNECTING one that is being attempted or whose outcome waits.
THEOREM StatusCorrect ==
  ASSUME Debug
  PROVE  Spec => []StatusLagsByCallbacks
<1>1. TypeOK /\ LagInv => StatusLagsByCallbacks
  <2> SUFFICES ASSUME TypeOK, LagInv, Settled
               PROVE  StatusLagsByCallbacks
    BY DEF StatusLagsByCallbacks
  <2>1. EventsTrue /\ EventsWait /\ StatusSound /\ todo["net"] = "nothing"
    BY DEF Settled, LagInv, Lag
  <2>2. ASSUME NEW c \in Conn, NEW new, Waits(c, new) PROVE Pending(c, new)
    <3>1. PICK n \in 1..Len(Queue) : Queue[n].conn = c /\ Queue[n].new = new
      BY <2>2 DEF Waits
    <3>2. dispatch \in Seq(Callback) /\ callbacks \in Seq(Callback)
      BY DEF TypeOK, SocketsTypeOK
    <3>3. \/ n \in 1..Len(dispatch) /\ Queue[n] = dispatch[n]
          \/ n - Len(dispatch) \in 1..Len(callbacks) /\ Queue[n] = callbacks[n - Len(dispatch)]
      BY <3>1, <3>2 DEF Queue
    <3> QED
      BY <3>1, <3>3 DEF Pending
  <2>3. \A c \in Conn : /\ conn[c] = "Connected" => status = "CONNECTED" \/ Pending(c, "Connected")
                        /\ conn[c] = "Ended" => Pending(c, "Ended")
    BY <2>1, <2>2 DEF EventsWait
  <2> QED
    BY <2>1, <2>3 DEF StatusSound, StatusLagsByCallbacks, Alive
<1> QED
  BY <1>1, ClientTypeCorrect, ClientInvInit, ClientInvNext, LagInvInit, LagInvNext, PTL DEF Spec

-----------------------------------------------------------------------------
(* The refinement of Session.                                              *)

\* Until the client is told to quit, a handle is alive only while the status says that
\* there is a connection or an attempt, or the handle is about to be closed.
AliveInv ==
  ~shouldQuit /\ status \notin {"CONNECTING", "CONNECTED"} => NoneAlive \/ todo["net"] = "close"

LEMMA AliveInvNext ==
  ASSUME Debug
  PROVE  TypeOK /\ ClientInv /\ ClientInv' /\ LagInv /\ AliveInv /\ [Next]_vars => AliveInv'
<1> SUFFICES ASSUME TypeOK, ClientInv, ClientInv', LagInv, AliveInv, [Next]_vars,
                    ~shouldQuit', status' \notin {"CONNECTING", "CONNECTED"}
             PROVE  NoneAlive' \/ todo'["net"] = "close"
  BY DEF AliveInv
<1> USE DEF At, Goto, Doing, shared
<1>a. /\ ~shouldQuit => HandleSound /\ PlacesSound /\ StatusSound
      /\ todo \in [Thread -> {"nothing", "reset", "close", "forget", "report", "down", "up"}]
  BY DEF ClientInv, LagInv, Lag, TypeOK
<1>b. /\ ~networking' => NoneAlive' \/ todo'["net"] = "close"
      /\ todo'["net"] = "forget" => NoneAlive'
  BY DEF ClientInv, HandleSound, Thread
<1>c. ASSUME ~shouldQuit, status' = status, conn' = conn,
             todo["net"] = "close" => todo'["net"] = "close"
      PROVE  NoneAlive' \/ todo'["net"] = "close"
  BY <1>c DEF AliveInv, NoneAlive
<1>1. CASE UNCHANGED vars \/ Stopped
  BY <1>1, <1>c DEF Stopped, vars, socketVars
<1>2. ASSUME NEW t \in Thread, ClosingStep(t) PROVE NoneAlive' \/ todo'["net"] = "close"
  <2>1. ~shouldQuit /\ t = "net"
    BY <1>2, <1>a DEF ClosingStep, ResetNetworking, CloseSocket, ForgetHandle, ReportClosed,
                      DisconnectedCallback, PlacesSound, Thread
  <2>2. CASE ResetNetworking(t) \/ CloseSocket(t)
    BY <1>a, <1>b, <2>1, <2>2 DEF ResetNetworking, CloseSocket, Thread
  <2>3. CASE ForgetHandle(t) \/ ReportClosed(t)
    <3>1. networking' = networking /\ todo["net"] \in {"forget", "report"}
      BY <2>1, <2>3 DEF ForgetHandle, ReportClosed
    <3> QED
      BY <1>a, <1>b, <2>1, <3>1, Zenon DEF StatusSound
  <2>4. CASE DisconnectedCallback(t)
    BY <1>c, <2>1, <2>4 DEF DisconnectedCallback, socketVars
  <2> QED
    BY <1>2, <2>2, <2>3, <2>4 DEF ClosingStep
<1>3. CASE LoopTest \/ LoopExit \/ Turn \/ ReceiveMessage \/ RunCallbacks \/ CallbacksDone
  BY <1>3, <1>c DEF LoopTest, LoopExit, Turn, ReceiveMessage, RunCallbacks, CallbacksDone,
                    socketVars
<1>4. CASE TakeCommand \/ OtherCommand \/ ConnectSucceeds \/ Disconnect \/ QuitCommand
           \/ CommandsDone \/ Rearm \/ Disarm \/ ConnectedCallback
  BY <1>4, <1>c DEF TakeCommand, OtherCommand, ConnectSucceeds, Disconnect, QuitCommand,
                    CommandsDone, Rearm, Disarm, ConnectedCallback, socketVars
<1>5. ASSUME NEW c \in Conn, HandleCallback(c) PROVE NoneAlive' \/ todo'["net"] = "close"
  <2>1. CASE AssertFails(c) \/ NothingToHandle(c)
    BY <2>1, <1>c DEF AssertFails, NothingToHandle, Handling, Event, socketVars
  <2>2. CASE HandleEnded(c)
    BY <2>2, <1>a DEF HandleEnded, Handling, Thread
  <2>3. CASE HandleConnected(c)
    BY <2>3 DEF HandleConnected
  <2> QED
    BY <1>5, <2>1, <2>2, <2>3 DEF HandleCallback
<1>6. CASE (\E c \in Conn : ConnectGivesHandle(c)) \/ ConnectGivesNone
  BY <1>6, <1>a DEF ConnectGivesHandle, ConnectGivesNone, StatusSound
<1>7. CASE ConnectBadAddress \/ Connect \/ ConnectFails
  BY <1>7, <1>b DEF ConnectBadAddress, Connect, ConnectFails
<1>8. CASE Kill \/ StopCall \/ StopClose \/ StopJoin \/ ConsoleEnds
  BY <1>8, <1>a DEF Kill, StopCall, StopClose, StopJoin, ConsoleEnds, PlacesSound
<1>9. CASE (\E c \in Conn : Resolve(c)) \/ PeerStep
  <2>1. UNCHANGED <<status, todo>> /\ ~shouldQuit
    BY <1>9 DEF Resolve, PeerStep
  <2>2. NoneAlive \/ todo["net"] = "close"
    BY <2>1 DEF AliveInv
  <2>3. ASSUME NEW c \in Conn, PeerAccepts(c) \/ ConnectionEnds(c), NoneAlive PROVE FALSE
    BY <2>3 DEF PeerAccepts, ConnectionEnds, NoneAlive, Alive
  <2>4. ASSUME NEW c \in Conn, NEW m \in Message, PeerSends(c, m, MaxInbox)
        PROVE  NoneAlive' <=> NoneAlive
    BY <2>4 DEF PeerSends, NoneAlive
  <2> QED
    BY <1>9, <2>1, <2>2, <2>3, <2>4 DEF Resolve, PeerStep
<1> QED
  BY <1>1, <1>2, <1>3, <1>4, <1>5, <1>6, <1>7, <1>8, <1>9
     DEF Next, NetworkThread, StopThread, Thread

\* What Phase is, case by case.
PhaseTable ==
  /\ shouldQuit => Phase = IF pc \in {"command", "connect"} THEN "last" ELSE "left"
  /\ ~shouldQuit =>
       /\ pc = "connect" => Phase = "dialing"
       /\ pc = "dialed" => Phase = IF connection = Invalid THEN "down" ELSE "trying"
       /\ pc \notin {"connect", "dialed"} =>
            /\ todo["net"] \in {"reset", "close"} =>
                 Phase = IF Valid(connection) THEN "ending" ELSE "down"
            /\ todo["net"] \in {"forget", "report"} => Phase = "down"
            /\ todo["net"] \in {"nothing", "down", "up"} =>
                 /\ status = "CONNECTING" => Phase = "trying"
                 /\ status = "CONNECTED" => Phase = "up"
                 /\ status \notin {"CONNECTING", "CONNECTED"} => Phase = "down"

LEMMA PhaseIs == PhaseTable /\ PhaseTable'
<1>1. PhaseTable
  BY DEF PhaseTable, Phase
<1>2. PhaseTable'
  BY DEF PhaseTable, Phase
<1> QED
  BY <1>1, <1>2

\* The open handles of Session are the live ones.
LEMMA OpenIsAlive ==
  /\ NoneAlive => S!Open = {}
  /\ \A c \in Conn : OneAlive /\ c = connection /\ conn[c] \in Alive => S!Open = {c}
BY DEF NoneAlive, OneAlive, S!Open, Alive

\* CloseHandle closes m_connection or nothing.
LEMMA CloseLinks ==
  ASSUME TypeOK, CloseHandle
  PROVE  \/ /\ connection \in Conn /\ conn[connection] \in Alive
            /\ conn' = [conn EXCEPT ![connection] = "None"]
         \/ conn' = conn /\ ~Valid(connection)
BY DEF CloseHandle, Valid, CloseConnection, Transition, socketVars

\* In a client told to quit, closing a handle is a step of Session or none.
LEMMA QuitCloses ==
  ASSUME TypeOK, TypeOK', CloseHandle, shouldQuit, shouldQuit', pc' = pc
  PROVE  S!Next \/ UNCHANGED S!sessionVars
<1>0. shouldQuit' = shouldQuit
  BY DEF TypeOK
<1>1. Phase' = Phase
  BY PhaseIs DEF PhaseTable
<1>2. CASE connection \in Conn /\ conn[connection] \in Alive
           /\ conn' = [conn EXCEPT ![connection] = "None"]
  <2>1. {connection} \in SUBSET S!Open
    BY <1>2 DEF S!Open, Alive
  <2>2. conn' = [c \in Conn |-> IF c \in {connection} THEN "None" ELSE conn[c]]
    BY <1>2 DEF TypeOK, SocketsTypeOK
  <2>3. S!Abandon({connection})
    BY <1>0, <1>1, <2>2 DEF S!Abandon
  <2> QED
    BY <2>1, <2>3 DEF S!Next
<1>3. CASE conn' = conn
  BY <1>0, <1>1, <1>3 DEF S!sessionVars
<1> QED
  BY <1>2, <1>3, CloseLinks

\* After a step that moves no connection a client told to quit has left, or has its last
\* attempt still to make.
LEMMA QuitLeaves ==
  ASSUME shouldQuit \in BOOLEAN, shouldQuit' \in BOOLEAN, shouldQuit', conn' = conn,
         shouldQuit /\ pc' \in {"command", "connect"} => pc \in {"command", "connect"}
  PROVE  S!Next \/ UNCHANGED S!sessionVars
<1>1. Phase' \in {"last", "left"}
  BY PhaseIs DEF PhaseTable
<1>2. CASE shouldQuit
  <2>1. shouldQuit' = shouldQuit
    BY <1>2
  <2>2. Phase' = Phase \/ (Phase = "last" /\ Phase' = "left")
    BY <1>2, PhaseIs DEF PhaseTable
  <2>3. S!DialFails \/ UNCHANGED S!sessionVars
    BY <2>1, <2>2 DEF S!DialFails, S!sessionVars
  <2> QED
    BY <2>3 DEF S!Next
<1>3. CASE ~shouldQuit
  <2>1. shouldQuit' = TRUE
    OBVIOUS
  <2>2. S!Leave
    BY <1>1, <1>3, <2>1 DEF S!Leave
  <2> QED
    BY <2>2 DEF S!Next
<1> QED
  BY <1>2, <1>3

\* In a build with asserts, whatever the two threads, the callbacks in the queue and the
\* network do in between, the client's connection is a session: one attempt at a time
\* over a handle of its own, up only once the server has answered, over when it is lost
\* or /disconnect closes it and not because an earlier connection was; a client told to
\* quit begins at most the attempt of a command it had taken before.
THEOREM SessionImplemented ==
  ASSUME Debug
  PROVE  Spec => Session
<1>1. Init => S!Init
  <2> SUFFICES ASSUME Init
               PROVE  S!Init
    OBVIOUS
  <2>1. shouldQuit = FALSE /\ conn = [c \in Conn |-> "Fresh"]
    BY Zenon DEF Init, SocketsInit
  <2>2. todo["net"] = "nothing"
    BY DEF Init, Thread
  <2>3. Phase = "down"
    BY <2>1, <2>2, PhaseIs DEF Init, PhaseTable
  <2> QED
    BY <2>1, <2>3 DEF S!Init
<1>2. TypeOK /\ TypeOK' /\ ClientInv /\ ClientInv' /\ LagInv /\ AliveInv /\ [Next]_vars
        => [S!Next]_(S!sessionVars)
  <2> SUFFICES ASSUME TypeOK, TypeOK', ClientInv, ClientInv', LagInv, AliveInv, [Next]_vars
               PROVE  S!Next \/ UNCHANGED S!sessionVars
    OBVIOUS
  <2> USE DEF At, Goto, Doing, shared
  <2>a. /\ PhaseTable /\ PhaseTable' /\ PlacesSound /\ HandleSound
        /\ ~shouldQuit => StatusSound /\ EventsTrue /\ OneAlive
        /\ conn \in [Conn -> ConnState] /\ shouldQuit \in BOOLEAN /\ shouldQuit' \in BOOLEAN
        /\ todo \in [Thread -> {"nothing", "reset", "close", "forget", "report", "down", "up"}]
        /\ todo' \in [Thread -> {"nothing", "reset", "close", "forget", "report", "down", "up"}]
    BY PhaseIs DEF ClientInv, HandleSound, LagInv, Lag, TypeOK, SocketsTypeOK
  <2>b. ASSUME Phase' = Phase, conn' = conn, shouldQuit' = shouldQuit
        PROVE  UNCHANGED S!sessionVars
    BY <2>b DEF S!sessionVars
  <2>c. ASSUME UNCHANGED <<conn, pc, status, connection, todo, shouldQuit>>
        PROVE  UNCHANGED S!sessionVars
    BY <2>b, <2>c DEF Phase, Valid
  <2>d. ASSUME UNCHANGED <<conn, status, connection, todo, shouldQuit>>, ~shouldQuit,
               {pc, pc'} \cap {"connect", "dialed"} = {}
        PROVE  UNCHANGED S!sessionVars
    BY <2>b, <2>d DEF Phase, Valid
  <2>e. ASSUME shouldQuit', conn' = conn,
               shouldQuit /\ pc' \in {"command", "connect"} => pc \in {"command", "connect"}
        PROVE  S!Next \/ UNCHANGED S!sessionVars
    BY <2>a, <2>e, QuitLeaves
  <2>1. CASE UNCHANGED vars \/ Stopped
    BY <2>1, <2>c DEF Stopped, vars, socketVars
  <2>2. ASSUME NEW t \in Thread, ClosingStep(t) PROVE S!Next \/ UNCHANGED S!sessionVars
    <3> USE DEF ResetNetworking, CloseSocket, ForgetHandle, ReportClosed, DisconnectedCallback
    <3>0. /\ pc' = pc /\ shouldQuit' = shouldQuit /\ todo[t] # "nothing"
          /\ ~shouldQuit => t = "net" /\ pc \notin {"connect", "dialed"}
      BY <2>2, <2>a DEF ClosingStep, PlacesSound, Thread
    <3>1. CASE shouldQuit /\ CloseSocket(t)
      BY <3>0, <3>1, QuitCloses
    <3>2. CASE shouldQuit /\ ~CloseSocket(t)
      BY <2>2, <2>e, <3>0, <3>2 DEF ClosingStep, socketVars
    <3>3. CASE ~shouldQuit /\ ResetNetworking(t)
      <4>1. /\ todo["net"] = "reset" /\ todo'["net"] = "close"
            /\ UNCHANGED <<conn, connection>>
        BY <2>a, <3>0, <3>3 DEF socketVars, Thread
      <4>2. Valid(connection)' <=> Valid(connection)
        BY <4>1 DEF Valid
      <4> QED
        BY <2>a, <2>b, <3>0, <3>3, <4>1, <4>2 DEF PhaseTable
    <3>4. CASE ~shouldQuit /\ CloseSocket(t)
      <4>1. todo["net"] = "close" /\ todo'["net"] = "forget" /\ CloseHandle
        BY <2>a, <3>0, <3>4 DEF Thread
      <4>2. Phase' = "down" /\ Phase = IF Valid(connection) THEN "ending" ELSE "down"
        BY <2>a, <3>0, <3>4, <4>1 DEF PhaseTable
      <4>3. CASE Valid(connection)
        <5>1. connection \in Conn /\ conn' = [conn EXCEPT ![connection] = "None"]
          BY <4>1, <4>3, CloseLinks DEF Valid
        <5>2. S!Open = {connection}
          BY <2>a, <3>4, <4>3, OpenIsAlive DEF Valid
        <5>3. Phase = "ending" /\ Phase' = "down"
          BY <4>2, <4>3
        <5>4. S!End(connection)
          BY <3>0, <5>1, <5>2, <5>3 DEF S!End
        <5> QED
          BY <5>1, <5>4 DEF S!Next
      <4>4. CASE ~Valid(connection)
        BY <2>b, <3>0, <4>1, <4>2, <4>4, CloseLinks DEF Valid
      <4> QED
        BY <4>3, <4>4
    <3>5. CASE ~shouldQuit /\ (ForgetHandle(t) \/ ReportClosed(t) \/ DisconnectedCallback(t))
      <4>1. /\ \/ todo["net"] \in {"forget", "report"}
               \/ todo["net"] = "down" /\ status = "DISCONNECTED"
            /\ \/ todo'["net"] = "report"
               \/ todo'["net"] \in {"down", "nothing"} /\ status' = "DISCONNECTED"
            /\ conn' = conn
        BY <2>a, <3>0, <3>5 DEF StatusSound, socketVars, Thread
      <4>2. Phase = "down" /\ Phase' = "down"
        BY <2>a, <3>0, <3>5, <4>1 DEF PhaseTable
      <4> QED
        BY <2>b, <3>0, <4>1, <4>2
    <3> QED
      BY <2>2, <3>1, <3>2, <3>3, <3>4, <3>5 DEF ClosingStep
  <2>3. CASE LoopTest \/ Turn \/ ReceiveMessage \/ RunCallbacks \/ CallbacksDone \/ OtherCommand
             \/ CommandsDone \/ Rearm \/ TakeCommand
    <3>1. /\ UNCHANGED <<conn, status, connection, todo, shouldQuit>>
          /\ {pc, pc'} \cap {"connect", "dialed"} = {}
          /\ shouldQuit /\ pc' \in {"command", "connect"} => pc \in {"command", "connect"}
      BY <2>3 DEF LoopTest, Turn, ReceiveMessage, RunCallbacks, CallbacksDone, OtherCommand,
                  CommandsDone, Rearm, TakeCommand, socketVars
    <3>2. CASE shouldQuit
      BY <2>a, <2>e, <3>1, <3>2
    <3>3. CASE ~shouldQuit
      BY <2>d, <3>1, <3>3
    <3> QED
      BY <3>2, <3>3
  <2>4. CASE LoopExit \/ Disarm \/ StopClose \/ StopJoin \/ QuitCommand \/ ConsoleEnds \/ StopCall
    <3>1. shouldQuit' /\ conn' = conn
      BY <2>4, <2>a DEF LoopExit, Disarm, StopClose, StopJoin, QuitCommand, ConsoleEnds, StopCall,
                        PlacesSound, socketVars
    <3>2. pc' = pc \/ pc' \notin {"command", "connect"}
      BY <2>4 DEF LoopExit, Disarm, StopClose, StopJoin, QuitCommand, ConsoleEnds, StopCall
    <3> QED
      BY <2>e, <3>1, <3>2
  <2>5. CASE Kill
    <3>1. shouldQuit /\ shouldQuit' = shouldQuit /\ pc = "kill" /\ pc' = "done"
      BY <2>5, <2>a DEF Kill, PlacesSound
    <3>2. Phase' = Phase
      BY <2>a, <3>1 DEF PhaseTable
    <3>3. conn' = [c \in Conn |-> IF c \in S!Open THEN "None" ELSE conn[c]]
      BY <2>a, <2>5 DEF Kill, KillSockets, S!Open, Alive
    <3>4. S!Abandon(S!Open)
      BY <3>1, <3>2, <3>3 DEF S!Abandon
    <3> QED
      BY <3>4 DEF S!Next
  <2>6. ASSUME NEW c \in Conn, HandleCallback(c) PROVE S!Next \/ UNCHANGED S!sessionVars
    <3>1. CASE AssertFails(c)
      BY <2>c, <3>1 DEF AssertFails, socketVars
    <3>2. ASSUME NEW new, NEW next, Handling(c, new, next)
          PROVE  /\ pc = "callbacks" /\ pc' = "callbacks" /\ todo["net"] = "nothing"
                 /\ todo'["net"] = next /\ shouldQuit' = shouldQuit
                 /\ UNCHANGED <<conn, connection>>
                 /\ c = connection \/ connection = Invalid
                 /\ 1 \in 1..Len(Queue) /\ Queue[1].conn = c /\ Queue[1].new = new
      <4>1. Queue \in Seq(Callback) /\ Queue # <<>> /\ Queue[1] = Head(dispatch)
        BY <3>2, QueueSteps DEF Handling, Event
      <4>2. 1 \in 1..Len(Queue)
        <5> HIDE DEF Queue
        <5> QED
          BY <4>1
      <4> QED
        BY <2>a, <3>2, <4>1, <4>2 DEF Handling, Event, Expected, socketVars, Thread
    <3>3. CASE shouldQuit
      <4>1. shouldQuit' /\ conn' = conn /\ pc' = pc
        BY <2>6, <2>a, <3>1, <3>2, <3>3
           DEF HandleCallback, AssertFails, NothingToHandle, HandleEnded, HandleConnected, socketVars
      <4> QED
        BY <2>e, <4>1
    <3>4. CASE ~shouldQuit /\ NothingToHandle(c)
      <4>1. PICK new \in {"None", "Connecting"} : Handling(c, new, "nothing")
        BY <3>4 DEF NothingToHandle
      <4>2. status' = status
        BY <3>4 DEF NothingToHandle
      <4> QED
        BY <2>a, <2>b, <3>2, <3>4, <4>1, <4>2 DEF PhaseTable
    <3>5. CASE ~shouldQuit /\ HandleEnded(c)
      <4>1. Handling(c, "Ended", "close") /\ status' = "FAILED"
        BY <3>5 DEF HandleEnded
      <4>2. conn[c] \in {"Ended", "None"}
        BY <2>a, <3>2, <3>5, <4>1 DEF EventsTrue
      <4>3. Valid(connection)' <=> Valid(connection)
        BY <3>2, <4>1 DEF Valid
      <4>4. Phase' = IF Valid(connection) THEN "ending" ELSE "down"
        BY <2>a, <3>2, <3>5, <4>1, <4>3 DEF PhaseTable
      <4>5. CASE Valid(connection)
        <5>1. c = connection /\ conn[c] = "Ended"
          BY <3>2, <4>1, <4>2, <4>5, HandleAssumption DEF Valid, Alive
        <5>2. status \in {"CONNECTING", "CONNECTED"}
          BY <3>2, <3>5, <4>1, <4>5 DEF AliveInv, NoneAlive, Valid
        <5>3. Phase \in {"trying", "up"} /\ Phase' = "ending"
          BY <2>a, <3>2, <3>5, <4>1, <4>4, <4>5, <5>2 DEF PhaseTable
        <5>4. S!Open = {c}
          BY <2>a, <3>5, <4>5, <5>1, OpenIsAlive DEF Valid
        <5>5. S!NoticeLoss(c)
          BY <3>2, <4>1, <5>1, <5>3, <5>4 DEF S!NoticeLoss
        <5> QED
          BY <5>5 DEF S!Next
      <4>6. CASE ~Valid(connection)
        <5>1. status \notin {"CONNECTING", "CONNECTED"}
          BY <2>a, <3>2, <3>5, <4>1, <4>6 DEF StatusSound, Valid, Alive
        <5>2. Phase = "down" /\ Phase' = "down"
          BY <2>a, <3>2, <3>5, <4>1, <4>4, <4>6, <5>1 DEF PhaseTable
        <5> QED
          BY <2>b, <3>2, <4>1, <5>2
      <4> QED
        BY <4>5, <4>6
    <3>6. CASE ~shouldQuit /\ HandleConnected(c)
      <4>1. Handling(c, "Connected", "up") /\ status' = "CONNECTED"
        BY <3>6 DEF HandleConnected
      <4>2. conn[c] \in {"Connected", "Ended"}
        BY <2>a, <3>2, <3>6, <4>1 DEF EventsTrue
      <4>3. c = connection /\ conn[c] \in Alive
        BY <2>a, <3>6, <4>2 DEF OneAlive, Alive
      <4>4. status = "CONNECTING"
        <5>1. status # "CONNECTED"
          BY <2>a, <3>2, <3>6, <4>1 DEF StatusSound, NoneUpWaits
        <5> QED
          BY <3>2, <3>6, <4>1, <4>3, <5>1 DEF AliveInv, NoneAlive
      <4>5. Phase = "trying" /\ Phase' = "up"
        BY <2>a, <3>2, <3>6, <4>1, <4>4 DEF PhaseTable
      <4>6. S!Open = {c}
        BY <2>a, <3>6, <4>3, OpenIsAlive
      <4>7. S!Establish(c)
        BY <3>2, <4>1, <4>2, <4>5, <4>6 DEF S!Establish
      <4> QED
        BY <4>7 DEF S!Next
    <3> QED
      BY <2>6, <3>1, <3>3, <3>4, <3>5, <3>6 DEF HandleCallback
  <2>7. CASE ConnectedCallback
    <3>1. /\ todo["net"] = "up" /\ todo'["net"] = "nothing"
          /\ UNCHANGED <<conn, pc, status, shouldQuit>>
      BY <2>7, <2>a DEF ConnectedCallback, socketVars, Thread
    <3>2. CASE shouldQuit
      BY <2>a, <2>e, <3>1, <3>2
    <3>3. CASE ~shouldQuit
      <4>1. status = "CONNECTED" /\ pc \notin {"connect", "dialed"}
        BY <2>a, <3>1, <3>3 DEF StatusSound, PlacesSound
      <4> QED
        BY <2>a, <2>b, <3>1, <3>3, <4>1 DEF PhaseTable
    <3> QED
      BY <3>2, <3>3
  <2>8. CASE ConnectBadAddress \/ Connect
    <3>1. /\ ~networking /\ pc = "command" /\ status # "CONNECTED" /\ todo["net"] = "nothing"
          /\ UNCHANGED <<conn, todo, shouldQuit>>
          /\ \/ ConnectBadAddress /\ pc' = "commands" /\ status' = "FAILED"
             \/ Connect /\ pc' = "connect"
      BY <2>8 DEF ConnectBadAddress, Connect, socketVars
    <3>2. CASE shouldQuit
      BY <2>a, <2>e, <3>1, <3>2
    <3>3. CASE ~shouldQuit
      <4>1. status # "CONNECTING"
        BY <2>a, <3>1, <3>3 DEF StatusSound, HandleSound, NoneAlive
      <4>2. /\ Phase = "down"
            /\ \/ ConnectBadAddress /\ Phase' = "down"
               \/ Connect /\ Phase' = "dialing"
        BY <2>a, <3>1, <3>3, <4>1 DEF PhaseTable
      <4>3. Phase' = "dialing" => S!Dial
        BY <3>1, <4>2 DEF S!Dial
      <4> QED
        BY <2>b, <3>1, <4>2, <4>3 DEF S!Next
    <3> QED
      BY <3>2, <3>3
  <2>9. ASSUME NEW c \in Conn, ConnectGivesHandle(c) PROVE S!Next
    <3>1. /\ pc = "connect" /\ pc' = "dialed" /\ conn[c] = "Fresh" /\ connection' = c
          /\ conn' = [conn EXCEPT ![c] = "Connecting"] /\ shouldQuit' = shouldQuit
      BY <2>9 DEF ConnectGivesHandle, ConnectByIPAddress, Transition
    <3>2. ~shouldQuit => S!Open = {}
      BY <2>a, <3>1, OpenIsAlive DEF HandleSound
    <3>3. \/ Phase = "last" /\ Phase' = "left"
          \/ ~shouldQuit /\ Phase = "dialing" /\ Phase' = "trying"
      BY <2>a, <3>1, HandleAssumption DEF PhaseTable
    <3>4. S!Begin(c)
      BY <3>1, <3>2, <3>3 DEF S!Begin
    <3> QED
      BY <3>4 DEF S!Next
  <2>10. CASE ConnectGivesNone
    <3>1. /\ pc = "connect" /\ pc' = "dialed" /\ connection' = Invalid
          /\ UNCHANGED <<conn, shouldQuit>>
      BY <2>10 DEF ConnectGivesNone, socketVars
    <3>2. \/ Phase = "last" /\ Phase' = "left"
          \/ Phase = "dialing" /\ Phase' = "down"
      BY <2>a, <3>1 DEF PhaseTable
    <3>3. S!DialFails
      BY <3>1, <3>2 DEF S!DialFails
    <3> QED
      BY <3>3 DEF S!Next
  <2>11. CASE ConnectSucceeds \/ ConnectFails
    <3>1. /\ pc = "dialed" /\ pc' = "commands" /\ todo["net"] = "nothing"
          /\ UNCHANGED <<conn, todo, connection, shouldQuit>>
          /\ \/ connection # Invalid /\ status' = status
             \/ connection = Invalid /\ status' = "FAILED"
      BY <2>11 DEF ConnectSucceeds, ConnectFails, socketVars
    <3>2. CASE shouldQuit
      BY <2>a, <2>e, <3>1, <3>2
    <3>3. CASE ~shouldQuit
      <4>1. status = "CONNECTING"
        BY <2>a, <3>1, <3>3 DEF StatusSound
      <4>2. Phase' = Phase
        BY <2>a, <3>1, <3>3, <4>1 DEF PhaseTable
      <4> QED
        BY <2>b, <3>1, <4>2
    <3> QED
      BY <3>2, <3>3
  <2>12. CASE Disconnect
    <3>1. /\ pc = "command" /\ pc' = "commands" /\ status = "CONNECTED" /\ todo["net"] = "nothing"
          /\ UNCHANGED <<conn, connection, status, shouldQuit>>
          /\ todo'["net"] \in {"nothing", "reset"}
      BY <2>12, <2>a DEF Disconnect, EnterClose, socketVars, Thread
    <3>2. CASE shouldQuit
      BY <2>a, <2>e, <3>1, <3>2
    <3>3. CASE ~shouldQuit
      <4>1. Valid(connection)'
        BY <2>a, <3>1, <3>3 DEF StatusSound, Valid, Alive
      <4>2. Phase = "up" /\ Phase' \in {"up", "ending"}
        BY <2>a, <3>1, <3>3, <4>1 DEF PhaseTable
      <4>3. Phase' = "ending" => S!HangUp
        BY <3>1, <4>2 DEF S!HangUp
      <4> QED
        BY <2>b, <3>1, <4>2, <4>3 DEF S!Next
    <3> QED
      BY <3>2, <3>3
  <2>13. CASE (\E c \in Conn : Resolve(c)) \/ PeerStep
    <3>1. UNCHANGED <<pc, todo, status, connection, shouldQuit>>
      BY <2>13 DEF Resolve, PeerStep
    <3>2. ASSUME \A c \in Conn : conn'[c] \in Alive <=> conn[c] \in Alive
          PROVE  Phase' = Phase
      <4>1. Valid(connection)' <=> Valid(connection)
        BY <3>1, <3>2 DEF Valid
      <4> QED
        BY <3>1, <4>1 DEF Phase
    <3>3. ASSUME NEW c \in Conn, PeerAccepts(c) \/ ConnectionEnds(c) PROVE Phase' = Phase
      BY <3>2, <3>3, PeerEffect DEF TypeOK
    <3>4. ASSUME NEW c \in Conn, PeerAccepts(c) PROVE S!Next
      <4>1. S!Answer(c)
        BY <3>1, <3>3, <3>4 DEF PeerAccepts, Transition, S!Answer
      <4> QED
        BY <4>1 DEF S!Next
    <3>5. ASSUME NEW c \in Conn, ConnectionEnds(c) PROVE S!Next
      <4>1. S!Lose(c)
        BY <3>1, <3>3, <3>5 DEF ConnectionEnds, Transition, S!Lose
      <4> QED
        BY <4>1 DEF S!Next
    <3>6. ASSUME NEW c \in Conn, NEW m \in Message, PeerSends(c, m, MaxInbox)
          PROVE  UNCHANGED S!sessionVars
      BY <2>c, <3>1, <3>6 DEF PeerSends
    <3> QED
      BY <2>13, <3>4, <3>5, <3>6 DEF Resolve, PeerStep
  <2> QED
    BY <2>1, <2>2, <2>3, <2>4, <2>5, <2>6, <2>7, <2>8, <2>9, <2>10, <2>11, <2>12, <2>13
       DEF Next, NetworkThread, StopThread, Thread
<1>3. Init => AliveInv
  BY DEF Init, SocketsInit, AliveInv, NoneAlive, Alive
<1> QED
  BY <1>1, <1>2, <1>3, ClientTypeCorrect, ClientInvInit, ClientInvNext, LagInvInit, LagInvNext,
     AliveInvNext, PTL DEF Spec, Session, S!Spec
=============================================================================

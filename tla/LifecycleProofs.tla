--------------------------- MODULE LifecycleProofs ---------------------------
(***************************************************************************)
(* Proofs about Lifecycle, for both classes, any number of calls of Start  *)
(* and any lines.                                                          *)
(***************************************************************************)
EXTENDS Lifecycle, SequenceTheorems, TLAPS

-----------------------------------------------------------------------------
(* The command queue.                                                      *)

\* Three runs of lines, put together either way.
LEMMA ThreeParts ==
  ASSUME NEW s \in Seq(Line), NEW t \in Seq(Line), NEW u \in Seq(Line)
  PROVE  (s \o t) \o u = s \o (t \o u)
  BY ConcatAssociative, SMT

\* What GetNextCommand leaves, and what it takes, are the two parts of the queue.
LEMMA QueueSplits ==
  ASSUME queue \in Seq(Line), taken \in Seq(Line), NEW n \in 1..Len(queue), NextCommand(n)
  PROVE  /\ SubSeq(queue, 1, n) \in Seq(Line)
         /\ queue' \in Seq(Line) /\ taken' \in Seq(Line)
         /\ Len(taken') = Len(taken) + n
         /\ \A i \in 1..Len(taken) : taken'[i] = taken[i]
         /\ \A i \in 1..n : taken'[Len(taken) + i] = queue[i]
         /\ taken' \o queue' = taken \o queue
<1> DEFINE front == SubSeq(queue, 1, n)
           rest == SubSeq(queue, n + 1, Len(queue))
<1>1. \A i \in 1..Len(queue) : queue[i] \in Line
  OBVIOUS
<1>2. front \in Seq(Line) /\ Len(front) = n /\ \A i \in 1..n : front[i] = queue[i]
  <2>1. n \in 1..(Len(queue) + 1) /\ 1 \in 1..(Len(queue) + 1) /\ n \in 0..Len(queue)
    OBVIOUS
  <2>2. \A i \in 1..n : queue[i] \in Line
    BY <1>1
  <2> QED
    BY <2>1, <2>2, SubSeqProperties
<1>3. rest \in Seq(Line)
  BY <1>1, SubSeqProperties
<1>4. front \o rest = queue
  <2>1. front \o rest = SubSeq(queue, 1, Len(queue))
    BY ConcatAdjacentSubSeq
  <2> QED
    BY <2>1, SubSeqFull
<1>5. queue' = rest /\ taken' = taken \o front
  BY DEF NextCommand
<1> HIDE DEF front, rest
<1>6. (taken \o front) \o rest = taken \o queue
  BY <1>2, <1>3, <1>4, ThreeParts
<1>7. /\ taken \o front \in Seq(Line) /\ Len(taken \o front) = Len(taken) + n
      /\ \A i \in 1..(Len(taken) + n) : (taken \o front)[i] =
             IF i <= Len(taken) THEN taken[i] ELSE front[i - Len(taken)]
  BY <1>2, ConcatProperties
<1>8. Len(taken) \in Nat
  OBVIOUS
<1>9. \A i \in 1..Len(taken) : (taken \o front)[i] = taken[i]
  BY <1>7, <1>8
<1>10. \A i \in 1..n : (taken \o front)[Len(taken) + i] = queue[i]
  BY <1>2, <1>7, <1>8
<1> QED
  BY <1>2, <1>3, <1>5, <1>6, <1>7, <1>9, <1>10 DEF front

\* Blank lines at the end of a turn are taken all together.
LEMMA BlanksTaken ==
  ASSUME queue \in Seq(Line), taken \in Seq(Line), queue' = <<>>, taken' = taken \o queue
  PROVE  /\ queue' \in Seq(Line) /\ taken' \in Seq(Line)
         /\ Len(taken') = Len(taken) + Len(queue)
         /\ \A i \in 1..Len(taken') :
              taken'[i] = IF i <= Len(taken) THEN taken[i] ELSE queue[i - Len(taken)]
         /\ taken' \o queue' = taken \o queue
<1>1. taken' \in Seq(Line)
  BY ConcatProperties
<1>2. taken' \o <<>> = taken'
  BY <1>1, ConcatEmptySeq
<1> QED
  BY <1>1, <1>2, ConcatProperties

\* A pushed line comes last.
LEMMA PushKeepsOrder ==
  ASSUME TypeOK, FirstInFirstOut, NEW l \in Line, Push(l)
  PROVE  /\ queue' \in Seq(Line) /\ pushed' \in Seq(Line)
         /\ FirstInFirstOut'
<1>1. queue' \in Seq(Line) /\ pushed' \in Seq(Line)
  BY DEF Push, TypeOK
<1>2. queue' = queue \o <<l>> /\ pushed' = pushed \o <<l>>
  BY AppendIsConcat DEF Push, TypeOK
<1>3. pushed' = taken \o queue'
  BY <1>2, ConcatAssociative DEF TypeOK, FirstInFirstOut
<1> QED
  BY <1>1, <1>3 DEF Push, FirstInFirstOut

-----------------------------------------------------------------------------
(* Types, and the order of the lines.                                      *)

\* The three parts of TypeOK: where the threads are, the flags, the lines.
ThreadTypes ==
  /\ side \in {"server", "client"}
  /\ app \in {"idle", "startNet", "startConsole", "register", "stopClose", "stopNet",
              "stopConsole", "stopFlags", "deleteNet", "deleteConsole", "deleteFlags", "gone"}
  /\ app \in {"stopFlags", "deleteFlags"} => side = "server"
  /\ net \in {"none", "setUp", "loop", "turn", "exit", "ended"}
  /\ console \in {"none", "test", "read", "ended"}
  /\ starts \in Nat

FlagTypes ==
  /\ networking \in BOOLEAN /\ shouldQuit \in BOOLEAN
  /\ registered \in BOOLEAN /\ library \in BOOLEAN /\ failed \in BOOLEAN

LineTypes ==
  /\ queue \in Seq(Line) /\ pushed \in Seq(Line) /\ taken \in Seq(Line)
  /\ ignored \subseteq 1..Len(taken)

LEMMA TypeParts == TypeOK <=> ThreadTypes /\ FlagTypes /\ LineTypes
  BY DEF TypeOK, ThreadTypes, FlagTypes, LineTypes, Server

\* Steps of the application, of the set-up and of the console that move no line.
NoLineMoves ==
  \/ Call \/ CallGoesOn \/ ClientNetworks
  \/ SetUpFails \/ SetUp \/ LoopTest \/ Exit
  \/ ConsoleTest \/ ConsoleEnds

LEMMA ThreadStep == ASSUME ThreadTypes, FlagTypes, NoLineMoves PROVE ThreadTypes'
<1> USE DEF AppGoes, NetGoes, ConsoleGoes, threads, Server, ThreadTypes
<1>1. CASE StartCall
  BY <1>1 DEF StartCall
<1>2. CASE StopServer
  BY <1>2 DEF StopServer
<1>3. CASE StopClient
  BY <1>3 DEF StopClient
<1>4. CASE DeleteServer
  BY <1>4 DEF DeleteServer
<1>5. CASE DeleteClient
  BY <1>5 DEF DeleteClient
<1>6. CASE StartNetwork
  BY <1>6 DEF StartNetwork
<1>7. CASE StartConsole
  BY <1>7 DEF StartConsole
<1>8. CASE Register
  BY <1>8 DEF Register
<1>9. CASE StopClose
  BY <1>9 DEF StopClose
<1>10. CASE JoinNetwork
  BY <1>10 DEF JoinNetwork
<1>11. CASE JoinConsole
  BY <1>11 DEF JoinConsole
<1>12. CASE SetFlags
  BY <1>12 DEF SetFlags
<1>13. CASE SetUpFails
  BY <1>13 DEF SetUpFails
<1>14. CASE SetUp
  BY <1>14 DEF SetUp
<1>15. CASE LoopTest
  BY <1>15 DEF LoopTest
<1>16. CASE Exit
  BY <1>16 DEF Exit
<1>17. CASE ClientNetworks
  BY <1>17 DEF ClientNetworks
<1>18. CASE ConsoleTest
  BY <1>18 DEF ConsoleTest
<1>19. CASE ConsoleEnds
  BY <1>19 DEF ConsoleEnds
<1> QED
  BY <1>1, <1>2, <1>3, <1>4, <1>5, <1>6, <1>7, <1>8, <1>9, <1>10,
     <1>11, <1>12, <1>13, <1>14, <1>15, <1>16, <1>17, <1>18, <1>19
  DEF NoLineMoves, Call, CallGoesOn

LEMMA FlagStep == ASSUME FlagTypes, NoLineMoves PROVE FlagTypes'
<1> USE DEF flags, Server, FlagTypes
<1>1. CASE SetUpFails
  BY <1>1 DEF SetUpFails
<1>2. CASE SetUp
  BY <1>2 DEF SetUp
<1>3. CASE Exit
  BY <1>3 DEF Exit
<1>4. CASE StopClient
  BY <1>4 DEF StopClient
<1>5. CASE DeleteClient
  BY <1>5 DEF DeleteClient
<1>6. CASE StopClose
  BY <1>6 DEF StopClose
<1>7. CASE SetFlags
  BY <1>7 DEF SetFlags
<1>8. CASE Register
  BY <1>8 DEF Register
<1>9. CASE ClientNetworks
  BY <1>9 DEF ClientNetworks
<1>10. CASE ConsoleEnds
  BY <1>10 DEF ConsoleEnds
<1>11. CASE StartCall
  BY <1>11 DEF StartCall
<1>12. CASE StopServer
  BY <1>12 DEF StopServer
<1>13. CASE DeleteServer
  BY <1>13 DEF DeleteServer
<1>14. CASE StartNetwork
  BY <1>14 DEF StartNetwork
<1>15. CASE StartConsole
  BY <1>15 DEF StartConsole
<1>16. CASE JoinNetwork
  BY <1>16 DEF JoinNetwork
<1>17. CASE JoinConsole
  BY <1>17 DEF JoinConsole
<1>18. CASE LoopTest
  BY <1>18 DEF LoopTest
<1>19. CASE ConsoleTest
  BY <1>19 DEF ConsoleTest
<1> QED
  BY <1>1, <1>2, <1>3, <1>4, <1>5, <1>6, <1>7, <1>8, <1>9, <1>10,
     <1>11, <1>12, <1>13, <1>14, <1>15, <1>16, <1>17, <1>18, <1>19
  DEF NoLineMoves, Call, CallGoesOn

LEMMA LineStep == ASSUME NoLineMoves PROVE UNCHANGED lines
  BY DEF NoLineMoves, Call, CallGoesOn, StartCall, StopServer, StopClient, DeleteServer, DeleteClient, StartNetwork, StartConsole, Register,
    StopClose, JoinNetwork, JoinConsole, SetFlags, SetUpFails, SetUp,
    LoopTest, Exit, ClientNetworks, ConsoleTest, ConsoleEnds

\* Every variable keeps its type, and no command is lost, repeated or overtaken on
\* its way through m_commandQueue, however often threads are started.
THEOREM QueueCorrect == Spec => [](TypeOK /\ FirstInFirstOut)
<1>1. Init => TypeOK /\ FirstInFirstOut
  <2> SUFFICES ASSUME Init
               PROVE  TypeOK /\ FirstInFirstOut
    OBVIOUS
  <2>1. ThreadTypes /\ FlagTypes
    BY SideAssumption DEF Init, ThreadTypes, FlagTypes
  <2>2. LineTypes
    <3>1. <<>> \in Seq(Line)
      OBVIOUS
    <3> QED
      BY <3>1 DEF Init, LineTypes
  <2>3. <<>> \o <<>> = <<>>
    OBVIOUS
  <2> QED
    BY <2>1, <2>2, <2>3, TypeParts DEF Init, FirstInFirstOut
<1>2. TypeOK /\ FirstInFirstOut /\ [Next]_vars => TypeOK' /\ FirstInFirstOut'
  <2> SUFFICES ASSUME ThreadTypes, FlagTypes, LineTypes, FirstInFirstOut, [Next]_vars
               PROVE  ThreadTypes' /\ FlagTypes' /\ LineTypes' /\ FirstInFirstOut'
    BY DEF TypeOK, Server, ThreadTypes, FlagTypes, LineTypes
  <2> USE DEF NetGoes, ConsoleGoes
  <2>1. CASE UNCHANGED vars
    BY <2>1 DEF vars, threads, flags, lines, ThreadTypes, FlagTypes, LineTypes, FirstInFirstOut
  <2>2. CASE NoLineMoves
    <3>1. UNCHANGED lines
      BY <2>2, LineStep
    <3> QED
      BY <2>2, <3>1, ThreadStep, FlagStep DEF lines, LineTypes, FirstInFirstOut
  <2>3. CASE TurnDone
    <3>1. ThreadTypes'
      BY <2>3 DEF TurnDone, ThreadTypes
    <3>2. FlagTypes'
      BY <2>3 DEF TurnDone, FlagTypes
    <3>3. CASE shouldQuit
      BY <2>3, <3>1, <3>2, <3>3 DEF TurnDone, lines, LineTypes, FirstInFirstOut
    <3>4. CASE ~shouldQuit
      <4>1. queue' = <<>> /\ taken' = taken \o queue /\ UNCHANGED <<pushed, ignored>>
        BY <2>3, <3>4 DEF TurnDone
      <4>2. /\ queue' \in Seq(Line) /\ taken' \in Seq(Line)
            /\ Len(taken') = Len(taken) + Len(queue) /\ taken' \o queue' = taken \o queue
        BY <4>1, BlanksTaken DEF LineTypes
      <4>3. 1..Len(taken) \subseteq 1..Len(taken')
        BY <4>2 DEF LineTypes
      <4> QED
        BY <3>1, <3>2, <4>1, <4>2, <4>3 DEF LineTypes, FirstInFirstOut
    <3> QED
      BY <3>3, <3>4
  <2>4. ASSUME NEW n \in 1..Len(queue), HandleCommand(n)
        PROVE  ThreadTypes' /\ FlagTypes' /\ LineTypes' /\ FirstInFirstOut'
    <3>1. NextCommand(n)
      BY <2>4 DEF HandleCommand
    <3>2. /\ queue' \in Seq(Line) /\ taken' \in Seq(Line) /\ Len(taken') = Len(taken) + n
          /\ taken' \o queue' = taken \o queue /\ pushed' = pushed
      BY <3>1, QueueSplits DEF LineTypes, NextCommand
    <3>3. 1..Len(taken) \subseteq 1..Len(taken') /\ Len(taken') \in 1..Len(taken')
      BY <3>2 DEF LineTypes
    <3>4. ignored' \subseteq 1..Len(taken')
      BY <2>4, <3>3 DEF HandleCommand, LineTypes
    <3>5. ThreadTypes'
      BY <2>4 DEF HandleCommand, threads, ThreadTypes
    <3>6. FlagTypes'
      BY <2>4 DEF HandleCommand, FlagTypes
    <3> QED
      BY <3>2, <3>4, <3>5, <3>6 DEF LineTypes, FirstInFirstOut
  <2>5. ASSUME NEW l \in Line, ConsoleLine(l) \/ PushInputAsCommand(l)
        PROVE  ThreadTypes' /\ FlagTypes' /\ LineTypes' /\ FirstInFirstOut'
    <3>1. Push(l)
      BY <2>5 DEF ConsoleLine, PushInputAsCommand
    <3>2. queue' \in Seq(Line) /\ pushed' \in Seq(Line) /\ FirstInFirstOut'
      BY <3>1, PushKeepsOrder, TypeParts
    <3>3. ThreadTypes'
      BY <2>5 DEF ConsoleLine, PushInputAsCommand, threads, ThreadTypes
    <3>4. FlagTypes'
      BY <2>5 DEF ConsoleLine, PushInputAsCommand, flags, FlagTypes
    <3> QED
      BY <3>1, <3>2, <3>3, <3>4 DEF Push, LineTypes
  <2> QED
    BY <2>1, <2>2, <2>3, <2>4, <2>5 DEF Next, NetworkThread, Finished, NoLineMoves
<1> QED
  BY <1>1, <1>2, PTL DEF Spec

\* TypeOK alone: the threads, the two flags and the queue of commands stay what they are,
\* and no line is ignored that was not taken, for any number of starts and lines.
THEOREM LifeTypeCorrect == Spec => []TypeOK
BY QueueCorrect, PTL

-----------------------------------------------------------------------------
(* The threads and the flags.                                              *)
(*                                                                         *)
(* The three properties of the flags and of the end follow from one        *)
(* invariant: nobody resets m_shouldQuit, so a network thread on its way   *)
(* out has seen it set; the library is up outside the loop only after a    *)
(* set-up that failed; and the destructor has joined what it has passed.   *)

ExitMeansQuit == net = "exit" => shouldQuit

LibraryMeansFailure == net \in Over \cup {"setUp"} => (library => failed)

JoinedNetwork == app \in {"deleteConsole", "deleteFlags", "gone"} => net = "none"

JoinedConsole == app \in {"deleteFlags", "gone"} => console = "none"

LifeInv ==
  /\ NetworkingMeansServing
  /\ RunningMeansThread
  /\ ExitMeansQuit
  /\ LibraryMeansFailure
  /\ JoinedNetwork
  /\ JoinedConsole

\* The invariant of the threads: what IsConnected and IsRunning say, and who has
\* been joined.
THEOREM LifeInvariant == Spec => []LifeInv
<1> USE DEF LifeInv, NetworkingMeansServing, RunningMeansThread, ExitMeansQuit,
            LibraryMeansFailure, JoinedNetwork, JoinedConsole, Over
<1>1. Init => LifeInv
  BY DEF Init
<1>2. TypeOK /\ LifeInv /\ [Next]_vars => LifeInv'
  <2> SUFFICES ASSUME TypeOK, LifeInv, [Next]_vars
               PROVE  LifeInv'
    OBVIOUS
  <2> USE DEF AppGoes, NetGoes, ConsoleGoes, flags, threads
  <2>1. CASE UNCHANGED vars
    BY <2>1 DEF vars
  <2>2. CASE Call
    BY <2>2 DEF Call, StartCall, StopServer, StopClient, DeleteServer, DeleteClient
  <2>3. CASE StartNetwork \/ StartConsole \/ Register \/ StopClose
    BY <2>3 DEF StartNetwork, StartConsole, Register, StopClose, TypeOK
  <2>4. CASE JoinNetwork
    BY <2>4 DEF JoinNetwork
  <2>5. CASE JoinConsole
    BY <2>5 DEF JoinConsole
  <2>6. CASE SetFlags
    BY <2>6 DEF SetFlags
  <2>7. CASE SetUpFails
    BY <2>7 DEF SetUpFails
  <2>8. CASE SetUp
    BY <2>8 DEF SetUp
  <2>9. CASE LoopTest \/ ClientNetworks
    BY <2>9 DEF LoopTest, ClientNetworks
  <2>10. CASE TurnDone
    BY <2>10 DEF TurnDone
  <2>11. CASE Exit
    BY <2>11 DEF Exit
  <2>12. ASSUME NEW n \in 1..Len(queue), HandleCommand(n)
         PROVE  LifeInv'
    BY <2>12 DEF HandleCommand
  <2>13. CASE ConsoleTest \/ ConsoleEnds
    BY <2>13 DEF ConsoleTest, ConsoleEnds
  <2>14. ASSUME NEW l \in Line, ConsoleLine(l) \/ PushInputAsCommand(l)
         PROVE  LifeInv'
    BY <2>14 DEF ConsoleLine, PushInputAsCommand
  <2> QED
    BY <2>1, <2>2, <2>3, <2>4, <2>5, <2>6, <2>7, <2>8, <2>9, <2>10, <2>11, <2>12, <2>13, <2>14
    DEF Next, CallGoesOn, NetworkThread, Finished
<1> QED
  BY <1>1, <1>2, QueueCorrect, PTL DEF Spec

\* IsConnected is TRUE only while the network thread is in its loop, or after it
\* was told to quit; IsRunning without a thread means no Start or a failed set-up.
THEOREM FlagsCorrect == Spec => []FlagsTellTruth
<1>1. LifeInv => FlagsTellTruth
  BY DEF LifeInv, FlagsTellTruth
<1> QED
  BY <1>1, LifeInvariant, PTL

\* A destroyed server or client leaves no thread behind, and the library only after
\* a set-up that failed, whenever and however often it was started and stopped.
THEOREM DestructionCorrect == Spec => []NothingSurvives
<1>1. LifeInv => NothingSurvives
  BY DEF LifeInv, JoinedNetwork, JoinedConsole, LibraryMeansFailure, NothingSurvives, Over
<1> QED
  BY <1>1, LifeInvariant, PTL

-----------------------------------------------------------------------------
(* Commands after /quit.                                                   *)
(*                                                                         *)
(* NothingAfterQuit needs to know that the flag stays set: a /quit that    *)
(* was taken and not ignored has set it, and the loop over the commands    *)
(* looks at it before it takes the next.                                   *)

QuitIsRemembered ==
  (\E i \in 1..Len(taken) : taken[i] = "quit" /\ i \notin ignored) => shouldQuit

QuitInv == NothingAfterQuit /\ QuitIsRemembered

\* No command is obeyed after /quit, by this network thread or by one started later.
THEOREM QuitCorrect == Spec => []NothingAfterQuit
<1>1. Init => QuitInv
  BY DEF Init, QuitInv, NothingAfterQuit, QuitIsRemembered
<1>2. TypeOK /\ QuitInv /\ [Next]_vars => QuitInv'
  <2> SUFFICES ASSUME TypeOK, QuitInv, [Next]_vars
               PROVE  QuitInv'
    OBVIOUS
  <2> USE DEF AppGoes, NetGoes, ConsoleGoes, flags, threads, lines
  <2>1. ASSUME UNCHANGED <<taken, ignored>>, shouldQuit => shouldQuit'
        PROVE  QuitInv'
    BY <2>1 DEF QuitInv, NothingAfterQuit, QuitIsRemembered
  <2>2. CASE UNCHANGED vars
    BY <2>1, <2>2 DEF vars
  <2>3. CASE Call
    BY <2>1, <2>3 DEF Call, StartCall, StopServer, StopClient, DeleteServer, DeleteClient
  <2>4. CASE CallGoesOn
    BY <2>1, <2>4 DEF CallGoesOn, StartNetwork, StartConsole, Register, StopClose, JoinNetwork,
      JoinConsole, SetFlags
  <2>5. CASE SetUpFails \/ SetUp \/ LoopTest \/ Exit \/ ClientNetworks
    BY <2>1, <2>5 DEF SetUpFails, SetUp, LoopTest, Exit, ClientNetworks
  <2>6. CASE TurnDone
    <3>1. CASE shouldQuit
      BY <2>1, <2>6, <3>1 DEF TurnDone
    <3>2. CASE ~shouldQuit
      <4>1. /\ queue' = <<>> /\ taken' = taken \o queue /\ ignored' = ignored
            /\ \A i \in 1..Len(queue) : queue[i] = "blank"
        BY <2>6, <3>2 DEF TurnDone
      <4>2. \A i \in 1..Len(taken') :
              taken'[i] = IF i <= Len(taken) THEN taken[i] ELSE queue[i - Len(taken)]
        BY <4>1, BlanksTaken DEF TypeOK
      <4>3. Len(taken') = Len(taken) + Len(queue) /\ Len(taken) \in Nat /\ Len(queue) \in Nat
        BY <4>1, BlanksTaken DEF TypeOK
      <4>4. ASSUME NEW i \in 1..Len(taken'), taken'[i] = "quit"
            PROVE  i \in ignored
        <5>1. i \in 1..Len(taken)
          BY <4>1, <4>2, <4>3, <4>4
        <5> QED
          BY <3>2, <4>2, <4>3, <4>4, <5>1 DEF QuitInv, QuitIsRemembered
      <4> QED
        BY <4>1, <4>3, <4>4 DEF QuitInv, NothingAfterQuit, QuitIsRemembered
    <3> QED
      BY <3>1, <3>2
  <2>7. ASSUME NEW n \in 1..Len(queue), HandleCommand(n)
        PROVE  QuitInv'
    <3>1. NextCommand(n) /\ ~shouldQuit
      BY <2>7 DEF HandleCommand
    <3>2. /\ Len(taken') = Len(taken) + n /\ Len(taken) \in Nat
          /\ \A i \in 1..Len(taken) : taken'[i] = taken[i]
          /\ \A i \in 1..n : taken'[Len(taken) + i] = queue[i]
      BY <3>1, QueueSplits DEF TypeOK
    <3>3. ignored \subseteq ignored'
      BY <2>7 DEF HandleCommand
    <3>4. ASSUME NEW i \in 1..(Len(taken') - 1), taken'[i] = "quit"
          PROVE  i \in ignored
      <4>1. i \in 1..Len(taken)
        <5>1. SUFFICES ASSUME i > Len(taken)
                       PROVE  FALSE
          BY <3>2
        <5>2. i - Len(taken) \in 1..(n - 1)
          BY <3>2, <5>1
        <5>3. queue[i - Len(taken)] = "blank"
          BY <3>1, <5>2 DEF NextCommand, FirstCommandAt
        <5>4. taken'[Len(taken) + (i - Len(taken))] = queue[i - Len(taken)]
          BY <3>2, <5>2
        <5>5. Len(taken) + (i - Len(taken)) = i
          BY <3>2
        <5> QED
          BY <3>4, <5>3, <5>4, <5>5
      <4> QED
        BY <3>1, <3>2, <3>4, <4>1 DEF QuitInv, QuitIsRemembered
    <3>5. taken'[Len(taken')] = queue[n]
      BY <3>2
    <3>6. taken'[Len(taken')] = "quit" /\ Len(taken') \notin ignored' => shouldQuit'
      BY <2>7, <3>5 DEF HandleCommand
    <3>7. QuitIsRemembered'
      <4>1. ASSUME NEW i \in 1..Len(taken'), taken'[i] = "quit", i \notin ignored'
            PROVE  i = Len(taken')
        <5>1. i \notin 1..(Len(taken') - 1)
          BY <3>3, <3>4, <4>1
        <5>2. Len(taken') \in Int
          BY <3>2
        <5> QED
          BY <5>1, <5>2
      <4> QED
        BY <3>6, <4>1 DEF QuitIsRemembered
    <3> QED
      BY <3>3, <3>4, <3>7 DEF QuitInv, NothingAfterQuit
  <2>8. ASSUME NEW l \in Line, ConsoleLine(l) \/ PushInputAsCommand(l)
        PROVE  QuitInv'
    BY <2>1, <2>8 DEF ConsoleLine, PushInputAsCommand, Push
  <2>9. CASE ConsoleTest \/ ConsoleEnds
    BY <2>1, <2>9 DEF ConsoleTest, ConsoleEnds
  <2> QED
    BY <2>2, <2>3, <2>4, <2>5, <2>6, <2>7, <2>8, <2>9 DEF Next, NetworkThread, Finished
<1>3. QuitInv => NothingAfterQuit
  BY DEF QuitInv
<1> QED
  BY <1>1, <1>2, <1>3, QueueCorrect, PTL DEF Spec
=============================================================================

# A TLA+ model of BCNet

BCNet (`src/BCNet`) is a C++ library for networked games: a server and a client, each with a
thread of its own over Valve's GameNetworkingSockets, and a console of commands. This directory
holds TLA+ modules of the parts of BCNet that are hard to test, TLC configurations that check
them on small instances, and proofs for the TLA+ proof system (TLAPS) that hold for instances of
every size.

## 1. The system

| Component | State | Operations | What makes it correct |
|---|---|---|---|
| Server network thread (`BCNetServer.cpp`) | client table `m_connectedClients`, counter `m_clientCount`, limit `m_maxClients`, `m_shouldQuit`, `m_networking` | `DoNetworking`: `PollNetworkMessages`, `PollConnectionStateChanges`, `HandleUserCommands`; `OnSteamNetConnectionStatusChanged`; `KickClient`, `SetClientNickname` | the counter is the size of the table; the limit is kept; a message always comes from a client; every connection is decided and every handle closed; the application and the other clients learn who is there |
| Client network thread (`BCNetClient.cpp`) | `m_connection`, `m_connectionStatus`, `m_networking`, `m_shouldQuit` | `DoNetworking`, the status callback, `CloseConnection`, `ConnectToServer`, `Stop` | one connection at a time; the status follows the connection; a callback is for the connection it is taken for; nothing is called after the library is gone |
| GameNetworkingSockets (external) | connections, queue of status callbacks, poll group, unread messages | the calls both threads make | taken from the headers under `BCNet/external` |
| Start, Stop, destruction | two `std::thread`s, `m_shouldQuit`, `m_networking` | `Start`, `Stop`, destructors | `Stop` returns; the two flags tell the truth about the thread; a destroyed object leaves no thread behind |
| Command queue and parsing | `m_commandQueue` under `m_mutexCommandQueue`, `m_commandCallbacks` | `PushInputAsCommand`, the console thread, `GetNextCommand`, `ParseCommand`, `ParseCommandParameters` | first in, first out, nothing lost; the tokens are those of the line |
| Output log | `m_outputLog`, `m_maxOutputLog` | `Log`, `SetMaxOutputLog`, `GetLatestOutput` | never more than the maximum; the latest entry is the latest |
| Packets (`BCNetPacket.h/.cpp`) | a buffer and a position | `WriteData`, `WriteString`, `ReadData`, `ReadString`, ... | what is written is read back; no access outside the buffer |
| Message pool (example client) | an array of messages with a free list in it | `Create`, `Update` | each object is free or in use, never both; every message has a place of its own on the screen |
| Input line (example client) | two arrays of characters and their counts | the keys in `Game::Update` | what is drawn, pushed and recalled is what was typed |
| Example programs | windows, drawing, the relay of texts | `Game`, the two `main`s | I/O |

How they interact: the server's and the client's network thread run everything that matters.
They call the library, and the library calls back only inside `RunCallbacks`, on the same
thread, with the callbacks that its own service thread queued. The console thread and the
application only push commands, which the network thread obeys at the end of each turn of its
loop, and set plain flags; the exception is the client's `Stop`, which closes the connection
itself.

What is hard: a callback describes a moment that has passed, and the connection, the client
table or the handle held in `m_connection` may have changed before it is handled; a connection
that is closed locally still has callbacks in the queue; a peer may go at any point between two
calls of one handler's sequence; flags are shared without a lock. The `hazards` of
`PROJECT.json` list each place.

## 2. Modules

| Module | Models |
|---|---|
| `SteamSockets` | the library as far as BCNet uses it (external): handles, connection states, callbacks posted for every change of state, poll group, unread messages |
| `BCNetServer` | the server's network thread, composed with `SteamSockets` (EXTENDS) |
| `Membership` | what admission promises, without callbacks and threads: join once, when there is room; never come back |
| `BCNetServerProofs` | theorems about `BCNetServer`, among them that it implements `Membership` |
| `BCNetClient` | the client's network thread and the application's call of `Stop`, composed with `SteamSockets` |
| `Session` | what the client promises about its connection, without callbacks and threads: one at a time, over a handle of its own, ended by its own loss or by the user |
| `PacketStream` | a `PacketStreamWriter` and a `PacketStreamReader` over one packet; stands alone, since the other modules keep of a packet only what its handler tells apart |
| `PacketStreamProofs` | theorems about `PacketStream` |
| `Lifecycle` | `Start`, `Stop` and the destructor of either side with the network thread, the console thread and the command queue between them |
| `LifecycleProofs` | theorems about `Lifecycle` |
| `CommandParameters` | a line of input from the queue to the array of parameters: trimming, `ParseCommand`, `ParseCommandParameters`, `/kick` |
| `InputLine` | the keys of the example client, on the memory they write |
| `MessageDisplay` | output log and message pool of the example client, changed by the network thread and by the frame loop |
| `BCNetClientProofs` | theorems about `BCNetClient`, among them that it implements `Session` |
| `MessageDisplayProofs` | theorems about `MessageDisplay` |
| `InputLineProofs` | theorems about `InputLine` |
| `CommandParametersProofs` | theorems about `CommandParameters` |
| `NaturalFacts` | facts about natural numbers that the last three use |
| `MCBCNetServer`, `MCBCNetClient`, `MCPacketStream`, `MCLifecycle`, `MCCommandParameters`, `MCInputLine`, `MCMessageDisplay` | instances for TLC |

`SteamSockets`. `conn[c]` is the state of the connection behind handle `c`: "Fresh" before the
handle is given out, "None" when it was closed here; "Ended" stands for `ClosedByPeer` and
`ProblemDetectedLocally`, which BCNet handles under the same case labels. Each change of state
appends to `callbacks`; a closed handle leaves the poll group and loses its unread messages, its
queued callbacks stay. Handles are never used twice. Unread messages are bounded by `MaxInbox`.
The calls are reliable here: a `SetConnectionPollGroup` that fails, or a send that fails, is not
modelled.

`BCNetServer`. `pc` says where the thread is: `loop` (the test of `m_shouldQuit`), `poll`,
`callbacks`, `admit` (between `AcceptConnection` and the test of the limit: a peer may go in
between), `commands`, `closing`, `done`. One action is one message, one callback or one command;
a handler that touches the library twice with something to go wrong in between is cut there. The
table is `clients` (the keys) and `nick`; a default nickname "User 3" is the number 3, any other
nickname a model value. Of a packet the model keeps what the switch tells apart: a nickname with
its name, a who's-online request, anything else, and a packet too short for its id, which leaves
`id` uninitialised, so that any branch may be taken. `m_networking` is no variable: only this
thread writes it while it runs, and it is TRUE at each test in the loop (a negative number of
messages, lines 216 to 221, is the answer for a poll group that does not exist, and there is one).
The first failing assert ends a behaviour (`fault`).

What clients are told is kept as `told[c]`, the set of peers the messages sent to `c` say are
online. A text is modelled by its length: `NickLength` and `PrintConnectedUsers` count the
characters of a nickname and of the list, and a packet of 1024 bytes holds a 4-byte id, an 8-byte
`size_t` and the text, or goes without the text (`Fits`, the `WriteString` of module
`PacketStream`). A client that a list or a line did not reach is in `missed` until a list reaches
it. `appClients` is the set of clients the application's callbacks have named; `fate` and
`welcomed` are history as well. `welcomed` says that the handler of the Connected callback ran,
not that its list fitted.

`BCNetClient`. The network thread and `Stop` share four plain members without a lock, so the code
is cut at each access to them. `todo[t]` is what thread `t` does next in `CloseConnection`, or in
the handler of a lost or a new connection: reset `m_networking`, close the handle, forget it,
write the status, call the application back ("down" or "up"). `/connect` is cut at the test
("command"), the call into the library ("connect") and the look at the handle it gave ("dialed"),
`m_networking = !m_shouldQuit` into its read and its write ("rearm", "disarm"). `Stop` only ever
resets what it shares, so a test and the write behind it are one step where a reset in between is
as good as one before or after both; the head of the module lists these lines. `connection` starts
as `Garbage`, since `m_connection` is not initialised; the library takes it for invalid. `Debug`
says whether asserts are compiled in: the model has both builds. `reported` and `crossed` are
history: the callback made last, and whether both threads have ever written a status that they had
not yet told.

`Session`. `link` is `conn`, `leaving` is `m_shouldQuit`, and `phase` is read off the status,
the place of the network thread and what it has to do (`Phase`). It is "down" for DISCONNECTED
and FAILED, "dialing" between the test of `/connect` and the answer of the library, "trying" and
"up" for CONNECTING and CONNECTED, "ending" once `/disconnect` or the handler of a lost connection
is about to close the handle. Behind `/disconnect` the status is still CONNECTED between the call
that closes the handle and its reset, where `phase` is "down" already. Nothing is promised of the
status of a client told to quit (section 5): it is "left", and only its handles count; or "last",
while the network thread is in a command it took before, which may be a `/connect`.

`PacketStream`. A packet is a sequence of bytes, a byte is known by the item it was written for,
and only the bytes of a length have a value. Bytes that are no length may say any of `Odd` when
they are read as one. An item is a raw value, a string (or a packet with its size, which has the
same form), or a literal: `operator<<` has overloads for `std::string` and `Packet`, a `const
char[n]` goes to the template, and the array is written without a length. The receiver reads
items in the order they were written and every text as a `std::string`, sent are the bytes up to
the position or the whole buffer, as in the answer to a who's-online request. `fitted` is
history: which of the two writes of each item succeeded, a result the code drops. `results`
keeps what the reader's calls returned, which the code mostly drops too; a string whose text is
not in the packet has been resized before, so that its handler sees as many NUL characters.

`Membership`. `members` is the server's table, `gone` every connection with a `fate`, `limit` is
`m_maxClients`, `closed` says that the thread is done. A callback, a message or the step of a
handler that changes none of these is a stutter. The server maps a turned-away connection to
`TurnAway`, which is possible only when there is no room.

`Lifecycle`. One object, a server or a client (`side`). `app` is the call the application is in
and how far it is, since `Start`, `Stop` and the destructors start and join threads one after
the other; `net` and `console` are the two threads. A step of the network loop takes the next
command from the queue with the blank lines before it, as `GetNextCommand` does; a line is
`quit`, another command or blank. `registered` is FALSE until `Start` has filled the command
table, which it does after the network thread was started. `SetUpFails` is any of the early
returns of `DoNetworking`.
`pushed`, `taken` and `ignored` are history. The table of clients, packets and the library's
connections are in the other modules; here the library is up or down.

`CommandParameters`. A character is a class: the blank, the quote, a digit, the words `-id` and
`-user` as one character each, other letters. `std::stoul` takes the digits a word begins with; it
throws when there are none, and it may when there are `MaxDigits`, the digits of the largest
`unsigned long` (`AfterStoul`; the sign it also takes is left out). The buffer, the pointers into it and the
terminators `strtok` and `SplitLine` write are modelled as they are, since they are what goes
wrong. The tokens are compared with a reference definition on the line alone: the places where
its words start, and the word at each (`WordPlaces`, `WordStarts`, `Word`). White space other
than the blank is left out.

`InputLine`. `memory` is `m_inputArr` followed by `m_lastInputArr`; every character starts as
`Junk` or the terminator. `CopyTo` is `strncpy_s` as MSVC defines it, which ends the program
when the text does not fit. `typed` and `entered` are history: what the keys alone say.

`MessageDisplay`. `Create` and the freeing of an object are cut at each access the other thread
can come between. `next` shares its bytes with the position of a message (a union), so a message
in use has a `Wild` next. Two threads that are in the free list at the same time have
`collided`: from there on a lost update of the counter is possible too.

Mutants, named in `PROJECT.json`, are defined just before the definition they change, under a
comment "Mutant": the same definition with a plausible mistake. They are part of no
specification; they show that the property they are listed with notices the mistake.

## 3. What is checked

All runs use two worker threads; the longest takes two and a half minutes.

| Run | Instance | Shows |
|---|---|---|
| `ServerPackets` | 2 connections, all kinds of packets, renames to "User 1", to nothing and to `ned`, a name of 1005 characters, kicks | `TypeOK`; `GroupIsClients`: a message always comes from a client; `OnlyClosedPeersFault`: the only assert that can fail is the one on lost peers, and only for a connection the server closed; `RosterAccurate`: two welcomed clients know of each other and nobody believes in a client that has left (excepted are kicked ones, of which no message is sent, and clients that a text has missed); `PacketsKeepNicksApart` |
| `ServerTable` | 2 connections, limit 1 or 2 changed at any time, kicks, quitting, no messages read but the application's, fairness | `CountIsClients`; `EveryConnectionIsHandled`: no connection is forgotten, no client is dead without the server learning of it; `Membership`: the refinement; attempts are decided, ended connections cleaned up (`ConnectionsAreDealtWith`), clients welcomed (`ClientsAreWelcomed`), a request to quit obeyed (`QuitEndsServer`) |
| `ServerKick` (violated) | 2 connections, limit 1, kicks | a kicked client leaves the table and no callback says so |
| `ServerFullRace` (violated) | 2 connections, limit 1 | the assert on lost peers fails when a peer goes while it is being turned away |
| `Lifecycle` | a server or a client, 3 lines, 2 starts, fairness | `FirstInFirstOut`: the queue; `NothingAfterQuit`; `FlagsTellTruth`: what `IsConnected` and `IsRunning` say; `NothingSurvives` destruction; `QuitIsObeyed`; `CallsReturn` |
| `ServerStop` (violated) | a server, 1 line, fairness | `Stop` waits for a thread it has not asked to quit |
| `ClientSession` | 2 handles, one message, debug build, `Stop` at any time, fairness | `OnlyHandleAlive`: no connection is lost track of; `StatusLagsByCallbacks`: the status is behind the connection by queued callbacks only; `CallbacksMatchStatus`: the application was told last what the status says, until a callback of `Stop` has crossed one of the network thread; `OnlyStaleCallbacksFault`; `Session`: the refinement; `StatusCatchesUp`: ends are noticed, attempts decided; `StopReturns` |
| `ClientReconnect` (violated) | 2 handles | `/disconnect` and `/connect` in one turn fail the assert on the handle |
| `PacketStream` | a packet of 7 bytes, 4 items | `NoOverrun`: no copy outside of the packet; `WhatFitsArrives`: up to the first literal, or string that got its text in but not its length, what fits is read as written and the reader's call returns false for the rest; `OnlyLiteralsThrow`: without literals no text is ever read as a length |
| `CommandParameters` | all lines of up to 8 characters, 3 parameters | `CommandAndRest`; `TokensAreWords`: the tokens are the words of the line, the first twice if the parameters begin with a quote, and never more than fit; `OnlyBadIdsThrow`: `std::stoul` throws only for a `-id` whose word has no digits, or as many as may be too many (two here) |
| `InputLine` | arrays of 4 characters, 2 letters, any content of memory | `LinesAreTyped`: what is drawn, pushed and recalled is what was typed, until a full line breaks the last one; `OnlyFullLinesAbort` |
| `MessageDisplay` | 2 objects, 5 messages, limits 0, 2 and 3, fairness | without a collision: `FreeListIsRest` (no object lost or given twice), `IndicesArePlaces` (no two messages over each other); `FaultsHaveCause`; `LogIsRecent`; `RoomReturns` |

Bounds. Two connections make every race between a client and another one's arrival, message or
departure; with a limit of 1 the second is turned away, or comes after the first has gone. A third
one adds only clients beside those two, and makes the liveness of `ServerTable` longer than a run
may be; its three safety properties, like those of `ServerPackets`, are proved for any number.
Handles of the server are numbers, because `/kick -user` takes the first one in the order of the
map. One unread message per connection is enough, since no handler looks at more than one. `ned`
is too long for any text with it to fit a packet, "User 1" for none, and both can come first.

The second handle of the client lets callbacks of a dead connection meet a living one; a third,
with callbacks of two dead ones, adds nothing the proofs do not cover.

In `PacketStream` a length takes two of seven bytes, so that it can be missing with a byte left,
and a `size_t` has five bits; four items let one that does not fit, or a literal, stand before,
between and after others. `Odd` holds a small length, one longer than the packet that
`std::string` takes, one it does not, and the one with which the sum wraps.

In `Lifecycle` two threads started one after the other make every restart, and three lines let a
command stand before and after another, or be left over for the second thread. `ServerStop` has
one line and no `quit`: nobody else ends the server, and that someone types does not help. Eight
characters make a command, three words and quotes around blanks; with three parameters an array
can overflow. Four characters are a line that is empty, partly filled, one short of full, and
full. Two objects are freed in the order of the array or against it; five messages are the
fewest after which a collision has put a wild pointer where `Create` follows it (a third object
takes the liveness of the run beyond reach; `MessageDisplayProofs` covers every size).

Fairness. `WF_vars(NetworkThread)`: the operating system schedules the thread.
`WF_vars(CommandsDone)`: the command queue is found empty some time, so people do not type
faster than commands are obeyed. In the client this is `SF_vars(CommandsDone)`, since a command
has steps of its own, in which `CommandsDone` is not enabled. `WF_vars(StopThread)` in the client:
the application's thread is scheduled too.
`WF_vars(Resolve(c))`: the library lets every connection attempt succeed or time out. The loop
that reads messages ends only when none waits, and nothing in the code bounds it, so every
liveness property is conditional on `LoopDrains`, that it is left again and again. No fairness
is assumed of peers, of the console or of the application: `CallsReturn` of `Lifecycle` is
conditional on somebody quitting and on lines being typed, or stdin ending (`StdinFlows`), since
the console thread looks at `m_shouldQuit` only between two lines. In `MessageDisplay` frames
are drawn all the time (`WF_vars(FrameLoop)`) and the time of a message comes (strong fairness
of a frame in which one expires). A failed assert also counts as an end.

## 4. What is proved

`BCNetServerProofs` proves, for every set of connections, nicknames, packets and limits:

* `TypeCorrect`: `Spec => []TypeOK`.
* `ServerInvariant`: `Spec => []ServerInv`, the inductive invariant.
* `GroupCorrect`, `CountCorrect`: `[]GroupIsClients` and `[]CountIsClients`.
* `AdmissionCorrect`: `Spec => AdmissionRespectsLimit`, a step that admits a client leaves at
  most `m_maxClients`.
* `MembershipImplemented`: `Spec => Membership`, each step of the server is a step of the
  abstract membership or a stutter.

`GroupIsClients` is not inductive by itself: the handler of an incoming connection adds it to
the group and, unless the server is full, to the table, and that is right only if the callback
does not come for a client, or twice. `ServerInv` adds what is needed: connections in the group
are up or were (`GroupWasUp`); what a posted callback says of the past is true, both in the
library's queue and in the part being handled (`PostedSound`, `DispatchSound`), so that a
connection that has an unhandled "Connecting" callback and has never been up is in no table; and
the connection being admitted is new (`AdmittedIsNew`). The lemmas `TransitionSound`,
`CloseSound`, `AcceptSound` and `PeerSound` show that each call into the library keeps the queue
truthful, `DispatchStays` that handling a callback does. `CountIsClients` then follows because a
client is erased only when it is there (`EraseCounts`) and admitted only when it is not
(`AdmitCounts`), and the limit because admission looks at a correct counter.

The proofs assume the constants are what `BCNetServer` says (`ConnAssumption` and so on) and
that the application renames only clients: `SetClientNickname` with any other id would insert it
into the table without counting it (`operator[]`, `BCNetServer.cpp:447`).

The second half of the module follows the callbacks through the queue:

* `HandledCorrect`, `FaultCorrect`: `[]EveryConnectionIsHandled` and `[]OnlyClosedPeersFault`.
* `AppCorrect`: `[]AppKnowsClients`, if nobody is kicked (`~Kicks`); otherwise it is false (section
  5).
* `RosterCorrect`: `[]RosterAccurate`.
* `NicknamesCorrect`: `Spec => PacketsKeepNicksApart`.

The first two need the callbacks themselves, in the library's queue and in the part swapped out.
A connection only grows older, from connecting over up and ended to closed (`Rank`), so each of
its states is reported once (`QueueInv`; the lemma `QueueStep` says what one step does to both
queues). Hence an attempt still to be looked at is no client's, and a loss still to be handled is
a client's, or of the connection being admitted, or of one that was kicked or refused
(`EventsKnown`); the assert at `BCNetServer.cpp:535` can therefore fail for the last two only.
`AppCorrect` rests on the types alone: without kicks each step that changes the table calls back.
`RosterCorrect` needs that the connection being admitted has no fate, and one fact more: nobody
has been told anything before it enters the table (`NewAreUntold`). Since who has gone does not
come back, the list sent to a new client and the messages sent about it then give the two halves
of `RosterAccurate`. Of the lengths of texts the proof uses nothing: whichever clients a text
reaches, the others are in `missed`, and only a list takes them out. `NicknamesCorrect` is about single steps and rests on
the types alone: of the steps that read a packet only one changes a nickname, and it has compared
it with those of all clients.

`PacketStreamProofs` proves, for every capacity, size of a length and set of items:

* `StreamTypeCorrect`: `Spec => []TypeOK`, of which the last two lines say that a position never
  passes the end of its packet.
* `NothingOverrun`: `Spec => []NoOverrun`.
* `ArrivalCorrect`, `ThrowCorrect`: `[]WhatFitsArrives` and `[]OnlyLiteralsThrow`.

The first two follow from one invariant, `StreamInv`. The bounds check adds in `size_t`, so the
sum must not wrap (`NoWrap`). Sizes of items are small by assumption (`SizeAssumption`,
`ItemAssumption`: no `sizeof` and no string is near the largest `size_t`); a size read out of
the packet is not, but the string is resized to it first, which throws when it is longer than
`max_size` (`SizesType`). The order of lines 95 and 96 of `BCNetPacket.cpp` is what makes the
code safe, and the mutant `ReadStringUnbounded` shows it.

For what arrives, the invariant (`ArrivalInv`) says where each item lies: there are places at
which the items start, each where the parts of the one before it that fitted end, and the bytes
there are the item's (`Layout`); what was sent is the beginning of what was written
(`Received`); and the reader is at the place of its next item (`OnTheWay`). So each of its bounds
checks comes out as the writer's did. Once an item has lost its length but not its text, too
little of the packet is left for any length, and the reader takes nothing more; only behind a
literal can it be anywhere.

`LifecycleProofs` proves, for any number of lines and starts:

* `QueueCorrect`, `LifeTypeCorrect`: `Spec => [](TypeOK /\ FirstInFirstOut)`, `[]TypeOK`.
* `LifeInvariant`, `FlagsCorrect`, `DestructionCorrect`: `LifeInv` adds to the two flags that a
  thread which has ended was told to quit or failed in its set-up (`ExitMeansQuit`), that the
  library is up outside the loop only after a failure (`LibraryMeansFailure`), and where in a
  call which thread has been joined (`JoinedNetwork`, `JoinedConsole`). `NothingSurvives`
  follows.
* `QuitCorrect`: `Spec => []NothingAfterQuit`; the strengthening says that an obeyed `/quit` is
  remembered in `m_shouldQuit`, which is never reset.

`BCNetClientProofs` proves, for any number of handles, with and without asserts, and whether or
not `Stop` is called:

* `ClientTypeCorrect`: `Spec => []TypeOK`.
* `HandleCorrect`, `StaleCorrect`: `[]OnlyHandleAlive` and `[]OnlyStaleCallbacksFault`.
* `CallbacksCorrect`: `[]CallbacksMatchStatus`.
* `StatusCorrect`: `[]StatusLagsByCallbacks`, for a build with asserts.
* `SessionImplemented`: `Spec => Session`, for a build with asserts.

`HandleCorrect` and `StaleCorrect` follow from `ClientInv`. That `m_connection` is the only live
handle is not inductive: `/connect` replaces it, which is right only if none is alive by then.
So `HandleSound` says that `m_networking` is FALSE, before the client is told to quit, only when
no handle is alive, or the one that is about to be closed. After that `Disarm` resets the flag
over a live connection, and only what the assert needs is kept: a thread that polls or runs
callbacks has no other live handle. `PlacesSound` says where the two threads can be in
`CloseConnection`, `QueuesSound` that no callback is about a handle that was never given out.
`CallbacksMatchStatus` needs to know what each thread has written and not yet told (`ReportInv`):
who is to say "down" has left a status that is not CONNECTED, who is to say "up" one that is. This
is so until both have something to say at once (`crossed`), from where on the one that speaks last
decides.

`StatusCorrect` follows the queue, as the server's proofs do (`LagInv`): what a callback reports
has happened (`EventsTrue`), a connection is reported up once and before its end (`UpOnceFirst`),
what a connection has become and the status does not say waits in the queue (`EventsWait`), and
the status says nothing that `m_connection` has not been (`StatusSound`). With a queue that
still reports an old handle this breaks at the assert (`BCNetClient.cpp:400`), which stops a
debug build. A release build goes on (section 5), so the theorem assumes `Debug`.

`SessionImplemented` maps each step to a step of `Session` or a stutter, by the same invariants
and one more, that until the client quits a handle is alive only while the status says CONNECTING
or CONNECTED, or it is about to be closed (`AliveInv`). The step that matters is a callback of an ended connection: either it
is about `m_connection`, which has ended (`EventsTrue`), or `m_connection` is invalid, no handle
is alive, and nothing changes. A callback that says "Connected" finds the status CONNECTING,
because a connection that is CONNECTED has no such callback left (`StatusSound`). Without the
assert neither holds: the mutant `ExpectedAny`, which drops it, and the release build
(`Debug = FALSE`) both break the refinement in TLC. Once the client is told to quit, closing a
handle is the only thing left to map (`QuitCloses`), whichever thread does it; the handle that a
command already taken still gets is the last one.

`MessageDisplayProofs` proves, for every size of the pool, all limits and any number of
messages:

* `LogCorrect`: `Spec => []LogIsRecent`, because the limit is never above its highest value.
* `FaultsCorrect`: `Spec => []FaultsHaveCause`. The free list is described object by object
  (`ListSound`): whatever its head or an object in it points to is in it, and nothing is pointed
  to twice. So the head can be taken, filled and put back without a look at the rest, and no
  induction over the list is needed.
* `PlacesCorrect`: `Spec => []IndicesArePlaces`. Each object in use is in `age` once, collision or
  not (`AgeInv`). Until the threads collide, the counter follows `age` but for the object being
  freed and the one not counted yet, the indices but for the one being freed, and the messages
  that expire in a frame are the oldest (`PlacesInv`); so every other one moves up when one of
  them goes, which is what `Shift` does to all.
* `FreeListCorrect`: `Spec => []FreeListIsRest`. What `FaultsCorrect` needs would be true of a list
  with a ring of lost objects beside it. `ListInv` says that the objects that are free can be
  enumerated from the head along the links to the end; `TakeKeepsList` and `FreeKeepsList` shift
  the enumeration by one. That the walk of the property, a recursive function, meets the objects
  as they are enumerated is `MetAsEnumerated`, place by place.

`InputLineProofs` proves, for arrays of every size, every alphabet and any content of the memory
before the first key:

* `LinesCorrect`: `Spec => []LinesAreTyped`.
* `AbortCorrect`: `Spec => []OnlyFullLinesAbort`.

The properties speak of strings, which end at the first terminator; the invariant (`LineInv`)
speaks of each place in memory, since a key changes places. A recalled line always fits because
the line that was entered did, and its copy left a terminator in `m_lastInputArr`; the only thing
written there afterwards is the terminator of a full line.

`CommandParametersProofs` proves, for lines and arrays of any length:

* `CommandCorrect`: `Spec => []CommandAndRest`. The line handed to `ParseCommand` is not empty and
  has no blank on either side (`Tight`, from `TrimmedTight`), so it starts with the command; the
  parameters, trimmed in turn, end where the line does, and what is left out between the two is
  the blank that `strtok_s` overwrote and those before the parameters.

* `TokensCorrect`: `Spec => []TokensAreWords`. A pointer is a place in the buffer, and the buffer
  has the places of the parameters; the property says so of places, and the invariant
  (`TokensInv`) of each place what the buffer holds there. A place that belongs to a word keeps
  what `Unquote` put there until `Restore`; the others hold blanks, and terminators where a word
  was cut off (`BufferInv`, `CutInv`). That `quoted` of the loop says what the number of quotes
  before a place says is `QuotedIs`, a recursion along the line. One turn of the loop
  (`SplitsWords`) finds the next word because a blank ends the one before and no word starts
  between the two (`NextWord`). The proof needed the case that the array is full after the
  doubled first word (`MaxArgs` = 2), which the instance does not have.
* `KickCorrect`: `Spec => []OnlyBadIdsThrow`, from `TokensInv`: the token after a `-id` is the
  next word, or begins with it (`WordsBegin`), so it throws for lack of digits, or for too many,
  only if that word does.

`NaturalFacts` has what these proofs need of the natural numbers: a set of them has a least
element, so that `Min` and `Max` are what they say; what holds at 0 and goes on from each place
to the next holds up to n (`PlaceByPlace`); a function defined by recursion up to n exists
(`RecursionExists`). The least element comes from a theorem of the library on the subsets of a
finite set. The library's induction theorems take a predicate as a parameter, which the provers
at hand cannot instantiate; a set in its place can be.

Checked by TLC only: liveness, which is out of the prover's reach.

## 5. Known disagreements

Four are the violated runs above and findings in `PROJECT.json`: kicked clients, of which no
`disconnectedCallback` tells the application (`BCNetServer.cpp:475` and `503` against
`IBCNetServer.h:83`), the assert at `BCNetServer.cpp:535` (also reached by kicking a client that
is just leaving), the server's `Stop` (`BCNetServer.cpp:112`), the assert at
`BCNetClient.cpp:400`. Others are visible in how
the properties are stated, or where the models stop:

* The other clients are not told of a kicked one either (`RosterAccurate`).
* A text over the size of its packet is dropped without a word (`BCNetPacket.cpp:41`): the list of
  users of about 110 clients, or one with a nickname of about 1000 characters
  (`BCNetServer.cpp:633` to `645`, `285` to `292`), and the line that such a client has come or
  left (`550` to `557`). Whoever should have got it goes on with what it was told before
  (`missed` in `RosterAccurate`).
* A `Stop` whose `CloseConnection` runs while the network thread handles the answer of the server
  may leave status and callbacks apart (`BCNetClient.cpp`): the lines 442, 183, 185, 445 in this
  order the status DISCONNECTED and the application told that it is connected, the lines 183, 442,
  445, 185 the reverse (`crossed` in `CallbacksMatchStatus`).
* The default nickname counts the clients (`BCNetServer.cpp:607`), so that a client which comes
  after another has left may get a nickname in use; only packets keep nicknames apart
  (`PacketsKeepNicksApart`).
* Nickname and who's-online packets are not released (`281`, `294`); `Release` is not modelled.
* In a build without asserts the late callback at `BCNetClient.cpp:400` closes whatever
  `m_connection` holds (`427`). The model has that build (`Debug = FALSE`); no run
  uses it, the proofs cover it.
* `/quit` resets `m_networking` (`BCNetClient.cpp:232`) before `CloseConnection` asks for it, so
  a connected client that quits stays CONNECTED and its application is never told that the
  connection is over; `Kill` closes it (`CallbacksMatchStatus`, and "left" in `Session`).
* The client's `Stop` may call the library after the network thread has killed it (`115`): the
  case "killed" of `OnlyStaleCallbacksFault`.
* `m_shouldQuit` is never reset, so that a second `Start` after a quit gives a thread that ends
  at once (`QuitIsObeyed`); a set-up that fails leaves `IsRunning` TRUE (`FlagsTellTruth`); a
  second `Start` while the thread runs waits for it (`CallsReturn`).
* `SetMaxOutputLog`, "the maximum amount of messages the server will log"
  (`IBCNetServer.h:188`), does not shorten the log when it is lowered, and with 0 the first
  message pops an empty queue (`LogIsRecent` has the highest limit, `FaultsHaveCause`).
* Parameters that begin with a quote list their first word twice (`TokensAreWords`): `/connect
  "addr" port` loses the port. `/kick -id` with something that is no number, or one too large for an `unsigned long`,
  ends the server (`BCNetServer.cpp:712`, `OnlyBadIdsThrow`).
* The example client draws from a pool that two threads change without a lock (`FreeListIsRest`
  up to a collision), and a full input line overwrites the last one and, when entered, ends the
  program (`InputLine`).

## 6. Not modelled

* Wording of messages and logs, drawing and sound (raylib), the values of application packets,
  the build files, vendored headers: nothing over time depends on them.
* Calls the interface allows and nothing in the repository makes: `ConnectToServer`,
  `CloseConnection`, `KickClient`, `SetClientNickname`, `Log` and the `Send` functions from a
  thread of the application while the network thread runs, and `SetClientNickname` with an id
  that is no client (`BCNetServer.cpp:447`).
* `Packet::Write`, `Read`, `ReadBytes`, `SetStreamPosition`, which are called nowhere, and
  `ReadPacket`.
* The example server: callbacks that relay texts; that `Start` is directly followed by `Stop` is
  a behaviour of `Lifecycle`. Its `sprintf_s` into 1024 characters ends the program when a
  nickname and a text do not fit together (`main.cpp:29`).
* Conversions of single numbers: `std::stoi` of a port with too many digits
  (`BCNetClient.cpp:569`), the sign `std::stoul` takes and the cut of its result to 32 bits, by
  which `/kick -id` can name another client (`BCNetServer.cpp:712`), `isspace` of a negative `char` (`BCNetServer.cpp:351`); the lifetime
  of the string in the pool's union (`MessageObject.h:36`).

## 7. What could follow

1. The network threads of a client and a server over one connection, with reliable messages in
   order.
2. Calls of `KickClient`, `SendPacketToClient` and `ConnectToServer` by a thread of the
   application while the network thread runs.

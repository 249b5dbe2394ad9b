---------------------------- MODULE MessageDisplay ----------------------------
(***************************************************************************)
(* Messages on the screen of the example client: the network thread logs a *)
(* message and creates an object for it in the message pool, while the     *)
(* loop that draws frames updates the pool and frees the messages whose    *)
(* time is up.  No lock keeps the two apart.                               *)
(*                                                                         *)
(* The pool is an array with a free list in it: `next` of a free object    *)
(* lies in the same bytes as the position of one in use (a union), so a    *)
(* message written into an object makes its `next` Wild.  Create has the   *)
(* steps Take, Fill and Count; freeing an object has Link, Free, Lower and *)
(* Shift.  A thread between two steps of each has collided with the other; *)
(* what comes of that is the interleaving of the steps, and updates of the *)
(* counter that are lost.                                                  *)
(*                                                                         *)
(* A message is its number; its text, font and colour are left out, and    *)
(* the index of an object not in use, which nobody reads, stays 0.         *)
(* The float clocks of the messages are replaced by their order: all live  *)
(* equally long and are updated together, so when a message expires the    *)
(* older ones expire in the same frame or before.                          *)
(***************************************************************************)
EXTENDS Integers, Sequences, FiniteSets, SequencesExt

CONSTANTS
  Size,         \* MAX_SIZE of the pool
  Width,        \* numbers an unsigned int has
  Limits,       \* what the application passes to SetMaxOutputLog
  InitialLimit, \* what m_maxOutputLog is initialised with
  MaxMessages   \* bound on the messages logged

ASSUME SizeAssumption == Size \in Nat \ {0} /\ Width \in Nat /\ Width > Size
ASSUME LimitAssumption == Limits \subseteq Nat /\ InitialLimit \in Nat \ {0}
ASSUME BoundAssumption == MaxMessages \in Nat

Slot == 1..Size
Null == 0
Wild == Size + 1    \* the bytes of a position, read as a pointer

VARIABLES
  logged,       \* how many messages were logged so far
  outputLog,    \* m_outputLog
  maxOutputLog, \* m_maxOutputLog
  highest,      \* the highest value m_maxOutputLog has had
  net,          \* the step of Create the network thread is at
  taken,        \* newMessage
  firstAvailable, next, inUse, index, activeMessages,   \* the pool
  age,          \* the messages in use, oldest first; stands for the clocks
  frame,        \* the step of Update the frame loop is at
  i,            \* the object it is at
  expiring,     \* the objects whose time is up in this frame
  collided,     \* TRUE once the two were in the free list at the same time
  fault         \* "none", "empty" (pop of an empty queue) or "wild" (a wild pointer)

logVars == <<logged, outputLog, maxOutputLog, highest>>
pool == <<firstAvailable, next, inUse, index, activeMessages, age>>
vars == <<logVars, net, taken, pool, frame, i, expiring, collided, fault>>

Init ==
  /\ logged = 0 /\ outputLog = <<>>
  /\ maxOutputLog = InitialLimit /\ highest = InitialLimit
  /\ net = "idle" /\ taken = Null
  /\ firstAvailable = 1
  /\ next = [s \in Slot |-> IF s = Size THEN Null ELSE s + 1]
  /\ inUse = [s \in Slot |-> FALSE]
  /\ index = [s \in Slot |-> 0]
  /\ activeMessages = 0
  /\ age = <<>>
  /\ frame = "idle" /\ i = 1 /\ expiring = {}
  /\ collided = FALSE
  /\ fault = "none"

\* The two threads are in the free list and the counter at the same time.
InPool(netStep, frameStep) ==
  netStep \in {"take", "fill", "count"} /\ frameStep \in {"free", "lower", "shift"}

\* The counter after it was set to n: the other thread's update may be lost, which
\* was the change by d.
Counter(n, d) == {n % Width} \cup (IF collided THEN {(n - d) % Width} ELSE {})

\* The messages in use without the one in object s, oldest first.
Without(s) == IF inUse[s] THEN RemoveAt(age, CHOOSE k \in 1..Len(age) : age[k] = s) ELSE age

NetEnters == collided' = (collided \/ InPool(net', frame))
FrameEnters == collided' = (collided \/ InPool(net, frame'))

-----------------------------------------------------------------------------
(* The network thread.                                                     *)

NetGoes(from, to) == fault = "none" /\ net = from /\ net' = to

\* The thread of the frame loop sets the limit, between two frames.
SetMaxOutputLog(max) ==
  /\ fault = "none" /\ frame = "idle"
  /\ maxOutputLog' = max
  /\ highest' = IF max > highest THEN max ELSE highest
  /\ UNCHANGED <<logged, outputLog, net, taken, pool, frame, i, expiring, collided, fault>>

\* Mutant: the oldest message is removed after the latest was added.
LogTrimsAfter ==
  /\ NetGoes("idle", "show")
  /\ logged < MaxMessages
  /\ logged' = logged + 1
  /\ LET longer == Append(outputLog, logged')
     IN  outputLog' = IF Len(longer) + 1 > maxOutputLog THEN Tail(longer) ELSE longer
  /\ UNCHANGED <<maxOutputLog, highest, taken, pool, frame, i, expiring, collided, fault>>

\* Mutant: the log grows one beyond its limit.
LogLate ==
  /\ NetGoes("idle", "show")
  /\ logged < MaxMessages
  /\ logged' = logged + 1
  /\ outputLog' = Append(IF Len(outputLog) > maxOutputLog THEN Tail(outputLog) ELSE outputLog,
                         logged')
  /\ UNCHANGED <<maxOutputLog, highest, taken, pool, frame, i, expiring, collided, fault>>

\* Log: one message is removed if another would be too many, and the new one added.
Log ==
  /\ NetGoes("idle", "show")
  /\ logged < MaxMessages
  /\ Len(outputLog) + 1 > maxOutputLog => outputLog # <<>>
  /\ logged' = logged + 1
  /\ outputLog' = Append(IF Len(outputLog) + 1 > maxOutputLog THEN Tail(outputLog)
                         ELSE outputLog, logged')
  /\ UNCHANGED <<maxOutputLog, highest, taken, pool, frame, i, expiring, collided, fault>>

\* There is none to remove: pop is called on an empty queue.
LogPopsNothing ==
  /\ fault = "none" /\ net = "idle"
  /\ logged < MaxMessages
  /\ Len(outputLog) + 1 > maxOutputLog /\ outputLog = <<>>
  /\ fault' = "empty"
  /\ UNCHANGED <<logVars, net, taken, pool, frame, i, expiring, collided>>

\* The callback, GetLatestOutput, and Create, which returns if no object is free.
OutputLog ==
  /\ NetGoes("show", IF firstAvailable = Null THEN "idle" ELSE "take")
  /\ taken' = firstAvailable
  /\ NetEnters
  /\ UNCHANGED <<logVars, pool, frame, i, expiring, fault>>

Take ==
  /\ taken # Wild
  /\ NetGoes("take", "fill")
  /\ firstAvailable' = next[taken]
  /\ NetEnters
  /\ UNCHANGED <<logVars, taken, next, inUse, index, activeMessages, age, frame, i,
                 expiring, fault>>

TakeWild ==
  /\ fault = "none" /\ net = "take"
  /\ taken = Wild
  /\ fault' = "wild"
  /\ UNCHANGED <<logVars, net, taken, pool, frame, i, expiring, collided>>

\* MessageObject::Init; the object is in use from here on.
Fill ==
  /\ NetGoes("fill", "count")
  /\ next' = [next EXCEPT ![taken] = Wild]
  /\ index' = [index EXCEPT ![taken] = activeMessages]
  /\ inUse' = [inUse EXCEPT ![taken] = TRUE]
  /\ age' = Append(Without(taken), taken)
  /\ NetEnters
  /\ UNCHANGED <<logVars, taken, firstAvailable, activeMessages, frame, i, expiring, fault>>

Count ==
  /\ NetGoes("count", "idle")
  /\ activeMessages' \in Counter(activeMessages + 1, -1)
  /\ taken' = Null
  /\ UNCHANGED <<logVars, firstAvailable, next, inUse, index, age, frame, i, expiring,
                 collided, fault>>

-----------------------------------------------------------------------------
(* The frame loop.                                                         *)

FrameGoes(from, to) == fault = "none" /\ frame = from /\ frame' = to

\* A frame: the n oldest messages expire in it.
Update(n) ==
  /\ FrameGoes("idle", "object")
  /\ i' = 1
  /\ expiring' = {age[k] : k \in 1..n}
  /\ UNCHANGED <<logVars, net, taken, pool, collided, fault>>

\* The object at i stays as it is, or none is left.
Pass ==
  /\ FrameGoes("object", IF i > Size THEN "idle" ELSE "object")
  /\ i <= Size => ~(inUse[i] /\ i \in expiring)
  /\ i' = IF i > Size THEN 1 ELSE i + 1
  /\ expiring' = IF i > Size THEN {} ELSE expiring
  /\ UNCHANGED <<logVars, net, taken, pool, collided, fault>>

\* The time of the object at i is up: it is not in use any more.
Expire ==
  /\ FrameGoes("object", "link")
  /\ i <= Size /\ inUse[i] /\ i \in expiring
  /\ inUse' = [inUse EXCEPT ![i] = FALSE]
  /\ age' = Without(i)
  /\ index' = [index EXCEPT ![i] = 0]
  /\ expiring' = expiring \ {i}
  /\ UNCHANGED <<logVars, net, taken, firstAvailable, next, activeMessages, i,
                 collided, fault>>

\* Mutant: the object is put at the head of the list without the rest.
LinkAlone ==
  /\ FrameGoes("link", "free")
  /\ next' = [next EXCEPT ![i] = Null]
  /\ FrameEnters
  /\ UNCHANGED <<logVars, net, taken, firstAvailable, inUse, index, activeMessages, age,
                 i, expiring, fault>>

Link ==
  /\ FrameGoes("link", "free")
  /\ next' = [next EXCEPT ![i] = firstAvailable]
  /\ FrameEnters
  /\ UNCHANGED <<logVars, net, taken, firstAvailable, inUse, index, activeMessages, age,
                 i, expiring, fault>>

\* Mutant: the list keeps its old head.
FreeForgets ==
  /\ FrameGoes("free", "lower")
  /\ FrameEnters
  /\ UNCHANGED <<logVars, net, taken, firstAvailable, next, inUse, index, activeMessages, age,
                 i, expiring, fault>>

Free ==
  /\ FrameGoes("free", "lower")
  /\ firstAvailable' = i
  /\ FrameEnters
  /\ UNCHANGED <<logVars, net, taken, next, inUse, index, activeMessages, age, i,
                 expiring, fault>>

Lower ==
  /\ FrameGoes("lower", "shift")
  /\ activeMessages' \in Counter(activeMessages - 1, 1)
  /\ FrameEnters
  /\ UNCHANGED <<logVars, net, taken, firstAvailable, next, inUse, index, age, i,
                 expiring, fault>>

\* Mutant: only the objects behind the freed one in the array move up.
ShiftRest ==
  /\ FrameGoes("shift", "object")
  /\ index' = [s \in Slot |-> IF s > i /\ inUse[s] THEN (index[s] - 1) % Width ELSE index[s]]
  /\ i' = i + 1
  /\ UNCHANGED <<logVars, net, taken, firstAvailable, next, inUse, activeMessages, age,
                 expiring, collided, fault>>

\* Every other object moves up by one.
Shift ==
  /\ FrameGoes("shift", "object")
  /\ index' = [s \in Slot |-> IF s # i /\ inUse[s] THEN (index[s] - 1) % Width ELSE index[s]]
  /\ i' = i + 1
  /\ UNCHANGED <<logVars, net, taken, firstAvailable, next, inUse, activeMessages, age,
                 expiring, collided, fault>>

-----------------------------------------------------------------------------
Stopped ==
  /\ fault # "none" \/ (logged = MaxMessages /\ net = "idle")
  /\ UNCHANGED vars

NetworkThread == Log \/ LogPopsNothing \/ OutputLog \/ Take \/ TakeWild \/ Fill \/ Count

FrameLoop ==
  \/ \E n \in 0..Len(age) : Update(n)
  \/ Pass \/ Expire \/ Link \/ Free \/ Lower \/ Shift

Next ==
  \/ \E max \in Limits : SetMaxOutputLog(max)
  \/ NetworkThread
  \/ FrameLoop
  \/ Stopped

Spec == Init /\ [][Next]_vars

\* Frames are drawn all the time, and the time of a message comes.
FairSpec ==
  Spec /\ WF_vars(FrameLoop) /\ SF_vars(\E n \in 1..Len(age) : Update(n))

-----------------------------------------------------------------------------
(* Properties.                                                             *)

\* Objects taken out of the list but not in use yet, or the other way round.
OnTheWay(s) == (net = "fill" /\ s = taken) \/ (frame \in {"link", "free"} /\ s = i)

\* The objects that are neither in use nor on the way.
Rest == {s \in Slot : ~inUse[s] /\ ~OnTheWay(s)}

\* The objects one meets going through the free list from its head, n of them at most.
Met[n \in 0..Size] ==
  IF n = 0 THEN <<>>
  ELSE LET before == Met[n - 1]
           s == IF before = <<>> THEN firstAvailable ELSE next[before[Len(before)]]
       IN  IF s \in Slot THEN Append(before, s) ELSE before

FreeList == Met[Size]

\* While the threads have not collided, the free list holds every object that is not
\* in use once, but for the one on its way in or out: none is lost, none given twice.
FreeListIsRest ==
  ~collided =>
    /\ {FreeList[k] : k \in 1..Len(FreeList)} = Rest
    /\ Len(FreeList) = Cardinality(Rest)

\* m_activeMessages is the number of objects in use, and a message that does not
\* expire in this frame has its place among them, the oldest first, as its index: no
\* two are drawn over each other.
IndicesArePlaces ==
  ~collided /\ net # "count" /\ frame \in {"idle", "object"} =>
    /\ activeMessages = Len(age)
    /\ {age[k] : k \in 1..Len(age)} = {s \in Slot : inUse[s]}
    /\ \A k \in 1..Len(age) : age[k] \notin expiring => index[age[k]] = k - 1

\* The log holds the latest messages without a gap, and never more than the highest
\* limit it has had; the latest is what is shown.
LogIsRecent ==
  /\ outputLog = [k \in 1..Len(outputLog) |-> logged - Len(outputLog) + k]
  /\ Len(outputLog) <= highest
  /\ logged > 0 => outputLog # <<>>

\* A wild pointer needs a collision, and pop of an empty queue a limit of zero set
\* before the first message.
FaultsHaveCause ==
  /\ fault = "wild" => collided
  /\ fault = "empty" => maxOutputLog = 0 /\ logged = 0

\* A full pool has room again.
RoomReturns == (firstAvailable = Null) ~> (firstAvailable # Null \/ collided)
=============================================================================

------------------------- MODULE MessageDisplayProofs -------------------------
(***************************************************************************)
(* Theorems about MessageDisplay, for every size of the pool, every width  *)
(* of the counters, all limits and any number of messages.  The output log *)
(* holds the latest messages; and while the two threads have not met in    *)
(* the pool, no wild pointer is followed, the free list holds every object *)
(* that is free once, and each message in use has a place of its own.      *)
(*                                                                         *)
(* The first needs that the limit is never above its highest value.  For   *)
(* wild pointers the free list is described object by object (PoolSound):  *)
(* whatever the head or an object in the list points to is in the list,    *)
(* and nothing is pointed to twice.  So the head can be unlinked, filled   *)
(* and linked again without a look at the rest of the list.  That no       *)
(* object is lost needs the list as a whole (ListInv), and the places on   *)
(* the screen need that the counter and the indices follow the order of    *)
(* the messages, also between two steps of a thread (PlacesInv).           *)
(***************************************************************************)
EXTENDS MessageDisplay, NaturalFacts, SequenceTheorems, TLAPS

-----------------------------------------------------------------------------
(* The output log.                                                         *)

LogType ==
  /\ logged \in Nat
  /\ outputLog \in Seq(Nat)
  /\ maxOutputLog \in Nat /\ highest \in Nat \ {0}
  /\ maxOutputLog <= highest

LogInv == LogType /\ LogIsRecent

\* The initial log, which is empty, is recent.
LEMMA LogInit == Init => LogInv
BY LimitAssumption DEF Init, LogInv, LogType, LogIsRecent

\* A change of the limit leaves the log as it is, and the highest limit above it.
LEMMA LimitKeepsLog ==
  ASSUME LogInv, NEW max \in Limits, SetMaxOutputLog(max)
  PROVE  LogInv'
BY LimitAssumption DEF LogInv, LogType, LogIsRecent, SetMaxOutputLog

\* Log keeps the log recent, whether it removes a message or not.
LEMMA LogKeepsLog ==
  ASSUME LogInv, Log
  PROVE  LogInv'
<1> DEFINE kept == IF Len(outputLog) + 1 > maxOutputLog THEN Tail(outputLog) ELSE outputLog
<1>1. \A k \in 1..Len(outputLog) : outputLog[k] = logged - Len(outputLog) + k
  <2>1. outputLog = [k \in 1..Len(outputLog) |-> logged - Len(outputLog) + k]
    BY DEF LogInv, LogIsRecent
  <2> QED
    BY <2>1
<1>2. /\ kept \in Seq(Nat)
      /\ Len(kept) + 1 <= highest
      /\ \A k \in 1..Len(kept) : kept[k] = logged - Len(kept) + k
  <2>1. CASE Len(outputLog) + 1 > maxOutputLog
    <3>1. outputLog # <<>>
      BY <2>1 DEF Log
    <3>2. outputLog \in Seq(Nat) /\ kept = Tail(outputLog) /\ logged \in Nat
      BY <2>1 DEF LogInv, LogType
    <3> HIDE DEF kept
    <3>3. /\ kept \in Seq(Nat) /\ Len(kept) = Len(outputLog) - 1
          /\ \A k \in 1..Len(kept) : kept[k] = outputLog[k + 1]
      BY <3>1, <3>2, HeadTailProperties
    <3>4. \A k \in 1..Len(kept) : kept[k] = logged - Len(kept) + k
      BY <1>1, <3>2, <3>3
    <3>5. Len(kept) + 1 <= highest
      BY <3>2, <3>3 DEF LogInv, LogType, LogIsRecent
    <3> QED
      BY <3>3, <3>4, <3>5
  <2>2. CASE ~(Len(outputLog) + 1 > maxOutputLog)
    <3>1. kept = outputLog
      BY <2>2
    <3> HIDE DEF kept
    <3> QED
      BY <1>1, <2>2, <3>1 DEF LogInv, LogType
  <2> QED
    BY <2>1, <2>2
<1>3. /\ logged' = logged + 1 /\ outputLog' = Append(kept, logged')
      /\ UNCHANGED <<maxOutputLog, highest>>
  BY DEF Log
<1> HIDE DEF kept
<1>4. logged' \in Nat
  BY <1>3 DEF LogInv, LogType
<1>5. /\ outputLog' \in Seq(Nat) /\ Len(outputLog') = Len(kept) + 1
      /\ \A k \in 1..Len(kept) : outputLog'[k] = kept[k]
      /\ outputLog'[Len(kept) + 1] = logged'
  BY <1>2, <1>3, <1>4, AppendProperties
<1>6. \A k \in 1..Len(outputLog') : outputLog'[k] = logged' - Len(outputLog') + k
  BY <1>2, <1>3, <1>5 DEF LogInv, LogType
<1>7. outputLog' = [k \in 1..Len(outputLog') |-> outputLog'[k]]
  <2>1. outputLog' \in [1..Len(outputLog') -> Nat]
    BY <1>5, LenProperties
  <2> QED
    BY <2>1
<1>8. outputLog' = [k \in 1..Len(outputLog') |-> logged' - Len(outputLog') + k]
  BY <1>6, <1>7, Zenon
<1>9. LogType'
  BY <1>3, <1>4, <1>5 DEF LogInv, LogType
<1>10. Len(outputLog') <= highest' /\ outputLog' # <<>>
  BY <1>2, <1>3, <1>5 DEF LogInv, LogType
<1> QED
  BY <1>8, <1>9, <1>10 DEF LogInv, LogIsRecent

LEMMA LogStep == LogInv /\ [Next]_vars => LogInv'
<1> SUFFICES ASSUME LogInv, [Next]_vars PROVE LogInv'
  OBVIOUS
<1>1. ASSUME NEW max \in Limits, SetMaxOutputLog(max) PROVE LogInv'
  BY <1>1, LimitKeepsLog
<1>2. CASE Log
  BY <1>2, LogKeepsLog
<1>3. ASSUME UNCHANGED logVars PROVE LogInv'
  BY <1>3 DEF logVars, LogInv, LogType, LogIsRecent
<1>4. CASE LogPopsNothing \/ OutputLog \/ Take \/ TakeWild \/ Fill \/ Count
  BY <1>3, <1>4 DEF LogPopsNothing, OutputLog, Take, TakeWild, Fill, Count, logVars
<1>5. CASE FrameLoop
  BY <1>3, <1>5 DEF FrameLoop, Update, Pass, Expire, Link, Free, Lower, Shift, logVars
<1>6. CASE Stopped \/ UNCHANGED vars
  BY <1>3, <1>6 DEF Stopped, vars
<1> QED
  BY <1>1, <1>2, <1>4, <1>5, <1>6 DEF Next, NetworkThread

\* m_outputLog holds the latest messages without a gap, and no more than its highest
\* limit; what GetLatestOutput returns is the latest.
THEOREM LogCorrect == Spec => []LogIsRecent
<1>1. Spec => []LogInv
  BY LogInit, LogStep, PTL DEF Spec
<1>2. LogInv => LogIsRecent
  BY DEF LogInv
<1> QED
  BY <1>1, <1>2, PTL

-----------------------------------------------------------------------------
(* The free list.                                                          *)

PoolType ==
  /\ net \in {"idle", "show", "take", "fill", "count"}
  /\ taken \in Slot \cup {Null, Wild}
  /\ firstAvailable \in Slot \cup {Null, Wild}
  /\ next \in [Slot -> Slot \cup {Null, Wild}]
  /\ inUse \in [Slot -> BOOLEAN]
  /\ frame \in {"idle", "object", "link", "free", "lower", "shift"}
  /\ i \in 1..(Size + 1)
  /\ collided \in BOOLEAN
  /\ net \in {"take", "fill", "count"} => taken # Null
  /\ net \in {"fill", "count"} => taken # Wild
  /\ frame \in {"link", "free", "lower", "shift"} => i \in Slot

\* Where the threads are: what they hold is not in use, and not the same object.
HeldSound ==
  /\ ~InPool(net, frame)
  /\ net = "take" => taken = firstAvailable
  /\ net = "fill" => ~inUse[taken]
  /\ frame \in {"link", "free"} => ~inUse[i]
  /\ net = "fill" /\ frame = "link" => taken # i

\* What is pointed to is in the list, and pointed to once.
ListSound ==
  /\ firstAvailable \in Rest \cup {Null}
  /\ \A s \in Rest : next[s] \in Rest \cup {Null}
  /\ \A s \in Rest : next[s] = firstAvailable => next[s] = Null
  /\ \A s, t \in Rest : next[s] = next[t] /\ next[s] # Null => s = t
  /\ frame = "free" => next[i] = firstAvailable

PoolSound == ~collided => HeldSound /\ ListSound

FaultSound == fault # "wild" \/ collided

PoolInv == PoolType /\ PoolSound /\ FaultSound

\* Initially the list leads from each object to the one behind it.
LEMMA PoolInit == Init => PoolInv
<1> SUFFICES ASSUME Init PROVE PoolInv
  OBVIOUS
<1> USE SizeAssumption
<1>1. PoolType
  <2>1. next \in [Slot -> Slot \cup {Null, Wild}]
    BY DEF Init, Slot, Null, Wild
  <2>2. inUse \in [Slot -> BOOLEAN]
    BY DEF Init
  <2>3. 1 \in Slot /\ i \in 1..(Size + 1)
    BY DEF Init, Slot
  <2> QED
    BY <2>1, <2>2, <2>3 DEF Init, PoolType
<1>2. Rest = Slot
  BY DEF Init, Rest, OnTheWay, Slot
<1>3. HeldSound
  BY DEF Init, HeldSound, InPool
<1>4. ListSound
  BY <1>2 DEF Init, ListSound, Slot, Null
<1> QED
  BY <1>1, <1>3, <1>4 DEF Init, PoolInv, PoolSound, FaultSound

\* The steps of the network thread.
LEMMA OutputLogKeepsPool == PoolInv /\ OutputLog => PoolInv'
<1> SUFFICES ASSUME PoolInv, OutputLog PROVE PoolInv'
  OBVIOUS
<1> USE DEF PoolInv
<1>1. PoolType' /\ FaultSound'
  BY DEF OutputLog, NetGoes, NetEnters, InPool, PoolType, FaultSound, pool
<1>2. Rest' = Rest
  BY DEF OutputLog, NetGoes, Rest, OnTheWay, pool
<1>3. ASSUME ~collided' PROVE HeldSound' /\ ListSound'
  <2>1. ~collided /\ HeldSound /\ ListSound
    BY <1>3 DEF OutputLog, NetEnters, PoolSound, PoolType
  <2>2. HeldSound'
    BY <1>3, <2>1 DEF OutputLog, NetGoes, NetEnters, InPool, HeldSound, pool
  <2> QED
    BY <1>2, <2>1, <2>2 DEF OutputLog, ListSound, pool
<1> QED
  BY <1>1, <1>3 DEF PoolSound

\* The head is unlinked: what it points to is the head of the rest.
LEMMA TakeKeepsPool == PoolInv /\ Take => PoolInv'
<1> SUFFICES ASSUME PoolInv, Take PROVE PoolInv'
  OBVIOUS
<1> USE SizeAssumption DEF PoolInv
<1>1. taken \in Slot
  BY DEF Take, NetGoes, PoolType
<1>2. PoolType' /\ FaultSound'
  BY <1>1 DEF Take, NetGoes, NetEnters, InPool, PoolType, FaultSound, Slot, Null, Wild
<1>3. ASSUME ~collided' PROVE HeldSound' /\ ListSound'
  <2>1. ~collided /\ HeldSound /\ ListSound
    BY <1>3 DEF Take, NetEnters, PoolSound, PoolType
  <2>2. taken = firstAvailable /\ taken \in Rest /\ frame \notin {"free", "lower", "shift"}
    BY <1>1, <1>3, <2>1, SizeAssumption DEF Take, NetGoes, NetEnters, InPool, HeldSound, ListSound, Slot, Null
  <2>3. Rest' = Rest \ {taken}
    BY <2>2 DEF Take, NetGoes, Rest, OnTheWay
  <2>4. HeldSound'
    BY <1>3, <2>1, <2>2 DEF Take, NetGoes, NetEnters, InPool, HeldSound, Rest, OnTheWay
  <2>5. ListSound'
    BY <2>1, <2>2, <2>3 DEF Take, NetGoes, ListSound
  <2> QED
    BY <2>4, <2>5
<1> QED
  BY <1>2, <1>3 DEF PoolSound

\* The object filled is pointed to by none, so its wild bytes are out of reach.
LEMMA FillKeepsPool == PoolInv /\ Fill => PoolInv'
<1> SUFFICES ASSUME PoolInv, Fill PROVE PoolInv'
  OBVIOUS
<1> USE DEF PoolInv
<1>1. taken \in Slot
  BY DEF Fill, NetGoes, PoolType
<1>2. PoolType' /\ FaultSound'
  BY <1>1 DEF Fill, NetGoes, NetEnters, PoolType, FaultSound
<1>3. ASSUME ~collided' PROVE HeldSound' /\ ListSound'
  <2>1. ~collided /\ HeldSound /\ ListSound
    BY <1>3 DEF Fill, NetEnters, PoolSound, PoolType
  <2>2. taken \notin Rest /\ frame \notin {"free", "lower", "shift"}
    BY <1>3, <2>1 DEF Fill, NetGoes, NetEnters, InPool, HeldSound, Rest, OnTheWay
  <2>3. Rest' = Rest
    BY <1>1, <2>1, <2>2 DEF Fill, NetGoes, Rest, OnTheWay, PoolType
  <2>4. HeldSound'
    BY <1>1, <1>3, <2>1, <2>2 DEF Fill, NetGoes, NetEnters, InPool, HeldSound, PoolType
  <2>5. \A s \in Rest : next'[s] = next[s]
    BY <1>1, <2>2 DEF Fill, Rest, PoolType
  <2>6. ListSound'
    BY <2>1, <2>2, <2>3, <2>5 DEF Fill, NetGoes, ListSound
  <2> QED
    BY <2>4, <2>6
<1> QED
  BY <1>2, <1>3 DEF PoolSound

LEMMA CountKeepsPool == PoolInv /\ Count => PoolInv'
<1> SUFFICES ASSUME PoolInv, Count PROVE PoolInv'
  OBVIOUS
<1> USE DEF PoolInv
<1>1. PoolType' /\ FaultSound'
  BY DEF Count, NetGoes, PoolType, FaultSound
<1>2. ASSUME ~collided' PROVE HeldSound' /\ ListSound'
  <2>1. HeldSound /\ ListSound
    BY <1>2 DEF Count, PoolSound
  <2>2. Rest' = Rest
    BY DEF Count, NetGoes, Rest, OnTheWay
  <2> QED
    BY <2>1, <2>2 DEF Count, NetGoes, InPool, HeldSound, ListSound
<1> QED
  BY <1>1, <1>2 DEF PoolSound

\* The steps of the frame loop.  Update and Pass leave the pool alone.
LEMMA LookKeepsPool ==
  ASSUME PoolInv, Pass \/ \E n \in 0..Len(age) : Update(n)
  PROVE  PoolInv'
<1> USE DEF PoolInv
<1>1. /\ UNCHANGED <<net, taken, firstAvailable, next, inUse, collided, fault>>
      /\ frame \in {"idle", "object"} /\ frame' \in {"idle", "object"}
      /\ i' \in 1..(Size + 1)
  <2>1. CASE Pass
    BY <2>1, SizeAssumption DEF Pass, FrameGoes, PoolType, pool
  <2>2. CASE \E n \in 0..Len(age) : Update(n)
    BY <2>2, SizeAssumption DEF Update, FrameGoes, pool
  <2> QED
    BY <2>1, <2>2
<1>2. PoolType' /\ FaultSound'
  BY <1>1 DEF PoolType, FaultSound
<1>3. Rest' = Rest
  BY <1>1 DEF Rest, OnTheWay
<1>4. PoolSound'
  BY <1>1, <1>3 DEF PoolSound, InPool, HeldSound, ListSound
<1> QED
  BY <1>2, <1>4

\* The object that expires was in use: it is on its way, and none points to it.
LEMMA ExpireKeepsPool == PoolInv /\ Expire => PoolInv'
<1> SUFFICES ASSUME PoolInv, Expire PROVE PoolInv'
  OBVIOUS
<1> USE DEF PoolInv
<1>1. i \in Slot /\ inUse[i]
  BY SizeAssumption DEF Expire, PoolType, Slot
<1>2. PoolType' /\ FaultSound'
  BY <1>1 DEF Expire, FrameGoes, PoolType, FaultSound
<1>3. ASSUME ~collided' PROVE HeldSound' /\ ListSound'
  <2>1. HeldSound /\ ListSound
    BY <1>3 DEF Expire, PoolSound
  <2>2. Rest' = Rest
    BY <1>1, <2>1 DEF Expire, FrameGoes, Rest, OnTheWay, PoolType
  <2>3. HeldSound'
    BY <1>1, <2>1 DEF Expire, FrameGoes, InPool, HeldSound, PoolType
  <2>4. ListSound'
    BY <2>1, <2>2 DEF Expire, FrameGoes, ListSound
  <2> QED
    BY <2>3, <2>4
<1> QED
  BY <1>2, <1>3 DEF PoolSound

\* The object on its way points to the head; it is not in the list yet.
LEMMA LinkKeepsPool == PoolInv /\ Link => PoolInv'
<1> SUFFICES ASSUME PoolInv, Link PROVE PoolInv'
  OBVIOUS
<1> USE DEF PoolInv
<1>1. i \in Slot
  BY DEF Link, FrameGoes, PoolType
<1>2. PoolType' /\ FaultSound'
  BY <1>1 DEF Link, FrameGoes, FrameEnters, PoolType, FaultSound
<1>3. ASSUME ~collided' PROVE HeldSound' /\ ListSound'
  <2>1. ~collided /\ HeldSound /\ ListSound
    BY <1>3 DEF Link, FrameEnters, PoolSound, PoolType
  <2>2. net \notin {"take", "fill", "count"}
    BY <1>3 DEF Link, FrameGoes, FrameEnters, InPool
  <2>3. Rest' = Rest /\ i \notin Rest
    BY DEF Link, FrameGoes, Rest, OnTheWay
  <2>4. HeldSound'
    BY <2>1, <2>2 DEF Link, FrameGoes, InPool, HeldSound
  <2>5. (\A s \in Rest : next'[s] = next[s]) /\ next'[i] = firstAvailable
    BY <1>1, <2>3 DEF Link, Rest, PoolType
  <2>6. ListSound'
    BY <2>1, <2>3, <2>5 DEF Link, FrameGoes, ListSound
  <2> QED
    BY <2>4, <2>6
<1> QED
  BY <1>2, <1>3 DEF PoolSound

\* It becomes the head: the old head, if there is one, is pointed to by it alone.
LEMMA FreeKeepsPool == PoolInv /\ Free => PoolInv'
<1> SUFFICES ASSUME PoolInv, Free PROVE PoolInv'
  OBVIOUS
<1> USE DEF PoolInv
<1>1. i \in Slot
  BY DEF Free, FrameGoes, PoolType
<1>2. PoolType' /\ FaultSound'
  BY <1>1 DEF Free, FrameGoes, FrameEnters, PoolType, FaultSound
<1>3. ASSUME ~collided' PROVE HeldSound' /\ ListSound'
  <2>1. ~collided /\ HeldSound /\ ListSound
    BY <1>3 DEF Free, FrameEnters, PoolSound, PoolType
  <2>2. net \notin {"take", "fill", "count"}
    BY <1>3 DEF Free, FrameGoes, FrameEnters, InPool
  <2>3. HeldSound'
    BY <2>1, <2>2 DEF Free, FrameGoes, InPool, HeldSound
  <2>4. Rest' = Rest \cup {i} /\ i \notin Rest
    BY <1>1, <2>1, <2>2 DEF Free, FrameGoes, Rest, OnTheWay, HeldSound
  <2>5. next[i] = firstAvailable /\ next' = next /\ firstAvailable' = i /\ frame' = "lower"
    BY <2>1 DEF Free, FrameGoes, ListSound
  <2>6. i # Null
    BY <1>1, SizeAssumption DEF Slot, Null
  <2>7. ListSound'
    BY <2>1, <2>4, <2>5, <2>6 DEF ListSound
  <2> QED
    BY <2>3, <2>7
<1> QED
  BY <1>2, <1>3 DEF PoolSound

\* The counter and the indices are not part of the list.
LEMMA LowerShiftKeepPool == PoolInv /\ (Lower \/ Shift) => PoolInv'
<1> SUFFICES ASSUME PoolInv, Lower \/ Shift PROVE PoolInv'
  OBVIOUS
<1> USE DEF PoolInv
<1>1. /\ UNCHANGED <<net, taken, firstAvailable, next, inUse, fault>>
      /\ frame \in {"lower", "shift"} /\ frame' \in {"shift", "object"}
      /\ i' \in 1..(Size + 1) /\ (frame' = "shift" => i' = i)
      /\ collided' \in BOOLEAN /\ (collided => collided')
      /\ ~collided' => ~InPool(net', frame')
  <2>1. CASE Lower
    BY <2>1 DEF Lower, FrameGoes, FrameEnters, InPool, PoolType
  <2>2. CASE Shift
    <3>1. i' \in 1..(Size + 1)
      BY <2>2, SizeAssumption DEF Shift, FrameGoes, PoolType, Slot
    <3> QED
      BY <2>2, <3>1 DEF Shift, FrameGoes, InPool, PoolType
  <2> QED
    BY <2>1, <2>2
<1>2. PoolType' /\ FaultSound'
  BY <1>1 DEF PoolType, FaultSound
<1>3. Rest' = Rest
  BY <1>1 DEF Rest, OnTheWay
<1>4. PoolSound'
  BY <1>1, <1>3 DEF PoolSound, HeldSound, ListSound
<1> QED
  BY <1>2, <1>4

\* A wild pointer is followed only where the list is not sound any more.
LEMMA TakeWildNeedsCollision == PoolInv /\ TakeWild => PoolInv'
<1> SUFFICES ASSUME PoolInv, TakeWild PROVE PoolInv'
  OBVIOUS
<1> USE DEF PoolInv
<1>1. collided
  <2> SUFFICES ASSUME ~collided PROVE FALSE
    BY DEF PoolType
  <2>1. Wild \in Slot \cup {Null}
    BY DEF TakeWild, PoolSound, HeldSound, ListSound, Rest
  <2> QED
    BY <2>1, SizeAssumption DEF Wild, Slot, Null
<1> QED
  BY <1>1 DEF TakeWild, PoolType, PoolSound, FaultSound, pool

LEMMA PoolStep == PoolInv /\ [Next]_vars => PoolInv'
<1> SUFFICES ASSUME PoolInv, [Next]_vars PROVE PoolInv'
  OBVIOUS
<1>1. ASSUME UNCHANGED <<net, taken, pool, frame, i, collided>>, fault' # "wild" \/ fault' = fault
      PROVE  PoolInv'
  <2>1. Rest' = Rest
    BY <1>1 DEF Rest, OnTheWay, pool
  <2> QED
    BY <1>1, <2>1 DEF PoolInv, PoolType, PoolSound, FaultSound, HeldSound, ListSound, InPool, pool
<1>2. ASSUME NEW max \in Limits, SetMaxOutputLog(max) PROVE PoolInv'
  BY <1>1, <1>2 DEF SetMaxOutputLog
<1>3. CASE Log
  <2>1. PoolType' /\ FaultSound' /\ Rest' = Rest
    BY <1>3 DEF Log, NetGoes, PoolInv, PoolType, FaultSound, Rest, OnTheWay, pool
  <2> QED
    BY <1>3, <2>1 DEF Log, NetGoes, PoolInv, PoolSound, HeldSound, ListSound, InPool, pool
<1>4. CASE LogPopsNothing \/ Stopped \/ UNCHANGED vars
  <2>1. UNCHANGED <<net, taken, pool, frame, i, collided>> /\ (fault' = "empty" \/ fault' = fault)
    BY <1>4 DEF LogPopsNothing, Stopped, vars
  <2> QED
    BY <1>1, <2>1
<1>5. CASE NetworkThread
  BY <1>3, <1>4, <1>5, OutputLogKeepsPool, TakeKeepsPool, TakeWildNeedsCollision, FillKeepsPool,
     CountKeepsPool DEF NetworkThread
<1>6. CASE FrameLoop
  BY <1>6, LookKeepsPool, ExpireKeepsPool, LinkKeepsPool, FreeKeepsPool, LowerShiftKeepPool
     DEF FrameLoop
<1> QED
  BY <1>2, <1>4, <1>5, <1>6 DEF Next

\* The empty queue of LogPopsNothing: nothing happens any more after it.
EmptySound == fault = "empty" => maxOutputLog = 0 /\ logged = 0

LEMMA EmptyStep == LogInv /\ EmptySound /\ [Next]_vars => EmptySound'
<1> SUFFICES ASSUME LogInv, EmptySound, [Next]_vars PROVE EmptySound'
  OBVIOUS
<1>1. CASE LogPopsNothing
  <2>1. logged = 0
    BY <1>1 DEF LogPopsNothing, LogInv, LogType, LogIsRecent
  <2>2. maxOutputLog = 0
    BY <1>1 DEF LogPopsNothing, LogInv, LogType
  <2> QED
    BY <1>1, <2>1, <2>2 DEF LogPopsNothing, EmptySound, logVars
<1>2. ASSUME fault' # "empty" PROVE EmptySound'
  BY <1>2 DEF EmptySound
<1>3. CASE Stopped \/ UNCHANGED vars
  BY <1>3 DEF Stopped, EmptySound, vars, logVars
<1>4. CASE (\E max \in Limits : SetMaxOutputLog(max)) \/ Log \/ OutputLog \/ Take \/ TakeWild
             \/ Fill \/ Count \/ FrameLoop
  BY <1>2, <1>4 DEF SetMaxOutputLog, Log, OutputLog, Take, TakeWild, Fill, Count, FrameLoop, Update,
     Pass, Expire, Link, Free, Lower, Shift, NetGoes, FrameGoes
<1> QED
  BY <1>1, <1>3, <1>4 DEF Next, NetworkThread

\* The pool never follows a wild pointer unless Create and Update were in the free list
\* at the same time, and Log never pops an empty queue unless the limit is zero and
\* nothing was logged.
THEOREM FaultsCorrect == Spec => []FaultsHaveCause
<1>1. Spec => []LogInv
  BY LogInit, LogStep, PTL DEF Spec
<1>2. Spec => []PoolInv
  BY PoolInit, PoolStep, PTL DEF Spec
<1>3. Init => EmptySound
  BY DEF Init, EmptySound
<1>4. Spec => []EmptySound
  BY <1>1, <1>3, EmptyStep, PTL DEF Spec
<1>5. PoolInv /\ EmptySound => FaultsHaveCause
  BY DEF PoolInv, PoolType, FaultSound, EmptySound, FaultsHaveCause
<1> QED
  BY <1>2, <1>4, <1>5, PTL

-----------------------------------------------------------------------------
(* The messages in use.                                                    *)
(*                                                                         *)
(* Their sequence, which stands for the clocks, holds each object in use   *)
(* once, whatever the threads have done to each other (AgeSound).  While   *)
(* they have not collided, counter and indices follow it (PlacesSound):    *)
(* they are late by the one object that is being freed, and the counter by *)
(* the one that is not counted yet.  The messages that expire in this      *)
(* frame are the oldest, so the others all move up when one of them goes.  *)

AgeType ==
  /\ age \in Seq(Slot)
  /\ index \in [Slot -> Int]
  /\ activeMessages \in Int

\* The object at i is being freed.
Freeing == frame \in {"link", "free", "lower", "shift"}

AgeSound ==
  /\ \A s \in Slot : inUse[s] <=> \E k \in 1..Len(age) : age[k] = s
  /\ \A j, k \in 1..Len(age) : age[j] = age[k] => j = k
  /\ expiring \subseteq {s \in Slot : inUse[s]}
  /\ frame = "idle" => expiring = {}
  /\ \A s \in expiring : s >= i /\ (Freeing => s # i)

AgeInv == AgeType /\ AgeSound

\* The freed object still has a place for the indices, and for the counter.
PlacesLate == IF Freeing THEN 1 ELSE 0
CounterLate == IF frame \in {"link", "free", "lower"} THEN 1 ELSE 0
NotCounted == IF net = "count" THEN 1 ELSE 0

PlacesSound ==
  /\ Freeing => ~inUse[i]
  /\ activeMessages = Len(age) + CounterLate - NotCounted
  /\ \A j, k \in 1..Len(age) : j < k /\ age[k] \in expiring => age[j] \in expiring
  /\ \A k \in 1..Len(age) : age[k] \notin expiring => index[age[k]] = k - 1 + PlacesLate

PlacesInv == ~collided => PlacesSound

\* The n elements of a sequence that follow the first m.
LEMMA PartIs ==
  ASSUME NEW S, NEW q \in Seq(S), NEW m \in Nat, NEW n \in Nat, m + n <= Len(q),
         NEW part, part = SubSeq(q, m + 1, m + n)
  PROVE  /\ part \in Seq(S) /\ Len(part) = n
         /\ \A k \in 1..n : part[k] = q[m + k]
<1>1. \A k \in (m + 1)..(m + n) : q[k] \in S
  OBVIOUS
<1>2. /\ SubSeq(q, m + 1, m + n) \in Seq(S)
      /\ Len(SubSeq(q, m + 1, m + n)) = IF m + 1 <= m + n THEN m + n - (m + 1) + 1 ELSE 0
      /\ \A k \in 1..(m + n - (m + 1) + 1) :
           SubSeq(q, m + 1, m + n)[k] = q[m + 1 + k - 1]
  BY <1>1, SubSeqProperties
<1>3. /\ m + n - (m + 1) + 1 = n
      /\ Len(part) = n
  BY <1>2
<1>4. ASSUME NEW k \in 1..n PROVE part[k] = q[m + k]
  <2>1. m + 1 + k - 1 = m + k
    OBVIOUS
  <2> QED
    BY <1>2, <1>3, <2>1
<1> QED
  BY <1>2, <1>3, <1>4

\* The sequence without its element at p.
LEMMA RemoveAtIs ==
  ASSUME NEW S, NEW q \in Seq(S), NEW p \in 1..Len(q)
  PROVE  /\ RemoveAt(q, p) \in Seq(S)
         /\ Len(RemoveAt(q, p)) = Len(q) - 1
         /\ \A k \in 1..(Len(q) - 1) : RemoveAt(q, p)[k] = q[IF k < p THEN k ELSE k + 1]
<1>1. PICK before : before = SubSeq(q, 1, p - 1)
  OBVIOUS
<1>2. PICK after : after = SubSeq(q, p + 1, Len(q))
  OBVIOUS
<1>3. /\ before \in Seq(S) /\ Len(before) = p - 1
      /\ \A k \in 1..(p - 1) : before[k] = q[k]
  <2>1. before = SubSeq(q, 0 + 1, 0 + (p - 1)) /\ p - 1 \in Nat /\ 0 + (p - 1) <= Len(q)
    BY <1>1
  <2>2. /\ before \in Seq(S) /\ Len(before) = p - 1
        /\ \A k \in 1..(p - 1) : before[k] = q[0 + k]
    BY <2>1, PartIs
  <2> QED
    BY <2>2
<1>4. /\ after \in Seq(S) /\ Len(after) = Len(q) - p
      /\ \A k \in 1..(Len(q) - p) : after[k] = q[p + k]
  <2>1. /\ after = SubSeq(q, p + 1, p + (Len(q) - p)) /\ p \in Nat /\ Len(q) - p \in Nat
        /\ p + (Len(q) - p) <= Len(q)
    BY <1>2
  <2> QED
    BY <2>1, PartIs
<1>5. RemoveAt(q, p) = before \o after
  BY <1>1, <1>2 DEF RemoveAt
<1>6. /\ before \o after \in Seq(S) /\ Len(before \o after) = Len(before) + Len(after)
      /\ \A k \in 1..(Len(before) + Len(after)) :
           (before \o after)[k] = IF k <= Len(before) THEN before[k] ELSE after[k - Len(before)]
  BY <1>3, <1>4, ConcatProperties
<1>7. Len(before) + Len(after) = Len(q) - 1
  BY <1>3, <1>4
<1>8. ASSUME NEW k \in 1..(Len(q) - 1)
      PROVE  (before \o after)[k] = q[IF k < p THEN k ELSE k + 1]
  <2>1. CASE k < p
    <3>1. k <= Len(before) /\ k \in 1..(p - 1)
      BY <1>3, <2>1
    <3>2. (before \o after)[k] = before[k]
      BY <1>6, <1>7, <3>1
    <3> QED
      BY <1>3, <2>1, <3>1, <3>2
  <2>2. CASE ~(k < p)
    <3>1. /\ k - (p - 1) \in 1..(Len(q) - p) /\ p + (k - (p - 1)) = k + 1
          /\ ~(k <= Len(before))
      BY <1>3, <2>2
    <3>2. (before \o after)[k] = after[k - (p - 1)]
      BY <1>3, <1>6, <1>7, <3>1
    <3> QED
      BY <1>4, <2>2, <3>1, <3>2
  <2> QED
    BY <2>1, <2>2
<1> QED
  BY <1>5, <1>6, <1>7, <1>8

\* The messages without the one in object s, which has place p among them.
LEMMA WithoutIs ==
  ASSUME AgeInv, NEW s \in Slot, inUse[s]
  PROVE  \E p \in 1..Len(age) :
           /\ age[p] = s
           /\ Without(s) \in Seq(Slot)
           /\ Len(Without(s)) = Len(age) - 1
           /\ \A k \in 1..(Len(age) - 1) :
                Without(s)[k] = age[IF k < p THEN k ELSE k + 1]
<1> DEFINE place == CHOOSE k \in 1..Len(age) : age[k] = s
<1>1. place \in 1..Len(age) /\ age[place] = s
  BY DEF AgeInv, AgeSound
<1>2. Without(s) = RemoveAt(age, place)
  BY DEF Without
<1> HIDE DEF place
<1> QED
  BY <1>1, <1>2, RemoveAtIs DEF AgeInv, AgeType

\* It holds the objects in use but s, each once.
LEMMA WithoutHolds ==
  ASSUME AgeInv, NEW s \in Slot
  PROVE  /\ Without(s) \in Seq(Slot)
         /\ \A t \in Slot : inUse[t] /\ t # s <=>
                              \E k \in 1..Len(Without(s)) : Without(s)[k] = t
         /\ \A j, k \in 1..Len(Without(s)) : Without(s)[j] = Without(s)[k] => j = k
<1>1. CASE ~inUse[s]
  <2>1. Without(s) = age
    BY <1>1 DEF Without
  <2> QED
    BY <1>1, <2>1 DEF AgeInv, AgeType, AgeSound
<1>2. CASE inUse[s]
  <2>1. PICK p \in 1..Len(age) :
          /\ age[p] = s
          /\ Without(s) \in Seq(Slot)
          /\ Len(Without(s)) = Len(age) - 1
          /\ \A k \in 1..(Len(age) - 1) :
               Without(s)[k] = age[IF k < p THEN k ELSE k + 1]
    BY <1>2, WithoutIs
  <2>2. /\ age \in Seq(Slot) /\ Len(age) \in Nat
        /\ \A t \in Slot : inUse[t] <=> \E k \in 1..Len(age) : age[k] = t
        /\ \A j, k \in 1..Len(age) : age[j] = age[k] => j = k
    BY DEF AgeInv, AgeType, AgeSound
  <2>3. PICK rest : rest = Without(s)
    OBVIOUS
  <2>4. ASSUME NEW t \in Slot, inUse[t], t # s
        PROVE  \E k \in 1..Len(rest) : rest[k] = t
    <3>1. PICK k \in 1..Len(age) : age[k] = t
      BY <2>2, <2>4
    <3>2. k # p
      BY <2>1, <2>4, <3>1
    <3>3. CASE k < p
      <4>1. k \in 1..(Len(age) - 1)
        BY <2>2, <3>3
      <4> QED
        BY <2>1, <2>3, <3>1, <3>3, <4>1
    <3>4. CASE k > p
      <4>1. k - 1 \in 1..(Len(age) - 1) /\ ~(k - 1 < p) /\ (k - 1) + 1 = k
        BY <2>2, <3>4
      <4>2. rest[k - 1] = t
        BY <2>1, <2>3, <3>1, <4>1
      <4> QED
        BY <2>1, <2>3, <4>1, <4>2
    <3> QED
      BY <2>2, <3>2, <3>3, <3>4
  <2>5. ASSUME NEW k \in 1..Len(rest)
        PROVE  inUse[rest[k]] /\ rest[k] # s /\ rest[k] \in Slot
    <3>1. PICK j \in 1..Len(age) : j = (IF k < p THEN k ELSE k + 1) /\ j # p
      BY <2>1, <2>2, <2>3
    <3>2. rest[k] = age[j]
      BY <2>1, <2>3, <3>1
    <3> QED
      BY <2>1, <2>2, <3>1, <3>2
  <2>6. ASSUME NEW j \in 1..Len(rest), NEW k \in 1..Len(rest), rest[j] = rest[k]
        PROVE  j = k
    <3>1. PICK m \in 1..Len(age) : m = IF j < p THEN j ELSE j + 1
      BY <2>1, <2>2, <2>3
    <3>2. PICK n \in 1..Len(age) : n = IF k < p THEN k ELSE k + 1
      BY <2>1, <2>2, <2>3
    <3>3. rest[j] = age[m] /\ rest[k] = age[n]
      BY <2>1, <2>3, <3>1, <3>2
    <3>4. m = n
      BY <2>2, <2>6, <3>3
    <3>5. j \in Int /\ k \in Int /\ p \in Int
      BY <2>1, <2>2, <2>3
    <3> QED
      BY <3>1, <3>2, <3>4, <3>5
  <2> QED
    BY <1>2, <2>1, <2>3, <2>4, <2>5, <2>6
<1> QED
  BY <1>1, <1>2

LEMMA AgeInit == Init => AgeInv /\ PlacesInv
BY DEF Init, AgeInv, AgeType, AgeSound, PlacesInv, PlacesSound, PlacesLate, CounterLate,
       NotCounted, Freeing, Slot

\* Fill appends the new message; an object that was in use has no message any more.
LEMMA FillKeepsAge == PoolInv /\ AgeInv /\ Fill => AgeInv'
<1> SUFFICES ASSUME PoolInv, AgeInv, Fill PROVE AgeInv'
  OBVIOUS
<1>1. /\ taken \in Slot /\ inUse \in [Slot -> BOOLEAN] /\ inUse' = [inUse EXCEPT ![taken] = TRUE]
      /\ age' = Append(Without(taken), taken) /\ index' = [index EXCEPT ![taken] = activeMessages]
      /\ UNCHANGED <<activeMessages, frame, i, expiring>>
  BY DEF Fill, NetGoes, PoolInv, PoolType
<1>2. PICK rest \in Seq(Slot) : rest = Without(taken)
  BY <1>1, WithoutHolds
<1>3. /\ \A t \in Slot : inUse[t] /\ t # taken <=> \E k \in 1..Len(rest) : rest[k] = t
      /\ \A j, k \in 1..Len(rest) : rest[j] = rest[k] => j = k
  <2>1. /\ Without(taken) \in Seq(Slot)
        /\ \A t \in Slot : inUse[t] /\ t # taken <=>
                             \E k \in 1..Len(Without(taken)) : Without(taken)[k] = t
        /\ \A j, k \in 1..Len(Without(taken)) : Without(taken)[j] = Without(taken)[k] => j = k
    BY <1>1, WithoutHolds
  <2> QED
    BY <1>2, <2>1
<1>4. /\ age' \in Seq(Slot) /\ Len(rest) \in Nat /\ Len(age') = Len(rest) + 1
      /\ age'[Len(rest) + 1] = taken /\ \A k \in 1..Len(rest) : age'[k] = rest[k]
  BY <1>1, <1>2
<1>5. \A k \in 1..Len(age') : k \in 1..Len(rest) \/ k = Len(rest) + 1
  BY <1>4
<1>6. \A k \in 1..Len(rest) : rest[k] # taken
  BY <1>1, <1>3
<1>7. \A s \in Slot : inUse'[s] <=> \E k \in 1..Len(age') : age'[k] = s
  <2> TAKE s \in Slot
  <2>1. inUse'[s] <=> inUse[s] \/ s = taken
    BY <1>1
  <2>2. ASSUME NEW k \in 1..Len(age'), age'[k] = s
        PROVE  inUse[s] \/ s = taken
    BY <1>3, <1>4, <1>5, <2>2
  <2>3. ASSUME s = taken
        PROVE  \E k \in 1..Len(age') : age'[k] = s
    BY <1>4, <2>3
  <2>4. ASSUME inUse[s], s # taken
        PROVE  \E k \in 1..Len(age') : age'[k] = s
    <3>1. PICK k \in 1..Len(rest) : rest[k] = s
      BY <1>3, <2>4
    <3>2. k \in 1..Len(age')
      BY <1>4
    <3> QED
      BY <1>4, <3>1, <3>2
  <2> QED
    BY <2>1, <2>2, <2>3, <2>4
<1>8. \A j, k \in 1..Len(age') : age'[j] = age'[k] => j = k
  BY <1>3, <1>4, <1>5, <1>6
<1>9. index' \in [Slot -> Int] /\ activeMessages' \in Int
  BY <1>1 DEF AgeInv, AgeType
<1>10. /\ expiring' \subseteq {s \in Slot : inUse'[s]}
       /\ frame' = "idle" => expiring' = {}
       /\ \A s \in expiring' : s >= i' /\ (Freeing' => s # i')
  BY <1>1 DEF AgeInv, AgeSound, Freeing
<1> QED
  BY <1>4, <1>7, <1>8, <1>9, <1>10 DEF AgeInv, AgeType, AgeSound

\* Expire removes the message of the object at i.
LEMMA ExpireKeepsAge == PoolInv /\ AgeInv /\ Expire => AgeInv'
<1> SUFFICES ASSUME PoolInv, AgeInv, Expire PROVE AgeInv'
  OBVIOUS
<1>1. /\ i \in Slot /\ inUse \in [Slot -> BOOLEAN] /\ inUse' = [inUse EXCEPT ![i] = FALSE]
      /\ age' = Without(i) /\ index' = [index EXCEPT ![i] = 0]
      /\ expiring' = expiring \ {i} /\ activeMessages' = activeMessages
      /\ frame' = "link" /\ i' = i
  BY SizeAssumption DEF Expire, FrameGoes, PoolInv, PoolType, Slot
<1>2. /\ age' \in Seq(Slot)
      /\ \A t \in Slot : inUse[t] /\ t # i <=> \E k \in 1..Len(age') : age'[k] = t
      /\ \A j, k \in 1..Len(age') : age'[j] = age'[k] => j = k
  <2>1. /\ Without(i) \in Seq(Slot)
        /\ \A t \in Slot : inUse[t] /\ t # i <=>
                             \E k \in 1..Len(Without(i)) : Without(i)[k] = t
        /\ \A j, k \in 1..Len(Without(i)) : Without(i)[j] = Without(i)[k] => j = k
    BY <1>1, WithoutHolds
  <2> QED
    BY <1>1, <2>1
<1>3. \A s \in Slot : inUse'[s] <=> inUse[s] /\ s # i
  BY <1>1
<1>4. index' \in [Slot -> Int] /\ activeMessages' \in Int
  BY <1>1 DEF AgeInv, AgeType
<1>5. /\ expiring' \subseteq {s \in Slot : inUse'[s]}
      /\ \A s \in expiring' : s >= i' /\ (Freeing' => s # i')
  BY <1>1, <1>3 DEF AgeInv, AgeSound
<1> QED
  BY <1>1, <1>2, <1>3, <1>4, <1>5 DEF AgeInv, AgeType, AgeSound

\* The other steps leave the messages as they are; a frame begins and ends without any
\* that expire.
LEMMA AgeStep == PoolInv /\ AgeInv /\ [Next]_vars => AgeInv'
<1> SUFFICES ASSUME PoolInv, AgeInv, [Next]_vars PROVE AgeInv'
  OBVIOUS
<1>1. ASSUME UNCHANGED <<age, inUse, i, expiring>>, frame' = "idle" => frame = "idle",
             Freeing' => Freeing, index' \in [Slot -> Int], activeMessages' \in Int
      PROVE  AgeInv'
  BY <1>1 DEF AgeInv, AgeType, AgeSound
<1>2. ASSUME UNCHANGED <<age, inUse, i, expiring, index, activeMessages, frame>>
      PROVE  AgeInv'
  BY <1>2 DEF AgeInv, AgeType, AgeSound, Freeing
<1>3. ASSUME NEW max \in Limits, SetMaxOutputLog(max) PROVE AgeInv'
  BY <1>2, <1>3 DEF SetMaxOutputLog, pool
<1>4. CASE Log \/ LogPopsNothing \/ OutputLog \/ Take \/ TakeWild \/ Stopped \/ UNCHANGED vars
  BY <1>2, <1>4 DEF Log, LogPopsNothing, OutputLog, Take, TakeWild, Stopped, vars, pool
<1>5. CASE Link \/ Free
  BY <1>1, <1>5 DEF Link, Free, FrameGoes, Freeing, AgeInv, AgeType
<1>6. CASE Count \/ Lower
  <2>1. activeMessages \in Int /\ Width \in Nat \ {0}
    BY SizeAssumption DEF AgeInv, AgeType
  <2>2. activeMessages' \in Int
    BY <1>6, <2>1 DEF Count, Lower, Counter
  <2> QED
    BY <1>1, <1>6, <2>2 DEF Count, Lower, FrameGoes, Freeing, AgeInv, AgeType
<1>7. CASE Shift
  <2>1. \A s \in Slot : index[s] \in Int /\ (index[s] - 1) % Width \in Int
    BY SizeAssumption DEF AgeInv, AgeType
  <2>2. index' \in [Slot -> Int]
    BY <1>7, <2>1 DEF Shift
  <2> QED
    BY <1>7, <2>2 DEF Shift, FrameGoes, Freeing, PoolInv, PoolType, AgeInv, AgeType, AgeSound,
                      Slot
<1>8. CASE Pass
  <2>1. /\ UNCHANGED <<age, inUse, index, activeMessages>> /\ ~Freeing'
        /\ frame' = "idle" => expiring' = {}
        /\ expiring' = {} \/ (expiring' = expiring /\ i \notin expiring /\ i' = i + 1)
    BY <1>8, SizeAssumption DEF Pass, FrameGoes, Freeing, pool, PoolInv, PoolType, AgeInv,
                                AgeSound, Slot
  <2>2. ASSUME NEW s \in expiring' PROVE s >= i'
    <3>1. s \in expiring /\ s # i /\ i' = i + 1
      BY <2>1
    <3>2. s \in Slot /\ s >= i /\ i \in Nat
      BY <3>1 DEF PoolInv, PoolType, AgeInv, AgeSound
    <3> QED
      BY <3>1, <3>2 DEF Slot
  <2> QED
    BY <2>1, <2>2 DEF AgeInv, AgeType, AgeSound
<1>9. ASSUME NEW n \in 0..Len(age), Update(n) PROVE AgeInv'
  <2>1. \A k \in 1..n : k \in 1..Len(age) /\ age[k] \in Slot /\ inUse[age[k]]
    BY DEF AgeInv, AgeType, AgeSound
  <2>2. expiring' \subseteq {s \in Slot : inUse[s]} /\ frame' = "object" /\ i' = 1
    BY <1>9, <2>1 DEF Update, FrameGoes
  <2>3. UNCHANGED <<age, inUse, index, activeMessages>>
    BY <1>9 DEF Update, pool
  <2> QED
    BY <2>2, <2>3 DEF AgeInv, AgeType, AgeSound, Freeing, Slot
<1> QED
  BY <1>3, <1>4, <1>5, <1>6, <1>7, <1>8, <1>9, FillKeepsAge, ExpireKeepsAge
     DEF Next, NetworkThread, FrameLoop

\* A list of slots without repetition is as long as the set it lists.
LEMMA OneByOne ==
  ASSUME NEW n \in Nat, NEW T \in SUBSET Slot, NEW f \in [1..n -> T],
         \A j, k \in 1..n : f[j] = f[k] => j = k,
         \A s \in T : \E k \in 1..n : f[k] = s
  PROVE  /\ Cardinality(T) = n /\ n <= Size
         /\ T # Slot => n < Size
<1>1. f \in Bijection(1..n, T)
  BY DEF Bijection, Injection, Surjection, IsInjective
<1>2. ExistsBijection(1..n, T)
  BY <1>1 DEF ExistsBijection
<1>3. IsFiniteSet(1..n) /\ Cardinality(1..n) = n
  BY FS_Interval
<1>4. Cardinality(T) = n
  BY <1>2, <1>3, FS_Bijection
<1>5. IsFiniteSet(Slot) /\ Cardinality(Slot) = Size
  BY SizeAssumption, FS_Interval DEF Slot
<1>6. n <= Size /\ (Size = n => Slot = T)
  BY <1>4, <1>5, FS_Subset
<1> QED
  BY <1>4, <1>6, SizeAssumption

\* There are no more messages than objects, and fewer if one is not in use.
LEMMA AgeIsShort ==
  ASSUME PoolInv, AgeInv
  PROVE  /\ Len(age) \in 0..Size
         /\ \A s \in Slot : ~inUse[s] => Len(age) < Size
<1> DEFINE T == {s \in Slot : inUse[s]}
           f == [k \in 1..Len(age) |-> age[k]]
<1>1. /\ Len(age) \in Nat /\ age \in Seq(Slot)
      /\ \A j, k \in 1..Len(age) : age[j] = age[k] => j = k
      /\ \A s \in Slot : inUse[s] <=> \E k \in 1..Len(age) : age[k] = s
  BY DEF AgeInv, AgeType, AgeSound
<1>2. \A k \in 1..Len(age) : f[k] = age[k] /\ age[k] \in T
  BY <1>1
<1>3. f \in [1..Len(age) -> T] /\ T \in SUBSET Slot
  BY <1>2
<1>4. \A j, k \in 1..Len(age) : f[j] = f[k] => j = k
  BY <1>1
<1>5. \A s \in T : \E k \in 1..Len(age) : f[k] = s
  BY <1>1
<1> HIDE DEF f, T
<1>6. /\ Cardinality(T) = Len(age) /\ Len(age) <= Size
      /\ T # Slot => Len(age) < Size
  BY <1>1, <1>3, <1>4, <1>5, OneByOne
<1> QED
  BY <1>1, <1>6, SizeAssumption DEF T

\* Fill puts the new message behind the others, the last of which has the place before.
LEMMA FillKeepsPlaces == PoolInv /\ AgeInv /\ PlacesInv /\ Fill => PlacesInv'
<1> SUFFICES ASSUME PoolInv, AgeInv, PlacesInv, Fill, ~collided' PROVE PlacesSound'
  BY DEF PlacesInv
<1>1. /\ taken \in Slot /\ inUse \in [Slot -> BOOLEAN] /\ inUse' = [inUse EXCEPT ![taken] = TRUE]
      /\ age' = Append(Without(taken), taken) /\ index' = [index EXCEPT ![taken] = activeMessages]
      /\ UNCHANGED <<activeMessages, frame, i, expiring>>
      /\ net = "fill" /\ net' = "count"
  BY DEF Fill, NetGoes, PoolInv, PoolType
<1>2. /\ ~collided /\ HeldSound /\ PlacesSound
      /\ frame \notin {"free", "lower", "shift"}
  BY DEF Fill, NetEnters, InPool, NetGoes, PoolInv, PoolType, PoolSound, PlacesInv
<1>3. /\ ~inUse[taken] /\ Without(taken) = age
      /\ frame = "link" => taken # i
  BY <1>1, <1>2 DEF HeldSound, Without
<1>4. PICK n \in Nat : n = Len(age)
  BY DEF AgeInv, AgeType
<1>5. /\ Len(age') = n + 1 /\ age'[n + 1] = taken
      /\ \A k \in 1..n : age'[k] = age[k] /\ age[k] \in Slot /\ age[k] # taken
      /\ index \in [Slot -> Int]
  BY <1>1, <1>3, <1>4 DEF AgeInv, AgeType, AgeSound
<1>6. Freeing' => ~inUse'[i']
  BY <1>1, <1>2, <1>3 DEF Freeing, PlacesSound, PoolInv, PoolType
<1>7. /\ CounterLate' = CounterLate /\ CounterLate = PlacesLate /\ PlacesLate' = PlacesLate
      /\ NotCounted' = 1 /\ NotCounted = 0 /\ CounterLate \in {0, 1}
  BY <1>1, <1>2 DEF CounterLate, PlacesLate, NotCounted, Freeing
<1>8. activeMessages = n + CounterLate
  BY <1>2, <1>4, <1>7 DEF PlacesSound
<1>9. activeMessages' = Len(age') + CounterLate' - NotCounted'
  BY <1>1, <1>5, <1>7, <1>8
<1>10. taken \notin expiring
  BY <1>3 DEF AgeInv, AgeSound
<1>11. ASSUME NEW j \in 1..Len(age'), NEW k \in 1..Len(age'), j < k, age'[k] \in expiring'
       PROVE  age'[j] \in expiring'
  <2>1. k \in 1..n
    BY <1>1, <1>5, <1>10, <1>11
  <2>2. j \in 1..n
    BY <1>11, <2>1
  <2> QED
    BY <1>1, <1>2, <1>4, <1>5, <1>11, <2>1, <2>2 DEF PlacesSound
<1>12. ASSUME NEW k \in 1..Len(age'), age'[k] \notin expiring'
       PROVE  index'[age'[k]] = k - 1 + PlacesLate'
  <2>1. CASE k = n + 1
    BY <1>1, <1>5, <1>7, <1>8, <2>1
  <2>2. CASE k \in 1..n
    <3>1. index'[age'[k]] = index[age[k]]
      BY <1>1, <1>5, <2>2
    <3> QED
      BY <1>1, <1>2, <1>4, <1>5, <1>7, <1>12, <2>2, <3>1 DEF PlacesSound
  <2> QED
    BY <1>5, <2>1, <2>2
<1> QED
  BY <1>6, <1>9, <1>11, <1>12 DEF PlacesSound

\* The message that goes is one of the oldest: those that stay are behind it, and late
\* by one place from now on.
LEMMA ExpireKeepsPlaces == PoolInv /\ AgeInv /\ PlacesInv /\ Expire => PlacesInv'
<1> SUFFICES ASSUME PoolInv, AgeInv, PlacesInv, Expire, ~collided' PROVE PlacesSound'
  BY DEF PlacesInv
<1>1. /\ i \in Slot /\ inUse \in [Slot -> BOOLEAN] /\ inUse[i]
      /\ inUse' = [inUse EXCEPT ![i] = FALSE]
      /\ age' = Without(i) /\ index' = [index EXCEPT ![i] = 0]
      /\ i \in expiring /\ expiring' = expiring \ {i}
      /\ frame = "object" /\ frame' = "link" /\ UNCHANGED <<activeMessages, i, net>>
  BY SizeAssumption DEF Expire, FrameGoes, PoolInv, PoolType, Slot
<1>2. PlacesSound
  BY DEF Expire, PlacesInv
<1>3. PICK p \in 1..Len(age) :
        /\ age[p] = i
        /\ Without(i) \in Seq(Slot)
        /\ Len(Without(i)) = Len(age) - 1
        /\ \A k \in 1..(Len(age) - 1) :
             Without(i)[k] = age[IF k < p THEN k ELSE k + 1]
  BY <1>1, WithoutIs
<1>4. PICK n \in Nat : n = Len(age) /\ p \in 1..n
  BY DEF AgeInv, AgeType
<1>5. /\ Len(age') = n - 1
      /\ \A k \in 1..(n - 1) : age'[k] = age[IF k < p THEN k ELSE k + 1]
  BY <1>1, <1>3, <1>4
<1>6. /\ index \in [Slot -> Int]
      /\ \A k \in 1..n : age[k] \in Slot /\ (age[k] = i => k = p)
  BY <1>3, <1>4 DEF AgeInv, AgeType, AgeSound
<1>7. Freeing' => ~inUse'[i']
  BY <1>1
<1>8. /\ CounterLate' = 1 /\ CounterLate = 0 /\ PlacesLate' = 1 /\ PlacesLate = 0
      /\ NotCounted' = NotCounted /\ NotCounted \in {0, 1}
  BY <1>1 DEF CounterLate, PlacesLate, NotCounted, Freeing
<1>9. activeMessages' = Len(age') + CounterLate' - NotCounted'
  BY <1>1, <1>2, <1>4, <1>5, <1>8 DEF PlacesSound
<1>10. ASSUME NEW j \in 1..Len(age'), NEW k \in 1..Len(age'), j < k, age'[k] \in expiring'
       PROVE  age'[j] \in expiring'
  <2>1. PICK l \in 1..n : l = (IF k < p THEN k ELSE k + 1) /\ age'[k] = age[l]
    BY <1>4, <1>5
  <2>2. PICK m \in 1..n : m = (IF j < p THEN j ELSE j + 1) /\ age'[j] = age[m]
    BY <1>4, <1>5
  <2>3. m < l /\ m # p
    BY <1>4, <1>10, <2>1, <2>2
  <2>4. age[m] \in expiring
    BY <1>1, <1>2, <1>4, <1>10, <2>1, <2>3 DEF PlacesSound
  <2> QED
    BY <1>1, <1>6, <2>2, <2>3, <2>4
<1>11. ASSUME NEW k \in 1..Len(age'), age'[k] \notin expiring'
       PROVE  index'[age'[k]] = k - 1 + PlacesLate'
  <2>1. PICK l \in 1..n : l = (IF k < p THEN k ELSE k + 1) /\ age'[k] = age[l]
    BY <1>4, <1>5
  <2>2. l # p /\ age[l] # i
    BY <1>4, <1>6, <2>1
  <2>3. age[l] \notin expiring
    BY <1>1, <1>11, <2>1, <2>2
  <2>4. l > p
    BY <1>1, <1>2, <1>3, <1>4, <2>2, <2>3 DEF PlacesSound
  <2>5. l = k + 1
    BY <1>4, <2>1, <2>4
  <2>6. index[age[l]] = l - 1 + PlacesLate
    BY <1>2, <1>4, <2>3 DEF PlacesSound
  <2>7. index'[age[l]] = index[age[l]]
    BY <1>1, <1>6, <2>2
  <2> QED
    BY <1>8, <2>1, <2>5, <2>6, <2>7
<1> QED
  BY <1>7, <1>9, <1>10, <1>11 DEF PlacesSound

\* Count and Lower set right what was late; the counter does not wrap.
LEMMA CounterKeepsPlaces == PoolInv /\ AgeInv /\ PlacesInv /\ (Count \/ Lower) => PlacesInv'
<1> SUFFICES ASSUME PoolInv, AgeInv, PlacesInv, Count \/ Lower, ~collided' PROVE PlacesSound'
  BY DEF PlacesInv
<1>1. /\ ~collided /\ HeldSound /\ PlacesSound
      /\ UNCHANGED <<age, inUse, index, i, expiring>>
  BY DEF Count, Lower, FrameEnters, PoolInv, PoolType, PoolSound, PlacesInv
<1>2. PICK n \in 0..Size : n = Len(age) /\ \A s \in Slot : ~inUse[s] => n < Size
  BY AgeIsShort
<1>3. Freeing' <=> Freeing
  BY DEF Count, Lower, FrameGoes, Freeing
<1>4. PlacesLate' = PlacesLate
  BY <1>3 DEF PlacesLate
<1>5. activeMessages' = Len(age') + CounterLate' - NotCounted'
  <2>1. CASE Count
    <3>1. /\ net = "count" /\ net' = "idle" /\ frame' = frame
          /\ frame \notin {"free", "lower", "shift"}
      BY <1>1, <2>1 DEF Count, NetGoes, HeldSound, InPool
    <3>2. /\ activeMessages' = (activeMessages + 1) % Width
          /\ activeMessages = n + CounterLate - 1
      BY <1>1, <1>2, <2>1, <3>1 DEF Count, Counter, PlacesSound, NotCounted
    <3>3. CounterLate' = CounterLate /\ NotCounted' = 0
      BY <3>1 DEF CounterLate, NotCounted
    <3>4. n + CounterLate \in 0..Size
      <4>1. CASE frame = "link"
        <5>1. n < Size /\ CounterLate = 1
          BY <1>1, <1>2, <4>1 DEF PlacesSound, Freeing, CounterLate, PoolInv, PoolType
        <5> QED
          BY <5>1, SizeAssumption
      <4>2. CASE frame # "link"
        <5>1. CounterLate = 0
          BY <3>1, <4>2 DEF CounterLate
        <5> QED
          BY <5>1, SizeAssumption
      <4> QED
        BY <4>1, <4>2
    <3>5. PICK m \in 0..Size : m = n + CounterLate
      BY <3>4
    <3>6. activeMessages + 1 = m
      BY <3>2, <3>5 DEF CounterLate
    <3>7. m % Width = m
      BY SizeAssumption
    <3>8. CounterLate \in {0, 1}
      BY DEF CounterLate
    <3> QED
      BY <1>1, <1>2, <3>2, <3>3, <3>5, <3>6, <3>7, <3>8
  <2>2. CASE Lower
    <3>1. /\ frame = "lower" /\ frame' = "shift" /\ net' = net /\ net # "count"
      BY <1>1, <2>2 DEF Lower, FrameGoes, HeldSound, InPool
    <3>2. activeMessages' = (activeMessages - 1) % Width
      BY <1>1, <2>2 DEF Lower, Counter
    <3>3. activeMessages = n + 1
      BY <1>1, <1>2, <3>1 DEF PlacesSound, CounterLate, NotCounted
    <3>4. n % Width = n
      BY SizeAssumption
    <3>5. activeMessages' = n
      BY <3>2, <3>3, <3>4
    <3>6. CounterLate' = 0 /\ NotCounted' = 0
      BY <3>1 DEF CounterLate, NotCounted
    <3> QED
      BY <1>1, <1>2, <3>5, <3>6
  <2> QED
    BY <2>1, <2>2
<1> QED
  BY <1>1, <1>3, <1>4, <1>5 DEF PlacesSound

\* Shift brings the indices up to date.
LEMMA ShiftKeepsPlaces == PoolInv /\ AgeInv /\ PlacesInv /\ Shift => PlacesInv'
<1> SUFFICES ASSUME PoolInv, AgeInv, PlacesInv, Shift, ~collided' PROVE PlacesSound'
  BY DEF PlacesInv
<1>1. /\ PlacesSound /\ frame = "shift" /\ frame' = "object"
      /\ UNCHANGED <<age, inUse, net, activeMessages, expiring>>
      /\ index' = [s \in Slot |-> IF s # i /\ inUse[s] THEN (index[s] - 1) % Width ELSE index[s]]
  BY DEF Shift, FrameGoes, PlacesInv
<1>2. PICK n \in 0..Size : n = Len(age)
  BY AgeIsShort
<1>3. /\ ~Freeing' /\ Freeing /\ PlacesLate = 1 /\ PlacesLate' = 0
      /\ CounterLate = 0 /\ CounterLate' = 0 /\ NotCounted' = NotCounted
  BY <1>1 DEF Freeing, PlacesLate, CounterLate, NotCounted
<1>4. ASSUME NEW k \in 1..n, age[k] \notin expiring
      PROVE  index'[age[k]] = k - 1
  <2>1. age[k] \in Slot /\ inUse[age[k]] /\ age[k] # i
    BY <1>1, <1>2, <1>3 DEF AgeInv, AgeType, AgeSound, PlacesSound
  <2>2. index[age[k]] = k
    BY <1>1, <1>2, <1>3, <1>4 DEF PlacesSound
  <2>3. index'[age[k]] = (k - 1) % Width
    BY <1>1, <2>1, <2>2
  <2>4. k - 1 \in 0..(Width - 1)
    BY SizeAssumption
  <2>5. (k - 1) % Width = k - 1
    BY <2>4, SizeAssumption
  <2> QED
    BY <2>3, <2>5
<1> QED
  BY <1>1, <1>2, <1>3, <1>4 DEF PlacesSound

\* A frame begins with the oldest messages expiring, and ends when none of them is left.
LEMMA LookKeepsPlaces ==
  ASSUME PoolInv, AgeInv, PlacesInv, Pass \/ \E n \in 0..Len(age) : Update(n)
  PROVE  PlacesInv'
<1> SUFFICES ASSUME ~collided' PROVE PlacesSound'
  BY DEF PlacesInv
<1>1. /\ PlacesSound /\ UNCHANGED <<age, inUse, index, activeMessages, net>>
      /\ frame \in {"idle", "object"} /\ frame' \in {"idle", "object"}
  <2>1. CASE Pass
    BY <2>1 DEF Pass, FrameGoes, pool, PlacesInv
  <2>2. CASE \E n \in 0..Len(age) : Update(n)
    BY <2>2 DEF Update, FrameGoes, pool, PlacesInv
  <2> QED
    BY <2>1, <2>2
<1>2. /\ ~Freeing /\ ~Freeing' /\ PlacesLate = 0 /\ PlacesLate' = 0
      /\ CounterLate = 0 /\ CounterLate' = 0 /\ NotCounted' = NotCounted
  BY <1>1 DEF Freeing, PlacesLate, CounterLate, NotCounted
<1>3. CASE Pass
  <2>1. expiring' = expiring
    <3>1. CASE i > Size
      <4>1. \A s \in expiring : s \in Slot /\ s >= i
        BY DEF AgeInv, AgeSound
      <4>2. expiring = {}
        BY <3>1, <4>1, SizeAssumption DEF PoolInv, PoolType, Slot
      <4> QED
        BY <1>3, <3>1, <4>2 DEF Pass
    <3>2. CASE ~(i > Size)
      BY <1>3, <3>2 DEF Pass
    <3> QED
      BY <3>1, <3>2
  <2> QED
    BY <1>1, <1>2, <2>1 DEF PlacesSound
<1>4. ASSUME NEW n \in 0..Len(age), Update(n) PROVE PlacesSound'
  <2>1. expiring = {} /\ expiring' = {age[k] : k \in 1..n}
    BY <1>4 DEF Update, FrameGoes, AgeInv, AgeSound
  <2>2. \A k \in 1..Len(age) : age[k] \in expiring' <=> k \in 1..n
    BY <2>1 DEF AgeInv, AgeType, AgeSound
  <2>3. \A j, k \in 1..Len(age) : j < k /\ age[k] \in expiring' => age[j] \in expiring'
    BY <2>2
  <2>4. \A k \in 1..Len(age) : index[age[k]] = k - 1 + PlacesLate
    BY <1>1, <2>1 DEF PlacesSound
  <2> QED
    BY <1>1, <1>2, <2>3, <2>4 DEF PlacesSound
<1> QED
  BY <1>3, <1>4

LEMMA PlacesStep == PoolInv /\ AgeInv /\ PlacesInv /\ [Next]_vars => PlacesInv'
<1> SUFFICES ASSUME PoolInv, AgeInv, PlacesInv, [Next]_vars PROVE PlacesInv'
  OBVIOUS
<1>1. ASSUME UNCHANGED <<age, inUse, i, expiring, index, activeMessages>>,
             frame' = frame \/ (frame \in {"link", "free"} /\ frame' \in {"free", "lower"}),
             net' = net \/ (net # "count" /\ net' # "count"),
             ~collided' => ~collided
      PROVE  PlacesInv'
  <2>1. (Freeing' <=> Freeing) /\ PlacesLate' = PlacesLate /\ CounterLate' = CounterLate
    BY <1>1 DEF Freeing, PlacesLate, CounterLate
  <2>2. NotCounted' = NotCounted
    BY <1>1 DEF NotCounted
  <2> QED
    BY <1>1, <2>1, <2>2 DEF PlacesInv, PlacesSound
<1>2. ASSUME NEW max \in Limits, SetMaxOutputLog(max) PROVE PlacesInv'
  BY <1>1, <1>2 DEF SetMaxOutputLog, pool
<1>3. CASE LogPopsNothing \/ TakeWild \/ Stopped \/ UNCHANGED vars
  BY <1>1, <1>3 DEF LogPopsNothing, TakeWild, Stopped, vars, pool
<1>4. CASE Log \/ OutputLog \/ Take
  <2>1. /\ UNCHANGED <<age, inUse, i, expiring, index, activeMessages, frame>>
        /\ net # "count" /\ net' # "count"
    BY <1>4 DEF Log, OutputLog, Take, NetGoes, pool
  <2>2. ~collided' => ~collided
    BY <1>4 DEF Log, OutputLog, Take, NetEnters, PoolInv, PoolType
  <2> QED
    BY <1>1, <2>1, <2>2
<1>5. CASE Link \/ Free
  <2>1. /\ UNCHANGED <<age, inUse, i, expiring, index, activeMessages, net>>
        /\ frame \in {"link", "free"} /\ frame' \in {"free", "lower"}
    BY <1>5 DEF Link, Free, FrameGoes
  <2>2. ~collided' => ~collided
    BY <1>5 DEF Link, Free, FrameEnters, PoolInv, PoolType
  <2> QED
    BY <1>1, <2>1, <2>2
<1> QED
  BY <1>2, <1>3, <1>4, <1>5, FillKeepsPlaces, ExpireKeepsPlaces, CounterKeepsPlaces,
     ShiftKeepsPlaces, LookKeepsPlaces DEF Next, NetworkThread, FrameLoop

\* IndicesArePlaces: as long as the threads have not met in the pool, the counter and the
\* indices are right whenever no message is half created or half freed, for a pool of any
\* size and messages that expire in any frame.
THEOREM PlacesCorrect == Spec => []IndicesArePlaces
<1>1. Spec => []PoolInv
  BY PoolInit, PoolStep, PTL DEF Spec
<1>2. Spec => [](AgeInv /\ PlacesInv)
  BY <1>1, AgeInit, AgeStep, PlacesStep, PTL DEF Spec
<1>3. AgeInv /\ PlacesInv => IndicesArePlaces
  <2> SUFFICES ASSUME AgeInv, PlacesSound, net # "count", frame \in {"idle", "object"}
               PROVE  /\ activeMessages = Len(age)
                      /\ {age[k] : k \in 1..Len(age)} = {s \in Slot : inUse[s]}
                      /\ \A k \in 1..Len(age) : age[k] \notin expiring =>
                                                  index[age[k]] = k - 1
    BY DEF PlacesInv, IndicesArePlaces
  <2>1. CounterLate = 0 /\ PlacesLate = 0 /\ NotCounted = 0 /\ Len(age) \in Nat
    BY DEF CounterLate, PlacesLate, NotCounted, Freeing, AgeInv, AgeType
  <2>2. {age[k] : k \in 1..Len(age)} = {s \in Slot : inUse[s]}
    BY DEF AgeInv, AgeType, AgeSound
  <2> QED
    BY <2>1, <2>2 DEF PlacesSound
<1> QED
  BY <1>2, <1>3, PTL

-----------------------------------------------------------------------------
(* The whole free list.                                                    *)
(*                                                                         *)
(* That no object is lost takes more than PoolSound, which a list and a    *)
(* ring beside it would satisfy: there is an enumeration of the objects    *)
(* that are free, from the head along the links to the end.                *)

Enumerates(m, f) ==
  /\ f[1] = firstAvailable /\ f[m + 1] = Null
  /\ \A k \in 1..m : f[k] \in Rest /\ next[f[k]] = f[k + 1]
  /\ \A s \in Rest : \E k \in 1..m : f[k] = s
  /\ \A j, k \in 1..m : f[j] = f[k] => j = k

Enumerated == \E m \in Nat : \E f \in [1..(m + 1) -> Slot \cup {Null}] : Enumerates(m, f)

ListInv == ~collided => Enumerated

LEMMA ListInit == Init => ListInv
<1> SUFFICES ASSUME Init PROVE Enumerated
  BY DEF ListInv
<1> DEFINE f == [k \in 1..(Size + 1) |-> IF k = Size + 1 THEN Null ELSE k]
<1>1. Size \in Nat \ {0}
  BY SizeAssumption
<1>2. f \in [1..(Size + 1) -> Slot \cup {Null}]
  BY <1>1 DEF Slot
<1>3. /\ f[Size + 1] = Null /\ \A k \in 1..Size : f[k] = k
      /\ \A k \in 1..Size : f[k + 1] = IF k = Size THEN Null ELSE k + 1
  BY <1>1
<1>4. Rest = Slot /\ firstAvailable = 1
  BY DEF Init, Rest, OnTheWay, Slot
<1>5. \A k \in 1..Size : next[k] = IF k = Size THEN Null ELSE k + 1
  BY DEF Init, Slot
<1> HIDE DEF f
<1>6. Enumerates(Size, f)
  BY <1>1, <1>3, <1>4, <1>5 DEF Enumerates, Slot
<1> QED
  BY <1>1, <1>2, <1>6 DEF Enumerated

\* The list stays where its head, its objects and their links do.
LEMMA ListStays ==
  ASSUME ListInv, ~collided' => ~collided, Rest' = Rest, firstAvailable' = firstAvailable,
         \A s \in Rest : next'[s] = next[s]
  PROVE  ListInv'
<1> SUFFICES ASSUME ~collided' PROVE Enumerated'
  BY DEF ListInv
<1>1. PICK m \in Nat : \E f \in [1..(m + 1) -> Slot \cup {Null}] : Enumerates(m, f)
  BY DEF ListInv, Enumerated
<1>2. PICK f \in [1..(m + 1) -> Slot \cup {Null}] : Enumerates(m, f)
  BY <1>1
<1>3. Enumerates(m, f)'
  BY <1>2 DEF Enumerates
<1> QED
  BY <1>3 DEF Enumerated

\* Take removes the first of the list.
LEMMA TakeKeepsList == PoolInv /\ ListInv /\ Take => ListInv'
<1> SUFFICES ASSUME PoolInv, ListInv, Take, ~collided' PROVE Enumerated'
  BY DEF ListInv
<1>1. taken \in Slot
  BY DEF Take, NetGoes, PoolInv, PoolType
<1>2. ~collided /\ HeldSound /\ ListSound
  BY DEF Take, NetEnters, PoolInv, PoolSound, PoolType
<1>3. /\ taken = firstAvailable /\ taken \in Rest /\ frame \notin {"free", "lower", "shift"}
      /\ taken # Null
  BY <1>1, <1>2, SizeAssumption
     DEF Take, NetGoes, NetEnters, InPool, HeldSound, ListSound, Slot, Null
<1>4. Rest' = Rest \ {taken}
  BY <1>3 DEF Take, NetGoes, Rest, OnTheWay
<1>5. firstAvailable' = next[taken] /\ next' = next
  BY DEF Take
<1>6. PICK m \in Nat : \E f \in [1..(m + 1) -> Slot \cup {Null}] : Enumerates(m, f)
  BY <1>2 DEF ListInv, Enumerated
<1>7. PICK f \in [1..(m + 1) -> Slot \cup {Null}] : Enumerates(m, f)
  BY <1>6
<1>8. m # 0 /\ m - 1 \in Nat /\ (m - 1) + 1 = m /\ 1 \in 1..m
  BY <1>3, <1>7 DEF Enumerates
<1>9. PICK g \in [1..((m - 1) + 1) -> Slot \cup {Null}] : \A k \in 1..m : g[k] = f[k + 1]
  <2> DEFINE h == [k \in 1..m |-> f[k + 1]]
  <2>1. h \in [1..((m - 1) + 1) -> Slot \cup {Null}]
    BY <1>8
  <2>2. \A k \in 1..m : h[k] = f[k + 1]
    OBVIOUS
  <2> HIDE DEF h
  <2> QED
    BY <2>1, <2>2
<1>10. Enumerates(m - 1, g)'
  <2>1. g[1] = firstAvailable'
    BY <1>3, <1>5, <1>7, <1>8, <1>9 DEF Enumerates
  <2>2. g[(m - 1) + 1] = Null
    BY <1>7, <1>8, <1>9 DEF Enumerates
  <2>3. ASSUME NEW k \in 1..(m - 1) PROVE g[k] \in Rest' /\ next'[g[k]] = g[k + 1]
    <3>1. k \in 1..m /\ k + 1 \in 1..m /\ k + 1 # 1
      OBVIOUS
    <3>2. g[k] = f[k + 1] /\ g[k + 1] = f[(k + 1) + 1]
      BY <1>9, <3>1
    <3>3. f[k + 1] \in Rest /\ f[k + 1] # f[1] /\ next[f[k + 1]] = f[(k + 1) + 1]
      BY <1>7, <1>8, <3>1 DEF Enumerates
    <3>4. f[1] = taken
      BY <1>3, <1>7 DEF Enumerates
    <3> QED
      BY <1>4, <1>5, <3>2, <3>3, <3>4
  <2>4. ASSUME NEW s \in Rest' PROVE \E k \in 1..(m - 1) : g[k] = s
    <3>1. PICK k \in 1..m : f[k] = s
      BY <1>4, <1>7 DEF Enumerates
    <3>2. k # 1
      BY <1>3, <1>4, <1>7, <3>1 DEF Enumerates
    <3>3. k - 1 \in 1..(m - 1) /\ k - 1 \in 1..m /\ (k - 1) + 1 = k
      BY <3>2
    <3>4. g[k - 1] = s
      BY <1>9, <3>1, <3>3
    <3> QED
      BY <3>3, <3>4
  <2>5. ASSUME NEW j \in 1..(m - 1), NEW k \in 1..(m - 1), g[j] = g[k] PROVE j = k
    <3>1. j \in 1..m /\ k \in 1..m /\ j + 1 \in 1..m /\ k + 1 \in 1..m
      OBVIOUS
    <3>2. f[j + 1] = f[k + 1]
      BY <1>9, <2>5, <3>1
    <3>3. j + 1 = k + 1
      BY <1>7, <3>1, <3>2 DEF Enumerates
    <3> QED
      BY <3>3
  <2> QED
    BY <2>1, <2>2, <2>3, <2>4, <2>5 DEF Enumerates
<1> QED
  BY <1>8, <1>9, <1>10 DEF Enumerated

\* Free puts the object at i before the first.
LEMMA FreeKeepsList == PoolInv /\ ListInv /\ Free => ListInv'
<1> SUFFICES ASSUME PoolInv, ListInv, Free, ~collided' PROVE Enumerated'
  BY DEF ListInv
<1>1. i \in Slot
  BY DEF Free, FrameGoes, PoolInv, PoolType
<1>2. ~collided /\ HeldSound /\ ListSound
  BY DEF Free, FrameEnters, PoolInv, PoolSound, PoolType
<1>3. net \notin {"take", "fill", "count"}
  BY DEF Free, FrameGoes, FrameEnters, InPool
<1>4. Rest' = Rest \cup {i} /\ i \notin Rest
  BY <1>1, <1>2, <1>3 DEF Free, FrameGoes, Rest, OnTheWay, HeldSound
<1>5. next[i] = firstAvailable /\ next' = next /\ firstAvailable' = i
  BY <1>2 DEF Free, FrameGoes, ListSound
<1>6. PICK m \in Nat : \E f \in [1..(m + 1) -> Slot \cup {Null}] : Enumerates(m, f)
  BY <1>2 DEF ListInv, Enumerated
<1>7. PICK f \in [1..(m + 1) -> Slot \cup {Null}] : Enumerates(m, f)
  BY <1>6
<1>8. PICK first \in Slot : first = i
  BY <1>1
<1>9. PICK g \in [1..((m + 1) + 1) -> Slot \cup {Null}] :
        /\ g[1] = first
        /\ \A k \in 1..(m + 1) : g[k + 1] = f[k]
  <2> DEFINE h == [k \in 1..((m + 1) + 1) |-> IF k = 1 THEN first ELSE f[k - 1]]
  <2>1. h \in [1..((m + 1) + 1) -> Slot \cup {Null}]
    OBVIOUS
  <2>2. h[1] = first
    OBVIOUS
  <2>3. ASSUME NEW k \in 1..(m + 1) PROVE h[k + 1] = f[k]
    <3>1. k + 1 \in 1..((m + 1) + 1) /\ k + 1 # 1 /\ (k + 1) - 1 = k
      OBVIOUS
    <3> QED
      BY <3>1
  <2> HIDE DEF h
  <2> QED
    BY <2>1, <2>2, <2>3
<1>10. \A k \in 1..(m + 1) : k = 1 \/ (k - 1 \in 1..m /\ k - 1 \in 1..(m + 1) /\ (k - 1) + 1 = k)
  OBVIOUS
<1>11. Enumerates(m + 1, g)'
  <2>1. g[1] = firstAvailable'
    BY <1>5, <1>8, <1>9
  <2>2. g[(m + 1) + 1] = Null
    BY <1>7, <1>9 DEF Enumerates
  <2>3. ASSUME NEW k \in 1..(m + 1) PROVE g[k] \in Rest' /\ next'[g[k]] = g[k + 1]
    <3>1. CASE k = 1
      <4>1. g[k + 1] = f[1]
        BY <1>9, <3>1
      <4>2. f[1] = firstAvailable
        BY <1>7 DEF Enumerates
      <4> QED
        BY <1>4, <1>5, <1>8, <1>9, <3>1, <4>1, <4>2
    <3>2. CASE k # 1
      <4>1. k - 1 \in 1..m /\ k - 1 \in 1..(m + 1) /\ (k - 1) + 1 = k
        BY <1>10, <3>2
      <4>2. g[k] = f[k - 1] /\ g[k + 1] = f[k]
        BY <1>9, <4>1
      <4>3. f[k - 1] \in Rest /\ next[f[k - 1]] = f[k]
        BY <1>7, <4>1 DEF Enumerates
      <4> QED
        BY <1>4, <1>5, <4>2, <4>3
    <3> QED
      BY <3>1, <3>2
  <2>4. ASSUME NEW s \in Rest' PROVE \E k \in 1..(m + 1) : g[k] = s
    <3>1. CASE s = i
      BY <1>8, <1>9, <3>1
    <3>2. CASE s \in Rest
      <4>1. PICK k \in 1..m : f[k] = s
        BY <1>7, <3>2 DEF Enumerates
      <4>2. k \in 1..(m + 1) /\ k + 1 \in 1..(m + 1)
        OBVIOUS
      <4> QED
        BY <1>9, <4>1, <4>2
    <3> QED
      BY <1>4, <3>1, <3>2
  <2>5. ASSUME NEW j \in 1..(m + 1), NEW k \in 1..(m + 1), g[j] = g[k] PROVE j = k
    <3>1. \A l \in 1..(m + 1) : l # 1 => g[l] = f[l - 1] /\ f[l - 1] \in Rest /\ g[l] # first
      <4> TAKE l \in 1..(m + 1)
      <4> HAVE l # 1
      <4>1. l - 1 \in 1..m /\ l - 1 \in 1..(m + 1) /\ (l - 1) + 1 = l
        BY <1>10
      <4>2. g[l] = f[l - 1]
        BY <1>9, <4>1
      <4> QED
        BY <1>4, <1>7, <1>8, <4>1, <4>2 DEF Enumerates
    <3>2. CASE j # 1 /\ k # 1
      <4>1. j - 1 \in 1..m /\ k - 1 \in 1..m /\ f[j - 1] = f[k - 1]
        BY <1>10, <2>5, <3>1, <3>2
      <4>2. j - 1 = k - 1
        BY <1>7, <4>1 DEF Enumerates
      <4> QED
        BY <4>2
    <3>3. CASE j = 1 \/ k = 1
      BY <1>9, <2>5, <3>1, <3>3
    <3> QED
      BY <3>2, <3>3
  <2> QED
    BY <2>1, <2>2, <2>3, <2>4, <2>5 DEF Enumerates
<1> QED
  BY <1>9, <1>11 DEF Enumerated

\* The other steps change no link within the list.
LEMMA ListStep == PoolInv /\ ListInv /\ [Next]_vars => ListInv'
<1> SUFFICES ASSUME PoolInv, ListInv, [Next]_vars PROVE ListInv'
  OBVIOUS
<1>1. ASSUME UNCHANGED <<firstAvailable, next, inUse, i>>, ~collided' => ~collided,
             \A s \in Slot : OnTheWay(s)' <=> OnTheWay(s)
      PROVE  ListInv'
  <2>1. Rest' = Rest
    BY <1>1 DEF Rest
  <2> QED
    BY <1>1, <2>1, ListStays
<1>2. ASSUME NEW max \in Limits, SetMaxOutputLog(max) PROVE ListInv'
  BY <1>1, <1>2 DEF SetMaxOutputLog, pool, OnTheWay
<1>3. CASE LogPopsNothing \/ TakeWild \/ Stopped \/ UNCHANGED vars
  BY <1>1, <1>3 DEF LogPopsNothing, TakeWild, Stopped, vars, pool, OnTheWay
<1>4. CASE Log \/ OutputLog \/ Count
  <2>1. ~collided' => ~collided
    BY <1>4 DEF Log, OutputLog, Count, NetEnters, PoolInv, PoolType
  <2>2. UNCHANGED <<firstAvailable, next, inUse, i, frame>> /\ net # "fill" /\ net' # "fill"
    BY <1>4 DEF Log, OutputLog, Count, NetGoes, pool
  <2> QED
    BY <1>1, <2>1, <2>2 DEF OnTheWay
<1>5. CASE Fill
  <2> SUFFICES ASSUME ~collided' PROVE ListInv'
    BY DEF ListInv
  <2>1. taken \in Slot /\ ~collided /\ HeldSound
    BY <1>5 DEF Fill, NetGoes, NetEnters, PoolInv, PoolType, PoolSound
  <2>2. taken \notin Rest
    BY <1>5, <2>1 DEF Fill, NetGoes, Rest, OnTheWay
  <2>3. /\ inUse' = [inUse EXCEPT ![taken] = TRUE] /\ next' = [next EXCEPT ![taken] = Wild]
        /\ UNCHANGED <<taken, frame, i, firstAvailable>> /\ net = "fill" /\ net' = "count"
        /\ frame = "link" => i # taken
        /\ frame # "free"
    BY <1>5, <2>1 DEF Fill, NetGoes, NetEnters, InPool, HeldSound
  <2>4. Rest' = Rest
    BY <2>1, <2>3 DEF Rest, OnTheWay, PoolInv, PoolType
  <2>5. \A s \in Rest : next'[s] = next[s]
    BY <2>2, <2>3 DEF Rest, PoolInv, PoolType
  <2> QED
    BY <2>1, <2>3, <2>4, <2>5, ListStays
<1>6. CASE Expire
  <2> SUFFICES ASSUME ~collided' PROVE ListInv'
    BY DEF ListInv
  <2>1. i \in Slot /\ inUse[i] /\ inUse' = [inUse EXCEPT ![i] = FALSE]
        /\ frame = "object" /\ frame' = "link"
        /\ UNCHANGED <<collided, next, firstAvailable, i, net, taken>>
    BY <1>6, SizeAssumption DEF Expire, FrameGoes, PoolInv, PoolType, Slot
  <2>2. Rest' = Rest
    BY <2>1 DEF Rest, OnTheWay, PoolInv, PoolType
  <2> QED
    BY <2>1, <2>2, ListStays
<1>7. CASE Link
  <2>1. i \in Slot /\ next' = [next EXCEPT ![i] = firstAvailable]
        /\ frame = "link" /\ frame' = "free"
        /\ UNCHANGED <<firstAvailable, i, net, taken, inUse>>
    BY <1>7 DEF Link, FrameGoes, PoolInv, PoolType
  <2>2. Rest' = Rest /\ i \notin Rest
    BY <2>1 DEF Rest, OnTheWay
  <2>3. \A s \in Rest : next'[s] = next[s]
    BY <2>1, <2>2 DEF Rest, PoolInv, PoolType
  <2>4. ~collided' => ~collided
    BY <1>7 DEF Link, FrameEnters, PoolInv, PoolType
  <2> QED
    BY <2>1, <2>2, <2>3, <2>4, ListStays
<1>8. CASE Lower \/ Shift \/ Pass \/ \E n \in 0..Len(age) : Update(n)
  <2>1. /\ UNCHANGED <<firstAvailable, next, inUse, net, taken>>
        /\ frame \notin {"link", "free"} /\ frame' \notin {"link", "free"}
    BY <1>8 DEF Lower, Shift, Pass, Update, FrameGoes, pool
  <2>2. ~collided' => ~collided
    BY <1>8 DEF Lower, Shift, Pass, Update, FrameEnters, PoolInv, PoolType
  <2>3. Rest' = Rest
    BY <2>1 DEF Rest, OnTheWay
  <2> QED
    BY <2>1, <2>2, <2>3, ListStays
<1> QED
  BY <1>2, <1>3, <1>4, <1>5, <1>6, <1>7, <1>8, TakeKeepsList, FreeKeepsList
     DEF Next, NetworkThread, FrameLoop

\* What Met says of each number of links.
LEMMA MetIs ==
  ASSUME PoolInv
  PROVE  /\ Met[0] = <<>>
         /\ \A n \in 1..Size :
              Met[n] = LET before == Met[n - 1]
                           s == IF before = <<>> THEN firstAvailable
                                ELSE next[before[Len(before)]]
                       IN  IF s \in Slot THEN Append(before, s) ELSE before
<1> DEFINE
    Goes(before) == IF before = <<>> THEN firstAvailable ELSE next[before[Len(before)]]
    More(before) == IF Goes(before) \in Slot THEN Append(before, Goes(before)) ELSE before
    step == [n \in 1..Size |-> [before \in Seq(Slot) |-> More(before)]]
<1>1. Size \in Nat /\ <<>> \in Seq(Slot)
  BY SizeAssumption
<1>2. \A before \in Seq(Slot) : More(before) \in Seq(Slot)
  OBVIOUS
<1>3. step \in [1..Size -> [Seq(Slot) -> Seq(Slot)]]
  BY <1>2
<1>4. \A before \in Seq(Slot), n \in 1..Size : step[n][before] = More(before)
  OBVIOUS
<1> HIDE DEF step
<1>5. PICK f \in [0..Size -> Seq(Slot)] :
        f[0] = <<>> /\ \A k \in 1..Size : f[k] = step[k][f[k - 1]]
  <2>1. PICK f : Recurses(f, Size, Seq(Slot), <<>>, step)
    BY <1>1, <1>3, RecursionExists
  <2> QED
    BY <2>1 DEF Recurses
<1>6. \A k \in 1..Size : f[k] = More(f[k - 1])
  <2>1. \A k \in 1..Size : k - 1 \in 0..Size
    BY <1>1
  <2> QED
    BY <1>4, <1>5, <2>1
<1>7. f = [n \in 0..Size |->
             IF n = 0 THEN <<>>
             ELSE LET before == f[n - 1]
                      s == IF before = <<>> THEN firstAvailable ELSE next[before[Len(before)]]
                  IN  IF s \in Slot THEN Append(before, s) ELSE before]
  <2>1. \A n \in 0..Size : n = 0 \/ n \in 1..Size
    BY <1>1
  <2> QED
    BY <1>5, <1>6, <2>1
<1>8. Met = [n \in 0..Size |->
             IF n = 0 THEN <<>>
             ELSE LET before == Met[n - 1]
                      s == IF before = <<>> THEN firstAvailable ELSE next[before[Len(before)]]
                  IN  IF s \in Slot THEN Append(before, s) ELSE before]
  BY <1>7 DEF Met
<1>9. Met[0] = <<>>
  BY <1>1, <1>8
<1>10. ASSUME NEW n \in 1..Size
       PROVE  Met[n] = LET before == Met[n - 1]
                           s == IF before = <<>> THEN firstAvailable
                                ELSE next[before[Len(before)]]
                       IN  IF s \in Slot THEN Append(before, s) ELSE before
  <2>1. n \in 0..Size /\ n # 0
    BY <1>1
  <2> QED
    BY <1>8, <2>1
<1> QED
  BY <1>9, <1>10

\* Going through the list from its head one meets the objects as they are enumerated.
LEMMA MetAsEnumerated ==
  ASSUME PoolInv, NEW m \in Nat, m <= Size, NEW f \in [1..(m + 1) -> Slot \cup {Null}],
         Enumerates(m, f)
  PROVE  FreeList \in Seq(Slot) /\ Len(FreeList) = m /\ \A k \in 1..m : FreeList[k] = f[k]
<1> DEFINE
    As(n) == /\ Met[n] \in Seq(Slot)
             /\ Len(Met[n]) = IF n <= m THEN n ELSE m
             /\ \A k \in 1..Len(Met[n]) : Met[n][k] = f[k]
    T == {n \in 0..Size : As(n)}
<1>1. Size \in Nat
  BY SizeAssumption
<1>2. 0 \in T
  <2>1. Met[0] \in Seq(Slot) /\ Len(Met[0]) = 0
    BY MetIs, EmptySeq
  <2> QED
    BY <1>1, <2>1
<1>3. ASSUME NEW n \in 0..(Size - 1), n \in T PROVE n + 1 \in T
  <2>1. PICK before \in Seq(Slot) : before = Met[n]
    BY <1>3
  <2>2. PICK l \in Nat :
          /\ l = Len(before)
          /\ n < m => l = n
          /\ ~(n < m) => l = m
    BY <1>1, <1>3, <2>1
  <2>3. \A k \in 1..l : before[k] = f[k]
    BY <1>3, <2>1, <2>2
  <2>4. n + 1 \in 1..Size /\ n + 1 \in 0..Size /\ (n + 1) - 1 = n
    BY <1>1
  <2>5. Met[n + 1] = LET s == IF before = <<>> THEN firstAvailable ELSE next[before[Len(before)]]
                     IN  IF s \in Slot THEN Append(before, s) ELSE before
    BY <2>1, <2>4, MetIs
  <2>6. (IF before = <<>> THEN firstAvailable ELSE next[before[Len(before)]]) = f[l + 1]
    <3>1. CASE before = <<>>
      <4>1. Len(before) = 0
        BY <3>1, EmptySeq
      <4>2. l + 1 = 1
        BY <2>2, <4>1
      <4> QED
        BY <3>1, <4>2 DEF Enumerates
    <3>2. CASE before # <<>>
      <4> Len(before) # 0
        BY <3>2, EmptySeq
      <4>1. l \in 1..m
        BY <1>1, <2>2
      <4>2. before[Len(before)] = f[l]
        BY <2>2, <2>3, <4>1
      <4> QED
        BY <3>2, <4>1, <4>2 DEF Enumerates
    <3> QED
      BY <3>1, <3>2
  <2>7. CASE n < m
    <3>1. l = n /\ n + 1 \in 1..m
      BY <2>2, <2>7
    <3>2. f[n + 1] \in Slot
      BY <3>1 DEF Enumerates, Rest
    <3>3. Met[n + 1] = Append(before, f[n + 1])
      BY <2>5, <2>6, <3>1, <3>2
    <3>4. PICK more \in Seq(Slot) : more = Append(before, f[n + 1])
      BY <3>2, AppendProperties
    <3>5. /\ Len(more) = n + 1 /\ more[n + 1] = f[n + 1]
          /\ \A k \in 1..n : more[k] = before[k]
      <4>1. Len(before) = n
        BY <2>2, <3>1
      <4> QED
        BY <3>2, <3>4, <4>1, AppendProperties
    <3>6. \A k \in 1..(n + 1) : more[k] = f[k]
      <4>1. \A k \in 1..(n + 1) : k = n + 1 \/ k \in 1..n
        OBVIOUS
      <4> QED
        BY <2>3, <3>1, <3>5, <4>1
    <3>7. Met[n + 1] = more /\ n + 1 <= m
      BY <2>7, <3>3, <3>4
    <3>8. As(n + 1)
      BY <3>5, <3>6, <3>7
    <3> QED
      BY <2>4, <3>8
  <2>8. CASE ~(n < m)
    <3>1. l = m /\ f[l + 1] \notin Slot
      BY <1>1, <2>2, <2>8 DEF Enumerates, Slot, Null
    <3>2. Met[n + 1] = before
      BY <2>5, <2>6, <3>1
    <3>3. n + 1 <= m => n + 1 = m
      BY <2>8
    <3>4. As(n + 1)
      BY <2>2, <2>3, <3>1, <3>2, <3>3
    <3> QED
      BY <2>4, <3>4
  <2> QED
    BY <2>7, <2>8
<1>4. Size \in T
  <2> HIDE DEF T
  <2>1. 0..Size \subseteq T
    BY <1>1, <1>2, <1>3, PlaceByPlace
  <2> QED
    BY <1>1, <2>1
<1>5. Len(Met[Size]) = m
  BY <1>1, <1>4
<1> QED
  BY <1>4, <1>5 DEF FreeList

\* While the threads have not collided, the free list holds every object that is not in
\* use once, but for the one on its way in or out: Create and the freeing of objects lose
\* none and give none twice, however their steps interleave without meeting in the pool.
THEOREM FreeListCorrect == Spec => []FreeListIsRest
<1>1. ASSUME PoolInv, ListInv PROVE FreeListIsRest
  <2> SUFFICES ASSUME ~collided
               PROVE  /\ {FreeList[k] : k \in 1..Len(FreeList)} = Rest
                      /\ Len(FreeList) = Cardinality(Rest)
    BY DEF FreeListIsRest
  <2>1. PICK m \in Nat : \E f \in [1..(m + 1) -> Slot \cup {Null}] : Enumerates(m, f)
    BY <1>1 DEF ListInv, Enumerated
  <2>2. PICK f \in [1..(m + 1) -> Slot \cup {Null}] : Enumerates(m, f)
    BY <2>1
  <2>3. PICK T \in SUBSET Slot : T = Rest
    BY DEF Rest
  <2>4. PICK g \in [1..m -> T] : \A k \in 1..m : g[k] = f[k]
    <3> DEFINE h == [k \in 1..m |-> f[k]]
    <3>1. h \in [1..m -> T] /\ \A k \in 1..m : h[k] = f[k]
      BY <2>2, <2>3 DEF Enumerates
    <3> HIDE DEF h
    <3> QED
      BY <3>1
  <2>5. /\ \A j, k \in 1..m : g[j] = g[k] => j = k
        /\ \A s \in T : \E k \in 1..m : g[k] = s
    BY <2>2, <2>3, <2>4 DEF Enumerates
  <2>6. Cardinality(T) = m /\ m <= Size
    BY <2>5, OneByOne
  <2>7. Len(FreeList) = m /\ \A k \in 1..m : FreeList[k] = f[k]
    BY <1>1, <2>2, <2>6, MetAsEnumerated
  <2>8. \A k \in 1..m : FreeList[k] = g[k]
    BY <2>4, <2>7
  <2> QED
    BY <2>3, <2>5, <2>6, <2>7, <2>8
<1>2. Init => PoolInv /\ ListInv
  BY PoolInit, ListInit
<1>3. PoolInv /\ ListInv /\ [Next]_vars => PoolInv' /\ ListInv'
  BY PoolStep, ListStep
<1> QED
  BY <1>1, <1>2, <1>3, PTL DEF Spec
=============================================================================

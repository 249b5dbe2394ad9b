-------------------------- MODULE PacketStreamProofs --------------------------
(***************************************************************************)
(* PacketStream keeps its types and never copies outside of the packet,    *)
(* for every capacity, every size of a length and every set of items: the  *)
(* bounds check of WriteData and ReadData adds in size_t, and the sum it   *)
(* makes never wraps.  What fits arrives, and a resize of a string throws  *)
(* behind a literal only: the second part, from Layout on.                 *)
(***************************************************************************)
EXTENDS PacketStream, TLAPS

\* A stream whose position is within its packet, and the packet no larger than
\* what was allocated.
Within(s) == s \in Stream /\ s.position <= Len(s.bytes) /\ Len(s.bytes) <= Capacity

-----------------------------------------------------------------------------
(* What the helpers of the two streams return.                             *)

\* A size the addition has room for: the check is exact and the copy is inside.
LEMMA NoWrap ==
  ASSUME NEW s, Within(s), NEW n \in Nat, Capacity + n < SizeMod
  PROVE  /\ Beyond(s, n) = s.position + n
         /\ ~Overruns(s, n)
<1>1. s.position \in Nat /\ Len(s.bytes) \in Nat BY DEF Within, Stream
<1>2. s.position + n \in 0..(SizeMod - 1)
  BY <1>1, SizeAssumption DEF Within
<1>3. (s.position + n) % SizeMod = s.position + n
  BY <1>2, SizeAssumption
<1> QED BY <1>1, <1>3 DEF Beyond, Overruns, Fits

\* WriteData moves within the packet and leaves its size alone.
LEMMA WriteDataWithin ==
  ASSUME NEW s, Within(s), NEW data \in Seq(Byte), Capacity + Len(data) < SizeMod
  PROVE  Within(WriteData(s, data)) /\ Len(WriteData(s, data).bytes) = Len(s.bytes)
<1> DEFINE written == [k \in 1..Len(s.bytes) |->
                         IF k \in (s.position + 1)..(s.position + Len(data))
                         THEN data[k - s.position] ELSE s.bytes[k]]
<1>1. s.bytes \in Seq(Byte) /\ s.position \in Nat /\ Len(data) \in Nat
  BY DEF Within, Stream
<1>2. Beyond(s, Len(data)) = s.position + Len(data) /\ ~Overruns(s, Len(data))
  BY <1>1, NoWrap
<1>3. CASE Fits(s, Len(data))
  <2>1. WriteData(s, data) = [bytes |-> written, position |-> s.position + Len(data)]
    BY <1>2, <1>3 DEF WriteData
  <2>2. \A k \in 1..Len(s.bytes) : written[k] \in Byte
    <3> TAKE k \in 1..Len(s.bytes)
    <3>1. CASE k \in (s.position + 1)..(s.position + Len(data))
      <4>1. k - s.position \in 1..Len(data) BY <1>1, <3>1
      <4> QED BY <3>1, <4>1
    <3>2. CASE k \notin (s.position + 1)..(s.position + Len(data))
      BY <1>1, <3>2
    <3> QED BY <3>1, <3>2
  <2>3. written \in [1..Len(s.bytes) -> Byte] BY <2>2
  <2>4. Len(s.bytes) \in Nat BY <1>1
  <2>5. written \in Seq(Byte) /\ Len(written) = Len(s.bytes) BY <2>3, <2>4
  <2>6. s.position + Len(data) <= Len(s.bytes) BY <1>2, <1>3 DEF Fits
  <2> HIDE DEF written
  <2> QED BY <1>1, <2>1, <2>5, <2>6 DEF Within, Stream
<1>4. CASE ~Fits(s, Len(data)) BY <1>4 DEF WriteData
<1> QED BY <1>3, <1>4

\* ReadData and Ignore move within the packet.
LEMMA AdvanceWithin ==
  ASSUME NEW s, Within(s), NEW n \in Nat, Capacity + n < SizeMod
  PROVE  Within(Advance(s, n))
<1>1. s.bytes \in Seq(Byte) /\ s.position \in Nat BY DEF Within, Stream
<1>2. CASE Fits(s, n)
  <2>1. Advance(s, n) = [bytes |-> s.bytes, position |-> s.position + n]
    BY <1>2, NoWrap DEF Advance, Within, Stream
  <2>2. s.position + n <= Len(s.bytes) BY <1>2, NoWrap DEF Fits
  <2> QED BY <1>1, <2>1, <2>2 DEF Within, Stream
<1>3. CASE ~Fits(s, n) BY <1>3 DEF Advance
<1> QED BY <1>2, <1>3

\* What ReadData copies out are bytes of the packet.
LEMMA DataAtType ==
  ASSUME NEW s, Within(s), NEW n \in Nat, Capacity + n < SizeMod
  PROVE  DataAt(s, n) \in Seq(Byte)
<1>1. s.bytes \in Seq(Byte) /\ s.position \in Nat /\ Len(s.bytes) \in Nat
  BY DEF Within, Stream
<1>2. CASE Fits(s, n)
  <2>1. s.position + n <= Len(s.bytes) BY <1>2, NoWrap DEF Fits
  <2>2. \A k \in (s.position + 1)..(s.position + n) : s.bytes[k] \in Byte
    BY <1>1, <2>1
  <2>3. SubSeq(s.bytes, s.position + 1, s.position + n) \in Seq(Byte)
    BY <1>1, <2>1, <2>2
  <2> QED BY <1>2, <2>3, NoWrap DEF DataAt
<1>3. CASE ~Fits(s, n) BY <1>3 DEF DataAt
<1> QED BY <1>2, <1>3

\* The bytes of a new item are bytes.
LEMMA NewDataType ==
  ASSUME NEW w \in Nat, NEW n \in Nat
  PROVE  NewData(w, n) \in Seq(Byte) /\ Len(NewData(w, n)) = n
<1>1. NewData(w, n) \in [1..n -> Byte] BY DEF NewData, Byte
<1> QED BY <1>1

\* So are those of a length.
LEMMA LengthOfType ==
  ASSUME NEW w \in Nat
  PROVE  LengthOf(w) \in Seq(Byte) /\ Len(LengthOf(w)) = LengthSize
<1>1. LengthOf(w) \in [1..LengthSize -> Byte] BY SizeAssumption DEF LengthOf, Byte
<1> QED BY <1>1, SizeAssumption

-----------------------------------------------------------------------------
(* The invariant: types, and no copy outside so far.  Neither is inductive *)
(* without the other half of TypeOK, the positions within the packets.     *)

StreamInv == TypeOK /\ NoOverrun

\* Both streams of a state that satisfies the invariant are within their packets.
LEMMA StreamsWithin ==
  ASSUME StreamInv
  PROVE  Within(writer) /\ Within(reader)
BY SizeAssumption DEF StreamInv, TypeOK, Within, Stream

\* The sizes that occur leave room for the addition.
LEMMA RoomForSizes ==
  /\ \A n \in RawSizes : n \in Nat /\ Capacity + n < SizeMod
  /\ \A n \in LiteralSizes : n \in Nat /\ Capacity + n < SizeMod
  /\ \A n \in TextSizes : n \in Nat /\ Capacity + n < SizeMod
  /\ Capacity + LengthSize < SizeMod
BY SizeAssumption, ItemAssumption DEF LiteralSizes

\* Writing a raw value or a literal keeps the invariant.
LEMMA WriteValueKeeps ==
  ASSUME StreamInv, NEW kind, NEW n,
         [kind |-> kind, size |-> n] \in Item,
         n \in Nat, Capacity + n < SizeMod,
         WriteValue(kind, n)
  PROVE  StreamInv'
<1> DEFINE w == Len(items) + 1
<1>1. w \in Nat BY DEF StreamInv, TypeOK
<1>2. NewData(w, n) \in Seq(Byte) /\ Len(NewData(w, n)) = n BY <1>1, NewDataType
<1>3. Within(WriteData(writer, NewData(w, n)))
      /\ Len(WriteData(writer, NewData(w, n)).bytes) = Len(writer.bytes)
  BY <1>2, WriteDataWithin, StreamsWithin
<1>4. ~Overruns(writer, n) BY NoWrap, StreamsWithin
<1>5. writer' = WriteData(writer, NewData(w, n)) BY DEF WriteValue
<1>6. writer' \in Stream /\ writer'.position <= Len(writer'.bytes)
      /\ Len(writer'.bytes) = Capacity
  BY <1>3, <1>5 DEF Within, StreamInv, TypeOK
<1>7. items' \in Seq(Item) /\ Len(items') = Len(items) + 1
  BY DEF WriteValue, StreamInv, TypeOK
<1>8. Fits(writer, n) \in BOOLEAN BY DEF Fits
<1>9. fitted' \in Seq(Fate) /\ Len(fitted') = Len(fitted) + 1
  BY <1>8 DEF WriteValue, StreamInv, TypeOK, Fate
<1>10. ~overrun' /\ overrun' \in BOOLEAN
  BY <1>4 DEF WriteValue, StreamInv, NoOverrun
<1>11. UNCHANGED <<phase, reader, results>> BY DEF WriteValue
<1> QED BY <1>6, <1>7, <1>9, <1>10, <1>11 DEF StreamInv, TypeOK, NoOverrun

\* So does writing a string, in its two writes.
LEMMA WriteStringKeeps ==
  ASSUME StreamInv, NEW n \in TextSizes, WriteString(n)
  PROVE  StreamInv'
<1> DEFINE w == Len(items) + 1
           lengthWritten == WriteData(writer, LengthOf(w))
<1>1. w \in Nat BY DEF StreamInv, TypeOK
<1>2. n \in Nat /\ Capacity + n < SizeMod BY RoomForSizes
<1>3. NewData(w, n) \in Seq(Byte) /\ Len(NewData(w, n)) = n BY <1>1, <1>2, NewDataType
<1>4. LengthOf(w) \in Seq(Byte) /\ Len(LengthOf(w)) = LengthSize BY <1>1, LengthOfType
<1>5. LengthSize \in Nat /\ Capacity + LengthSize < SizeMod BY SizeAssumption
<1>6. Within(lengthWritten) /\ Len(lengthWritten.bytes) = Len(writer.bytes)
  BY <1>4, <1>5, WriteDataWithin, StreamsWithin
<1>7. writer' = WriteData(lengthWritten, NewData(w, n)) BY DEF WriteString
<1>8. Within(writer') /\ Len(writer'.bytes) = Len(writer.bytes)
  <2> HIDE DEF lengthWritten
  <2> QED BY <1>2, <1>3, <1>6, <1>7, WriteDataWithin
<1>9. ~Overruns(writer, LengthSize) BY <1>5, NoWrap, StreamsWithin
<1>10. ~Overruns(lengthWritten, n)
  <2> HIDE DEF lengthWritten
  <2> QED BY <1>2, <1>6, NoWrap
<1>11. writer' \in Stream /\ writer'.position <= Len(writer'.bytes)
       /\ Len(writer'.bytes) = Capacity
  BY <1>8 DEF Within, StreamInv, TypeOK
<1>12. [kind |-> "string", size |-> n] \in Item BY DEF Item
<1>13. items' \in Seq(Item) /\ Len(items') = Len(items) + 1
  BY <1>12 DEF WriteString, StreamInv, TypeOK
<1>14. Fits(writer, LengthSize) \in BOOLEAN /\ Fits(lengthWritten, n) \in BOOLEAN
  BY DEF Fits
<1>15. fitted' \in Seq(Fate) /\ Len(fitted') = Len(fitted) + 1
  <2>1. [length |-> Fits(writer, LengthSize), data |-> Fits(lengthWritten, n)] \in Fate
    BY <1>14 DEF Fate
  <2> QED BY <2>1 DEF WriteString, StreamInv, TypeOK
<1>16. ~overrun' /\ overrun' \in BOOLEAN
  BY <1>9, <1>10 DEF WriteString, StreamInv, NoOverrun
<1>17. UNCHANGED <<phase, reader, results>> BY DEF WriteString
<1> QED BY <1>11, <1>13, <1>15, <1>16, <1>17 DEF StreamInv, TypeOK, NoOverrun

\* Sending cuts the packet at the position, or not at all.
LEMMA SendKeeps ==
  ASSUME StreamInv, Send
  PROVE  StreamInv'
<1>1. PICK last \in {writer.position, Capacity} :
        reader' = [bytes |-> SubSeq(writer.bytes, 1, last), position |-> 0]
  BY DEF Send
<1>2. writer.bytes \in Seq(Byte) /\ last \in 0..Capacity /\ Len(writer.bytes) = Capacity
  BY SizeAssumption DEF StreamInv, TypeOK, Stream
<1>3. SubSeq(writer.bytes, 1, last) \in Seq(Byte)
      /\ Len(SubSeq(writer.bytes, 1, last)) = last
  BY <1>2, SizeAssumption
<1>4. reader' \in Stream /\ reader'.position <= Len(reader'.bytes)
      /\ Len(reader'.bytes) <= Capacity
  BY <1>1, <1>2, <1>3, SizeAssumption DEF Stream
<1> QED BY <1>4 DEF Send, StreamInv, TypeOK, NoOverrun

\* One result more, for an item that was written.
LEMMA ResultsGrow ==
  ASSUME StreamInv, NEW kinds, Reading(kinds), NEW result \in Result
  PROVE  /\ NextItem \in 1..Len(items)
         /\ Append(results, result) \in Seq(Result)
         /\ Len(Append(results, result)) <= Len(items)
BY DEF StreamInv, TypeOK, Reading, NextItem

\* The size of an item leaves room for the addition.
LEMMA ItemSizes ==
  \A item \in Item : item.size \in Nat /\ Capacity + item.size < SizeMod
BY RoomForSizes DEF Item

\* Whatever bytes are read as a length, a size that std::string can take is a
\* natural number with room for the addition.
LEMMA SizesType ==
  ASSUME StreamInv, NEW bytes, NEW n \in SizesIn(bytes), n <= MaxText
  PROVE  n \in Nat /\ Capacity + n < SizeMod
<1>1. \A w \in 1..Len(items) : items[w] \in Item BY DEF StreamInv, TypeOK
<1>2. n \in Odd \/ \E w \in 1..Len(items) : n = items[w].size BY DEF SizesIn
<1>3. CASE n \in Odd BY <1>3, ItemAssumption, SizeAssumption
<1>4. CASE \E w \in 1..Len(items) : n = items[w].size
  <2>1. PICK w \in 1..Len(items) : n = items[w].size BY <1>4
  <2> QED BY <1>1, <2>1, ItemSizes
<1> QED BY <1>2, <1>3, <1>4

\* Reading a raw value keeps the invariant.
LEMMA ReadRawKeeps ==
  ASSUME StreamInv, ReadRaw
  PROVE  StreamInv'
<1> DEFINE n == items[NextItem].size
           result == [ok |-> Fits(reader, n), skipped |-> FALSE, data |-> DataAt(reader, n)]
<1>1. Reading({"raw"}) BY DEF ReadRaw
<1>2. NextItem \in 1..Len(items) BY <1>1 DEF StreamInv, TypeOK, Reading, NextItem
<1>3. items[NextItem] \in Item BY <1>2 DEF StreamInv, TypeOK
<1>4. n \in Nat /\ Capacity + n < SizeMod BY <1>3, ItemSizes
<1> HIDE DEF n
<1>5. result \in Result BY <1>4, DataAtType, StreamsWithin DEF Result, Fits
<1>6. results' = Append(results, result) BY DEF ReadRaw, n
<1>7. results' \in Seq(Result) /\ Len(results') <= Len(items)
  BY <1>1, <1>5, <1>6, ResultsGrow
<1>8. reader' = Advance(reader, n) BY DEF ReadRaw, n
<1>9. Within(reader') BY <1>4, <1>8, AdvanceWithin, StreamsWithin
<1>10. ~overrun' /\ overrun' \in BOOLEAN
  <2>1. ~Overruns(reader, n) BY <1>4, NoWrap, StreamsWithin
  <2> QED BY <2>1 DEF ReadRaw, n, StreamInv, NoOverrun
<1>11. UNCHANGED <<phase, items, fitted, writer>> BY DEF ReadRaw
<1> QED BY <1>7, <1>9, <1>10, <1>11 DEF StreamInv, TypeOK, NoOverrun, Within

\* So does passing over one.
LEMMA IgnoreKeeps ==
  ASSUME StreamInv, Ignore
  PROVE  StreamInv'
<1> DEFINE n == items[NextItem].size
           result == [ok |-> Fits(reader, n), skipped |-> TRUE, data |-> <<>>]
<1>1. Reading({"raw"}) BY DEF Ignore
<1>2. NextItem \in 1..Len(items) BY <1>1 DEF StreamInv, TypeOK, Reading, NextItem
<1>3. items[NextItem] \in Item BY <1>2 DEF StreamInv, TypeOK
<1>4. n \in Nat /\ Capacity + n < SizeMod BY <1>3, ItemSizes
<1> HIDE DEF n
<1>5. result \in Result BY DEF Result, Fits
<1>6. results' = Append(results, result) BY DEF Ignore, n
<1>7. results' \in Seq(Result) /\ Len(results') <= Len(items)
  BY <1>1, <1>5, <1>6, ResultsGrow
<1>8. reader' = Advance(reader, n) BY DEF Ignore, n
<1>9. Within(reader') BY <1>4, <1>8, AdvanceWithin, StreamsWithin
<1>10. UNCHANGED <<phase, items, fitted, writer, overrun>> BY DEF Ignore
<1> QED BY <1>7, <1>9, <1>10 DEF StreamInv, TypeOK, NoOverrun, Within

\* A string whose length is not in the packet leaves the stream alone.
LEMMA ReadStringNoLengthKeeps ==
  ASSUME StreamInv, ReadStringNoLength
  PROVE  StreamInv'
<1>1. [ok |-> FALSE, skipped |-> FALSE, data |-> <<>>] \in Result BY DEF Result
<1>2. results' \in Seq(Result) /\ Len(results') <= Len(items)
  BY <1>1, ResultsGrow DEF ReadStringNoLength
<1> QED BY <1>2 DEF ReadStringNoLength, StreamInv, TypeOK, NoOverrun

\* A string of any length that std::string takes is read within the packet.
LEMMA ReadStringKeeps ==
  ASSUME StreamInv, ReadString
  PROVE  StreamInv'
<1> DEFINE lengthRead == Advance(reader, LengthSize)
<1>1. PICK n \in SizesIn(DataAt(reader, LengthSize)) :
        /\ n <= MaxText
        /\ results' = Append(results, [ok |-> Fits(lengthRead, n), skipped |-> FALSE,
                                       data |-> DataAt(lengthRead, n)])
        /\ reader' = Advance(lengthRead, n)
        /\ overrun' = (overrun \/ Overruns(reader, LengthSize) \/ Overruns(lengthRead, n))
  BY DEF ReadString
<1>2. n \in Nat /\ Capacity + n < SizeMod BY <1>1, SizesType
<1>3. LengthSize \in Nat /\ Capacity + LengthSize < SizeMod BY SizeAssumption
<1>4. Within(lengthRead) BY <1>3, AdvanceWithin, StreamsWithin
<1>5. ~Overruns(reader, LengthSize) BY <1>3, NoWrap, StreamsWithin
<1> HIDE DEF lengthRead
<1>6. [ok |-> Fits(lengthRead, n), skipped |-> FALSE, data |-> DataAt(lengthRead, n)]
        \in Result
  BY <1>2, <1>4, DataAtType DEF Result, Fits
<1>7. Reading({"string", "literal"}) BY DEF ReadString
<1>8. results' \in Seq(Result) /\ Len(results') <= Len(items)
  BY <1>1, <1>6, <1>7, ResultsGrow
<1>9. Within(reader') BY <1>1, <1>2, <1>4, AdvanceWithin
<1>10. ~overrun' /\ overrun' \in BOOLEAN
  <2>1. ~Overruns(lengthRead, n) BY <1>2, <1>4, NoWrap
  <2> QED BY <1>1, <1>5, <2>1 DEF StreamInv, NoOverrun
<1>11. UNCHANGED <<phase, items, fitted, writer>> BY DEF ReadString
<1> QED BY <1>8, <1>9, <1>10, <1>11 DEF StreamInv, TypeOK, NoOverrun, Within

-----------------------------------------------------------------------------
(* The theorems.                                                           *)

\* The invariant holds of a newly allocated packet.
LEMMA InitHolds == Init => StreamInv
<1> SUFFICES ASSUME Init PROVE StreamInv OBVIOUS
<1>1. Unwritten \in Byte BY DEF Unwritten, Byte
<1>2. [k \in 1..Capacity |-> Unwritten] \in Seq(Byte)
      /\ Len([k \in 1..Capacity |-> Unwritten]) = Capacity
  BY <1>1, SizeAssumption
<1>3. writer.bytes = [k \in 1..Capacity |-> Unwritten] /\ writer.position = 0
      /\ writer = [bytes |-> [k \in 1..Capacity |-> Unwritten], position |-> 0]
  BY DEF Init
<1>4. writer \in Stream BY <1>2, <1>3 DEF Stream
<1>5. reader \in Stream /\ reader.position = 0 /\ Len(reader.bytes) = 0 BY DEF Init, Stream
<1>6. items = <<>> /\ fitted = <<>> /\ results = <<>> /\ phase = "write" /\ overrun = FALSE
  BY DEF Init
<1>7. writer.position <= Len(writer.bytes) /\ Len(writer.bytes) = Capacity
      /\ reader.position <= Len(reader.bytes) /\ Len(reader.bytes) <= Capacity
  BY <1>2, <1>3, <1>5, SizeAssumption
<1>8. /\ items \in Seq(Item) /\ fitted \in Seq(Fate) /\ results \in Seq(Result)
      /\ Len(items) = 0 /\ Len(fitted) = 0 /\ Len(results) = 0
  BY <1>6
<1> QED BY <1>4, <1>5, <1>6, <1>7, <1>8 DEF StreamInv, TypeOK, NoOverrun

\* Every operation of the two streams keeps the invariant.
LEMMA NextKeeps == StreamInv /\ [Next]_vars => StreamInv'
<1> SUFFICES ASSUME StreamInv, [Next]_vars PROVE StreamInv' OBVIOUS
<1>1. CASE \E n \in RawSizes : WriteRaw(n)
  <2>1. PICK n \in RawSizes : WriteValue("raw", n) BY <1>1 DEF WriteRaw
  <2>2. [kind |-> "raw", size |-> n] \in Item BY DEF Item
  <2> QED BY <2>1, <2>2, RoomForSizes, WriteValueKeeps
<1>2. CASE \E n \in TextSizes : WriteString(n) BY <1>2, WriteStringKeeps
<1>3. CASE \E n \in LiteralSizes : WriteLiteral(n)
  <2>1. PICK n \in LiteralSizes : WriteValue("literal", n) BY <1>3 DEF WriteLiteral
  <2>2. [kind |-> "literal", size |-> n] \in Item BY DEF Item
  <2> QED BY <2>1, <2>2, RoomForSizes, WriteValueKeeps
<1>4. CASE Send BY <1>4, SendKeeps
<1>5. CASE ReadRaw BY <1>5, ReadRawKeeps
<1>6. CASE Ignore BY <1>6, IgnoreKeeps
<1>7. CASE ReadStringNoLength BY <1>7, ReadStringNoLengthKeeps
<1>8. CASE ReadString BY <1>8, ReadStringKeeps
<1>9. CASE ReadStringThrows
  BY <1>9 DEF ReadStringThrows, StreamInv, TypeOK, NoOverrun
<1>10. CASE UNCHANGED vars BY <1>10 DEF vars, StreamInv, TypeOK, NoOverrun
<1> QED BY <1>1, <1>2, <1>3, <1>4, <1>5, <1>6, <1>7, <1>8, <1>9, <1>10 DEF Next

\* The invariant holds throughout.
THEOREM StreamInvariant == Spec => []StreamInv
BY InitHolds, NextKeeps, PTL DEF Spec

\* TypeOK, with it that no position ever passes the end of its packet.
THEOREM StreamTypeCorrect == Spec => []TypeOK
BY StreamInvariant, PTL DEF StreamInv

\* No WriteData and no ReadData copies outside of the packet, whatever the bytes
\* of a packet say the length of a string is.
THEOREM NothingOverrun == Spec => []NoOverrun
BY StreamInvariant, PTL DEF StreamInv
-----------------------------------------------------------------------------
(* What arrives.                                                           *)
(*                                                                         *)
(* The packet is its items one behind the other, as far as they fitted     *)
(* (Layout), and the receiver follows it (OnTheWay): it is where the next  *)
(* item begins until an item derails it.  A literal may put it anywhere.   *)
(* A string whose length did not fit leaves it so near the end that no     *)
(* later length fits either, which is why it does not throw.               *)

\* The bytes of item w that were written, of its length and of its data.
LengthPart(w) == IF items[w].kind = "string" /\ fitted[w].length THEN LengthSize ELSE 0
DataPart(w) == IF fitted[w].data THEN items[w].size ELSE 0

\* Item w lies behind the first `from` bytes, as far as it fitted.
Placed(w, from) ==
  /\ fitted[w].length <=> items[w].kind # "string" \/ from + LengthSize <= Capacity
  /\ fitted[w].data <=> from + LengthPart(w) + items[w].size <= Capacity
  /\ from + LengthPart(w) + DataPart(w) <= writer.position
  /\ \A k \in 1..LengthPart(w) : writer.bytes[from + k] = LengthOf(w)[k]
  /\ \A k \in 1..DataPart(w) : writer.bytes[from + LengthPart(w) + k] = DataOf(w)[k]

Layout(start) ==
  /\ start[1] = 0
  /\ start[Len(items) + 1] = writer.position
  /\ \A w \in 1..Len(items) : /\ Placed(w, start[w])
                              /\ start[w + 1] = start[w] + LengthPart(w) + DataPart(w)

\* What was sent is the beginning of the packet, at least up to the position.
Received ==
  /\ phase = "write" => results = <<>>
  /\ phase # "write" =>
       /\ writer.position <= Len(reader.bytes)
       /\ \A k \in 1..Len(reader.bytes) : reader.bytes[k] = writer.bytes[k]

NoneDerails == \A v \in 1..Len(results) : ~Derails(v)

OnTheWay(start) ==
  phase # "write" =>
    \/ NoneDerails /\ reader.position = start[NextItem]
    \/ ~NoneDerails /\ reader.position + LengthSize > Capacity
    \/ \E v \in 1..Len(results) : items[v].kind = "literal"

ArrivalInv ==
  /\ Received /\ WhatFitsArrives /\ OnlyLiteralsThrow
  /\ \E start \in [1..(Len(items) + 1) -> Nat] : Layout(start) /\ OnTheWay(start)

\* What WriteData leaves behind.
LEMMA WriteDataIs ==
  ASSUME NEW s, Within(s), Len(s.bytes) = Capacity,
         NEW data \in Seq(Byte), Capacity + Len(data) < SizeMod
  PROVE  /\ s.position \in Nat /\ Len(data) \in Nat
         /\ Fits(s, Len(data)) <=> s.position + Len(data) <= Capacity
         /\ WriteData(s, data).position =
              IF Fits(s, Len(data)) THEN s.position + Len(data) ELSE s.position
         /\ \A k \in 1..s.position : WriteData(s, data).bytes[k] = s.bytes[k]
         /\ Fits(s, Len(data)) =>
              \A k \in 1..Len(data) : WriteData(s, data).bytes[s.position + k] = data[k]
<1> DEFINE written == [k \in 1..Len(s.bytes) |->
                         IF k \in (s.position + 1)..(s.position + Len(data))
                         THEN data[k - s.position] ELSE s.bytes[k]]
<1>1. /\ s.position \in Nat /\ Len(data) \in Nat /\ Capacity \in Nat
      /\ s.position <= Capacity
  BY SizeAssumption DEF Within, Stream
<1>2. Beyond(s, Len(data)) = s.position + Len(data) /\ ~Overruns(s, Len(data))
  BY <1>1, NoWrap
<1>3. Fits(s, Len(data)) <=> s.position + Len(data) <= Capacity
  BY <1>2 DEF Fits
<1>4. CASE Fits(s, Len(data))
  <2>1. WriteData(s, data) = [bytes |-> written, position |-> s.position + Len(data)]
    BY <1>2, <1>4 DEF WriteData
  <2>2. \A k \in 1..s.position : written[k] = s.bytes[k]
    BY <1>1
  <2>3. \A k \in 1..Len(data) : written[s.position + k] = data[k]
    <3> TAKE k \in 1..Len(data)
    <3>1. /\ s.position + k \in 1..Len(s.bytes) /\ (s.position + k) - s.position = k
          /\ s.position + k \in (s.position + 1)..(s.position + Len(data))
      BY <1>1, <1>3, <1>4
    <3> QED
      BY <3>1
  <2> HIDE DEF written
  <2> QED
    BY <1>1, <1>3, <1>4, <2>1, <2>2, <2>3
<1>5. CASE ~Fits(s, Len(data))
  BY <1>1, <1>3, <1>5 DEF WriteData
<1> QED
  BY <1>4, <1>5

\* A write that puts the new item behind the others keeps the layout.
LEMMA LayoutGrows ==
  ASSUME StreamInv, NEW start \in [1..(Len(items) + 1) -> Nat], Layout(start),
         NEW last, last = Len(items) + 1,
         NEW from, from = writer.position,
         NEW item \in Item, items' = Append(items, item),
         NEW fate \in Fate, fitted' = Append(fitted, fate),
         writer'.position \in Nat, from <= writer'.position,
         \A k \in 1..from : writer'.bytes[k] = writer.bytes[k],
         Placed(last, from)',
         writer'.position = from + LengthPart(last)' + DataPart(last)'
  PROVE  \E next \in [1..(Len(items') + 1) -> Nat] : Layout(next)'
<1>1. /\ last \in Nat \ {0} /\ Len(items') = last /\ Len(fitted) = Len(items)
      /\ writer.position \in Nat
      /\ \A w \in 1..Len(items) : /\ items'[w] = items[w] /\ fitted'[w] = fitted[w]
                                  /\ items[w] \in Item
  BY DEF StreamInv, TypeOK, Stream
<1>2. PICK next \in [1..(last + 1) -> Nat] :
        \A w \in 1..(last + 1) : next[w] = IF w = last + 1 THEN writer'.position ELSE start[w]
  <2> DEFINE longer == [w \in 1..(last + 1) |-> IF w = last + 1 THEN writer'.position ELSE start[w]]
  <2>1. longer \in [1..(last + 1) -> Nat]
    BY <1>1
  <2> QED
    BY <2>1
<1>3. next[1] = 0 /\ next[last] = from /\ next[last + 1] = writer'.position
  BY <1>1, <1>2 DEF Layout
<1>4. \A w \in 1..Len(items) : next[w] = start[w] /\ next[w + 1] = start[w + 1]
                               /\ start[w] \in Nat
  <2> TAKE w \in 1..Len(items)
  <2>1. /\ w \in 1..(last + 1) /\ w + 1 \in 1..(last + 1) /\ w \in 1..last
        /\ w # last + 1 /\ w + 1 # last + 1
    BY <1>1
  <2>2. next[w] = start[w] /\ next[w + 1] = start[w + 1]
    BY <1>2, <2>1
  <2> QED
    BY <2>1, <2>2
<1>5. ASSUME NEW w \in 1..Len(items)
      PROVE  /\ Placed(w, next[w])'
             /\ next[w + 1] = next[w] + LengthPart(w)' + DataPart(w)'
  <2>1. /\ LengthPart(w)' = LengthPart(w) /\ DataPart(w)' = DataPart(w)
        /\ DataOf(w)' = DataOf(w) /\ LengthOf(w)' = LengthOf(w)
    BY <1>1 DEF LengthPart, DataPart, DataOf, LengthOf
  <2>2. LengthPart(w) \in Nat /\ DataPart(w) \in Nat /\ start[w] \in Nat
    BY <1>1, <1>4, SizeAssumption, ItemSizes DEF LengthPart, DataPart
  <2>3. Placed(w, start[w]) /\ start[w + 1] = start[w] + LengthPart(w) + DataPart(w)
    BY DEF Layout
  <2>4. start[w] + LengthPart(w) + DataPart(w) <= writer.position
    BY <2>3 DEF Placed
  <2>5. ASSUME NEW k \in 1..LengthPart(w)
        PROVE  writer'.bytes[start[w] + k] = LengthOf(w)'[k]
    <3>1. start[w] + k \in 1..writer.position
      BY <1>1, <2>2, <2>4
    <3>2. writer.bytes[start[w] + k] = LengthOf(w)[k]
      BY <2>3 DEF Placed
    <3> QED
      BY <2>1, <3>1, <3>2
  <2>6. ASSUME NEW k \in 1..DataPart(w)
        PROVE  writer'.bytes[start[w] + LengthPart(w) + k] = DataOf(w)'[k]
    <3>1. start[w] + LengthPart(w) + k \in 1..writer.position
      BY <1>1, <2>2, <2>4
    <3>2. writer.bytes[start[w] + LengthPart(w) + k] = DataOf(w)[k]
      BY <2>3 DEF Placed
    <3> QED
      BY <2>1, <3>1, <3>2
  <2>7. start[w] + LengthPart(w) + DataPart(w) <= writer'.position
    BY <1>1, <2>2, <2>4
  <2>8. /\ fitted'[w].length <=> items'[w].kind # "string" \/ start[w] + LengthSize <= Capacity
        /\ fitted'[w].data <=> start[w] + LengthPart(w)' + items'[w].size <= Capacity
    BY <1>1, <2>1, <2>3 DEF Placed
  <2>9. Placed(w, start[w])'
    BY <2>1, <2>5, <2>6, <2>7, <2>8 DEF Placed
  <2> QED
    BY <1>4, <2>1, <2>3, <2>9
<1>6. ASSUME NEW w \in 1..last
      PROVE  /\ Placed(w, next[w])'
             /\ next[w + 1] = next[w] + LengthPart(w)' + DataPart(w)'
  <2>1. CASE w = last
    BY <1>3, <2>1
  <2>2. CASE w \in 1..Len(items)
    BY <1>5, <2>2
  <2> QED
    BY <1>1, <2>1, <2>2
<1>7. Layout(next)'
  BY <1>1, <1>3, <1>6 DEF Layout
<1>8. 1..(Len(items') + 1) = 1..(last + 1)
  BY <1>1
<1> QED
  BY <1>7, <1>8

\* Where the writer stays as it is, so does the layout.
LEMMA LayoutStays ==
  ASSUME UNCHANGED <<items, fitted, writer>>, NEW start, Layout(start)
  PROVE  Layout(start)'
<1>1. \A w : /\ LengthPart(w)' = LengthPart(w) /\ DataPart(w)' = DataPart(w)
             /\ LengthOf(w)' = LengthOf(w) /\ DataOf(w)' = DataOf(w)
  BY DEF LengthPart, DataPart, LengthOf, DataOf
<1>2. \A w, from : Placed(w, from)' <=> Placed(w, from)
  BY <1>1 DEF Placed
<1> QED
  BY <1>1, <1>2 DEF Layout

\* While the packet is written there is nothing to arrive.
LEMMA WritingKeeps ==
  ASSUME ArrivalInv, phase = "write", UNCHANGED <<phase, reader, results>>,
         \E next \in [1..(Len(items') + 1) -> Nat] : Layout(next)'
  PROVE  ArrivalInv'
<1>1. results' = <<>> /\ phase' = "write"
  BY DEF ArrivalInv, Received
<1>2. Received' /\ WhatFitsArrives' /\ OnlyLiteralsThrow'
  BY <1>1 DEF Received, WhatFitsArrives, OnlyLiteralsThrow
<1>3. PICK next \in [1..(Len(items') + 1) -> Nat] : Layout(next)'
  OBVIOUS
<1>4. OnTheWay(next)'
  BY <1>1 DEF OnTheWay
<1> QED
  BY <1>2, <1>3, <1>4 DEF ArrivalInv

\* A raw value, or a literal, is put behind the other items.
LEMMA WriteValueArrives ==
  ASSUME StreamInv, ArrivalInv, NEW kind, kind # "string", NEW n,
         [kind |-> kind, size |-> n] \in Item, WriteValue(kind, n)
  PROVE  ArrivalInv'
<1> DEFINE item == [kind |-> kind, size |-> n]
<1>1. n \in Nat /\ Capacity + n < SizeMod
  BY ItemSizes
<1>2. PICK last : last = Len(items) + 1
  OBVIOUS
<1>3. PICK from : from = writer.position
  OBVIOUS
<1>4. PICK data \in Seq(Byte) : data = NewData(last, n) /\ Len(data) = n
  BY <1>1, <1>2, NewDataType DEF StreamInv, TypeOK
<1>5. PICK fate \in Fate : fate = [length |-> TRUE, data |-> Fits(writer, n)]
  <2>1. Fits(writer, n) \in BOOLEAN
    BY DEF Fits
  <2>2. [length |-> TRUE, data |-> Fits(writer, n)] \in Fate
    BY <2>1 DEF Fate
  <2> QED
    BY <2>2
<1>6. /\ items' = Append(items, item) /\ fitted' = Append(fitted, fate)
      /\ writer' = WriteData(writer, data)
      /\ UNCHANGED <<phase, reader, results>> /\ phase = "write"
  BY <1>2, <1>4, <1>5 DEF WriteValue
<1>7. /\ items'[last] = item /\ fitted'[last] = fate /\ last \in Nat
  BY <1>2, <1>6 DEF StreamInv, TypeOK
<1>8. /\ LengthPart(last)' = 0 /\ DataPart(last)' = IF fate.data THEN n ELSE 0
      /\ DataOf(last)' = data
  BY <1>4, <1>7 DEF LengthPart, DataPart, DataOf, NewData
<1>9. Within(writer) /\ Len(writer.bytes) = Capacity
  BY StreamsWithin DEF StreamInv, TypeOK
<1>10. /\ from \in Nat
       /\ fate.data <=> from + n <= Capacity
       /\ writer'.position = IF fate.data THEN from + n ELSE from
       /\ \A k \in 1..from : writer'.bytes[k] = writer.bytes[k]
       /\ fate.data => \A k \in 1..n : writer'.bytes[from + k] = data[k]
  BY <1>1, <1>3, <1>4, <1>5, <1>6, <1>9, WriteDataIs
<1>11. Placed(last, from)'
  <2>1. \A k \in 1..DataPart(last)' :
          writer'.bytes[from + LengthPart(last)' + k] = DataOf(last)'[k]
    BY <1>1, <1>8, <1>10
  <2>2. \A k \in 1..LengthPart(last)' : writer'.bytes[from + k] = LengthOf(last)'[k]
    BY <1>8
  <2>3. fitted'[last].length /\ items'[last].kind # "string"
    BY <1>5, <1>7
  <2>4. fitted'[last].data <=> from + LengthPart(last)' + items'[last].size <= Capacity
    BY <1>1, <1>7, <1>8, <1>10
  <2>5. from + LengthPart(last)' + DataPart(last)' <= writer'.position
    BY <1>1, <1>8, <1>10
  <2> QED
    BY <2>1, <2>2, <2>3, <2>4, <2>5 DEF Placed
<1>12. writer'.position \in Nat /\ from <= writer'.position
       /\ writer'.position = from + LengthPart(last)' + DataPart(last)'
  BY <1>1, <1>8, <1>10
<1>13. PICK start \in [1..(Len(items) + 1) -> Nat] : Layout(start)
  BY DEF ArrivalInv
<1>14. \E next \in [1..(Len(items') + 1) -> Nat] : Layout(next)'
  BY <1>2, <1>3, <1>6, <1>10, <1>11, <1>12, <1>13, LayoutGrows
<1> QED
  BY <1>6, <1>14, WritingKeeps

\* So is a string, its text behind its length, or where the length would have been.
LEMMA WriteStringArrives ==
  ASSUME StreamInv, ArrivalInv, NEW n \in TextSizes, WriteString(n)
  PROVE  ArrivalInv'
<1> DEFINE item == [kind |-> "string", size |-> n]
<1>1. n \in Nat /\ Capacity + n < SizeMod /\ LengthSize \in Nat
      /\ Capacity + LengthSize < SizeMod
  BY RoomForSizes, SizeAssumption
<1>2. PICK last : last = Len(items) + 1
  OBVIOUS
<1>3. PICK from : from = writer.position
  OBVIOUS
<1>4. PICK data \in Seq(Byte) : data = NewData(last, n) /\ Len(data) = n
  BY <1>1, <1>2, NewDataType DEF StreamInv, TypeOK
<1>5. PICK length \in Seq(Byte) : length = LengthOf(last) /\ Len(length) = LengthSize
  BY <1>2, LengthOfType DEF StreamInv, TypeOK
<1>6. PICK between : between = WriteData(writer, length)
  OBVIOUS
<1>7. PICK fate \in Fate :
        fate = [length |-> Fits(writer, LengthSize), data |-> Fits(between, n)]
  <2>1. Fits(writer, LengthSize) \in BOOLEAN /\ Fits(between, n) \in BOOLEAN
    BY DEF Fits
  <2>2. [length |-> Fits(writer, LengthSize), data |-> Fits(between, n)] \in Fate
    BY <2>1 DEF Fate
  <2> QED
    BY <2>2
<1>8. /\ items' = Append(items, item) /\ fitted' = Append(fitted, fate)
      /\ writer' = WriteData(between, data)
      /\ UNCHANGED <<phase, reader, results>> /\ phase = "write"
  BY <1>2, <1>4, <1>5, <1>6, <1>7 DEF WriteString
<1>9. item \in Item
  BY DEF Item
<1>10. /\ items'[last] = item /\ fitted'[last] = fate /\ last \in Nat
  BY <1>2, <1>8, <1>9 DEF StreamInv, TypeOK
<1>11. PICK part : part = IF fate.length THEN LengthSize ELSE 0
  OBVIOUS
<1>12. /\ LengthPart(last)' = part /\ DataPart(last)' = IF fate.data THEN n ELSE 0
       /\ DataOf(last)' = data /\ LengthOf(last)' = length
  BY <1>4, <1>5, <1>10, <1>11 DEF LengthPart, DataPart, DataOf, NewData, LengthOf
<1>13. Within(writer) /\ Len(writer.bytes) = Capacity
  BY StreamsWithin DEF StreamInv, TypeOK
<1>14. Within(between) /\ Len(between.bytes) = Capacity
  BY <1>1, <1>5, <1>6, <1>13, WriteDataWithin
<1>15. /\ from \in Nat /\ part \in Nat
       /\ fate.length <=> from + LengthSize <= Capacity
       /\ between.position = from + part
       /\ \A k \in 1..from : between.bytes[k] = writer.bytes[k]
       /\ \A k \in 1..part : between.bytes[from + k] = length[k]
  <2>1. /\ from \in Nat
        /\ fate.length <=> from + LengthSize <= Capacity
        /\ between.position = IF fate.length THEN from + LengthSize ELSE from
        /\ \A k \in 1..from : between.bytes[k] = writer.bytes[k]
        /\ fate.length => \A k \in 1..LengthSize : between.bytes[from + k] = length[k]
    BY <1>1, <1>3, <1>5, <1>6, <1>7, <1>13, WriteDataIs
  <2> QED
    BY <1>1, <1>11, <2>1
<1>16. /\ fate.data <=> from + part + n <= Capacity
       /\ writer'.position = IF fate.data THEN from + part + n ELSE from + part
       /\ \A k \in 1..(from + part) : writer'.bytes[k] = between.bytes[k]
       /\ fate.data => \A k \in 1..n : writer'.bytes[from + part + k] = data[k]
  <2>1. /\ Fits(between, n) <=> between.position + n <= Capacity
        /\ writer'.position = IF Fits(between, n) THEN between.position + n
                                                   ELSE between.position
        /\ \A k \in 1..between.position : writer'.bytes[k] = between.bytes[k]
        /\ Fits(between, n) =>
             \A k \in 1..n : writer'.bytes[between.position + k] = data[k]
    <3>1. Capacity + Len(data) < SizeMod
      BY <1>1, <1>4
    <3>2. /\ Fits(between, Len(data)) <=> between.position + Len(data) <= Capacity
          /\ WriteData(between, data).position =
               IF Fits(between, Len(data)) THEN between.position + Len(data)
                                           ELSE between.position
          /\ \A k \in 1..between.position :
               WriteData(between, data).bytes[k] = between.bytes[k]
          /\ Fits(between, Len(data)) =>
               \A k \in 1..Len(data) :
                 WriteData(between, data).bytes[between.position + k] = data[k]
      BY ONLY <1>14, <3>1, WriteDataIs
    <3> QED
      BY <1>4, <1>8, <3>2
  <2>2. fate.data <=> Fits(between, n)
    BY <1>7
  <2> QED
    BY <1>15, <2>1, <2>2
<1>17. Placed(last, from)'
  <2>1. \A k \in 1..DataPart(last)' :
          writer'.bytes[from + LengthPart(last)' + k] = DataOf(last)'[k]
    BY <1>1, <1>12, <1>16
  <2>2. \A k \in 1..LengthPart(last)' : writer'.bytes[from + k] = LengthOf(last)'[k]
    <3> TAKE k \in 1..LengthPart(last)'
    <3>1. from + k \in 1..(from + part) /\ k \in 1..part
      BY <1>12, <1>15
    <3> QED
      BY <1>12, <1>15, <1>16, <3>1
  <2>3. /\ items'[last].kind = "string"
        /\ fitted'[last].length <=> from + LengthSize <= Capacity
    BY <1>10, <1>15
  <2>4. fitted'[last].data <=> from + LengthPart(last)' + items'[last].size <= Capacity
    BY <1>10, <1>12, <1>16
  <2>5. from + LengthPart(last)' + DataPart(last)' <= writer'.position
    BY <1>1, <1>12, <1>15, <1>16
  <2> QED
    BY <2>1, <2>2, <2>3, <2>4, <2>5 DEF Placed
<1>18. /\ writer'.position \in Nat /\ from <= writer'.position
       /\ writer'.position = from + LengthPart(last)' + DataPart(last)'
       /\ \A k \in 1..from : writer'.bytes[k] = writer.bytes[k]
  BY <1>1, <1>12, <1>15, <1>16
<1>19. PICK start \in [1..(Len(items) + 1) -> Nat] : Layout(start)
  BY DEF ArrivalInv
<1>20. \E next \in [1..(Len(items') + 1) -> Nat] : Layout(next)'
  BY <1>2, <1>3, <1>8, <1>9, <1>17, <1>18, <1>19, LayoutGrows
<1> QED
  BY <1>8, <1>20, WritingKeeps

\* The receiver begins at the first item.
LEMMA SendArrives ==
  ASSUME StreamInv, ArrivalInv, Send
  PROVE  ArrivalInv'
<1>1. PICK start \in [1..(Len(items) + 1) -> Nat] : Layout(start)
  BY DEF ArrivalInv
<1>2. PICK last \in {writer.position, Capacity} :
        reader' = [bytes |-> SubSeq(writer.bytes, 1, last), position |-> 0]
  BY DEF Send
<1>3. /\ writer.bytes \in Seq(Byte) /\ Len(writer.bytes) = Capacity
      /\ last \in 0..Capacity /\ writer.position <= last
  BY SizeAssumption DEF StreamInv, TypeOK, Stream
<1>4. /\ Len(reader'.bytes) = last /\ reader'.position = 0
      /\ \A k \in 1..last : reader'.bytes[k] = writer.bytes[k]
  BY <1>2, <1>3, SizeAssumption
<1>5. /\ results = <<>> /\ Len(results) = 0 /\ phase' = "read"
      /\ UNCHANGED <<items, fitted, writer, results>>
  BY DEF Send, ArrivalInv, Received
<1>6. Received'
  BY <1>3, <1>4, <1>5 DEF Received
<1>7. WhatFitsArrives' /\ OnlyLiteralsThrow'
  BY <1>5 DEF WhatFitsArrives, OnlyLiteralsThrow
<1>8. OnTheWay(start)'
  BY <1>1, <1>4, <1>5 DEF OnTheWay, NoneDerails, NextItem, Layout
<1>9. Layout(start)'
  BY <1>1, <1>5, LayoutStays
<1> QED
  BY <1>1, <1>5, <1>6, <1>7, <1>8, <1>9 DEF ArrivalInv

\* One result more keeps the invariant, if it is right where the receiver was on its
\* course, and the receiver goes to the next item, or is derailed the way items do.
LEMMA ResultArrives ==
  ASSUME StreamInv, ArrivalInv, phase = "read", UNCHANGED <<phase, items, fitted, writer>>,
         reader'.bytes = reader.bytes,
         reader'.position \in Nat, reader.position <= reader'.position,
         NEW result \in Result, results' = Append(results, result),
         NEW start \in [1..(Len(items) + 1) -> Nat], Layout(start), OnTheWay(start),
         NEW w, w = NextItem, w \in 1..Len(items),
         NoneDerails /\ items[w].kind # "literal" =>
           /\ result.ok <=> Fitted(w)
           /\ result.ok => result.skipped \/ result.data = DataOf(w)
           /\ Derails(w) => reader'.position + LengthSize > Capacity
           /\ ~Derails(w) => reader'.position = start[w + 1]
  PROVE  ArrivalInv'
<1>1. /\ results \in Seq(Result) /\ Len(results) \in Nat /\ w = Len(results) + 1
      /\ Len(results') = w /\ results'[w] = result
      /\ \A v \in 1..Len(results) : results'[v] = results[v]
  BY DEF StreamInv, TypeOK, NextItem
<1>2. \A v : /\ Derails(v)' = Derails(v) /\ Fitted(v)' = Fitted(v)
             /\ DataOf(v)' = DataOf(v)
  BY DEF Derails, Fitted, DataOf
<1>3. \A v \in 1..w : OnCourse(v)' <=> OnCourse(v)
  BY <1>2 DEF OnCourse
<1>4. NoneDerails /\ items[w].kind # "literal" <=> OnCourse(w)
  BY <1>1 DEF OnCourse, NoneDerails
<1>5. NoneDerails' <=> NoneDerails /\ ~Derails(w)
  BY <1>1, <1>2 DEF NoneDerails
<1>6. Received'
  BY DEF ArrivalInv, Received
<1>7. WhatFitsArrives'
  <2> SUFFICES ASSUME NEW v \in 1..w, OnCourse(v)
               PROVE  /\ results'[v].ok <=> Fitted(v)
                      /\ results'[v].ok => results'[v].skipped \/ results'[v].data = DataOf(v)
    BY <1>1, <1>2, <1>3 DEF WhatFitsArrives
  <2>1. CASE v = w
    BY <1>1, <1>4, <2>1
  <2>2. CASE v \in 1..Len(results)
    BY <1>1, <2>2 DEF ArrivalInv, WhatFitsArrives
  <2> QED
    BY <1>1, <2>1, <2>2
<1>8. OnTheWay(start)'
  <2>1. CASE NoneDerails /\ items[w].kind # "literal"
    <3>1. CASE Derails(w)
      BY <1>5, <2>1, <3>1 DEF OnTheWay
    <3>2. CASE ~Derails(w)
      <4>1. NoneDerails' /\ reader'.position = start[w + 1]
        BY <1>5, <2>1, <3>2
      <4>2. NextItem' = w + 1
        BY <1>1 DEF NextItem
      <4> QED
        BY <4>1, <4>2 DEF OnTheWay
    <3> QED
      BY <3>1, <3>2
  <2>2. CASE items[w].kind = "literal"
    <3>1. w \in 1..Len(results') /\ items'[w].kind = "literal"
      BY <1>1, <2>2
    <3> QED
      BY <3>1 DEF OnTheWay
  <2>3. CASE ~NoneDerails /\ reader.position + LengthSize > Capacity
    <3>1. ~NoneDerails' /\ reader'.position + LengthSize > Capacity
      BY <1>5, <2>3, SizeAssumption DEF StreamInv, TypeOK, Stream
    <3> QED
      BY <3>1 DEF OnTheWay
  <2>4. CASE \E v \in 1..Len(results) : items[v].kind = "literal"
    <3>1. \E v \in 1..Len(results') : items'[v].kind = "literal"
      BY <1>1, <2>4
    <3> QED
      BY <3>1 DEF OnTheWay
  <2>5. ~NoneDerails => \/ reader.position + LengthSize > Capacity
                        \/ \E v \in 1..Len(results) : items[v].kind = "literal"
    BY DEF OnTheWay
  <2> QED
    BY <2>1, <2>2, <2>3, <2>4, <2>5
<1>9. Layout(start)'
  BY LayoutStays
<1>10. OnlyLiteralsThrow'
  BY DEF OnlyLiteralsThrow
<1> QED
  BY <1>6, <1>7, <1>8, <1>9, <1>10 DEF ArrivalInv

\* What ReadData copies out, where the bytes at the position are known.
LEMMA DataAtIs ==
  ASSUME NEW s, Within(s), NEW data \in Seq(Byte), Capacity + Len(data) < SizeMod,
         s.position + Len(data) <= Len(s.bytes),
         \A k \in 1..Len(data) : s.bytes[s.position + k] = data[k]
  PROVE  Fits(s, Len(data)) /\ DataAt(s, Len(data)) = data
<1>1. /\ s.position \in Nat /\ Len(data) \in Nat /\ s.bytes \in Seq(Byte)
      /\ Len(s.bytes) \in Nat
  BY DEF Within, Stream
<1>2. Beyond(s, Len(data)) = s.position + Len(data) /\ ~Overruns(s, Len(data))
  BY <1>1, NoWrap
<1>3. Fits(s, Len(data))
  BY <1>2 DEF Fits
<1>4. PICK part : part = SubSeq(s.bytes, s.position + 1, s.position + Len(data))
  OBVIOUS
<1>5. \A k \in (s.position + 1)..(s.position + Len(data)) : s.bytes[k] \in Byte
  BY <1>1
<1>6. /\ part \in Seq(Byte) /\ Len(part) = Len(data)
      /\ \A k \in 1..Len(data) : part[k] = s.bytes[s.position + k]
  <2>1. part \in Seq(Byte) /\ Len(part) = Len(data)
    BY <1>1, <1>4, <1>5
  <2>2. ASSUME NEW k \in 1..Len(data)
        PROVE  part[k] = s.bytes[s.position + k]
    <3>1. part[k] = s.bytes[(s.position + 1) + k - 1]
      BY <1>1, <1>4
    <3>2. (s.position + 1) + k - 1 = s.position + k
      BY <1>1
    <3> QED
      BY <3>1, <3>2
  <2> QED
    BY <2>1, <2>2
<1>7. part = data
  BY <1>6
<1> QED
  BY <1>2, <1>3, <1>4, <1>7 DEF DataAt

\* ReadData and Ignore leave the bytes alone and never go back.
LEMMA AdvanceIs ==
  ASSUME NEW s, Within(s), NEW n \in Nat, Capacity + n < SizeMod
  PROVE  /\ Advance(s, n).bytes = s.bytes
         /\ Fits(s, n) <=> s.position + n <= Len(s.bytes)
         /\ Advance(s, n).position = IF Fits(s, n) THEN s.position + n ELSE s.position
         /\ Advance(s, n).position \in Nat /\ s.position <= Advance(s, n).position
<1>1. s.position \in Nat
  BY DEF Within, Stream
<1>2. Beyond(s, n) = s.position + n
  BY NoWrap
<1>3. CASE Fits(s, n)
  <2>1. Advance(s, n) = [bytes |-> s.bytes, position |-> s.position + n]
    BY <1>2, <1>3 DEF Advance, Within, Stream
  <2> QED
    BY <1>1, <1>2, <1>3, <2>1 DEF Fits
<1>4. CASE ~Fits(s, n)
  BY <1>1, <1>2, <1>4 DEF Advance, Fits
<1> QED
  BY <1>3, <1>4

\* The data of an item are bytes.
LEMMA DataOfType ==
  ASSUME StreamInv, NEW w \in 1..Len(items)
  PROVE  /\ items[w].size \in Nat /\ Capacity + items[w].size < SizeMod
         /\ DataOf(w) \in Seq(Byte) /\ Len(DataOf(w)) = items[w].size
<1>1. items[w] \in Item /\ w \in Nat
  BY DEF StreamInv, TypeOK
<1>2. items[w].size \in Nat /\ Capacity + items[w].size < SizeMod
  BY <1>1, ItemSizes
<1>3. DataOf(w) = NewData(w, items[w].size)
  BY DEF DataOf, NewData
<1> QED
  BY <1>1, <1>2, <1>3, NewDataType

\* What the receiver finds where item w begins.
LEMMA AtItem ==
  ASSUME StreamInv, Received, phase # "write",
         NEW start \in [1..(Len(items) + 1) -> Nat], Layout(start),
         NEW w \in 1..Len(items),
         NEW p, p = reader.position, p = start[w]
  PROVE  /\ p \in Nat /\ LengthPart(w) \in Nat /\ DataPart(w) \in Nat
         /\ fitted[w].length \in BOOLEAN /\ fitted[w].data \in BOOLEAN
         /\ start[w + 1] = p + LengthPart(w) + DataPart(w)
         /\ p + LengthPart(w) + DataPart(w) <= Len(reader.bytes)
         /\ Len(reader.bytes) \in Nat /\ Len(reader.bytes) <= Capacity
         /\ fitted[w].length <=> items[w].kind # "string" \/ p + LengthSize <= Capacity
         /\ fitted[w].data <=> p + LengthPart(w) + items[w].size <= Capacity
         /\ \A k \in 1..LengthPart(w) : reader.bytes[p + k] = LengthOf(w)[k]
         /\ \A k \in 1..DataPart(w) : reader.bytes[p + LengthPart(w) + k] = DataOf(w)[k]
<1>1. /\ Placed(w, p) /\ start[w + 1] = p + LengthPart(w) + DataPart(w)
  BY DEF Layout
<1>2. fitted[w] \in Fate /\ reader \in Stream /\ writer \in Stream
  BY DEF StreamInv, TypeOK
<1>3. /\ p \in Nat /\ LengthPart(w) \in Nat /\ DataPart(w) \in Nat
      /\ Len(reader.bytes) \in Nat /\ writer.position \in Nat
      /\ fitted[w].length \in BOOLEAN /\ fitted[w].data \in BOOLEAN
  BY <1>2, SizeAssumption, DataOfType DEF LengthPart, DataPart, Stream, Fate
<1>4. /\ writer.position <= Len(reader.bytes) /\ Len(reader.bytes) <= Capacity
      /\ \A k \in 1..Len(reader.bytes) : reader.bytes[k] = writer.bytes[k]
  BY DEF Received, StreamInv, TypeOK
<1>5. p + LengthPart(w) + DataPart(w) <= Len(reader.bytes)
  BY <1>1, <1>3, <1>4, SizeAssumption DEF Placed
<1>6. ASSUME NEW k \in 1..LengthPart(w)
      PROVE  reader.bytes[p + k] = LengthOf(w)[k]
  <2>1. p + k \in 1..Len(reader.bytes)
    BY <1>3, <1>5
  <2> QED
    BY <1>1, <1>4, <2>1 DEF Placed
<1>7. ASSUME NEW k \in 1..DataPart(w)
      PROVE  reader.bytes[p + LengthPart(w) + k] = DataOf(w)[k]
  <2>1. p + LengthPart(w) + k \in 1..Len(reader.bytes)
    BY <1>3, <1>5
  <2> QED
    BY <1>1, <1>4, <2>1 DEF Placed
<1> QED
  BY <1>1, <1>3, <1>4, <1>5, <1>6, <1>7 DEF Placed

\* On its course the receiver reads, or passes over, just the bytes of a raw value.
LEMMA RawAtItem ==
  ASSUME StreamInv, Received, phase # "write",
         NEW start \in [1..(Len(items) + 1) -> Nat], Layout(start),
         NEW w \in 1..Len(items), items[w].kind = "raw",
         NEW n, n = items[w].size, reader.position = start[w]
  PROVE  /\ Fits(reader, n) <=> Fitted(w)
         /\ Fits(reader, n) => DataAt(reader, n) = DataOf(w)
         /\ ~Derails(w)
         /\ Advance(reader, n).position = start[w + 1]
<1>1. PICK p : p = reader.position
  OBVIOUS
<1>2. /\ n \in Nat /\ Capacity + n < SizeMod
      /\ DataOf(w) \in Seq(Byte) /\ Len(DataOf(w)) = n
  BY DataOfType
<1>3. /\ p \in Nat /\ start[w + 1] = p + DataPart(w) /\ p + DataPart(w) <= Len(reader.bytes)
      /\ Len(reader.bytes) \in Nat /\ Len(reader.bytes) <= Capacity
      /\ fitted[w].length /\ (fitted[w].data <=> p + n <= Capacity)
      /\ \A k \in 1..DataPart(w) : reader.bytes[p + k] = DataOf(w)[k]
  <2>1. LengthPart(w) = 0
    BY DEF LengthPart
  <2>2. /\ p \in Nat /\ LengthPart(w) \in Nat /\ DataPart(w) \in Nat
        /\ fitted[w].length \in BOOLEAN /\ fitted[w].data \in BOOLEAN
        /\ start[w + 1] = p + LengthPart(w) + DataPart(w)
        /\ p + LengthPart(w) + DataPart(w) <= Len(reader.bytes)
        /\ Len(reader.bytes) \in Nat /\ Len(reader.bytes) <= Capacity
        /\ fitted[w].length <=> items[w].kind # "string" \/ p + LengthSize <= Capacity
        /\ fitted[w].data <=> p + LengthPart(w) + items[w].size <= Capacity
        /\ \A k \in 1..LengthPart(w) : reader.bytes[p + k] = LengthOf(w)[k]
        /\ \A k \in 1..DataPart(w) : reader.bytes[p + LengthPart(w) + k] = DataOf(w)[k]
    <3>1. p = reader.position /\ p = start[w]
      BY <1>1
    <3> QED
      BY <3>1, AtItem
  <2>3. p + LengthPart(w) = p
    BY <2>1, <2>2
  <2> QED
    BY <2>2, <2>3
<1>4. DataPart(w) = IF fitted[w].data THEN n ELSE 0
  BY DEF DataPart
<1>5. /\ Fits(reader, n) <=> p + n <= Len(reader.bytes)
      /\ Advance(reader, n).position = IF Fits(reader, n) THEN p + n ELSE p
  BY <1>1, <1>2, AdvanceIs, StreamsWithin
<1>6. Fits(reader, n) <=> fitted[w].data
  <2>1. CASE fitted[w].data
    BY <1>3, <1>4, <1>5, <2>1
  <2>2. CASE ~fitted[w].data
    <3>1. /\ p \in Nat /\ Len(reader.bytes) \in Nat /\ Len(reader.bytes) <= Capacity
          /\ ~(p + n <= Capacity)
      BY <1>3, <2>2, Zenon
    <3>2. n \in Nat /\ Capacity \in Nat
      BY <1>2, SizeAssumption
    <3>3. ~(p + n <= Len(reader.bytes))
      BY <3>1, <3>2
    <3> QED
      BY <1>5, <2>2, <3>3
  <2> QED
    BY <2>1, <2>2
<1>7. Fits(reader, n) => DataAt(reader, n) = DataOf(w)
  <2> SUFFICES ASSUME Fits(reader, n) PROVE DataAt(reader, n) = DataOf(w)
    OBVIOUS
  <2>1. \A k \in 1..Len(DataOf(w)) : reader.bytes[reader.position + k] = DataOf(w)[k]
    BY <1>1, <1>2, <1>3, <1>4, <1>6
  <2>2. reader.position + Len(DataOf(w)) <= Len(reader.bytes)
    BY <1>1, <1>2, <1>5
  <2>3. Within(reader)
    BY StreamsWithin
  <2> QED
    BY <1>2, <2>1, <2>2, <2>3, DataAtIs
<1>8. Fitted(w) <=> fitted[w].data
  BY <1>3 DEF Fitted
<1>9. ~Derails(w)
  BY <1>3 DEF Derails
<1> QED
  BY <1>3, <1>4, <1>5, <1>6, <1>7, <1>8, <1>9

\* The bytes of the length of item w are those of no other item, so they say its size.
LEMMA LengthSays ==
  ASSUME StreamInv, NEW w \in 1..Len(items)
  PROVE  SizesIn(LengthOf(w)) = {items[w].size}
<1>1. ASSUME NEW v \in 1..Len(items), LengthOf(w) = LengthOf(v)
      PROVE  v = w
  <2>1. 1 \in 1..LengthSize
    BY SizeAssumption
  <2>2. LengthOf(w)[1].item = w /\ LengthOf(v)[1].item = v
    BY <2>1 DEF LengthOf
  <2> QED
    BY <1>1, <2>2
<1>2. {v \in 1..Len(items) : LengthOf(w) = LengthOf(v)} = {w}
  BY <1>1
<1> QED
  BY <1>2 DEF SizesIn

\* On its course the receiver reads just the bytes of a string, unless its length is not
\* there: then none that it might look for later is.
LEMMA StringAtItem ==
  ASSUME StreamInv, Received, phase # "write",
         NEW start \in [1..(Len(items) + 1) -> Nat], Layout(start),
         NEW w \in 1..Len(items), items[w].kind = "string",
         reader.position = start[w],
         NEW n, n = items[w].size,
         NEW lengthRead, lengthRead = Advance(reader, LengthSize)
  PROVE  /\ Fits(reader, LengthSize) <=> fitted[w].length
         /\ fitted[w].length =>
              /\ DataAt(reader, LengthSize) = LengthOf(w)
              /\ Fits(lengthRead, n) <=> Fitted(w)
              /\ Fits(lengthRead, n) => DataAt(lengthRead, n) = DataOf(w)
              /\ ~Derails(w)
              /\ Advance(lengthRead, n).position = start[w + 1]
         /\ ~fitted[w].length => /\ reader.position + LengthSize > Capacity
                                 /\ ~Derails(w) => reader.position = start[w + 1]
<1>1. PICK p : p = reader.position /\ p = start[w]
  OBVIOUS
<1>2. /\ n \in Nat /\ Capacity + n < SizeMod
      /\ DataOf(w) \in Seq(Byte) /\ Len(DataOf(w)) = n
  BY DataOfType
<1>3. /\ LengthOf(w) \in Seq(Byte) /\ Len(LengthOf(w)) = LengthSize
      /\ LengthSize \in Nat /\ Capacity + LengthSize < SizeMod /\ Capacity \in Nat
  BY LengthOfType, SizeAssumption
<1>4. /\ p \in Nat /\ LengthPart(w) \in Nat /\ DataPart(w) \in Nat
      /\ fitted[w].length \in BOOLEAN /\ fitted[w].data \in BOOLEAN
      /\ start[w + 1] = p + LengthPart(w) + DataPart(w)
      /\ p + LengthPart(w) + DataPart(w) <= Len(reader.bytes)
      /\ Len(reader.bytes) \in Nat /\ Len(reader.bytes) <= Capacity
      /\ fitted[w].length <=> items[w].kind # "string" \/ p + LengthSize <= Capacity
      /\ fitted[w].data <=> p + LengthPart(w) + items[w].size <= Capacity
      /\ \A k \in 1..LengthPart(w) : reader.bytes[p + k] = LengthOf(w)[k]
      /\ \A k \in 1..DataPart(w) : reader.bytes[p + LengthPart(w) + k] = DataOf(w)[k]
  BY <1>1, AtItem
<1>5. /\ LengthPart(w) = IF fitted[w].length THEN LengthSize ELSE 0
      /\ DataPart(w) = IF fitted[w].data THEN n ELSE 0
  BY DEF LengthPart, DataPart
<1>6. /\ lengthRead.bytes = reader.bytes
      /\ Fits(reader, LengthSize) <=> p + LengthSize <= Len(reader.bytes)
      /\ lengthRead.position = IF Fits(reader, LengthSize) THEN p + LengthSize ELSE p
      /\ Within(reader) /\ Within(lengthRead)
  BY <1>1, <1>3, AdvanceIs, AdvanceWithin, StreamsWithin
<1>7. Fits(reader, LengthSize) <=> fitted[w].length
  BY <1>3, <1>4, <1>5, <1>6
<1>8. ASSUME fitted[w].length
      PROVE  /\ DataAt(reader, LengthSize) = LengthOf(w)
             /\ Fits(lengthRead, n) <=> Fitted(w)
             /\ Fits(lengthRead, n) => DataAt(lengthRead, n) = DataOf(w)
             /\ ~Derails(w)
             /\ Advance(lengthRead, n).position = start[w + 1]
  <2>1. LengthPart(w) = LengthSize /\ lengthRead.position = p + LengthSize
    BY <1>5, <1>6, <1>7, <1>8
  <2>2. DataAt(reader, LengthSize) = LengthOf(w)
    <3>1. \A k \in 1..Len(LengthOf(w)) : reader.bytes[reader.position + k] = LengthOf(w)[k]
      BY <1>1, <1>3, <1>4, <2>1
    <3>2. reader.position + Len(LengthOf(w)) <= Len(reader.bytes)
      BY <1>1, <1>3, <1>6, <1>7, <1>8
    <3> QED
      BY <1>3, <1>6, <3>1, <3>2, DataAtIs
  <2>3. /\ Fits(lengthRead, n) <=> p + LengthSize + n <= Len(reader.bytes)
        /\ Advance(lengthRead, n).position = IF Fits(lengthRead, n) THEN p + LengthSize + n
                                                                    ELSE p + LengthSize
    BY <1>2, <1>6, <2>1, AdvanceIs
  <2>4. Fits(lengthRead, n) <=> fitted[w].data
    <3>1. CASE fitted[w].data
      <4>1. p + LengthSize + n <= Len(reader.bytes)
        BY <1>4, <1>5, <2>1, <3>1
      <4> QED
        BY <2>3, <3>1, <4>1
    <3>2. CASE ~fitted[w].data
      <4>1. ~(p + LengthSize + n <= Capacity)
        BY <1>4, <2>1, <3>2
      <4>2. p \in Nat /\ Len(reader.bytes) \in Nat /\ Len(reader.bytes) <= Capacity
        BY <1>4
      <4>3. ~(p + LengthSize + n <= Len(reader.bytes))
        BY <1>2, <1>3, <4>1, <4>2
      <4> QED
        BY <2>3, <3>2, <4>3
    <3> QED
      BY <3>1, <3>2
  <2>5. Fits(lengthRead, n) => DataAt(lengthRead, n) = DataOf(w)
    <3> SUFFICES ASSUME Fits(lengthRead, n) PROVE DataAt(lengthRead, n) = DataOf(w)
      OBVIOUS
    <3>1. \A k \in 1..Len(DataOf(w)) :
            lengthRead.bytes[lengthRead.position + k] = DataOf(w)[k]
      BY <1>2, <1>4, <1>5, <1>6, <2>1, <2>4
    <3>2. lengthRead.position + Len(DataOf(w)) <= Len(lengthRead.bytes)
      BY <1>2, <1>6, <2>1, <2>3
    <3> QED
      BY <1>2, <1>6, <3>1, <3>2, DataAtIs
  <2>6. (Fitted(w) <=> fitted[w].data) /\ ~Derails(w)
    BY <1>8 DEF Fitted, Derails
  <2>7. Advance(lengthRead, n).position = start[w + 1]
    <3>1. start[w + 1] = p + LengthSize + DataPart(w) /\ p \in Nat
      BY <1>4, <2>1
    <3>2. DataPart(w) = IF Fits(lengthRead, n) THEN n ELSE 0
      BY <1>5, <2>4
    <3> QED
      BY <1>2, <1>3, <2>3, <3>1, <3>2
  <2> QED
    BY <2>2, <2>4, <2>5, <2>6, <2>7
<1>9. ASSUME ~fitted[w].length
      PROVE  /\ reader.position + LengthSize > Capacity
             /\ ~Derails(w) => reader.position = start[w + 1]
  <2>1. p + LengthSize > Capacity
    <3>1. ~(p + LengthSize <= Capacity) /\ p \in Nat
      BY <1>4, <1>9
    <3> QED
      BY <1>3, <3>1
  <2>2. ~Derails(w) => DataPart(w) = 0
    BY <1>2, <1>4, <1>5, <1>9 DEF Derails
  <2> QED
    BY <1>1, <1>4, <1>5, <1>9, <2>1, <2>2
<1> QED
  BY <1>7, <1>8, <1>9

\* The receiver on its way: at the next item, off its course, or behind a literal.
LEMMA WhereItIs ==
  ASSUME StreamInv, phase = "read", NEW start, OnTheWay(start),
         NEW w, w = NextItem, w \in 1..Len(items), NoneDerails
  PROVE  reader.position = start[w]
BY DEF OnTheWay, NoneDerails, Derails

\* Reading a raw value keeps the invariant.
LEMMA ReadRawArrives ==
  ASSUME StreamInv, ArrivalInv, ReadRaw
  PROVE  ArrivalInv'
<1>1. PICK w : w = NextItem
  OBVIOUS
<1>2. phase = "read" /\ w \in 1..Len(items) /\ items[w].kind = "raw"
  BY <1>1 DEF ReadRaw, Reading, NextItem, StreamInv, TypeOK
<1>3. PICK n : n = items[w].size
  OBVIOUS
<1>4. n \in Nat /\ Capacity + n < SizeMod
  BY <1>2, <1>3, DataOfType
<1>5. PICK result \in Result :
        result = [ok |-> Fits(reader, n), skipped |-> FALSE, data |-> DataAt(reader, n)]
  <2>1. [ok |-> Fits(reader, n), skipped |-> FALSE, data |-> DataAt(reader, n)] \in Result
    BY <1>4, DataAtType, StreamsWithin DEF Result, Fits
  <2> QED
    BY <2>1
<1>6. /\ results' = Append(results, result) /\ reader' = Advance(reader, n)
      /\ UNCHANGED <<phase, items, fitted, writer>>
  BY <1>1, <1>3, <1>5 DEF ReadRaw
<1>7. /\ reader'.bytes = reader.bytes
      /\ reader'.position \in Nat /\ reader.position <= reader'.position
  BY <1>4, <1>6, AdvanceIs, StreamsWithin
<1>8. PICK start \in [1..(Len(items) + 1) -> Nat] : Layout(start) /\ OnTheWay(start)
  BY DEF ArrivalInv
<1>9. ASSUME NoneDerails
      PROVE  /\ result.ok <=> Fitted(w)
             /\ result.ok => result.skipped \/ result.data = DataOf(w)
             /\ ~Derails(w)
             /\ reader'.position = start[w + 1]
  <2>1. reader.position = start[w]
    BY <1>1, <1>2, <1>8, <1>9, WhereItIs
  <2>2. /\ Fits(reader, n) <=> Fitted(w)
        /\ Fits(reader, n) => DataAt(reader, n) = DataOf(w)
        /\ ~Derails(w)
        /\ Advance(reader, n).position = start[w + 1]
    BY <1>2, <1>3, <1>8, <2>1, RawAtItem DEF ArrivalInv
  <2> QED
    BY <1>5, <1>6, <2>2
<1> QED
  BY <1>1, <1>2, <1>6, <1>7, <1>8, <1>9, ResultArrives

\* So does passing over it.
LEMMA IgnoreArrives ==
  ASSUME StreamInv, ArrivalInv, Ignore
  PROVE  ArrivalInv'
<1>1. PICK w : w = NextItem
  OBVIOUS
<1>2. phase = "read" /\ w \in 1..Len(items) /\ items[w].kind = "raw"
  BY <1>1 DEF Ignore, Reading, NextItem, StreamInv, TypeOK
<1>3. PICK n : n = items[w].size
  OBVIOUS
<1>4. n \in Nat /\ Capacity + n < SizeMod
  BY <1>2, <1>3, DataOfType
<1>5. PICK result \in Result :
        result = [ok |-> Fits(reader, n), skipped |-> TRUE, data |-> <<>>]
  <2>1. [ok |-> Fits(reader, n), skipped |-> TRUE, data |-> <<>>] \in Result
    BY DEF Result, Fits
  <2> QED
    BY <2>1
<1>6. /\ results' = Append(results, result) /\ reader' = Advance(reader, n)
      /\ UNCHANGED <<phase, items, fitted, writer>>
  BY <1>1, <1>3, <1>5 DEF Ignore
<1>7. /\ reader'.bytes = reader.bytes
      /\ reader'.position \in Nat /\ reader.position <= reader'.position
  BY <1>4, <1>6, AdvanceIs, StreamsWithin
<1>8. PICK start \in [1..(Len(items) + 1) -> Nat] : Layout(start) /\ OnTheWay(start)
  BY DEF ArrivalInv
<1>9. ASSUME NoneDerails
      PROVE  /\ result.ok <=> Fitted(w)
             /\ result.ok => result.skipped \/ result.data = DataOf(w)
             /\ ~Derails(w)
             /\ reader'.position = start[w + 1]
  <2>1. reader.position = start[w]
    BY <1>1, <1>2, <1>8, <1>9, WhereItIs
  <2>2. /\ Fits(reader, n) <=> Fitted(w)
        /\ ~Derails(w)
        /\ Advance(reader, n).position = start[w + 1]
    BY <1>2, <1>3, <1>8, <2>1, RawAtItem DEF ArrivalInv
  <2> QED
    BY <1>5, <1>6, <2>2
<1> QED
  BY <1>1, <1>2, <1>6, <1>7, <1>8, <1>9, ResultArrives

\* So does a string whose length is not there.
LEMMA ReadStringNoLengthArrives ==
  ASSUME StreamInv, ArrivalInv, ReadStringNoLength
  PROVE  ArrivalInv'
<1>1. PICK w : w = NextItem
  OBVIOUS
<1>2. /\ phase = "read" /\ w \in 1..Len(items) /\ items[w].kind \in {"string", "literal"}
      /\ ~Fits(reader, LengthSize)
  BY <1>1 DEF ReadStringNoLength, Reading, NextItem, StreamInv, TypeOK
<1>3. PICK result \in Result : result = [ok |-> FALSE, skipped |-> FALSE, data |-> <<>>]
  <2>1. [ok |-> FALSE, skipped |-> FALSE, data |-> <<>>] \in Result
    BY DEF Result
  <2> QED
    BY <2>1
<1>4. /\ results' = Append(results, result)
      /\ UNCHANGED <<phase, items, fitted, writer, reader>>
  BY <1>3 DEF ReadStringNoLength
<1>5. /\ reader'.bytes = reader.bytes
      /\ reader'.position \in Nat /\ reader.position <= reader'.position
  BY <1>4 DEF StreamInv, TypeOK, Stream
<1>6. PICK start \in [1..(Len(items) + 1) -> Nat] : Layout(start) /\ OnTheWay(start)
  BY DEF ArrivalInv
<1>7. ASSUME NoneDerails, items[w].kind # "literal"
      PROVE  /\ result.ok <=> Fitted(w)
             /\ result.ok => result.skipped \/ result.data = DataOf(w)
             /\ Derails(w) => reader'.position + LengthSize > Capacity
             /\ ~Derails(w) => reader'.position = start[w + 1]
  <2>1. reader.position = start[w]
    BY <1>1, <1>2, <1>6, <1>7, WhereItIs
  <2>2. /\ Fits(reader, LengthSize) <=> fitted[w].length
        /\ ~fitted[w].length => /\ reader.position + LengthSize > Capacity
                                /\ ~Derails(w) => reader.position = start[w + 1]
    BY <1>2, <1>6, <1>7, <2>1, StringAtItem DEF ArrivalInv
  <2>3. ~Fitted(w)
    BY <1>2, <2>2 DEF Fitted
  <2> QED
    BY <1>2, <1>3, <1>4, <2>2, <2>3
<1> QED
  BY <1>1, <1>2, <1>4, <1>5, <1>6, <1>7, ResultArrives

\* So does a string of any length that std::string takes.
LEMMA ReadStringArrives ==
  ASSUME StreamInv, ArrivalInv, ReadString
  PROVE  ArrivalInv'
<1>1. PICK w : w = NextItem
  OBVIOUS
<1>2. /\ phase = "read" /\ w \in 1..Len(items) /\ items[w].kind \in {"string", "literal"}
      /\ Fits(reader, LengthSize)
  BY <1>1 DEF ReadString, Reading, NextItem, StreamInv, TypeOK
<1>3. PICK lengthRead : lengthRead = Advance(reader, LengthSize)
  OBVIOUS
<1>4. PICK n \in SizesIn(DataAt(reader, LengthSize)) :
        /\ n <= MaxText
        /\ results' = Append(results, [ok |-> Fits(lengthRead, n), skipped |-> FALSE,
                                       data |-> DataAt(lengthRead, n)])
        /\ reader' = Advance(lengthRead, n)
  BY <1>3 DEF ReadString
<1>5. n \in Nat /\ Capacity + n < SizeMod
  BY <1>4, SizesType
<1>6. /\ lengthRead.bytes = reader.bytes /\ lengthRead.position \in Nat
      /\ reader.position <= lengthRead.position /\ Within(lengthRead)
  BY <1>3, SizeAssumption, AdvanceIs, AdvanceWithin, StreamsWithin
<1>7. PICK result \in Result :
        result = [ok |-> Fits(lengthRead, n), skipped |-> FALSE,
                  data |-> DataAt(lengthRead, n)]
  <2>1. [ok |-> Fits(lengthRead, n), skipped |-> FALSE, data |-> DataAt(lengthRead, n)]
          \in Result
    BY <1>5, <1>6, DataAtType DEF Result, Fits
  <2> QED
    BY <2>1
<1>8. /\ results' = Append(results, result)
      /\ UNCHANGED <<phase, items, fitted, writer>>
  BY <1>4, <1>7 DEF ReadString
<1>9. /\ reader'.bytes = reader.bytes
      /\ reader'.position \in Nat /\ reader.position <= reader'.position
  <2>1. /\ reader'.bytes = lengthRead.bytes /\ reader'.position \in Nat
        /\ lengthRead.position <= reader'.position
    BY <1>4, <1>5, <1>6, AdvanceIs
  <2> QED
    BY <1>6, <2>1 DEF StreamInv, TypeOK, Stream
<1>10. PICK start \in [1..(Len(items) + 1) -> Nat] : Layout(start) /\ OnTheWay(start)
  BY DEF ArrivalInv
<1>11. ASSUME NoneDerails, items[w].kind # "literal"
       PROVE  /\ result.ok <=> Fitted(w)
              /\ result.ok => result.skipped \/ result.data = DataOf(w)
              /\ ~Derails(w)
              /\ reader'.position = start[w + 1]
  <2>1. reader.position = start[w]
    BY <1>1, <1>2, <1>10, <1>11, WhereItIs
  <2>2. PICK size : size = items[w].size
    OBVIOUS
  <2>3. /\ DataAt(reader, LengthSize) = LengthOf(w)
        /\ Fits(lengthRead, size) <=> Fitted(w)
        /\ Fits(lengthRead, size) => DataAt(lengthRead, size) = DataOf(w)
        /\ ~Derails(w)
        /\ Advance(lengthRead, size).position = start[w + 1]
    BY <1>2, <1>3, <1>10, <1>11, <2>1, <2>2, StringAtItem DEF ArrivalInv
  <2>4. n = size
    BY <1>2, <1>4, <2>2, <2>3, LengthSays
  <2> QED
    BY <1>4, <1>7, <2>3, <2>4
<1> QED
  BY <1>1, <1>2, <1>8, <1>9, <1>10, <1>11, ResultArrives

\* A resize that throws has a literal behind it.
LEMMA ReadStringThrowsArrives ==
  ASSUME StreamInv, ArrivalInv, ReadStringThrows
  PROVE  ArrivalInv'
<1>1. PICK w : w = NextItem
  OBVIOUS
<1>2. /\ phase = "read" /\ w \in 1..Len(items) /\ items[w].kind \in {"string", "literal"}
      /\ Fits(reader, LengthSize)
      /\ \E n \in SizesIn(DataAt(reader, LengthSize)) : n > MaxText
      /\ phase' = "thrown" /\ UNCHANGED <<items, fitted, writer, reader, results>>
  BY <1>1 DEF ReadStringThrows, Reading, NextItem, StreamInv, TypeOK
<1>3. PICK start \in [1..(Len(items) + 1) -> Nat] : Layout(start) /\ OnTheWay(start)
  BY DEF ArrivalInv
<1>4. \E v \in 1..NextItem : items[v].kind = "literal"
  <2> SUFFICES ASSUME \A v \in 1..NextItem : items[v].kind # "literal"
               PROVE  FALSE
    OBVIOUS
  <2>1. Len(results) \in Nat
    BY DEF StreamInv, TypeOK
  <2>2. items[w].kind = "string"
    BY <1>1, <1>2, <2>1 DEF NextItem
  <2>3. reader.position + LengthSize <= Capacity
    <3>1. reader.position + LengthSize <= Len(reader.bytes)
      BY <1>2, AdvanceIs, StreamsWithin, SizeAssumption
    <3> QED
      BY <3>1, SizeAssumption DEF StreamInv, TypeOK, Stream
  <2>4. \A v \in 1..Len(results) : items[v].kind # "literal"
    BY <2>1 DEF NextItem
  <2>5. NoneDerails
    BY <1>2, <1>3, <2>3, <2>4, SizeAssumption DEF OnTheWay, StreamInv, TypeOK, Stream
  <2>6. reader.position = start[w]
    BY <1>1, <1>2, <1>3, <2>5, WhereItIs
  <2>7. DataAt(reader, LengthSize) = LengthOf(w)
    BY <1>2, <1>3, <2>2, <2>6, StringAtItem DEF ArrivalInv
  <2>8. items[w].size > MaxText
    BY <1>2, <2>7, LengthSays
  <2>9. items[w].size \in 0..MaxText
    <3>1. items[w] \in Item
      BY <1>2 DEF StreamInv, TypeOK
    <3>2. items[w].size \in TextSizes
      BY <2>2, <3>1 DEF Item
    <3> QED
      BY <3>2, ItemAssumption
  <2> QED
    BY <2>8, <2>9, SizeAssumption
<1>5. Received' /\ WhatFitsArrives' /\ OnTheWay(start)'
  <2>1. Received'
    BY <1>2 DEF ArrivalInv, Received
  <2>2. WhatFitsArrives'
    BY <1>2 DEF ArrivalInv, WhatFitsArrives, OnCourse, Derails, Fitted, DataOf
  <2>3. OnTheWay(start)'
    BY <1>2, <1>3 DEF OnTheWay, NoneDerails, Derails, NextItem
  <2> QED
    BY <2>1, <2>2, <2>3
<1>6. Layout(start)'
  BY <1>2, <1>3, LayoutStays
<1>7. OnlyLiteralsThrow'
  BY <1>2, <1>4 DEF OnlyLiteralsThrow, NextItem
<1> QED
  BY <1>2, <1>3, <1>5, <1>6, <1>7 DEF ArrivalInv

-----------------------------------------------------------------------------
(* The theorems about what arrives.                                        *)

LEMMA InitArrives == Init => ArrivalInv
<1> SUFFICES ASSUME Init PROVE ArrivalInv
  OBVIOUS
<1>1. /\ items = <<>> /\ Len(items) = 0 /\ results = <<>> /\ Len(results) = 0
      /\ phase = "write" /\ writer.position = 0
  BY DEF Init
<1>2. PICK start \in [1..(Len(items) + 1) -> Nat] : start[1] = 0
  <2> DEFINE zero == [w \in 1..(Len(items) + 1) |-> 0]
  <2>1. zero \in [1..(Len(items) + 1) -> Nat]
    OBVIOUS
  <2>2. zero[1] = 0
    BY <1>1
  <2> HIDE DEF zero
  <2> QED
    BY <2>1, <2>2
<1>3. Layout(start) /\ OnTheWay(start)
  BY <1>1, <1>2 DEF Layout, OnTheWay
<1>4. Received /\ WhatFitsArrives /\ OnlyLiteralsThrow
  BY <1>1 DEF Received, WhatFitsArrives, OnlyLiteralsThrow
<1> QED
  BY <1>3, <1>4 DEF ArrivalInv

LEMMA NextArrives == StreamInv /\ ArrivalInv /\ [Next]_vars => ArrivalInv'
<1> SUFFICES ASSUME StreamInv, ArrivalInv, [Next]_vars PROVE ArrivalInv'
  OBVIOUS
<1>1. CASE \E n \in RawSizes : WriteRaw(n)
  <2>1. PICK n \in RawSizes : WriteValue("raw", n)
    BY <1>1 DEF WriteRaw
  <2>2. [kind |-> "raw", size |-> n] \in Item
    BY DEF Item
  <2> QED
    BY <2>1, <2>2, WriteValueArrives
<1>2. CASE \E n \in TextSizes : WriteString(n)
  BY <1>2, WriteStringArrives
<1>3. CASE \E n \in LiteralSizes : WriteLiteral(n)
  <2>1. PICK n \in LiteralSizes : WriteValue("literal", n)
    BY <1>3 DEF WriteLiteral
  <2>2. [kind |-> "literal", size |-> n] \in Item
    BY DEF Item
  <2> QED
    BY <2>1, <2>2, WriteValueArrives
<1>4. CASE Send
  BY <1>4, SendArrives
<1>5. CASE ReadRaw
  BY <1>5, ReadRawArrives
<1>6. CASE Ignore
  BY <1>6, IgnoreArrives
<1>7. CASE ReadStringNoLength
  BY <1>7, ReadStringNoLengthArrives
<1>8. CASE ReadString
  BY <1>8, ReadStringArrives
<1>9. CASE ReadStringThrows
  BY <1>9, ReadStringThrowsArrives
<1>10. CASE UNCHANGED vars
  <2>1. UNCHANGED <<phase, items, fitted, writer, reader, results>>
    BY <1>10 DEF vars
  <2>2. PICK start \in [1..(Len(items) + 1) -> Nat] : Layout(start) /\ OnTheWay(start)
    BY DEF ArrivalInv
  <2>3. Layout(start)'
    BY <2>1, <2>2, LayoutStays
  <2>4. OnTheWay(start)'
    BY <2>1, <2>2 DEF OnTheWay, NoneDerails, Derails, NextItem
  <2>5. Received' /\ OnlyLiteralsThrow'
    BY <2>1 DEF ArrivalInv, Received, OnlyLiteralsThrow, NextItem
  <2>6. WhatFitsArrives'
    BY <2>1 DEF ArrivalInv, WhatFitsArrives, OnCourse, Derails, Fitted, DataOf
  <2> QED
    BY <2>1, <2>2, <2>3, <2>4, <2>5, <2>6 DEF ArrivalInv
<1> QED
  BY <1>1, <1>2, <1>3, <1>4, <1>5, <1>6, <1>7, <1>8, <1>9, <1>10 DEF Next

LEMMA ArrivalInvariant == Spec => []ArrivalInv
<1>1. Init => ArrivalInv
  BY InitArrives
<1>2. StreamInv /\ ArrivalInv /\ [Next]_vars => ArrivalInv'
  BY NextArrives
<1> QED
  BY <1>1, <1>2, StreamInvariant, PTL DEF Spec

\* WhatFitsArrives: on its course the receiver gets every item that fitted as it was
\* written, and is told of every one that did not, however large the packet is and
\* whatever was written before.
THEOREM ArrivalCorrect == Spec => []WhatFitsArrives
BY ArrivalInvariant, PTL DEF ArrivalInv

\* OnlyLiteralsThrow: no packet without a literal makes ReadString resize a string to a
\* length that is none.
THEOREM ThrowCorrect == Spec => []OnlyLiteralsThrow
BY ArrivalInvariant, PTL DEF ArrivalInv
=============================================================================

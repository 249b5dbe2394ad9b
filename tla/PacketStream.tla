----------------------------- MODULE PacketStream -----------------------------
(***************************************************************************)
(* One packet of BCNet on its way: a PacketStreamWriter fills a buffer of  *)
(* fixed size, the bytes up to its position are sent, a PacketStreamReader *)
(* takes them apart in the same order.  Both sides drop the results of     *)
(* WriteData and ReadData, so what does not fit leaves a packet the reader *)
(* may misunderstand; and a text given to operator<< as a literal goes to  *)
(* the template for raw values, which writes the char array and no length. *)
(*                                                                         *)
(* A byte is known by where it comes from: the k-th byte of the length, or *)
(* of the data, of the w-th item written.  Only what the length bytes say  *)
(* matters as a value.  A string and a packet written with its size have   *)
(* the same form; WriteZero(n) is n raw items of one byte.                 *)
(***************************************************************************)
EXTENDS Integers, Sequences

CONSTANTS
  Capacity,     \* what Packet::Allocate was asked for
  LengthSize,   \* sizeof(size_t)
  SizeMod,      \* size_t is the integers modulo SizeMod
  MaxText,      \* std::string::max_size: a longer resize throws
  RawSizes,     \* sizes of the values written raw (ids)
  TextSizes,    \* lengths of the strings written
  Odd,          \* what bytes that are no length may say when read as one
  MaxItems      \* bound on the items of a packet

ASSUME SizeAssumption ==
  /\ Capacity \in Nat /\ LengthSize \in Nat \ {0} /\ MaxText \in Nat /\ SizeMod \in Nat
  /\ Capacity + LengthSize < SizeMod /\ Capacity + MaxText + 1 < SizeMod
ASSUME ItemAssumption ==
  /\ RawSizes \subseteq Nat \ {0} /\ \A n \in RawSizes : Capacity + n < SizeMod
  /\ TextSizes \subseteq 0..MaxText
  /\ Odd \subseteq 0..(SizeMod - 1)
  /\ MaxItems \in Nat

\* A literal of n characters is an array of n + 1.
LiteralSizes == {n + 1 : n \in TextSizes}

Item == [kind : {"raw"}, size : RawSizes]
          \cup [kind : {"string"}, size : TextSizes]
          \cup [kind : {"literal"}, size : LiteralSizes]

\* A byte that was never written has item 0.
Byte == [item : Nat, part : {"length", "data"}, at : Nat]
Unwritten == [item |-> 0, part |-> "data", at |-> 0]

VARIABLES
  phase,        \* "write", "read", or "thrown" when a resize threw
  items,        \* the items written, whether they fitted or not
  fitted,       \* for each item, which of its two WriteData succeeded
  writer,       \* the stream of the sender: its bytes and its position
  reader,       \* the stream of the receiver
  results,      \* what the receiver has read
  overrun       \* TRUE when a copy has touched a byte outside of the packet

vars == <<phase, items, fitted, writer, reader, results, overrun>>

Stream == [bytes : Seq(Byte), position : Nat]
Fate == [length : BOOLEAN, data : BOOLEAN]   \* length is TRUE where none is written
Result == [ok : BOOLEAN, skipped : BOOLEAN, data : Seq(Byte)]

TypeOK ==
  /\ phase \in {"write", "read", "thrown"}
  /\ items \in Seq(Item)
  /\ fitted \in Seq(Fate)
  /\ writer \in Stream
  /\ reader \in Stream
  /\ results \in Seq(Result)
  /\ overrun \in BOOLEAN
  /\ Len(fitted) = Len(items)
  /\ Len(results) <= Len(items)
  /\ writer.position <= Len(writer.bytes) /\ Len(writer.bytes) = Capacity
  /\ reader.position <= Len(reader.bytes) /\ Len(reader.bytes) <= Capacity

Init ==
  /\ phase = "write"
  /\ items = <<>>
  /\ fitted = <<>>
  /\ writer = [bytes |-> [k \in 1..Capacity |-> Unwritten], position |-> 0]
  /\ reader = [bytes |-> <<>>, position |-> 0]
  /\ results = <<>>
  /\ overrun = FALSE

-----------------------------------------------------------------------------
(* The two streams.                                                        *)

\* m_position + size, in size_t.
Beyond(s, size) == (s.position + size) % SizeMod

\* bool valid = m_position + size <= m_packet.size
Fits(s, size) == Beyond(s, size) <= Len(s.bytes)

\* A copy that is let through though it ends outside: the sum has wrapped.
Overruns(s, size) == Fits(s, size) /\ s.position + size > Len(s.bytes)

\* (After an overrun the model keeps the stream as it is; NoOverrun says there is none.)
WriteData(s, data) ==
  IF Fits(s, Len(data)) /\ ~Overruns(s, Len(data))
  THEN [bytes |-> [k \in 1..Len(s.bytes) |->
                     IF k \in (s.position + 1)..(s.position + Len(data))
                     THEN data[k - s.position] ELSE s.bytes[k]],
        position |-> Beyond(s, Len(data))]
  ELSE s

\* Mutant: the position moves though there is not enough left.
AdvanceUnchecked(s, size) == [s EXCEPT !.position = Beyond(s, size)]

Advance(s, size) == IF Fits(s, size) THEN [s EXCEPT !.position = Beyond(s, size)] ELSE s

\* What ReadData copies out.
DataAt(s, size) ==
  IF Fits(s, size) /\ ~Overruns(s, size)
  THEN SubSeq(s.bytes, s.position + 1, s.position + size)
  ELSE <<>>

LengthOf(w) == [k \in 1..LengthSize |-> [item |-> w, part |-> "length", at |-> k]]
DataOf(w) == [k \in 1..items[w].size |-> [item |-> w, part |-> "data", at |-> k]]

\* The size_t these bytes are read as.
SizesIn(bytes) ==
  LET whole == {w \in 1..Len(items) : bytes = LengthOf(w)}
  IN IF whole = {} THEN Odd ELSE {items[w].size : w \in whole}

-----------------------------------------------------------------------------
(* The sender.                                                             *)

NewData(w, n) == [k \in 1..n |-> [item |-> w, part |-> "data", at |-> k]]

WriteValue(kind, n) ==
  LET w == Len(items) + 1
  IN /\ phase = "write" /\ w <= MaxItems
     /\ items' = Append(items, [kind |-> kind, size |-> n])
     /\ fitted' = Append(fitted, [length |-> TRUE, data |-> Fits(writer, n)])
     /\ writer' = WriteData(writer, NewData(w, n))
     /\ overrun' = (overrun \/ Overruns(writer, n))
     /\ UNCHANGED <<phase, reader, results>>

WriteRaw(n) == WriteValue("raw", n)

WriteLiteral(n) == WriteValue("literal", n)

\* Mutants: the text before its length; nothing when not all of it fits.
WriteStringBackwards(n) ==
  LET w == Len(items) + 1
      textWritten == WriteData(writer, NewData(w, n))
  IN /\ phase = "write" /\ w <= MaxItems
     /\ items' = Append(items, [kind |-> "string", size |-> n])
     /\ fitted' = Append(fitted, [length |-> Fits(textWritten, LengthSize),
                                data |-> Fits(writer, n)])
     /\ writer' = WriteData(textWritten, LengthOf(w))
     /\ UNCHANGED <<phase, reader, results, overrun>>

WriteStringWhole(n) ==
  LET w == Len(items) + 1
  IN /\ phase = "write" /\ w <= MaxItems
     /\ items' = Append(items, [kind |-> "string", size |-> n])
     /\ fitted' = Append(fitted, [length |-> Fits(writer, LengthSize + n),
                                data |-> Fits(writer, LengthSize + n)])
     /\ writer' = WriteData(writer, LengthOf(w) \o NewData(w, n))
     /\ UNCHANGED <<phase, reader, results, overrun>>

\* WriteString, and WritePacket with the size: two writes, and the second is tried
\* whatever became of the first.
WriteString(n) ==
  LET w == Len(items) + 1
      lengthWritten == WriteData(writer, LengthOf(w))
  IN /\ phase = "write" /\ w <= MaxItems
     /\ items' = Append(items, [kind |-> "string", size |-> n])
     /\ fitted' = Append(fitted, [length |-> Fits(writer, LengthSize),
                                data |-> Fits(lengthWritten, n)])
     /\ writer' = WriteData(lengthWritten, NewData(w, n))
     /\ overrun' = (overrun \/ Overruns(writer, LengthSize) \/ Overruns(lengthWritten, n))
     /\ UNCHANGED <<phase, reader, results>>

\* Sent are the bytes up to the position (GetPacket), or, as in the answer to
\* PACKET_WHOSONLINE, the whole buffer.
Send ==
  /\ phase = "write"
  /\ phase' = "read"
  /\ \E last \in {writer.position, Capacity} :
       reader' = [bytes |-> SubSeq(writer.bytes, 1, last), position |-> 0]
  /\ UNCHANGED <<items, fitted, writer, results, overrun>>

-----------------------------------------------------------------------------
(* The receiver, which reads the items in the order they were written, and *)
(* every text as a std::string.                                            *)

NextItem == Len(results) + 1
Reading(kinds) == phase = "read" /\ NextItem <= Len(items) /\ items[NextItem].kind \in kinds

ReadRaw ==
  LET n == items[NextItem].size
  IN /\ Reading({"raw"})
     /\ results' = Append(results, [ok |-> Fits(reader, n), skipped |-> FALSE,
                                    data |-> DataAt(reader, n)])
     /\ reader' = Advance(reader, n)
     /\ overrun' = (overrun \/ Overruns(reader, n))
     /\ UNCHANGED <<phase, items, fitted, writer>>

Ignore ==
  LET n == items[NextItem].size
  IN /\ Reading({"raw"})
     /\ results' = Append(results, [ok |-> Fits(reader, n), skipped |-> TRUE, data |-> <<>>])
     /\ reader' = Advance(reader, n)
     /\ UNCHANGED <<phase, items, fitted, writer, overrun>>

\* No length in the packet.
ReadStringNoLength ==
  /\ Reading({"string", "literal"})
  /\ ~Fits(reader, LengthSize)
  /\ results' = Append(results, [ok |-> FALSE, skipped |-> FALSE, data |-> <<>>])
  /\ UNCHANGED <<phase, items, fitted, writer, reader, overrun>>

\* Mutant: the bytes go to a buffer that takes any length.
ReadStringUnbounded ==
  /\ Reading({"string", "literal"})
  /\ Fits(reader, LengthSize)
  /\ \E n \in SizesIn(DataAt(reader, LengthSize)) :
       LET lengthRead == Advance(reader, LengthSize)
       IN /\ results' = Append(results, [ok |-> Fits(lengthRead, n), skipped |-> FALSE,
                                         data |-> DataAt(lengthRead, n)])
          /\ reader' = Advance(lengthRead, n)
          /\ overrun' = Overruns(lengthRead, n)
  /\ UNCHANGED <<phase, items, fitted, writer>>

\* The string gets the size read, then the bytes, if there are as many.
ReadString ==
  /\ Reading({"string", "literal"})
  /\ Fits(reader, LengthSize)
  /\ \E n \in SizesIn(DataAt(reader, LengthSize)) :
       LET lengthRead == Advance(reader, LengthSize)
       IN /\ n <= MaxText
          /\ results' = Append(results, [ok |-> Fits(lengthRead, n), skipped |-> FALSE,
                                         data |-> DataAt(lengthRead, n)])
          /\ reader' = Advance(lengthRead, n)
          /\ overrun' = (overrun \/ Overruns(reader, LengthSize) \/ Overruns(lengthRead, n))
  /\ UNCHANGED <<phase, items, fitted, writer>>

\* string.resize throws, and nothing in BCNet catches it.
ReadStringThrows ==
  /\ Reading({"string", "literal"})
  /\ Fits(reader, LengthSize)
  /\ \E n \in SizesIn(DataAt(reader, LengthSize)) : n > MaxText
  /\ phase' = "thrown"
  /\ UNCHANGED <<items, fitted, writer, reader, results, overrun>>

-----------------------------------------------------------------------------
Next ==
  \/ \E n \in RawSizes : WriteRaw(n)
  \/ \E n \in TextSizes : WriteString(n)
  \/ \E n \in LiteralSizes : WriteLiteral(n)
  \/ Send
  \/ ReadRaw \/ Ignore
  \/ ReadStringNoLength \/ ReadString \/ ReadStringThrows

Spec == Init /\ [][Next]_vars

-----------------------------------------------------------------------------
(* Properties.                                                             *)

\* No copy of the writer or the reader touches a byte outside of the packet,
\* whatever length the packet says a string has: where the sum in the bounds
\* check would wrap, std::string has thrown before.
NoOverrun == ~overrun

Fitted(w) == fitted[w].length /\ fitted[w].data

\* Item w can set the reader off its course: it is a literal, or a string whose
\* text went into the few bytes that were not enough for its length.
Derails(w) ==
  \/ items[w].kind = "literal"
  \/ ~fitted[w].length /\ fitted[w].data /\ items[w].size > 0

OnCourse(w) == items[w].kind # "literal" /\ \A v \in 1..(w - 1) : ~Derails(v)

\* What fits arrives as it was written, also behind items that did not fit, and
\* whether or not the receiver passes over ids with Ignore.  The loss the sender
\* ignores is noticed by the receiver: for an item that did not fit ReadData,
\* ReadString or Ignore returns false.
WhatFitsArrives ==
  \A w \in 1..Len(results) :
    OnCourse(w) =>
      /\ results[w].ok <=> Fitted(w)
      /\ results[w].ok => results[w].skipped \/ results[w].data = DataOf(w)

\* Resizing the string to a length that is none takes a literal: no loss of a
\* part of a string alone makes the receiver read text as a length.
OnlyLiteralsThrow ==
  phase = "thrown" => \E w \in 1..NextItem : items[w].kind = "literal"
=============================================================================

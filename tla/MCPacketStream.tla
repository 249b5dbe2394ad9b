---------------------------- MODULE MCPacketStream ----------------------------
(***************************************************************************)
(* An instance of PacketStream for TLC: a packet of seven bytes, lengths   *)
(* of two, raw values of one and two, texts of none, one, two and five, a  *)
(* size_t of five bits.  With four items one can fail to fit before,       *)
(* between and after items that do, a string in each of its two parts.     *)
(***************************************************************************)
EXTENDS PacketStream

\* Bytes that are no length say a small size, one beyond the packet, one that
\* throws, and one with which the sum would wrap.
MCOdd == {0, 1, 3, MaxText, MaxText + 1, SizeMod - 1}
=============================================================================

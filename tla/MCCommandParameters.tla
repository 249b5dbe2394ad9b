------------------------- MODULE MCCommandParameters -------------------------
(***************************************************************************)
(* Instance of CommandParameters for TLC: every line of up to eight        *)
(* characters, an array of three tokens, which such a line can exceed, and *)
(* numbers that may be too large when they have two digits.                *)
(***************************************************************************)
EXTENDS CommandParameters
=============================================================================

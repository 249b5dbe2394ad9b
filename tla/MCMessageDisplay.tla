--------------------------- MODULE MCMessageDisplay ---------------------------
(***************************************************************************)
(* Instance of MessageDisplay for TLC.  Two objects are freed in the order *)
(* of the array or against it, together or apart; five messages fill the   *)
(* pool, find it full, fill it again, and are the fewest after which a     *)
(* collision has put a wild pointer where Create follows it.  The limits   *)
(* of the log are zero, and above the first one.                           *)
(***************************************************************************)
EXTENDS MessageDisplay

MCLimits == {0, 3}
=============================================================================

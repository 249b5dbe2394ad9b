----------------------------- MODULE Membership -----------------------------
(***************************************************************************)
(* What the server's admission promises, without callbacks, sockets and    *)
(* threads: a set of members no larger than a limit when someone joins.    *)
(* A connection joins at most once.  It is turned away only when there is  *)
(* no room, and one that has left, was turned away or was removed stays    *)
(* out.  The limit may change at any time; whoever is in then stays in.    *)
(***************************************************************************)
EXTENDS Integers, FiniteSets

CONSTANT Conn   \* connections

VARIABLES
  members,      \* those who are in
  gone,         \* those who were in, or turned away
  limit,        \* how many may be in
  closed        \* TRUE once the membership is dissolved

membershipVars == <<members, gone, limit, closed>>

Init ==
  /\ members = {}
  /\ gone = {}
  /\ limit \in Nat
  /\ closed = FALSE

New(c) == c \notin members \cup gone

Join(c) ==
  /\ ~closed
  /\ New(c)
  /\ Cardinality(members) < limit
  /\ members' = members \cup {c}
  /\ UNCHANGED <<gone, limit, closed>>

TurnAway(c) ==
  /\ ~closed
  /\ New(c)
  /\ Cardinality(members) >= limit
  /\ gone' = gone \cup {c}
  /\ UNCHANGED <<members, limit, closed>>

\* On its own account, or removed.
Leave(c) ==
  /\ ~closed
  /\ c \in members
  /\ members' = members \ {c}
  /\ gone' = gone \cup {c}
  /\ UNCHANGED <<limit, closed>>

SetLimit ==
  /\ limit' \in Nat
  /\ UNCHANGED <<members, gone, closed>>

Close ==
  /\ ~closed
  /\ members' = {}
  /\ closed' = TRUE
  /\ UNCHANGED <<gone, limit>>

Next == (\E c \in Conn : Join(c) \/ TurnAway(c) \/ Leave(c)) \/ SetLimit \/ Close

Spec == Init /\ [][Next]_membershipVars
=============================================================================

------------------------------ MODULE Session ------------------------------
(***************************************************************************)
(* What the client promises about its connection, without threads,         *)
(* callbacks and an assert: one connection at a time, each over a handle   *)
(* of its own that is never used again.  The client believes a connection  *)
(* to be up only once the server has answered, and the belief lasts until  *)
(* the user hangs up or the connection is lost: nothing that happened to   *)
(* an earlier connection ends a later one.  A client that is told to leave *)
(* begins at most one attempt more, the last, and closes what it has in    *)
(* any order.                                                              *)
(***************************************************************************)
CONSTANT Conn   \* handles

VARIABLES
  link,         \* what has become of each handle
  phase,        \* what the client believes
  leaving       \* TRUE once the client was told to leave

sessionVars == <<link, phase, leaving>>

Open == {c \in Conn : link[c] \in {"Connecting", "Connected", "Ended"}}

Init ==
  /\ link = [c \in Conn |-> "Fresh"]
  /\ phase = "down"
  /\ leaving = FALSE

\* The server answers, or the connection is lost.
Answer(c) ==
  /\ link[c] = "Connecting"
  /\ link' = [link EXCEPT ![c] = "Connected"]
  /\ UNCHANGED <<phase, leaving>>

Lose(c) ==
  /\ link[c] \in {"Connecting", "Connected"}
  /\ link' = [link EXCEPT ![c] = "Ended"]
  /\ UNCHANGED <<phase, leaving>>

Dial ==
  /\ phase = "down"
  /\ phase' = "dialing"
  /\ UNCHANGED <<link, leaving>>

DialFails ==
  /\ \/ phase = "dialing" /\ phase' = "down"
     \/ phase = "last" /\ phase' = "left"
  /\ UNCHANGED <<link, leaving>>

\* One connection at a time, over a new handle; only the last attempt of a client that
\* leaves may begin beside a connection that is still to be closed.
Begin(c) ==
  /\ link[c] = "Fresh"
  /\ link' = [link EXCEPT ![c] = "Connecting"]
  /\ \/ phase = "dialing" /\ Open = {} /\ phase' = "trying"
     \/ phase = "last" /\ phase' = "left"
  /\ UNCHANGED leaving

\* The answer is noticed: the connection may be lost again by then.
Establish(c) ==
  /\ phase = "trying"
  /\ Open = {c}
  /\ link[c] # "Connecting"
  /\ phase' = "up"
  /\ UNCHANGED <<link, leaving>>

\* The user hangs up, or the loss of the connection is noticed ...
HangUp ==
  /\ phase = "up"
  /\ phase' = "ending"
  /\ UNCHANGED <<link, leaving>>

NoticeLoss(c) ==
  /\ phase \in {"trying", "up"}
  /\ Open = {c}
  /\ link[c] = "Ended"
  /\ phase' = "ending"
  /\ UNCHANGED <<link, leaving>>

\* ... and only then the connection is over.
End(c) ==
  /\ phase = "ending"
  /\ Open = {c}
  /\ link' = [link EXCEPT ![c] = "None"]
  /\ phase' = "down"
  /\ UNCHANGED leaving

Leave ==
  /\ ~leaving
  /\ leaving' = TRUE
  /\ phase' \in {"last", "left"}
  /\ UNCHANGED link

\* What is still open is closed, one by one or together.
Abandon(handles) ==
  /\ leaving
  /\ link' = [c \in Conn |-> IF c \in handles THEN "None" ELSE link[c]]
  /\ UNCHANGED <<phase, leaving>>

Next ==
  \/ Dial \/ DialFails \/ HangUp \/ Leave
  \/ \E c \in Conn : Answer(c) \/ Lose(c) \/ Begin(c) \/ Establish(c) \/ NoticeLoss(c) \/ End(c)
  \/ \E handles \in SUBSET Open : Abandon(handles)

Spec == Init /\ [][Next]_sessionVars
=============================================================================

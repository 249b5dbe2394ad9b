------------------------------ MODULE InputLine ------------------------------
(***************************************************************************)
(* The line of input of the example client: the part of Game::Update that  *)
(* handles keys.  m_inputArr and m_lastInputArr lie one after the other in *)
(* the object, so `memory` holds both; neither is initialised, and writing *)
(* the terminator of a full m_inputArr hits the first character of         *)
(* m_lastInputArr.                                                         *)
(*                                                                         *)
(* A character that was in memory before is Junk or the terminator.  The   *)
(* keys of one frame are handled in the order characters, backspace,       *)
(* enter, up; here any key may come next.  strncpy_s ends the program when *)
(* what it has to copy does not fit.                                       *)
(***************************************************************************)
EXTENDS Integers, Sequences, FiniteSetsExt

CONSTANTS
  Letter,       \* characters that can be typed
  Junk,         \* a byte of memory that was not set
  Nul,          \* '\0'
  MaxInput      \* MAX_INPUT

ASSUME CharAssumption == Junk # Nul /\ {Junk, Nul} \cap Letter = {}
ASSUME InputAssumption == MaxInput \in Nat \ {0}

VARIABLES
  memory,           \* m_inputArr, then m_lastInputArr, from 1
  inputCount,       \* m_inputCount
  lastInputCount,   \* m_lastInputCount
  aborted,          \* TRUE once strncpy_s has ended the program
  typed,            \* what the keys say the line is
  entered,          \* what the keys say was entered last
  pushed,           \* what PushInputAsCommand was given last
  touched,          \* FALSE until the first key
  overwritten,      \* TRUE iff the line was full since the last enter
  spoilt            \* TRUE once a last line that was overwritten was recalled

counts == <<inputCount, lastInputCount>>
history == <<typed, entered, pushed, touched, overwritten, spoilt>>
vars == <<memory, counts, aborted, history>>

Last == MaxInput + 1    \* where m_lastInputArr begins

Init ==
  /\ memory \in [1..(2 * MaxInput) -> {Junk, Nul}]
  /\ inputCount = 0 /\ lastInputCount = 0
  /\ aborted = FALSE
  /\ typed = <<>> /\ entered = <<>> /\ pushed = <<>>
  /\ touched = FALSE /\ overwritten = FALSE /\ spoilt = FALSE

\* The string at p, as std::string and DrawText read it; it ends at the latest with
\* the zero bytes of the counters behind the arrays.
TextAt(p) ==
  SubSeq(memory, p, Min({i \in p..(2 * MaxInput) : memory[i] = Nul} \cup {2 * MaxInput + 1}) - 1)

\* strncpy_s of at most n characters: how many it copies from the string at p, whether
\* they fit in an array with the terminator, and the memory afterwards.
Copied(p, n) == Min({n, Len(TextAt(p))})
Fits(p, n) == Copied(p, n) < MaxInput
CopyTo(to, p, n) ==
  [i \in 1..(2 * MaxInput) |->
     CASE i - to \in 0..(Copied(p, n) - 1) -> memory[p + (i - to)]
       [] i - to = Copied(p, n)            -> Nul
       [] OTHER                            -> memory[i]]

-----------------------------------------------------------------------------
(* Keys.                                                                   *)

\* A character, if there is room; the terminator is written after it.
KeyChar(c) ==
  /\ ~aborted
  /\ inputCount < MaxInput
  /\ memory' = [memory EXCEPT ![inputCount + 1] = c, ![inputCount + 2] = Nul]
  /\ inputCount' = inputCount + 1
  /\ typed' = Append(typed, c)
  /\ touched' = TRUE
  /\ overwritten' = (overwritten \/ inputCount' = MaxInput)
  /\ UNCHANGED <<lastInputCount, aborted, entered, pushed, spoilt>>

KeyBackspace ==
  /\ ~aborted
  /\ inputCount' = IF inputCount = 0 THEN 0 ELSE inputCount - 1
  /\ memory' = [memory EXCEPT ![inputCount' + 1] = Nul]
  /\ typed' = SubSeq(typed, 1, Len(typed) - 1)
  /\ touched' = TRUE
  /\ UNCHANGED <<lastInputCount, aborted, entered, pushed, overwritten, spoilt>>

\* Mutant: the whole array is copied, whatever the count.
KeyEnterWhole ==
  /\ ~aborted
  /\ lastInputCount' = inputCount
  /\ IF Fits(1, MaxInput)
     THEN /\ memory' = [CopyTo(Last, 1, MaxInput) EXCEPT ![1] = Nul]
          /\ inputCount' = 0
          /\ pushed' = TextAt(1)
          /\ entered' = typed /\ typed' = <<>>
          /\ touched' = TRUE
          /\ overwritten' = FALSE
          /\ UNCHANGED <<aborted, spoilt>>
     ELSE /\ aborted' = TRUE
          /\ UNCHANGED <<memory, inputCount, history>>

\* Mutant: the line is emptied before it is kept.
KeyEnterEmptiesFirst ==
  /\ ~aborted
  /\ lastInputCount' = inputCount
  /\ memory' = [memory EXCEPT ![1] = Nul, ![Last] = Nul]
  /\ inputCount' = 0
  /\ pushed' = TextAt(1)
  /\ entered' = typed /\ typed' = <<>>
  /\ touched' = TRUE
  /\ overwritten' = FALSE
  /\ UNCHANGED <<aborted, spoilt>>

\* The line is kept as the last one, pushed as a command, and emptied.
KeyEnter ==
  /\ ~aborted
  /\ lastInputCount' = inputCount
  /\ IF Fits(1, inputCount)
     THEN /\ memory' = [CopyTo(Last, 1, inputCount) EXCEPT ![1] = Nul]
          /\ inputCount' = 0
          /\ pushed' = TextAt(1)
          /\ entered' = typed /\ typed' = <<>>
          /\ touched' = TRUE
          /\ overwritten' = FALSE
          /\ UNCHANGED <<aborted, spoilt>>
     ELSE /\ aborted' = TRUE
          /\ UNCHANGED <<memory, inputCount, history>>

\* The last line is put in the place of the present one.
KeyUp ==
  /\ ~aborted
  /\ inputCount' = lastInputCount
  /\ IF Fits(Last, lastInputCount)
     THEN /\ memory' = CopyTo(1, Last, lastInputCount)
          /\ typed' = entered
          /\ touched' = TRUE
          /\ spoilt' = (spoilt \/ Copied(Last, lastInputCount) < lastInputCount)
          /\ UNCHANGED <<aborted, entered, pushed, overwritten>>
     ELSE /\ aborted' = TRUE
          /\ UNCHANGED <<memory, history>>
  /\ UNCHANGED lastInputCount

Aborted == aborted /\ UNCHANGED vars

Next ==
  \/ \E c \in Letter : KeyChar(c)
  \/ KeyBackspace \/ KeyEnter \/ KeyUp
  \/ Aborted

Spec == Init /\ [][Next]_vars

-----------------------------------------------------------------------------
(* Properties.                                                             *)

\* From the first key on, the string in m_inputArr, which is drawn and pushed, is the
\* line typed and as long as m_inputCount says, until a last line is recalled that a
\* full line had overwritten.
\* The line entered is the command pushed, and remains what up recalls until a line
\* becomes full.
LinesAreTyped ==
  touched /\ ~spoilt =>
    /\ TextAt(1) = typed /\ inputCount = Len(typed)
    /\ entered # <<>> => pushed = entered
    /\ lastInputCount = Len(entered) \/ aborted
    /\ \/ overwritten
       \/ /\ Copied(Last, lastInputCount) = Len(entered)
          /\ SubSeq(TextAt(Last), 1, Len(entered)) = entered

\* strncpy_s ends the program only for a full line that is entered: a line that is
\* recalled always fits, whatever has become of m_lastInputArr.
OnlyFullLinesAbort ==
  /\ aborted => inputCount = MaxInput /\ lastInputCount = MaxInput
  /\ ~aborted => Fits(Last, lastInputCount)
=============================================================================

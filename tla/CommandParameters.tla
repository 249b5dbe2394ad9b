-------------------------- MODULE CommandParameters --------------------------
(***************************************************************************)
(* From a line of input to what a command makes of it: GetNextCommand      *)
(* trims the line, ParseCommand takes it apart into the command and its    *)
(* parameters, ParseCommandParameters turns these into an array of         *)
(* pointers into one buffer, and /kick walks along the array.              *)
(*                                                                         *)
(* A character is a blank, a quote, a letter, or a word that matters       *)
(* written as one character: Id stands for "-id", User for "-user".  Digit *)
(* is any digit.  White space other than the blank, and the sign of a      *)
(* number, are left out.                                                   *)
(*                                                                         *)
(* `raw` is the buffer rawParams, from 1, with its terminator; a pointer   *)
(* is a place in it, and 0 the null pointer.  SplitLine writes terminators *)
(* into the buffer while `next` walks through it, so a token is what the   *)
(* buffer holds from a pointer to the next terminator.                     *)
(***************************************************************************)
EXTENDS Integers, Sequences, FiniteSets, FiniteSetsExt, SequencesExt

CONSTANTS
  Blank, Quote,     \* ' ' and '"'
  Id, User, Digit,  \* "-id", "-user" and a digit
  Letter,           \* other characters
  Kept,             \* '\1', a blank inside quotes
  Nul,              \* '\0'
  MaxLine,          \* bound on the length of a line
  MaxArgs,          \* maxArgs
  MaxDigits         \* the digits of the largest unsigned long: 20, or 10

Char == {Blank, Quote, Id, User, Digit} \cup Letter

ASSUME CharAssumption ==
  LET special == <<Blank, Quote, Id, User, Digit, Kept, Nul>>
  IN  /\ \A i, j \in 1..7 : special[i] = special[j] => i = j
      /\ \A i \in 1..7 : special[i] \notin Letter
ASSUME BoundAssumption ==
  MaxLine \in Nat /\ MaxArgs \in Nat \ {0, 1} /\ MaxDigits \in Nat \ {0}

VARIABLES
  pc,           \* which function runs next; "null": a null pointer was used
  line,         \* the line typed, then the trimmed one
  command,      \* what ParseCommand gives
  params,       \* likewise
  raw,          \* the buffer rawParams
  next,         \* where ParseCommandParameters goes on splitting
  args,         \* the pointers in outArray, as many as outCount
  arg           \* the place in args at which /kick is

vars == <<pc, line, command, params, raw, next, args, arg>>

Init ==
  /\ pc = "type"
  /\ line = <<>> /\ command = <<>> /\ params = <<>>
  /\ raw = <<>> /\ next = 0 /\ args = <<>> /\ arg = 1

Type(c) ==
  /\ pc = "type"
  /\ Len(line) < MaxLine
  /\ line' = Append(line, c)
  /\ UNCHANGED <<pc, command, params, raw, next, args, arg>>

\* A string without the blanks on either side.
Trimmed(s) ==
  LET inner == {i \in 1..Len(s) : s[i] # Blank}
  IN  IF inner = {} THEN <<>> ELSE SubSeq(s, Min(inner), Max(inner))

\* Mutant: a blank line is a command too.
GetNextCommandBlank ==
  /\ pc = "type"
  /\ line' = Trimmed(line)
  /\ pc' = "parse"
  /\ UNCHANGED <<command, params, raw, next, args, arg>>

\* The line is trimmed; one that is blank is no command.
GetNextCommand ==
  /\ pc = "type"
  /\ line' = Trimmed(line)
  /\ pc' = IF line' = <<>> THEN "done" ELSE "parse"
  /\ UNCHANGED <<command, params, raw, next, args, arg>>

\* strtok_s gives what lies before the next blank, or the null pointer, and then the
\* rest; the handler of a command without parameters returns at once.
ParseCommand ==
  /\ pc = "parse"
  /\ LET start == Min({i \in 1..Len(line) : line[i] # Blank} \cup {Len(line) + 1})
         end == Min({i \in start..Len(line) : line[i] = Blank} \cup {Len(line) + 1})
     IN  /\ command' = SubSeq(line, start, end - 1)
         /\ params' = Trimmed(SubSeq(line, end + 1, Len(line)))
  /\ pc' = CASE command' = <<>>                       -> "null"
             [] command' # <<>> /\ params' = <<>>     -> "done"
             [] OTHER                                 -> "unquote"
  /\ UNCHANGED <<line, raw, next, args, arg>>

-----------------------------------------------------------------------------
(* ParseCommandParameters.                                                 *)

\* `quoted` after the first i characters.
Quoted ==
  LET quoted[i \in 0..Len(params)] ==
        IF i = 0 THEN FALSE ELSE quoted[i - 1] # (params[i] = Quote)
  IN  quoted

\* Mutant: blanks inside quotes are not kept.
UnquoteSplits ==
  /\ pc = "unquote"
  /\ raw' = Append([i \in 1..Len(params) |-> IF params[i] = Quote THEN Blank ELSE params[i]],
                   Nul)
  /\ next' = 1
  /\ pc' = "trim"
  /\ UNCHANGED <<line, command, params, args, arg>>

\* The parameters are copied; quotes become blanks, blanks inside them are kept.
Unquote ==
  /\ pc = "unquote"
  /\ raw' = Append([i \in 1..Len(params) |->
                      CASE params[i] = Quote                       -> Blank
                        [] params[i] = Blank /\ Quoted[i - 1]      -> Kept
                        [] OTHER                                   -> params[i]], Nul)
  /\ next' = 1
  /\ pc' = "trim"
  /\ UNCHANGED <<line, command, params, args, arg>>

\* The place of the terminator of the string at p, and the string.
EndOf(p) == Min({i \in p..Len(raw) : raw[i] = Nul})
TextAt(p) == SubSeq(raw, p, EndOf(p) - 1)

\* Trim: rawParams, and with it outArray[0], moves past the blanks; `next` does not.
TrimParameters ==
  /\ pc = "trim"
  /\ LET first == Min({i \in 1..Len(raw) : raw[i] # Blank})
         last == Max({i \in first..(Len(raw) - 1) : raw[i] # Blank} \cup {first - 1})
     IN  /\ raw' = [raw EXCEPT ![last + 1] = Nul]
         /\ args' = <<first>>
  /\ pc' = "split"
  /\ UNCHANGED <<line, command, params, next, arg>>

\* The blank that ends the token at next, and the place the next token starts at.
TokenEnd == {i \in next..(EndOf(next) - 1) : raw[i] = Blank}
After(end) == Min({i \in (end + 1)..Len(raw) : raw[i] # Blank})

MoreTokens == next # 0 /\ Len(args) < MaxArgs

\* One turn of the loop, which is SplitLine.
Split ==
  /\ pc = "split"
  /\ MoreTokens
  /\ IF TokenEnd = {}
     THEN next' = 0 /\ UNCHANGED <<raw, args>>
     ELSE LET end == Min(TokenEnd)
              start == After(end)
          IN  /\ raw' = [raw EXCEPT ![end] = Nul]
              /\ IF raw[start] = Nul
                 THEN next' = 0 /\ UNCHANGED args
                 ELSE next' = start /\ args' = Append(args, start)
  /\ UNCHANGED <<pc, line, command, params, arg>>

SplitDone ==
  /\ pc = "split"
  /\ ~MoreTokens
  /\ pc' = "restore"
  /\ UNCHANGED <<line, command, params, raw, next, args, arg>>

\* Kept blanks become blanks again, in every token.
Restore ==
  /\ pc = "restore"
  /\ LET inTokens == UNION {args[i]..(EndOf(args[i]) - 1) : i \in 1..Len(args)}
     IN  raw' = [i \in 1..Len(raw) |-> IF raw[i] = Kept /\ i \in inTokens THEN Blank ELSE raw[i]]
  /\ pc' = "use"
  /\ UNCHANGED <<line, command, params, next, args, arg>>

-----------------------------------------------------------------------------
(* DoKickCommand.                                                          *)

Tokens == [i \in 1..Len(args) |-> TextAt(args[i])]

\* Both flags anywhere in the parameters: nothing is done.
KickBoth ==
  /\ pc = "use"
  /\ arg = 1
  /\ Contains(params, Id) /\ Contains(params, User)
  /\ pc' = "done"
  /\ UNCHANGED <<line, command, params, raw, next, args, arg>>

InKick == pc = "use" /\ ~(arg = 1 /\ Contains(params, Id) /\ Contains(params, User))

\* A string begins with n digits, but for blanks before them.
DigitsFirst(s, n) ==
  \E k \in 0..(Len(s) - n) : /\ \A i \in 1..k : s[i] = Blank
                             /\ \A i \in (k + 1)..(k + n) : s[i] = Digit

\* std::stoul: without a digit it throws invalid_argument.  Whether it throws
\* out_of_range for as many digits as an unsigned long can have, or more, depends on
\* which they are.
AfterStoul(s) ==
  CASE ~DigitsFirst(s, 1)        -> {"thrown"}
    [] DigitsFirst(s, MaxDigits) -> {"use", "thrown"}
    [] OTHER                     -> {"use"}

\* Mutant: the token after -id is taken whether or not there is one.
KickIdUnchecked ==
  /\ InKick /\ arg <= Len(args)
  /\ Tokens[arg] = <<Id>>
  /\ arg' = arg + 2
  /\ pc' \in AfterStoul(IF arg < Len(args) THEN Tokens[arg + 1] ELSE <<>>)
  /\ UNCHANGED <<line, command, params, raw, next, args>>

\* -id and the token after it.
KickId ==
  /\ InKick /\ arg <= Len(args)
  /\ Tokens[arg] = <<Id>>
  /\ arg' = arg + 2
  /\ pc' \in IF arg < Len(args) THEN AfterStoul(Tokens[arg + 1]) ELSE {"use"}
  /\ UNCHANGED <<line, command, params, raw, next, args>>

\* -user and a name, or something unknown.
KickOther ==
  /\ InKick /\ arg <= Len(args)
  /\ Tokens[arg] # <<Id>>
  /\ arg' = IF Tokens[arg] = <<User>> THEN arg + 2 ELSE arg + 1
  /\ UNCHANGED <<pc, line, command, params, raw, next, args>>

KickDone ==
  /\ InKick /\ arg > Len(args)
  /\ pc' = "done"
  /\ UNCHANGED <<line, command, params, raw, next, args, arg>>

Finished == pc \in {"done", "null", "thrown"} /\ UNCHANGED vars

Next ==
  \/ \E c \in Char : Type(c)
  \/ GetNextCommand \/ ParseCommand
  \/ Unquote \/ TrimParameters \/ Split \/ SplitDone \/ Restore
  \/ KickBoth \/ KickId \/ KickOther \/ KickDone
  \/ Finished

Spec == Init /\ [][Next]_vars

-----------------------------------------------------------------------------
(* What was typed, read without a buffer.                                  *)

\* A place inside quotes, and one that belongs to a word.
InQuotes(i) == Cardinality({j \in 1..i : params[j] = Quote}) % 2 = 1
InWord(i) == params[i] # Quote /\ (params[i] = Blank => InQuotes(i))
WordPlaces == {i \in 1..Len(params) : InWord(i)}

\* The words are the longest stretches of places that belong to words.
WordStarts == {i \in WordPlaces : i - 1 \notin WordPlaces}
WordEnd(i) == Max({j \in i..Len(params) : i..j \subseteq WordPlaces})
Word(i) == SubSeq(params, i, WordEnd(i))

\* One word starts at i and the next one at j.
Consecutive(i, j) ==
  /\ i \in WordStarts /\ j \in WordStarts
  /\ i < j
  /\ \A k \in WordStarts : k <= i \/ j <= k

\* The words from i on, with blanks where quotes are.
WordsFrom(i) ==
  SubSeq([k \in 1..Len(params) |-> IF params[k] = Quote THEN Blank ELSE params[k]],
         i, Max(WordPlaces))

-----------------------------------------------------------------------------
(* Properties.                                                             *)

\* ParseCommand: strtok_s finds a command, so that std::string is not made from a
\* null pointer, and nothing but blanks lies between it and the parameters.
CommandAndRest ==
  /\ pc # "null"
  /\ command # <<>> =>
       /\ \A i \in 1..Len(command) : command[i] # Blank
       /\ \E n \in 0..Len(line) : line = command \o [i \in 1..n |-> Blank] \o params

\* ParseCommandParameters: a pointer for every word, in order, as many as the array
\* holds; the token there is the word, blanks inside quotes kept, or in the last place of
\* a full array all that is left.  Parameters that begin with a quote have their first word
\* twice; parameters without a word are one empty token.
TokensAreWords ==
  pc = "use" =>
    LET last == Len(args)
        twice == params[1] = Quote
    IN  IF WordPlaces = {}
        THEN Tokens = << <<>> >>
        ELSE /\ args[1] = Min(WordStarts)
             /\ twice => last > 1 /\ args[2] = args[1]
             /\ \A i \in 1..(last - 1) : (twice /\ i = 1) \/ Consecutive(args[i], args[i + 1])
             /\ last < MaxArgs => args[last] = Max(WordStarts)
             /\ \A i \in 1..last :
                  Tokens[i] = IF last = MaxArgs /\ args[i] = args[last]
                              THEN WordsFrom(args[i]) ELSE Word(args[i])

\* /kick: the exceptions of std::stoul, which nothing catches, need a -id that is
\* followed by a word which is no number, or a number as long as the largest unsigned
\* long; or a -id in quotes before everything else.
OnlyBadIdsThrow ==
  pc = "thrown" =>
    \/ \E i, j \in WordStarts :
         /\ Consecutive(i, j)
         /\ Word(i) = <<Id>>
         /\ ~DigitsFirst(Word(j), 1) \/ DigitsFirst(Word(j), MaxDigits)
    \/ params[1] = Quote /\ Word(Min(WordStarts)) = <<Id>>
=============================================================================

----------------------- MODULE CommandParametersProofs -----------------------
(***************************************************************************)
(* Proofs about CommandParameters, for any set of letters, lines of any    *)
(* length and arrays of any size: every line that is not blank has a       *)
(* command, and what lies between it and the parameters is blank; the      *)
(* pointers SplitLine finds are those of the words, one after the other;   *)
(* what makes /kick throw.                                                 *)
(*                                                                         *)
(* strtok_s skips blanks before the command, and gives a null pointer when *)
(* there is nothing else.  Neither happens because the line was trimmed    *)
(* before (Tight): it starts with the command, and ends with a character   *)
(* of the command or of the parameters.                                    *)
(*                                                                         *)
(* The buffer and the parameters have the same places.  A place that       *)
(* belongs to a word keeps what Unquote put there (Held) until Restore; at *)
(* the others there are blanks and the terminators of words that are cut   *)
(* off (BufferInv, CutInv).  So the next character that is no blank is the *)
(* start of the next word (NextWord), and when there is none the word is   *)
(* the last one (LastWord).                                                *)
(***************************************************************************)
EXTENDS CommandParameters, NaturalFacts, SequenceTheorems

-----------------------------------------------------------------------------
(* Trimming.                                                               *)

\* A string that is empty or has no blank on either side.
Tight(s) == s = <<>> \/ (s[1] # Blank /\ s[Len(s)] # Blank)

\* What lies between two places of a sequence.
LEMMA BetweenIs ==
  ASSUME NEW S, NEW q \in Seq(S), NEW m \in 1..(Len(q) + 1), NEW n \in 0..Len(q), m <= n + 1
  PROVE  /\ SubSeq(q, m, n) \in Seq(S) /\ Len(SubSeq(q, m, n)) = n - m + 1
         /\ \A k \in 1..(n - m + 1) : SubSeq(q, m, n)[k] = q[m + k - 1]
<1>1. \A k \in m..n : q[k] \in S
  OBVIOUS
<1> QED
  BY <1>1, SubSeqProperties

\* A string with something in it is cut at its first and its last character that is none.
LEMMA TrimmedIs ==
  ASSUME NEW s \in Seq(Char), NEW i \in 1..Len(s), s[i] # Blank
  PROVE  \E m, n \in 1..Len(s) :
           /\ m <= n /\ s[m] # Blank /\ s[n] # Blank
           /\ \A k \in 1..Len(s) : k < m \/ k > n => s[k] = Blank
           /\ Trimmed(s) = SubSeq(s, m, n)
<1> DEFINE inner == {k \in 1..Len(s) : s[k] # Blank}
<1>1. inner \subseteq 0..Len(s) /\ inner \subseteq Nat /\ inner # {} /\ Len(s) \in Nat
  OBVIOUS
<1>2. Trimmed(s) = SubSeq(s, Min(inner), Max(inner))
  BY <1>1 DEF Trimmed
<1>3. \A k \in inner : k \in 1..Len(s) /\ s[k] # Blank
  OBVIOUS
<1>4. \A k \in 1..Len(s) : s[k] # Blank => k \in inner
  OBVIOUS
<1> HIDE DEF inner
<1>5. Min(inner) \in inner /\ \A k \in inner : Min(inner) <= k
  BY <1>1, MinIn
<1>6. Max(inner) \in inner /\ \A k \in inner : k <= Max(inner)
  BY <1>1, MaxIn
<1>7. PICK m \in 1..Len(s) : m = Min(inner)
  BY <1>3, <1>5
<1>8. PICK n \in 1..Len(s) : n = Max(inner)
  BY <1>3, <1>6
<1>9. m <= n /\ s[m] # Blank /\ s[n] # Blank
  BY <1>3, <1>5, <1>6, <1>7, <1>8
<1>10. \A k \in 1..Len(s) : k < m \/ k > n => s[k] = Blank
  BY <1>4, <1>5, <1>6, <1>7, <1>8
<1> QED
  BY <1>2, <1>7, <1>8, <1>9, <1>10

\* A string of blanks has nothing left.
LEMMA TrimmedBlank ==
  ASSUME NEW s, \A k \in 1..Len(s) : s[k] = Blank
  PROVE  Trimmed(s) = <<>>
BY DEF Trimmed

\* What is left of a string has no blank on either side.
LEMMA TrimmedTight ==
  ASSUME NEW s \in Seq(Char)
  PROVE  Trimmed(s) \in Seq(Char) /\ Tight(Trimmed(s))
<1>1. CASE \A k \in 1..Len(s) : s[k] = Blank
  <2>1. Trimmed(s) = <<>>
    BY <1>1, TrimmedBlank
  <2> QED
    BY <2>1, EmptySeq DEF Tight
<1>2. ASSUME NEW i \in 1..Len(s), s[i] # Blank
      PROVE  Trimmed(s) \in Seq(Char) /\ Tight(Trimmed(s))
  <2>1. PICK m \in 1..Len(s), n \in 1..Len(s) :
           /\ m <= n /\ s[m] # Blank /\ s[n] # Blank
           /\ \A k \in 1..Len(s) : k < m \/ k > n => s[k] = Blank
           /\ Trimmed(s) = SubSeq(s, m, n)
    BY <1>2, TrimmedIs
  <2>2. Len(s) \in Nat /\ m \in 1..(Len(s) + 1) /\ n \in 0..Len(s) /\ m <= n + 1
    BY <2>1
  <2>3. /\ SubSeq(s, m, n) \in Seq(Char) /\ Len(SubSeq(s, m, n)) = n - m + 1
        /\ \A k \in 1..(n - m + 1) : SubSeq(s, m, n)[k] = s[m + k - 1]
    BY <2>2, BetweenIs
  <2>4. /\ 1 \in 1..(n - m + 1) /\ n - m + 1 \in 1..(n - m + 1)
        /\ m + 1 - 1 = m /\ m + (n - m + 1) - 1 = n
    BY <2>1
  <2> QED
    BY <2>1, <2>3, <2>4 DEF Tight
<1> QED
  BY <1>1, <1>2

-----------------------------------------------------------------------------
(* The command and the rest.                                               *)

\* s consists of a, b and c, place by place.
Consists(s, a, b, c) ==
  /\ Len(s) = Len(a) + Len(b) + Len(c)
  /\ \A k \in 1..Len(a) : s[k] = a[k]
  /\ \A k \in 1..Len(b) : s[Len(a) + k] = b[k]
  /\ \A k \in 1..Len(c) : s[Len(a) + Len(b) + k] = c[k]

\* A string that agrees with three others place by place is their concatenation.
LEMMA ThreeParts ==
  ASSUME NEW S, NEW s \in Seq(S), NEW a \in Seq(S), NEW b \in Seq(S), NEW c \in Seq(S),
         Consists(s, a, b, c)
  PROVE  s = a \o b \o c
<1> USE DEF Consists
<1>1. Len(a) \in Nat /\ Len(b) \in Nat /\ Len(c) \in Nat
  OBVIOUS
<1>2. PICK ab \in Seq(S) : ab = a \o b
  BY ConcatProperties
<1>3. /\ Len(ab) = Len(a) + Len(b)
      /\ \A k \in 1..(Len(a) + Len(b)) : ab[k] = IF k <= Len(a) THEN a[k] ELSE b[k - Len(a)]
  BY <1>2, ConcatProperties
<1>4. PICK abc \in Seq(S) : abc = ab \o c
  BY ConcatProperties
<1>5. /\ Len(abc) = Len(ab) + Len(c)
      /\ \A k \in 1..(Len(ab) + Len(c)) : abc[k] = IF k <= Len(ab) THEN ab[k] ELSE c[k - Len(ab)]
  BY <1>4, ConcatProperties
<1>6. ASSUME NEW k \in 1..Len(s) PROVE s[k] = abc[k]
  <2>1. k \in 1..(Len(ab) + Len(c)) /\ k \in Nat
    BY <1>1, <1>3
  <2>2. CASE k <= Len(a)
    <3>1. k \in 1..Len(a) /\ k \in 1..(Len(a) + Len(b)) /\ k <= Len(ab)
      BY <1>1, <1>3, <2>1, <2>2
    <3> QED
      BY <1>3, <1>5, <2>1, <2>2, <3>1
  <2>3. CASE ~(k <= Len(a)) /\ k <= Len(ab)
    <3>1. k - Len(a) \in 1..Len(b) /\ k \in 1..(Len(a) + Len(b)) /\ Len(a) + (k - Len(a)) = k
      BY <1>1, <1>3, <2>1, <2>3
    <3>2. s[k] = b[k - Len(a)]
      BY <3>1
    <3> QED
      BY <1>3, <1>5, <2>1, <2>3, <3>1, <3>2
  <2>4. CASE ~(k <= Len(ab))
    <3>1. k - Len(ab) \in 1..Len(c) /\ Len(a) + Len(b) + (k - Len(ab)) = k
      BY <1>1, <1>3, <2>1, <2>4
    <3>2. s[k] = c[k - Len(ab)]
      BY <3>1
    <3> QED
      BY <1>5, <2>1, <2>4, <3>2
  <2> QED
    BY <1>3, <2>2, <2>3, <2>4
<1>7. Len(abc) = Len(s)
  BY <1>3, <1>5
<1> QED
  BY <1>2, <1>4, <1>6, <1>7

\* A string of blanks.
LEMMA BlanksAre ==
  ASSUME NEW n \in Nat
  PROVE  /\ [k \in 1..n |-> Blank] \in Seq(Char)
         /\ Len([k \in 1..n |-> Blank]) = n
         /\ \A k \in 1..n : [j \in 1..n |-> Blank][k] = Blank
<1>1. Blank \in Char
  BY DEF Char
<1> QED
  BY <1>1

\* What ParseCommand has found makes up the line, but for the blanks between the two.
Between ==
  command # <<>> =>
    /\ \A i \in 1..Len(command) : command[i] # Blank
    /\ \E n \in 0..Len(line) : line = command \o [i \in 1..n |-> Blank] \o params

CommandInv ==
  /\ line \in Seq(Char)
  /\ pc # "null"
  /\ pc \in {"type", "parse"} => command = <<>>
  /\ pc = "parse" => line # <<>> /\ Tight(line)
  /\ Between

\* The command ends where the first blank is.
LEMMA ParseKeeps == CommandInv /\ ParseCommand => CommandInv'
<1> SUFFICES ASSUME CommandInv, ParseCommand PROVE CommandInv'
  OBVIOUS
<1>1. PICK s \in Seq(Char) : s = line
  BY DEF CommandInv
<1>2. s # <<>> /\ s[1] # Blank /\ s[Len(s)] # Blank
  BY <1>1 DEF CommandInv, ParseCommand, Tight
<1>3. PICK l \in Nat \ {0} : l = Len(s)
  BY <1>2, EmptySeq
<1>4. Min({i \in 1..Len(s) : s[i] # Blank} \cup {Len(s) + 1}) = 1
  <2> DEFINE starts == {i \in 1..Len(s) : s[i] # Blank} \cup {Len(s) + 1}
  <2>1. starts \subseteq Nat /\ 1 \in starts /\ \A y \in starts : 1 <= y
    BY <1>2, <1>3
  <2> HIDE DEF starts
  <2>2. Min(starts) = 1
    BY <2>1, MinIs
  <2> QED
    BY <2>2 DEF starts
<1> DEFINE ends == {i \in 1..Len(s) : s[i] = Blank} \cup {Len(s) + 1}
<1>5. PICK e \in 2..(l + 1) :
        /\ e = Min(ends)
        /\ e = l + 1 \/ s[e] = Blank
        /\ \A k \in 1..(e - 1) : s[k] # Blank
  <2>1. ends \subseteq Nat /\ ends # {} /\ \A k \in ends : k \in 2..(l + 1)
    BY <1>2, <1>3
  <2>2. \A k \in ends : k = l + 1 \/ s[k] = Blank
    BY <1>3
  <2>3. \A k \in 1..l : s[k] = Blank => k \in ends
    BY <1>3
  <2> HIDE DEF ends
  <2>4. Min(ends) \in ends /\ \A k \in ends : Min(ends) <= k
    BY <2>1, MinIn
  <2>5. PICK e \in 2..(l + 1) : e = Min(ends)
    BY <2>1, <2>4
  <2>6. \A k \in 1..(e - 1) : s[k] # Blank
    <3>1. \A k \in 1..(e - 1) : k \in 1..l /\ ~(e <= k)
      BY <1>3
    <3> QED
      BY <2>3, <2>4, <2>5, <3>1
  <2> QED
    BY <2>2, <2>4, <2>5, <2>6
<1>6. /\ command' = SubSeq(s, 1, e - 1)
      /\ params' = Trimmed(SubSeq(s, e + 1, l))
      /\ line' = line /\ pc' \notin {"type", "parse"}
      /\ command' # <<>> => pc' # "null"
  BY <1>1, <1>3, <1>4, <1>5 DEF ParseCommand
<1>7. PICK first \in Seq(Char) :
        /\ first = command' /\ Len(first) = e - 1
        /\ \A k \in 1..(e - 1) : first[k] = s[k]
  <2>1. 1 \in 1..(Len(s) + 1) /\ e - 1 \in 0..Len(s) /\ 1 <= (e - 1) + 1 /\ (e - 1) - 1 + 1 = e - 1
    BY <1>3
  <2>2. /\ SubSeq(s, 1, e - 1) \in Seq(Char) /\ Len(SubSeq(s, 1, e - 1)) = (e - 1) - 1 + 1
        /\ \A k \in 1..((e - 1) - 1 + 1) : SubSeq(s, 1, e - 1)[k] = s[1 + k - 1]
    BY <2>1, BetweenIs
  <2>3. \A k \in 1..(e - 1) : 1 + k - 1 = k
    OBVIOUS
  <2> QED
    BY <1>6, <2>1, <2>2, <2>3
<1>8. first # <<>> /\ \A k \in 1..Len(first) : first[k] # Blank
  <2>1. Len(first) # 0
    BY <1>7
  <2> QED
    BY <1>5, <1>7, <2>1, EmptySeq
<1>9. \E n \in 0..Len(s) : s = first \o [i \in 1..n |-> Blank] \o params'
  <2>1. CASE e = l + 1
    <3>1. params' = <<>>
      <4>1. Len(SubSeq(s, e + 1, l)) = 0
        BY <2>1, SubSeqProperties
      <4>2. \A k \in 1..Len(SubSeq(s, e + 1, l)) : SubSeq(s, e + 1, l)[k] = Blank
        BY <4>1
      <4> QED
        BY <1>6, <4>2, TrimmedBlank
    <3>2. PICK none \in Seq(Char) : none = [i \in 1..0 |-> Blank] /\ Len(none) = 0
      <4>1. /\ [k \in 1..0 |-> Blank] \in Seq(Char)
            /\ Len([k \in 1..0 |-> Blank]) = 0
        BY BlanksAre
      <4> QED
        BY <4>1
    <3>3. PICK nil \in Seq(Char) : nil = <<>> /\ Len(nil) = 0
      BY EmptySeq
    <3>4. Len(s) = Len(first) + Len(none) + Len(nil)
      BY <1>3, <1>7, <2>1, <3>2, <3>3
    <3>5. Consists(s, first, none, nil)
      BY <1>7, <3>2, <3>3, <3>4 DEF Consists
    <3>6. s = first \o none \o nil
      BY <3>5, ThreeParts
    <3>7. 0 \in 0..Len(s)
      BY <1>3
    <3> QED
      BY <3>1, <3>2, <3>3, <3>6, <3>7
  <2>2. CASE e # l + 1
    <3>1. e \in 2..(l - 1) /\ s[e] = Blank
      BY <1>2, <1>3, <1>5, <2>2
    <3>2. PICK rest \in Seq(Char) :
            /\ rest = SubSeq(s, e + 1, l) /\ Len(rest) = l - e
            /\ \A k \in 1..(l - e) : rest[k] = s[e + k]
      <4>1. /\ e + 1 \in 1..(Len(s) + 1) /\ l \in 0..Len(s) /\ e + 1 <= l + 1
            /\ l - (e + 1) + 1 = l - e
        BY <1>3, <3>1
      <4>2. /\ SubSeq(s, e + 1, l) \in Seq(Char) /\ Len(SubSeq(s, e + 1, l)) = l - (e + 1) + 1
            /\ \A k \in 1..(l - (e + 1) + 1) : SubSeq(s, e + 1, l)[k] = s[(e + 1) + k - 1]
        BY <4>1, BetweenIs
      <4> DEFINE part == SubSeq(s, e + 1, l)
      <4>3. part \in Seq(Char) /\ Len(part) = l - e
        BY <4>1, <4>2
      <4>4. ASSUME NEW k \in 1..(l - e) PROVE part[k] = s[e + k]
        <5>1. k \in 1..(l - (e + 1) + 1)
          BY <4>1
        <5>2. (e + 1) + k - 1 = e + k
          OBVIOUS
        <5> QED
          BY <4>2, <5>1, <5>2
      <4> HIDE DEF part
      <4>5. \E rest \in Seq(Char) : /\ rest = part /\ Len(rest) = l - e
                                   /\ \A k \in 1..(l - e) : rest[k] = s[e + k]
        BY <4>3, <4>4
      <4> QED
        BY <4>5 DEF part
    <3>3. l - e \in 1..Len(rest) /\ rest[l - e] # Blank
      BY <1>2, <1>3, <3>1, <3>2
    <3>4. PICK m \in 1..Len(rest), n \in 1..Len(rest) :
            /\ m <= n /\ rest[m] # Blank /\ rest[n] # Blank
            /\ \A k \in 1..Len(rest) : k < m \/ k > n => rest[k] = Blank
            /\ Trimmed(rest) = SubSeq(rest, m, n)
      BY <3>3, TrimmedIs
    <3>5. /\ n = l - e /\ n \in Nat /\ m \in Nat /\ m <= l - e
          /\ \A k \in 1..(m - 1) : k \in 1..(l - e) /\ rest[k] = Blank
      <4>1. Len(rest) = l - e /\ l - e \in Nat /\ m \in 1..(l - e) /\ n \in 1..(l - e)
        BY <3>1, <3>2
      <4>2. ~(l - e > n)
        BY <3>3, <3>4
      <4>3. \A k \in 1..(m - 1) : k \in 1..(l - e) /\ k < m
        BY <4>1
      <4> QED
        BY <3>4, <4>1, <4>2, <4>3
    <3>6. PICK last \in Seq(Char) :
            /\ last = params' /\ Len(last) = l - e - m + 1
            /\ \A k \in 1..(l - e - m + 1) : last[k] = rest[m + k - 1]
      <4>1. m \in 1..(Len(rest) + 1) /\ n \in 0..Len(rest) /\ m <= n + 1
        BY <3>2, <3>4
      <4>2. /\ SubSeq(rest, m, n) \in Seq(Char) /\ Len(SubSeq(rest, m, n)) = n - m + 1
            /\ \A k \in 1..(n - m + 1) : SubSeq(rest, m, n)[k] = rest[m + k - 1]
        BY <4>1, BetweenIs
      <4> QED
        BY <1>6, <3>2, <3>4, <3>5, <4>2
    <3>7. PICK blanks \in Seq(Char) :
            /\ blanks = [i \in 1..m |-> Blank] /\ Len(blanks) = m
            /\ \A k \in 1..m : blanks[k] = Blank
      <4>1. /\ [k \in 1..m |-> Blank] \in Seq(Char)
            /\ Len([k \in 1..m |-> Blank]) = m
            /\ \A k \in 1..m : [j \in 1..m |-> Blank][k] = Blank
        BY <3>5, BlanksAre
      <4> QED
        BY <4>1
    <3>8. Len(s) = Len(first) + Len(blanks) + Len(last)
      <4>1. l = (e - 1) + m + (l - e - m + 1)
        BY <3>5
      <4> QED
        BY <1>3, <1>7, <3>6, <3>7, <4>1
    <3>9. ASSUME NEW k \in 1..Len(blanks) PROVE s[Len(first) + k] = blanks[k]
      <4>1. blanks[k] = Blank /\ Len(first) + k = (e - 1) + k
        BY <1>7, <3>7
      <4>2. CASE k = 1
        BY <3>1, <4>1, <4>2
      <4>3. CASE k # 1
        <5>1. k - 1 \in 1..(m - 1)
          BY <3>5, <3>7, <4>3
        <5>2. rest[k - 1] = Blank /\ rest[k - 1] = s[e + (k - 1)]
          BY <3>2, <3>5, <5>1
        <5>3. e + (k - 1) = (e - 1) + k
          OBVIOUS
        <5> QED
          BY <4>1, <5>2, <5>3
      <4> QED
        BY <4>2, <4>3
    <3>10. ASSUME NEW k \in 1..Len(last) PROVE s[Len(first) + Len(blanks) + k] = last[k]
      <4>1. m + k - 1 \in 1..(l - e) /\ k \in 1..(l - e - m + 1)
        BY <3>2, <3>6
      <4>2. last[k] = s[e + (m + k - 1)]
        BY <3>2, <3>6, <4>1
      <4>3. Len(first) + Len(blanks) + k = e + (m + k - 1)
        BY <1>7, <3>7
      <4> QED
        BY <4>2, <4>3
    <3>11. \A k \in 1..Len(first) : s[k] = first[k]
      BY <1>7
    <3>12. s = first \o blanks \o last
      <4>1. \A k \in 1..Len(blanks) : s[Len(first) + k] = blanks[k]
        BY <3>9
      <4>2. \A k \in 1..Len(last) : s[Len(first) + Len(blanks) + k] = last[k]
        BY <3>10
      <4>3. Consists(s, first, blanks, last)
        BY <3>8, <3>11, <4>1, <4>2 DEF Consists
      <4> QED
        BY <4>3, ThreeParts
    <3>13. m \in 0..Len(s)
      BY <1>3, <3>1, <3>2
    <3> QED
      BY <3>6, <3>7, <3>12, <3>13
  <2> QED
    BY <2>1, <2>2
<1> QED
  BY <1>1, <1>6, <1>7, <1>8, <1>9 DEF CommandInv, Between

\* ParseCommand: strtok_s finds a command in every line that GetNextCommand lets through,
\* and nothing but blanks lies between the command and its parameters, for any line.
THEOREM CommandCorrect == Spec => []CommandAndRest
<1>1. Init => CommandInv
  BY EmptySeq DEF Init, CommandInv, Between
<1>2. CommandInv /\ [Next]_vars => CommandInv'
  <2> SUFFICES ASSUME CommandInv, [Next]_vars PROVE CommandInv'
    OBVIOUS
  <2>1. ASSUME NEW c \in Char, Type(c) PROVE CommandInv'
    <3>1. line' \in Seq(Char)
      BY <2>1, AppendProperties DEF Type, CommandInv
    <3> QED
      BY <2>1, <3>1 DEF Type, CommandInv, Between
  <2>2. CASE GetNextCommand
    <3>1. line' \in Seq(Char) /\ Tight(line)'
      BY <2>2, TrimmedTight DEF GetNextCommand, CommandInv, Tight
    <3> QED
      BY <2>2, <3>1 DEF GetNextCommand, CommandInv, Between
  <2>3. ASSUME UNCHANGED <<line, command, params>>, pc' \notin {"type", "parse", "null"} \/ pc' = pc
        PROVE  CommandInv'
    BY <2>3 DEF CommandInv, Between, Tight
  <2>4. CASE Unquote \/ TrimParameters \/ Split \/ SplitDone \/ Restore
    BY <2>3, <2>4 DEF Unquote, TrimParameters, Split, SplitDone, Restore
  <2>5. CASE KickBoth \/ KickId \/ KickOther \/ KickDone \/ Finished \/ UNCHANGED vars
    BY <2>3, <2>5 DEF KickBoth, KickId, KickOther, KickDone, Finished, InKick, vars,
                      AfterStoul
  <2> QED
    BY <2>1, <2>2, <2>4, <2>5, ParseKeeps DEF Next
<1>3. CommandInv => CommandAndRest
  BY DEF CommandInv, Between, CommandAndRest
<1> QED
  BY <1>1, <1>2, <1>3, PTL DEF Spec

\* What raw holds.
Cell == Char \cup {Kept, Nul}

\* The characters that play a part differ from each other; two are in no line.
LEMMA CellsDiffer ==
  /\ Blank # Quote /\ Blank # Kept /\ Blank # Nul /\ Kept # Nul /\ Digit # Blank
  /\ {Blank, Quote, Id} \subseteq Char /\ Kept \notin Char /\ Nul \notin Char
<1> DEFINE special == <<Blank, Quote, Id, User, Digit, Kept, Nul>>
<1>1. /\ \A i, j \in 1..7 : special[i] = special[j] => i = j
      /\ \A i \in 1..7 : special[i] \notin Letter
  BY CharAssumption
<1>2. /\ special[1] = Blank /\ special[2] = Quote /\ special[3] = Id /\ special[4] = User
      /\ special[5] = Digit /\ special[6] = Kept /\ special[7] = Nul
  OBVIOUS
<1> HIDE DEF special
<1>3. 1 \in 1..7 /\ 2 \in 1..7 /\ 3 \in 1..7 /\ 4 \in 1..7 /\ 5 \in 1..7 /\ 6 \in 1..7 /\ 7 \in 1..7
  OBVIOUS
<1>4. Blank # Quote /\ Blank # Kept /\ Blank # Nul /\ Kept # Nul /\ Digit # Blank
  BY <1>1, <1>2, <1>3
<1>5. /\ Kept \notin {Blank, Quote, Id, User, Digit} /\ Kept \notin Letter
      /\ Nul \notin {Blank, Quote, Id, User, Digit} /\ Nul \notin Letter
  BY <1>1, <1>2, <1>3
<1> QED
  BY <1>4, <1>5 DEF Char

-----------------------------------------------------------------------------
(* Quotes.                                                                 *)

\* A quote goes in or out of quotes; nothing else does.
LEMMA QuotesTurn ==
  ASSUME params \in Seq(Char)
  PROVE  /\ InQuotes(0) = FALSE
         /\ \A i \in 1..Len(params) :
              /\ InQuotes(i) = (InQuotes(i - 1) # (params[i] = Quote))
              /\ params[i] # Quote => (InQuotes(i) <=> InQuotes(i - 1))
<1> DEFINE Q(i) == {j \in 1..i : params[j] = Quote}
<1>1. InQuotes(0) = FALSE
  <2>1. Q(0) = {}
    OBVIOUS
  <2>2. Cardinality(Q(0)) = 0
    BY <2>1, FS_EmptySet
  <2> QED
    BY <2>2 DEF InQuotes
<1>2. ASSUME NEW i \in 1..Len(params)
      PROVE  /\ InQuotes(i) = (InQuotes(i - 1) # (params[i] = Quote))
             /\ params[i] # Quote => (InQuotes(i) <=> InQuotes(i - 1))
  <2>1. IsFiniteSet(Q(i - 1)) /\ Cardinality(Q(i - 1)) \in Nat
    <3>1. Q(i - 1) \subseteq 1..(i - 1) /\ IsFiniteSet(1..(i - 1))
      BY FS_Interval
    <3> QED
      BY <3>1, FS_Subset, FS_CardinalityType
  <2>2. CASE params[i] = Quote
    <3>1. Q(i) = Q(i - 1) \cup {i} /\ i \notin Q(i - 1)
      BY <2>2
    <3>2. Cardinality(Q(i)) = Cardinality(Q(i - 1)) + 1
      BY <2>1, <3>1, FS_AddElement
    <3>3. PICK c \in Nat : c = Cardinality(Q(i - 1))
      BY <2>1
    <3>4. (c + 1) % 2 = 1 <=> ~(c % 2 = 1)
      OBVIOUS
    <3> QED
      BY <2>2, <3>2, <3>3, <3>4 DEF InQuotes
  <2>3. CASE params[i] # Quote
    <3>1. Q(i) = Q(i - 1)
      BY <2>3
    <3> QED
      BY <2>3, <3>1 DEF InQuotes
  <2> QED
    BY <2>2, <2>3
<1> QED
  BY <1>1, <1>2 DEF InQuotes

\* `quoted` of the loop is what the number of quotes says.
LEMMA QuotedIs ==
  ASSUME params \in Seq(Char)
  PROVE  \A i \in 0..Len(params) : Quoted[i] = InQuotes(i)
<1> DEFINE q == [i \in 0..Len(params) |-> InQuotes(i)]
<1>1. Len(params) \in Nat
  OBVIOUS
<1> DEFINE
    turn == [k \in 1..Len(params) |-> [b \in BOOLEAN |-> b # (params[k] = Quote)]]
<1>2. PICK f : Recurses(f, Len(params), BOOLEAN, FALSE, turn)
  <2>1. turn \in [1..Len(params) -> [BOOLEAN -> BOOLEAN]]
    OBVIOUS
  <2> HIDE DEF turn
  <2> QED
    BY <1>1, <2>1, RecursionExists
<1>3. /\ f \in [0..Len(params) -> BOOLEAN] /\ f[0] = FALSE
      /\ \A k \in 1..Len(params) : f[k] = (f[k - 1] # (params[k] = Quote))
  <2>1. \A k \in 1..Len(params), b \in BOOLEAN : turn[k][b] = (b # (params[k] = Quote))
    OBVIOUS
  <2>2. f \in [0..Len(params) -> BOOLEAN] /\ f[0] = FALSE
    BY <1>2 DEF Recurses
  <2>3. \A k \in 1..Len(params) : f[k] = turn[k][f[k - 1]]
    BY <1>2 DEF Recurses
  <2>4. \A k \in 1..Len(params) : k - 1 \in 0..Len(params)
    BY <1>1
  <2> HIDE DEF turn
  <2> QED
    BY <2>1, <2>2, <2>3, <2>4
<1>4. f = [i \in 0..Len(params) |-> IF i = 0 THEN FALSE ELSE f[i - 1] # (params[i] = Quote)]
  <2>1. \A i \in 0..Len(params) : i = 0 \/ i \in 1..Len(params)
    BY <1>1
  <2>2. \A i \in 0..Len(params) :
          f[i] = IF i = 0 THEN FALSE ELSE f[i - 1] # (params[i] = Quote)
    BY <1>3, <2>1
  <2> QED
    BY <1>3, <2>2
<1>5. Quoted = [i \in 0..Len(params) |->
                  IF i = 0 THEN FALSE ELSE Quoted[i - 1] # (params[i] = Quote)]
  BY <1>4 DEF Quoted
<1>6. /\ Quoted[0] = FALSE
      /\ \A i \in 1..Len(params) : Quoted[i] = (Quoted[i - 1] # (params[i] = Quote))
  <2>1. 0 \in 0..Len(params) /\ \A i \in 1..Len(params) : i \in 0..Len(params) /\ i # 0
    BY <1>1
  <2> QED
    BY <1>5, <2>1
<1> DEFINE T == {i \in 0..Len(params) : Quoted[i] = InQuotes(i)}
<1>7. 0 \in T
  <2>1. Quoted[0] = InQuotes(0)
    BY <1>6, QuotesTurn
  <2>2. 0 \in 0..Len(params)
    BY <1>1
  <2> QED
    BY <2>1, <2>2
<1>8. ASSUME NEW k \in 0..(Len(params) - 1), k \in T PROVE k + 1 \in T
  <2>1. k + 1 \in 1..Len(params) /\ k + 1 \in 0..Len(params) /\ (k + 1) - 1 = k
    BY <1>1
  <2>2. InQuotes(k + 1) = (InQuotes(k) # (params[k + 1] = Quote))
    BY <2>1, QuotesTurn
  <2>3. Quoted[k + 1] = (Quoted[k] # (params[k + 1] = Quote))
    BY <1>6, <2>1
  <2> QED
    BY <1>8, <2>1, <2>2, <2>3
<1>9. 0..Len(params) \subseteq T
  <2> HIDE DEF T
  <2> QED
    BY <1>1, <1>7, <1>8, PlaceByPlace
<1> QED
  BY <1>9

-----------------------------------------------------------------------------
(* Words.                                                                  *)

\* Where the places of words lie.
LEMMA PlacesAre ==
  ASSUME params \in Seq(Char)
  PROVE  /\ Len(params) \in Nat
         /\ WordPlaces \subseteq 1..Len(params) /\ WordPlaces \subseteq 0..Len(params)
         /\ WordStarts \subseteq WordPlaces /\ WordStarts \subseteq Nat
         /\ WordStarts \subseteq 0..Len(params)
BY DEF WordPlaces, WordStarts

\* A word ends before a place that belongs to none, and nowhere else.
LEMMA WordEndIs ==
  ASSUME params \in Seq(Char), NEW i \in WordStarts, NEW j \in Nat, i <= j,
         i..j \subseteq WordPlaces, j + 1 \notin WordPlaces
  PROVE  WordEnd(i) = j
<1> DEFINE T == {k \in i..Len(params) : i..k \subseteq WordPlaces}
<1>1. i \in 1..Len(params) /\ Len(params) \in Nat
  BY PlacesAre
<1>2. j \in i..Len(params) /\ j \in T
  <2>1. j \in i..j
    BY <1>1
  <2>2. j \in 1..Len(params)
    BY <2>1, PlacesAre
  <2> QED
    BY <1>1, <2>2
<1>3. T \subseteq 0..Len(params)
  BY <1>1
<1>4. ASSUME NEW k \in T PROVE k <= j
  <2>1. k \in i..Len(params) /\ i..k \subseteq WordPlaces
    OBVIOUS
  <2>2. j + 1 \notin i..k
    BY <2>1
  <2> QED
    BY <1>1, <2>1, <2>2
<1>5. Max(T) = j
  <2> HIDE DEF T
  <2> QED
    BY <1>1, <1>2, <1>3, <1>4, MaxIs
<1> QED
  BY <1>5 DEF WordEnd

\* The last place of a word belongs to it, with all before it, and the next does not.
LEMMA WordEndIn ==
  ASSUME params \in Seq(Char), NEW i \in WordStarts
  PROVE  /\ WordEnd(i) \in i..Len(params)
         /\ i..WordEnd(i) \subseteq WordPlaces
         /\ WordEnd(i) + 1 \notin WordPlaces
<1> DEFINE T == {k \in i..Len(params) : i..k \subseteq WordPlaces}
<1>1. i \in 1..Len(params) /\ Len(params) \in Nat /\ i \in WordPlaces
  BY PlacesAre
<1>2. i \in T /\ T \subseteq 0..Len(params)
  <2>1. \A k \in i..i : k = i
    BY <1>1
  <2> QED
    BY <1>1, <2>1
<1>3. PICK j \in T : j = Max(T) /\ \A k \in T : k <= j
  <2> HIDE DEF T
  <2> QED
    BY <1>1, <1>2, MaxIn
<1>4. ASSUME j + 1 \in WordPlaces PROVE FALSE
  <2>1. j + 1 \in i..Len(params)
    BY <1>1, <1>4, PlacesAre
  <2>2. \A k \in i..(j + 1) : k \in i..j \/ k = j + 1
    BY <1>1
  <2>3. i..(j + 1) \subseteq WordPlaces
    BY <1>4, <2>2
  <2>4. j + 1 \in T
    BY <2>1, <2>3
  <2> QED
    BY <1>1, <1>3, <2>4
<1> QED
  BY <1>3, <1>4 DEF WordEnd

\* The first place that belongs to a word is where the first word starts.
LEMMA FirstPlace ==
  ASSUME params \in Seq(Char), WordPlaces # {}
  PROVE  /\ Min(WordPlaces) \in WordStarts /\ Min(WordStarts) = Min(WordPlaces)
         /\ \A k \in WordPlaces : Min(WordPlaces) <= k
<1>1. PICK f \in WordPlaces : f = Min(WordPlaces) /\ \A k \in WordPlaces : f <= k
  <2>1. WordPlaces \subseteq Nat
    BY PlacesAre
  <2> QED
    BY <2>1, MinIn
<1>2. f \in Nat
  BY PlacesAre
<1>3. f \in WordStarts
  <2>1. f - 1 \notin WordPlaces
    BY <1>1, <1>2
  <2> QED
    BY <2>1 DEF WordStarts
<1>4. Min(WordStarts) = f
  <2>1. \A k \in WordStarts : f <= k
    BY <1>1, PlacesAre
  <2> QED
    BY <1>3, <2>1, PlacesAre, MinIs
<1> QED
  BY <1>1, <1>3, <1>4

\* The last place that belongs to a word.
LEMMA LastPlaceIs ==
  ASSUME params \in Seq(Char), WordPlaces # {}
  PROVE  /\ Max(WordPlaces) \in WordPlaces /\ Max(WordPlaces) \in 1..Len(params)
         /\ \A k \in WordPlaces : k <= Max(WordPlaces)
BY PlacesAre, MaxIn

\* Between the end of a word and the next place that belongs to one no word starts.
LEMMA NextWord ==
  ASSUME params \in Seq(Char), NEW i \in WordStarts, NEW e \in Nat, NEW j \in WordPlaces,
         i < e, e < j, \A k \in i..(e - 1) : k \in WordPlaces,
         \A k \in e..(j - 1) : k \notin WordPlaces
  PROVE  Consecutive(i, j) /\ WordEnd(i) = e - 1
<1>1. i \in Nat /\ j \in Nat /\ j - 1 \in e..(j - 1)
  BY PlacesAre
<1>2. j \in WordStarts
  BY <1>1 DEF WordStarts
<1>3. ASSUME NEW k \in WordStarts, ~(k <= i), ~(j <= k) PROVE FALSE
  <2>1. k \in Nat /\ k \in WordPlaces /\ k - 1 \notin WordPlaces
    BY PlacesAre DEF WordStarts
  <2>2. k \notin e..(j - 1)
    BY <2>1
  <2>3. k - 1 \in i..(e - 1)
    BY <1>1, <1>3, <2>1, <2>2
  <2> QED
    BY <2>1, <2>3
<1>4. WordEnd(i) = e - 1
  <2>1. e - 1 \in Nat /\ i <= e - 1 /\ (e - 1) + 1 = e /\ e \notin WordPlaces
    BY <1>1
  <2>2. i..(e - 1) \subseteq WordPlaces
    OBVIOUS
  <2> QED
    BY <2>1, <2>2, WordEndIs
<1> QED
  BY <1>1, <1>2, <1>3, <1>4 DEF Consecutive

\* Where all places up to the last belong to words, the last word is.
LEMMA LastWord ==
  ASSUME params \in Seq(Char), NEW i \in WordStarts,
         \A k \in i..Max(WordPlaces) : k \in WordPlaces
  PROVE  i = Max(WordStarts) /\ WordEnd(i) = Max(WordPlaces)
<1>1. PICK l \in WordPlaces : l = Max(WordPlaces) /\ \A k \in WordPlaces : k <= l
  BY LastPlaceIs, PlacesAre
<1>2. i \in Nat /\ l \in Nat /\ i <= l /\ i \in WordPlaces
  BY <1>1, PlacesAre
<1>3. ASSUME NEW k \in WordStarts, ~(k <= i) PROVE FALSE
  <2>1. k \in Nat /\ k \in WordPlaces /\ k - 1 \notin WordPlaces
    BY PlacesAre DEF WordStarts
  <2>2. k - 1 \in i..l
    BY <1>1, <1>2, <1>3, <2>1
  <2> QED
    BY <1>1, <2>1, <2>2
<1>4. Max(WordStarts) = i
  BY <1>3, PlacesAre, MaxIs
<1>5. WordEnd(i) = l
  <2>1. l + 1 \notin WordPlaces
    BY <1>1, <1>2
  <2>2. i..l \subseteq WordPlaces
    BY <1>1
  <2> QED
    BY <1>2, <2>1, <2>2, WordEndIs
<1> QED
  BY <1>1, <1>4, <1>5

\* A step that leaves the parameters leaves the words.
LEMMA SameWords ==
  ASSUME params' = params
  PROVE  /\ WordPlaces' = WordPlaces /\ WordStarts' = WordStarts
         /\ \A i : WordEnd(i)' = WordEnd(i) /\ Word(i)' = Word(i) /\ WordsFrom(i)' = WordsFrom(i)
         /\ \A i, j : Consecutive(i, j)' = Consecutive(i, j)
<1>1. \A i : InWord(i)' = InWord(i)
  BY DEF InWord, InQuotes
<1>2. WordPlaces' = WordPlaces
  BY <1>1 DEF WordPlaces
<1>3. WordStarts' = WordStarts
  BY <1>2 DEF WordStarts
<1>4. ASSUME NEW i
      PROVE  WordEnd(i)' = WordEnd(i) /\ Word(i)' = Word(i) /\ WordsFrom(i)' = WordsFrom(i)
  BY <1>2 DEF WordEnd, Word, WordsFrom
<1>5. ASSUME NEW i, NEW j PROVE Consecutive(i, j)' = Consecutive(i, j)
  BY <1>3 DEF Consecutive
<1> QED
  BY <1>2, <1>3, <1>4, <1>5

-----------------------------------------------------------------------------
(* The buffer.                                                             *)

\* What Unquote makes of a place.
Held(i) ==
  IF i \notin WordPlaces THEN Blank ELSE IF params[i] = Blank THEN Kept ELSE params[i]

\* The buffer has a place for each of the parameters' and one more.
Sized == raw \in Seq(Cell) /\ Len(raw) = Len(params) + 1

CopyInv ==
  /\ \A k \in 1..Len(params) : raw[k] = Held(k)
  /\ raw[Len(params) + 1] = Nul
  /\ next = 1

\* Parameters without a word.
NoWordInv ==
  /\ raw[Len(params) + 1] = Nul
  /\ args = <<Len(params) + 1>>
  /\ next \in {0, 1}
  /\ next = 1 => \A k \in 1..Len(params) : raw[k] = Blank

\* The words stand where they stood; there is a terminator after the last, and between two
\* of them there are blanks and terminators.
BufferInv ==
  /\ raw[Max(WordPlaces) + 1] = Nul
  /\ \A k \in WordPlaces : raw[k] = Held(k)
  /\ \A k \in 1..Max(WordPlaces) : k \notin WordPlaces => raw[k] \in {Blank, Nul}

\* The pointers found so far point to words, one after the other.
PointersInv ==
  /\ args \in Seq(WordStarts)
  /\ Len(args) \in 1..MaxArgs
  /\ args[1] = Min(WordStarts)
  /\ \A i \in 1..(Len(args) - 1) :
       (params[1] = Quote /\ i = 1) \/ Consecutive(args[i], args[i + 1])
  /\ params[1] = Quote =>
       \/ Len(args) = 1 /\ next = 1
       \/ Len(args) > 1 /\ args[2] = args[1]

\* The words before the last pointer are cut off, and nothing after it is.
CutInv ==
  LET last == args[Len(args)]
  IN  /\ \A i \in 1..Len(args) : args[i] <= last
      /\ \A i \in 1..Len(args) : args[i] # last => raw[WordEnd(args[i]) + 1] = Nul
      /\ \A k \in last..Max(WordPlaces) : raw[k] # Nul
      /\ next = 0 => last = Max(WordStarts)
      /\ next # 0 => \/ next = last
                     \/ /\ next = 1 /\ Len(args) = 1 /\ params[1] = Quote
                        /\ \A k \in 1..Max(WordPlaces) : raw[k] # Nul

SplitInv ==
  IF WordPlaces = {} THEN NoWordInv ELSE BufferInv /\ PointersInv /\ CutInv

\* A place is blank in the buffer exactly when it belongs to no word, and shows what was typed.
LEMMA HeldIs ==
  ASSUME params \in Seq(Char), NEW i \in 1..Len(params)
  PROVE  /\ Held(i) \in Cell /\ Held(i) # Nul
         /\ Held(i) = Blank <=> i \notin WordPlaces
         /\ i \in WordPlaces =>
              params[i] # Quote /\ params[i] = IF Held(i) = Kept THEN Blank ELSE Held(i)
<1>1. params[i] \in Char
  OBVIOUS
<1>2. i \in WordPlaces => params[i] # Quote
  BY DEF WordPlaces, InWord
<1> QED
  BY <1>1, <1>2, CellsDiffer DEF Held, Cell

\* Unquote copies the parameters.
LEMMA UnquoteCopies ==
  ASSUME params \in Seq(Char), Unquote
  PROVE  Sized' /\ CopyInv'
<1> DEFINE
    text == [i \in 1..Len(params) |->
               CASE params[i] = Quote                  -> Blank
                 [] params[i] = Blank /\ Quoted[i - 1] -> Kept
                 [] OTHER                              -> params[i]]
<1>1. ASSUME NEW i \in 1..Len(params) PROVE text[i] = Held(i)
  <2>1. i - 1 \in 0..Len(params) /\ params[i] \in Char
    OBVIOUS
  <2>2. Quoted[i - 1] = InQuotes(i - 1)
    BY <2>1, QuotedIs
  <2>7. params[i] # Quote => (InQuotes(i) <=> InQuotes(i - 1))
    BY QuotesTurn
  <2>3. i \in WordPlaces <=> params[i] # Quote /\ (params[i] = Blank => InQuotes(i))
    BY DEF WordPlaces, InWord
  <2>4. CASE params[i] = Quote
    <3>1. text[i] = Blank
      BY <2>4, CellsDiffer
    <3> QED
      BY <2>3, <2>4, <3>1 DEF Held
  <2>5. CASE params[i] = Blank /\ Quoted[i - 1]
    <3>1. params[i] # Quote
      BY <2>5, CellsDiffer
    <3>2. InQuotes(i)
      BY <2>2, <2>5, <2>7, <3>1
    <3>3. text[i] = Kept
      BY <2>5, <3>1
    <3> QED
      BY <2>3, <2>5, <3>1, <3>2, <3>3 DEF Held
  <2>6. CASE params[i] # Quote /\ ~(params[i] = Blank /\ Quoted[i - 1])
    <3>1. text[i] = params[i]
      BY <2>6
    <3>2. CASE params[i] = Blank
      <4>1. ~Quoted[i - 1]
        BY <2>6, <3>2
      <4>2. ~InQuotes(i)
        BY <2>2, <2>6, <2>7, <4>1
      <4> QED
        BY <2>3, <3>1, <3>2, <4>2 DEF Held
    <3>3. CASE params[i] # Blank
      BY <2>3, <2>6, <3>1, <3>3 DEF Held
    <3> QED
      BY <3>2, <3>3
  <2> QED
    BY <2>4, <2>5, <2>6
<1>2. text \in Seq(Cell) /\ Len(text) = Len(params)
  <2>1. \A i \in 1..Len(params) : text[i] \in Cell
    BY <1>1, HeldIs
  <2>2. DOMAIN text = 1..Len(params) /\ Len(params) \in Nat
    OBVIOUS
  <2>3. text \in [1..Len(params) -> Cell]
    BY <2>1
  <2> HIDE DEF text
  <2> QED
    BY <2>2, <2>3, IsASeq, LenProperties
<1>3. raw' = Append(text, Nul) /\ next' = 1 /\ params' = params
  BY DEF Unquote
<1> HIDE DEF text
<1>4. Nul \in Cell
  BY DEF Cell
<1>5. /\ raw' \in Seq(Cell) /\ Len(raw') = Len(params) + 1
      /\ \A i \in 1..Len(params) : raw'[i] = text[i]
      /\ raw'[Len(params) + 1] = Nul
  BY <1>2, <1>3, <1>4, AppendProperties
<1>6. \A i : Held(i)' = Held(i)
  BY <1>3, SameWords DEF Held
<1> QED
  BY <1>1, <1>3, <1>5, <1>6 DEF Sized, CopyInv

\* Trim finds the first word and ends the last.
LEMMA TrimFinds ==
  ASSUME params \in Seq(Char), params # <<>>, params[1] # Blank, Sized, CopyInv, TrimParameters
  PROVE  Sized' /\ SplitInv'
<1>1. PICK l \in Nat \ {0} : l = Len(params)
  BY EmptySeq
<1> DEFINE held == {i \in 1..Len(raw) : raw[i] # Blank}
           first == Min(held)
           ends == {i \in first..(Len(raw) - 1) : raw[i] # Blank} \cup {first - 1}
<1>2. raw' = [raw EXCEPT ![Max(ends) + 1] = Nul] /\ args' = <<first>>
  BY DEF TrimParameters
<1>3. params' = params /\ next' = 1
  BY DEF TrimParameters, CopyInv
<1>4. \A k \in 1..l : raw[k] = Held(k) /\ raw[k] # Nul /\ (raw[k] # Blank <=> k \in WordPlaces)
  BY <1>1, HeldIs DEF CopyInv
<1>5. Len(raw) = l + 1 /\ raw[l + 1] = Nul /\ raw \in Seq(Cell) /\ Nul # Blank /\ Nul \in Cell
  BY <1>1, CellsDiffer DEF CopyInv, Sized, Cell
<1>6. held = WordPlaces \cup {l + 1}
  <2>1. \A k \in 1..(l + 1) : k = l + 1 \/ k \in 1..l
    BY <1>1
  <2>2. \A k \in WordPlaces : k \in 1..l /\ k \in 1..(l + 1)
    BY <1>1, PlacesAre
  <2>3. held = {i \in 1..(l + 1) : raw[i] # Blank} /\ l + 1 \in 1..(l + 1)
    BY <1>5
  <2> QED
    BY <1>4, <1>5, <2>1, <2>2, <2>3
<1> HIDE DEF held
<1>7. \A i : Held(i)' = Held(i)
  BY <1>3, SameWords DEF Held
<1>8. CASE WordPlaces = {}
  <2>1. first = l + 1
    <3>1. held = {l + 1}
      BY <1>6, <1>8
    <3>2. l + 1 \in held /\ held \subseteq Nat /\ \A y \in held : l + 1 <= y
      BY <3>1
    <3> QED
      BY <3>2, MinIs
  <2>2. Max(ends) = l
    <3>1. ends = {l}
      BY <1>5, <2>1
    <3>2. {l} \subseteq 0..l /\ \A y \in {l} : y <= l
      OBVIOUS
    <3>3. Max({l}) = l
      BY <3>2, MaxIs
    <3> QED
      BY <3>1, <3>3
  <2> HIDE DEF first, ends
  <2>3. /\ raw' \in Seq(Cell) /\ Len(raw') = l + 1 /\ raw'[l + 1] = Nul
        /\ \A k \in 1..l : raw'[k] = raw[k]
    BY <1>2, <1>5, <2>2
  <2>4. \A k \in 1..l : raw'[k] = Blank
    BY <1>4, <1>8, <2>3
  <2>5. NoWordInv'
    BY <1>1, <1>2, <1>3, <2>1, <2>3, <2>4 DEF NoWordInv
  <2> QED
    BY <1>1, <1>3, <1>8, <2>3, <2>5, SameWords DEF Sized, SplitInv
<1>9. CASE WordPlaces # {}
  <2>1. PICK f \in WordStarts :
          f = Min(WordPlaces) /\ f = Min(WordStarts) /\ \A k \in WordPlaces : f <= k
    BY <1>9, FirstPlace
  <2>2. PICK t \in 1..l : t \in WordPlaces /\ t = Max(WordPlaces) /\ \A k \in WordPlaces : k <= t
    BY <1>1, <1>9, LastPlaceIs
  <2>3. f \in Nat /\ f \in WordPlaces /\ f <= t /\ f >= 1 /\ WordPlaces \subseteq 1..l
    BY <1>1, <2>1, <2>2, PlacesAre
  <2>4. first = f
    <3>1. f \in held /\ held \subseteq Nat /\ \A y \in held : f <= y
      BY <1>6, <2>1, <2>2, <2>3
    <3> QED
      BY <3>1, MinIs
  <2>5. Max(ends) = t
    <3>1. \A k \in ends : k \in 0..l /\ k <= t
      <4>1. ASSUME NEW k \in f..l, raw[k] # Blank PROVE k \in 0..l /\ k <= t
        <5>1. k \in 1..l
          BY <2>3
        <5> QED
          BY <1>4, <2>2, <4>1, <5>1
      <4>2. f - 1 \in 0..l /\ f - 1 <= t
        BY <2>2, <2>3
      <4> QED
        BY <1>5, <2>4, <4>1, <4>2
    <3>2. t \in ends
      <4>1. t \in f..l /\ raw[t] # Blank
        BY <1>4, <2>2, <2>3
      <4> QED
        BY <1>5, <2>4, <4>1
    <3> HIDE DEF ends
    <3> QED
      BY <3>1, <3>2, MaxIs
  <2> HIDE DEF first, ends
  <2>6. /\ raw' \in Seq(Cell) /\ Len(raw') = l + 1 /\ raw'[t + 1] = Nul
        /\ \A k \in 1..t : raw'[k] = raw[k]
    BY <1>2, <1>5, <2>2, <2>5
  <2>7. /\ Max(WordPlaces)' = t /\ WordPlaces' = WordPlaces /\ WordStarts' = WordStarts
        /\ Min(WordStarts)' = f
    BY <1>3, <2>1, <2>2, SameWords
  <2>8. BufferInv'
    <3>1. \A k \in WordPlaces : raw'[k] = Held(k)
      <4>1. \A k \in WordPlaces : k \in 1..t /\ k \in 1..l
        BY <2>2, <2>3
      <4> QED
        BY <1>4, <2>6, <4>1
    <3>2. \A k \in 1..t : k \notin WordPlaces => raw'[k] = Blank
      BY <1>4, <2>2, <2>6
    <3> QED
      BY <1>7, <2>6, <2>7, <3>1, <3>2 DEF BufferInv
  <2>9. args' = <<f>> /\ args' \in Seq(WordStarts) /\ Len(args') = 1 /\ args'[1] = f
    BY <1>2, <2>4
  <2>10. PointersInv'
    <3>1. 1 \in 1..MaxArgs /\ 1..(1 - 1) = {}
      BY BoundAssumption
    <3> QED
      BY <1>3, <2>7, <2>9, <3>1 DEF PointersInv
  <2>11. \A k \in 1..t : raw'[k] # Nul
    BY <1>4, <2>2, <2>6
  <2>12. f = 1 \/ params[1] = Quote
    <3>1. 1 \in WordPlaces \/ params[1] = Quote
      BY <1>1 DEF WordPlaces, InWord
    <3> QED
      BY <2>1, <2>3, <3>1
  <2>13. CutInv'
    <3>1. \A k \in f..t : k \in 1..t
      BY <2>3
    <3>2. \A k \in f..t : raw'[k] # Nul
      BY <2>11, <3>1
    <3>3. \A i \in 1..1 : args'[i] = f /\ f <= f
      BY <2>3, <2>9
    <3>4. 1 # 0
      OBVIOUS
    <3> QED
      BY <1>3, <2>7, <2>9, <2>11, <2>12, <3>2, <3>3, <3>4 DEF CutInv
  <2> QED
    BY <1>1, <1>3, <1>9, <2>6, <2>7, <2>8, <2>10, <2>13 DEF Sized, SplitInv
<1> QED
  BY <1>8, <1>9

\* The first terminator of r from p on.
LEMMA TerminatorIs ==
  ASSUME NEW S, NEW r \in Seq(S), NEW p \in Nat \ {0}, NEW e \in p..Len(r), r[e] = Nul,
         \A k \in p..(e - 1) : r[k] # Nul
  PROVE  Min({i \in p..Len(r) : r[i] = Nul}) = e
<1> DEFINE T == {i \in p..Len(r) : r[i] = Nul}
<1>1. T \subseteq Nat /\ e \in T
  OBVIOUS
<1>2. ASSUME NEW k \in T PROVE e <= k
  <2>1. k \notin p..(e - 1)
    OBVIOUS
  <2> QED
    BY <2>1
<1> HIDE DEF T
<1>3. Min(T) = e
  BY <1>1, <1>2, MinIs
<1> QED
  BY <1>3 DEF T

\* Parameters without a word: SplitLine finds blanks only, then the end.
LEMMA SplitsNothing ==
  ASSUME params \in Seq(Char), params # <<>>, Sized, NoWordInv, Split
  PROVE  Sized' /\ NoWordInv'
<1>1. PICK l \in Nat \ {0} : l = Len(params)
  BY EmptySeq
<1>2. params' = params /\ next = 1
  BY DEF Split, MoreTokens, NoWordInv
<1>3. /\ raw \in Seq(Cell) /\ Len(raw) = l + 1 /\ raw[l + 1] = Nul
      /\ \A k \in 1..l : raw[k] = Blank
      /\ Nul # Blank /\ Nul \in Cell
  BY <1>1, <1>2, CellsDiffer DEF Sized, NoWordInv, Cell
<1>4. EndOf(1) = l + 1
  <2>1. /\ 1 \in Nat \ {0} /\ l + 1 \in 1..Len(raw) /\ (l + 1) - 1 = l
        /\ \A k \in 1..l : raw[k] # Nul
    BY <1>3
  <2>2. Min({i \in 1..Len(raw) : raw[i] = Nul}) = l + 1
    BY <1>3, <2>1, TerminatorIs
  <2> QED
    BY <2>2 DEF EndOf
<1>5. TokenEnd = 1..l
  BY <1>2, <1>3, <1>4 DEF TokenEnd
<1>6. Min(TokenEnd) = 1
  <2>1. 1 \in 1..l /\ 1..l \subseteq Nat /\ \A k \in 1..l : 1 <= k
    OBVIOUS
  <2> QED
    BY <1>5, <2>1, MinIs
<1>7. After(1) = l + 1
  <2> DEFINE T == {i \in (1 + 1)..Len(raw) : raw[i] # Blank}
  <2>1. l + 1 \in T /\ T \subseteq Nat
    BY <1>3
  <2>2. ASSUME NEW k \in T PROVE l + 1 <= k
    <3>1. k \notin 1..l
      BY <1>3
    <3> QED
      BY <3>1
  <2> HIDE DEF T
  <2>3. Min(T) = l + 1
    BY <2>1, <2>2, MinIs
  <2> QED
    BY <2>3 DEF After, T
<1>8. raw' = [raw EXCEPT ![1] = Nul] /\ next' = 0 /\ args' = args
  <2>1. TokenEnd # {}
    <3>1. 1 \in 1..l
      OBVIOUS
    <3> QED
      BY <1>5, <3>1
  <2>2. PICK end \in {1}, start \in {l + 1} :
          end = Min(TokenEnd) /\ start = After(end) /\ raw[start] = Nul
    BY <1>3, <1>6, <1>7
  <2>3. raw' = [raw EXCEPT ![end] = Nul] /\ next' = 0 /\ args' = args
    BY <2>1, <2>2 DEF Split
  <2> QED
    BY <2>2, <2>3
<1>9. raw' \in Seq(Cell) /\ Len(raw') = l + 1 /\ raw'[l + 1] = Nul
  BY <1>3, <1>8
<1> QED
  BY <1>1, <1>2, <1>8, <1>9 DEF Sized, NoWordInv

\* SplitLine cuts off the word at `next` and goes to the next one; there is none when no
\* blank is left.
LEMMA SplitsWords ==
  ASSUME params \in Seq(Char), WordPlaces # {}, Sized, BufferInv, PointersInv, CutInv, Split
  PROVE  Sized' /\ BufferInv' /\ PointersInv' /\ CutInv'
<1>1. PICK l \in Nat : l = Len(params)
  OBVIOUS
<1>2. PICK t \in 1..l : t \in WordPlaces /\ t = Max(WordPlaces) /\ \A k \in WordPlaces : k <= t
  BY <1>1, LastPlaceIs
<1>3. PICK n \in 1..MaxArgs : n = Len(args)
  BY DEF PointersInv
<1>4. PICK a \in WordStarts : a = args[n]
  BY <1>3, ElementOfSeq DEF PointersInv
<1>5. a \in WordPlaces /\ a \in 1..t /\ WordPlaces \subseteq 1..t
  BY <1>1, <1>2, PlacesAre
<1>6. /\ raw \in Seq(Cell) /\ Len(raw) = l + 1 /\ raw[t + 1] = Nul
      /\ \A k \in WordPlaces : raw[k] = Held(k) /\ raw[k] # Blank
      /\ \A k \in 1..t : k \notin WordPlaces => raw[k] \in {Blank, Nul}
      /\ Nul # Blank /\ Nul \in Cell
  <2>1. \A k \in WordPlaces : k \in 1..Len(params)
    BY PlacesAre
  <2>2. \A k \in WordPlaces : Held(k) # Blank
    BY <2>1, HeldIs
  <2> QED
    BY <1>1, <1>2, <2>2, CellsDiffer DEF Sized, BufferInv, Cell
<1>7. PICK x \in 1..t :
        /\ x = next
        /\ \A k \in x..t : raw[k] # Nul
        /\ x = a \/ (x = 1 /\ n = 1 /\ params[1] = Quote /\ 1 \notin WordPlaces)
  <2>1. next # 0
    BY DEF Split, MoreTokens
  <2>2. CASE next = a
    BY <1>2, <1>3, <1>4, <1>5, <2>2 DEF CutInv
  <2>3. CASE next # a
    <3>1. /\ next = 1 /\ n = 1 /\ params[1] = Quote
          /\ \A k \in 1..t : raw[k] # Nul
      BY <1>2, <1>3, <1>4, <2>1, <2>3 DEF CutInv
    <3>2. 1 \notin WordPlaces /\ 1 \in 1..t
      BY <1>2, <3>1 DEF WordPlaces, InWord
    <3> QED
      BY <3>1, <3>2
  <2> QED
    BY <2>2, <2>3
<1>8. params' = params
  BY DEF Split
<1>9. TokenEnd = {i \in x..t : i \notin WordPlaces}
  <2>1. EndOf(x) = t + 1
    <3>1. t + 1 \in x..Len(raw) /\ x \in Nat \ {0} /\ (t + 1) - 1 = t
      BY <1>2, <1>6
    <3> QED
      BY <1>6, <1>7, <3>1, TerminatorIs DEF EndOf
  <2>2. TokenEnd = {i \in x..t : raw[i] = Blank}
    BY <1>7, <2>1 DEF TokenEnd
  <2>3. ASSUME NEW i \in x..t PROVE raw[i] = Blank <=> i \notin WordPlaces
    <3>1. i \in 1..t
      OBVIOUS
    <3> QED
      BY <1>6, <1>7, <3>1
  <2> QED
    BY <2>2, <2>3
<1>10. /\ WordPlaces' = WordPlaces /\ WordStarts' = WordStarts
       /\ \A i, j : WordEnd(i)' = WordEnd(i) /\ Held(i)' = Held(i)
                    /\ Consecutive(i, j)' = Consecutive(i, j)
  BY <1>8, SameWords DEF Held
<1>11. params[1] = Quote /\ x = a => n > 1 /\ args[2] = args[1]
  <2>1. params[1] = Quote => 1 \notin WordPlaces
    BY DEF WordPlaces, InWord
  <2>2. params[1] = Quote => a # 1
    BY <1>5, <2>1
  <2> QED
    BY <1>3, <1>7, <2>2 DEF PointersInv
<1>12. CASE TokenEnd = {}
  <2>1. next' = 0 /\ raw' = raw /\ args' = args
    BY <1>12 DEF Split
  <2>2. x = a
    <3>1. x \in x..t
      OBVIOUS
    <3> QED
      BY <1>7, <1>9, <1>12, <3>1
  <2>3. \A k \in a..t : k \in WordPlaces
    BY <1>9, <1>12, <2>2
  <2>4. a = Max(WordStarts)
    BY <1>2, <2>3, LastWord
  <2>5. PointersInv'
    BY <1>3, <1>8, <1>10, <1>11, <2>1, <2>2 DEF PointersInv
  <2>6. CutInv'
    BY <1>3, <1>4, <1>8, <1>10, <2>1, <2>4 DEF CutInv
  <2>7. Sized' /\ BufferInv'
    BY <1>8, <1>10, <2>1 DEF Sized, BufferInv
  <2> QED
    BY <2>5, <2>6, <2>7
<1>13. CASE TokenEnd # {}
  <2>1. PICK end \in x..t :
          end = Min(TokenEnd) /\ end \notin WordPlaces /\ \A k \in TokenEnd : end <= k
    <3>1. TokenEnd \subseteq Nat
      BY <1>9
    <3>2. Min(TokenEnd) \in TokenEnd /\ \A k \in TokenEnd : Min(TokenEnd) <= k
      BY <1>13, <3>1, MinIn
    <3> QED
      BY <1>9, <3>2
  <2>2. \A k \in x..(end - 1) : k \in WordPlaces
    <3>1. ASSUME NEW k \in x..(end - 1), k \notin WordPlaces PROVE FALSE
      <4>1. k \in x..t /\ ~(end <= k)
        OBVIOUS
      <4> QED
        BY <1>9, <2>1, <3>1, <4>1
    <3> QED
      BY <3>1
  <2>3. end < t
    BY <1>2, <2>1
  <2>4. PICK start \in WordPlaces :
          /\ start = After(end) /\ end < start /\ start <= t
          /\ \A k \in end..(start - 1) : k \notin WordPlaces
    <3> DEFINE T == {i \in (end + 1)..Len(raw) : raw[i] # Blank}
    <3>1. T \subseteq Nat /\ t \in T
      <4>1. t \in (end + 1)..Len(raw)
        BY <1>2, <1>6, <2>3
      <4> QED
        BY <1>2, <1>6, <4>1
    <3>2. \A k \in T : k > end /\ raw[k] # Blank
      OBVIOUS
    <3>3. \A k \in WordPlaces : k > end => k \in T
      <4>1. \A k \in WordPlaces : k > end => k \in (end + 1)..Len(raw)
        BY <1>5, <1>6
      <4> QED
        BY <1>6, <4>1
    <3>4. After(end) = Min(T)
      BY DEF After
    <3> HIDE DEF T
    <3>5. PICK s \in T : s = Min(T) /\ \A k \in T : s <= k
      BY <3>1, MinIn
    <3>6. s \in Nat /\ s > end /\ s <= t /\ raw[s] # Blank
      BY <3>1, <3>2, <3>5
    <3>7. s \in WordPlaces
      <4>1. s \in 1..t /\ s \in x..t
        BY <3>6
      <4> QED
        BY <1>6, <1>7, <3>6, <4>1
    <3>8. ASSUME NEW k \in end..(s - 1), k \in WordPlaces PROVE FALSE
      <4>1. k > end /\ ~(s <= k)
        BY <2>1, <3>6, <3>8
      <4> QED
        BY <3>3, <3>5, <3>8, <4>1
    <3> QED
      BY <3>4, <3>5, <3>6, <3>7, <3>8
  <2>5. start \in 1..t /\ start \in x..t /\ raw[start] # Nul /\ start # 0
    BY <1>5, <1>7, <2>4
  <2>6. raw' = [raw EXCEPT ![end] = Nul] /\ next' = start /\ args' = Append(args, start)
    BY <1>13, <2>1, <2>4, <2>5 DEF Split
  <2>7. /\ raw' \in Seq(Cell) /\ Len(raw') = l + 1 /\ raw'[end] = Nul
        /\ \A k \in 1..(l + 1) : k # end => raw'[k] = raw[k]
    <3>1. end \in 1..Len(raw)
      BY <1>2, <1>6
    <3> QED
      BY <1>6, <2>6, <3>1
  <2>8. start \in WordStarts
    <3>1. start - 1 \in end..(start - 1)
      BY <2>4, <2>5
    <3> QED
      BY <2>4, <3>1 DEF WordStarts
  <2>9. /\ args' \in Seq(WordStarts) /\ Len(args') = n + 1 /\ args'[n + 1] = start
        /\ \A i \in 1..n : args'[i] = args[i] /\ args[i] \in WordStarts
    <3>1. args \in Seq(WordStarts)
      BY DEF PointersInv
    <3> QED
      BY <1>3, <2>6, <2>8, <3>1, AppendProperties, ElementOfSeq
  <2>10. BufferInv'
    <3>1. raw'[t + 1] = Nul
      BY <1>2, <1>6, <2>3, <2>7
    <3>2. \A k \in WordPlaces : raw'[k] = Held(k)
      <4>1. \A k \in WordPlaces : k \in 1..(l + 1) /\ k # end
        BY <1>2, <1>5, <2>1
      <4> QED
        BY <1>6, <2>7, <4>1
    <3>3. \A k \in 1..t : k \notin WordPlaces => raw'[k] \in {Blank, Nul}
      <4>1. \A k \in 1..t : k \in 1..(l + 1)
        BY <1>2
      <4> QED
        BY <1>6, <2>7, <4>1
    <3> QED
      BY <1>2, <1>10, <3>1, <3>2, <3>3 DEF BufferInv
  <2>11. \A k \in start..t : raw'[k] # Nul
    <3>1. \A k \in start..t : k \in x..t /\ k \in 1..(l + 1) /\ k # end
      BY <1>2, <2>4, <2>5
    <3> QED
      BY <1>7, <2>7, <3>1
  <2>12. n + 1 \in 1..MaxArgs
    <3>1. n < MaxArgs /\ MaxArgs \in Nat
      BY <1>3, BoundAssumption DEF Split, MoreTokens
    <3> QED
      BY <1>3, <3>1
  <2>13. \A i \in 1..(n + 1) : i \in 1..n \/ i = n + 1
    BY <1>3
  <2>14. CASE x = a
    <3>1. a < end
      BY <1>5, <2>1, <2>14
    <3>2. Consecutive(a, start) /\ WordEnd(a) = end - 1
      <4>1. \A k \in a..(end - 1) : k \in WordPlaces
        BY <2>2, <2>14
      <4>2. end \in Nat
        BY <2>1
      <4> QED
        BY <2>4, <3>1, <4>1, <4>2, NextWord
    <3>3. PointersInv'
      <4>1. ASSUME NEW i \in 1..n
            PROVE  (params[1] = Quote /\ i = 1) \/ Consecutive(args'[i], args'[i + 1])
        <5>1. CASE i = n
          BY <1>4, <2>9, <3>2, <5>1
        <5>2. CASE i # n
          <6>1. i \in 1..(n - 1) /\ i + 1 \in 1..n
            BY <5>2
          <6>2. (params[1] = Quote /\ i = 1) \/ Consecutive(args[i], args[i + 1])
            BY <1>3, <6>1 DEF PointersInv
          <6> QED
            BY <2>9, <6>1, <6>2
        <5> QED
          BY <5>1, <5>2
      <4>2. params[1] = Quote => n + 1 > 1 /\ args'[2] = args'[1]
        <5>1. n > 1 => 1 \in 1..n /\ 2 \in 1..n
          OBVIOUS
        <5> QED
          BY <1>11, <2>9, <2>14, <5>1
      <4>3. args'[1] = Min(WordStarts)
        BY <1>3, <2>9 DEF PointersInv
      <4>4. (n + 1) - 1 = n
        OBVIOUS
      <4> QED
        BY <1>8, <1>10, <2>9, <2>12, <4>1, <4>2, <4>3, <4>4 DEF PointersInv
    <3>4. CutInv'
      <4>1. ASSUME NEW i \in 1..n PROVE args[i] <= start /\ raw'[WordEnd(args[i]) + 1] = Nul
        <5>1. PICK p \in WordStarts : p = args[i]
          BY <2>9
        <5>2. p <= a /\ (p # a => raw[WordEnd(p) + 1] = Nul)
          BY <1>3, <1>4, <5>1 DEF CutInv
        <5>3. p \in Nat /\ p <= start
          BY <2>4, <3>1, <5>2, PlacesAre
        <5>4. CASE p = a
          BY <2>7, <3>2, <5>1, <5>3, <5>4
        <5>5. CASE p # a
          <6>1. PICK e \in p..l : e = WordEnd(p)
            BY <1>1, WordEndIn
          <6>2. e + 1 \in 1..(l + 1) /\ raw[e + 1] = Nul
            BY <5>2, <5>3, <5>5, <6>1
          <6> QED
            BY <2>7, <5>1, <5>3, <6>1, <6>2
        <5> QED
          BY <5>4, <5>5
      <4>2. start <= start
        BY <2>5
      <4> QED
        BY <1>2, <1>8, <1>10, <2>5, <2>6, <2>9, <2>11, <2>13, <4>1, <4>2 DEF CutInv
    <3> QED
      BY <1>1, <1>8, <2>7, <2>10, <3>3, <3>4 DEF Sized
  <2>15. CASE x # a
    <3>1. x = 1 /\ n = 1 /\ params[1] = Quote /\ 1 \notin WordPlaces
      BY <1>7, <2>15
    <3>2. end = 1
      <4>1. 1 \in TokenEnd
        BY <1>2, <1>9, <3>1
      <4> QED
        BY <2>1, <3>1, <4>1
    <3>3. start = args[1]
      <4>1. ASSUME NEW k \in WordPlaces PROVE start <= k
        <5>1. k \in 1..t /\ k \notin end..(start - 1)
          BY <1>5, <2>4
        <5> QED
          BY <2>5, <3>2, <5>1
      <4>2. Min(WordPlaces) = start
        BY <2>4, <4>1, PlacesAre, MinIs
      <4> QED
        BY <4>2, FirstPlace DEF PointersInv
    <3>4. n + 1 = 2 /\ args'[1] = start /\ args'[2] = start /\ Len(args') = 2
      BY <2>9, <3>1, <3>3
    <3>5. PointersInv'
      <4>1. args'[1] = Min(WordStarts)
        BY <3>3, <3>4 DEF PointersInv
      <4>2. \A i \in 1..(2 - 1) : i = 1
        OBVIOUS
      <4>3. 2 \in 1..MaxArgs /\ 2 > 1
        BY <2>12, <3>4
      <4> QED
        BY <1>8, <1>10, <2>9, <3>1, <3>4, <4>1, <4>2, <4>3 DEF PointersInv
    <3>6. CutInv'
      <4>1. \A i \in 1..2 : args'[i] = start /\ start <= start
        <5>1. \A i \in 1..2 : i = 1 \/ i = 2
          OBVIOUS
        <5> QED
          BY <2>5, <3>4, <5>1
      <4> QED
        BY <1>2, <1>8, <1>10, <2>5, <2>6, <2>11, <3>4, <4>1 DEF CutInv
    <3> QED
      BY <1>1, <1>8, <2>7, <2>10, <3>5, <3>6 DEF Sized
  <2> QED
    BY <2>14, <2>15
<1> QED
  BY <1>12, <1>13

-----------------------------------------------------------------------------
(* Tokens.                                                                 *)

\* The parameters with blanks where quotes are.
Plain == [k \in 1..Len(params) |-> IF params[k] = Quote THEN Blank ELSE params[k]]

\* At the places of words the parameters are as typed, elsewhere blank.
LEMMA PlainIs ==
  ASSUME params \in Seq(Char)
  PROVE  /\ Plain \in Seq(Char) /\ Len(Plain) = Len(params)
         /\ \A k \in WordPlaces : k \in 1..Len(params) /\ Plain[k] = params[k]
         /\ \A k \in 1..Len(params) : k \notin WordPlaces => Plain[k] = Blank
<1>1. Len(params) \in Nat /\ \A k \in 1..Len(params) : params[k] \in Char
  OBVIOUS
<1>2. Plain \in [1..Len(params) -> Char]
  BY <1>1, CellsDiffer DEF Plain
<1>3. Plain \in Seq(Char) /\ Len(Plain) = Len(params)
  BY <1>1, <1>2, IsASeq, LenProperties
<1>4. \A k \in 1..Len(params) : Plain[k] = IF params[k] = Quote THEN Blank ELSE params[k]
  BY DEF Plain
<1>5. \A k \in 1..Len(params) :
         /\ k \in WordPlaces => params[k] # Quote
         /\ k \notin WordPlaces => params[k] = Quote \/ params[k] = Blank
  BY DEF WordPlaces, InWord
<1> QED
  BY <1>3, <1>4, <1>5, PlacesAre

\* Sequences that agree between two places have the same there.
LEMMA SameBetween ==
  ASSUME NEW S, NEW q \in Seq(S), NEW T, NEW r \in Seq(T), NEW m \in Nat \ {0}, NEW n \in Nat,
         m <= n + 1, n <= Len(q), n <= Len(r), \A k \in m..n : q[k] = r[k]
  PROVE  SubSeq(q, m, n) = SubSeq(r, m, n)
<1>1. m \in 1..(Len(q) + 1) /\ n \in 0..Len(q) /\ m \in 1..(Len(r) + 1) /\ n \in 0..Len(r)
  OBVIOUS
<1>2. PICK s \in Seq(S) :
        /\ s = SubSeq(q, m, n) /\ Len(s) = n - m + 1
        /\ \A k \in 1..(n - m + 1) : s[k] = q[m + k - 1]
  <2>1. /\ SubSeq(q, m, n) \in Seq(S) /\ Len(SubSeq(q, m, n)) = n - m + 1
        /\ \A k \in 1..(n - m + 1) : SubSeq(q, m, n)[k] = q[m + k - 1]
    BY <1>1, BetweenIs
  <2> QED
    BY <2>1
<1>3. PICK t \in Seq(T) :
        /\ t = SubSeq(r, m, n) /\ Len(t) = n - m + 1
        /\ \A k \in 1..(n - m + 1) : t[k] = r[m + k - 1]
  <2>1. /\ SubSeq(r, m, n) \in Seq(T) /\ Len(SubSeq(r, m, n)) = n - m + 1
        /\ \A k \in 1..(n - m + 1) : SubSeq(r, m, n)[k] = r[m + k - 1]
    BY <1>1, BetweenIs
  <2> QED
    BY <2>1
<1>4. \A k \in 1..(n - m + 1) : m + k - 1 \in m..n
  OBVIOUS
<1>5. \A k \in 1..Len(s) : s[k] = t[k]
  BY <1>2, <1>3, <1>4
<1>6. s \in Seq(S \cup T) /\ t \in Seq(S \cup T)
  BY SeqMonotonic
<1>7. s = t
  BY <1>2, <1>3, <1>5, <1>6, SeqEqual
<1> QED
  BY <1>2, <1>3, <1>7

\* Words are stretches of the parameters with blanks for quotes, and end before the last does.
LEMMA WordIs ==
  ASSUME params \in Seq(Char), NEW i \in WordStarts
  PROVE  /\ Word(i) = SubSeq(Plain, i, WordEnd(i))
         /\ WordsFrom(i) = SubSeq(Plain, i, Max(WordPlaces))
         /\ WordEnd(i) <= Max(WordPlaces)
<1>1. PICK e \in i..Len(params) : e = WordEnd(i) /\ i..e \subseteq WordPlaces
  BY WordEndIn
<1>2. i \in Nat \ {0} /\ e \in Nat /\ e \in WordPlaces
  <2>1. i \in Nat \ {0}
    BY PlacesAre
  <2>2. e \in i..e
    BY <2>1
  <2> QED
    BY <1>1, <2>1, <2>2
<1>3. SubSeq(params, i, e) = SubSeq(Plain, i, e)
  <2>1. \A k \in i..e : params[k] = Plain[k]
    BY <1>1, PlainIs
  <2>2. i <= e + 1 /\ e <= Len(params) /\ e <= Len(Plain)
    BY <1>1, <1>2, PlainIs
  <2> QED
    BY <1>2, <2>1, <2>2, PlainIs, SameBetween
<1>4. WordPlaces # {}
  BY <1>2
<1>5. e <= Max(WordPlaces)
  BY <1>2, <1>4, LastPlaceIs
<1> QED
  BY <1>1, <1>3, <1>5 DEF Word, WordsFrom, Plain

\* The last word ends where the words end.
LEMMA LastWordEnds ==
  ASSUME params \in Seq(Char), WordPlaces # {}
  PROVE  Max(WordStarts) \in WordStarts /\ WordEnd(Max(WordStarts)) = Max(WordPlaces)
<1>1. PICK t \in 1..Len(params) : t \in WordPlaces /\ t = Max(WordPlaces)
                                   /\ \A k \in WordPlaces : k <= t
  BY LastPlaceIs
<1> DEFINE T == {k \in 1..t : k..t \subseteq WordPlaces}
<1>2. t \in T /\ T \subseteq Nat
  <2>1. \A k \in t..t : k = t
    OBVIOUS
  <2> QED
    BY <1>1, <2>1
<1>3. PICK s \in T : \A k \in T : s <= k
  <2> HIDE DEF T
  <2> QED
    BY <1>2, Least
<1>4. s \in WordPlaces
  <2>1. s \in s..t
    OBVIOUS
  <2> QED
    BY <2>1
<1>5. ASSUME s - 1 \in WordPlaces PROVE FALSE
  <2>1. s - 1 \in 1..t
    BY <1>5, PlacesAre
  <2>2. \A k \in (s - 1)..t : k = s - 1 \/ k \in s..t
    OBVIOUS
  <2>3. (s - 1)..t \subseteq WordPlaces
    BY <1>5, <2>2
  <2> QED
    BY <1>3, <2>1, <2>3
<1>6. s \in WordStarts
  BY <1>4, <1>5 DEF WordStarts
<1>7. \A k \in s..Max(WordPlaces) : k \in WordPlaces
  BY <1>1
<1> QED
  BY <1>6, <1>7, LastWord

\* What stands between a pointer and the next terminator when Restore is done.
LEMMA RestoreGives ==
  ASSUME params \in Seq(Char), WordPlaces # {}, Sized, BufferInv, Restore,
         NEW i \in 1..Len(args), NEW p \in WordStarts, p = args[i],
         NEW e \in Nat, p <= e, e <= Max(WordPlaces), raw[e + 1] = Nul,
         \A k \in p..e : raw[k] # Nul
  PROVE  TextAt(args[i])' = SubSeq(Plain, p, e)
<1>1. PICK l \in Nat : l = Len(params)
  OBVIOUS
<1>2. PICK t \in 1..l : t = Max(WordPlaces)
  BY <1>1, LastPlaceIs
<1>3. p \in 1..t /\ e \in p..t /\ e + 1 \in p..(l + 1) /\ p \in Nat \ {0}
  BY <1>1, <1>2, PlacesAre
<1>4. raw \in Seq(Cell) /\ Len(raw) = l + 1 /\ Blank # Nul /\ Kept # Nul /\ Blank \in Cell
  BY <1>1, CellsDiffer DEF Sized, Cell
<1>5. EndOf(p) = e + 1
  <2>1. e + 1 \in p..Len(raw) /\ (e + 1) - 1 = e
    BY <1>3, <1>4
  <2>2. Min({k \in p..Len(raw) : raw[k] = Nul}) = e + 1
    BY <1>3, <1>4, <2>1, TerminatorIs
  <2> QED
    BY <2>2 DEF EndOf
<1> DEFINE inTokens == UNION {args[j]..(EndOf(args[j]) - 1) : j \in 1..Len(args)}
<1>6. /\ raw' = [k \in 1..Len(raw) |-> IF raw[k] = Kept /\ k \in inTokens THEN Blank ELSE raw[k]]
      /\ args' = args /\ params' = params
  BY DEF Restore
<1>7. \A k \in p..e : k \in inTokens
  <2>1. args[i]..(EndOf(args[i]) - 1) \subseteq inTokens
    OBVIOUS
  <2>2. args[i]..(EndOf(args[i]) - 1) = p..e
    BY <1>3, <1>5
  <2> HIDE DEF inTokens
  <2> QED
    BY <2>1, <2>2
<1> HIDE DEF inTokens
<1>8. PICK r \in Seq(Cell) :
        /\ r = raw' /\ Len(r) = l + 1
        /\ \A k \in 1..(l + 1) : r[k] = IF raw[k] = Kept /\ k \in inTokens THEN Blank ELSE raw[k]
  <2>1. \A k \in 1..(l + 1) : raw[k] \in Cell
    BY <1>4
  <2>2. raw' \in [1..(l + 1) -> Cell]
    BY <1>4, <1>6, <2>1
  <2>3. raw' \in Seq(Cell) /\ Len(raw') = l + 1
    BY <1>1, <2>2
  <2> QED
    BY <1>4, <1>6, <2>3
<1>9. /\ \A k \in p..e : r[k] = IF raw[k] = Kept THEN Blank ELSE raw[k]
      /\ r[e + 1] = Nul /\ \A k \in p..e : r[k] # Nul
  <2>1. \A k \in p..e : k \in 1..(l + 1)
    BY <1>2, <1>3
  <2>2. e + 1 \in 1..(l + 1)
    BY <1>2, <1>3
  <2> QED
    BY <1>4, <1>7, <1>8, <2>1, <2>2
<1>10. EndOf(args[i])' = e + 1
  <2>1. e + 1 \in p..Len(r) /\ (e + 1) - 1 = e
    BY <1>3, <1>8
  <2>2. Min({k \in p..Len(r) : r[k] = Nul}) = e + 1
    BY <1>3, <1>9, <2>1, TerminatorIs
  <2> QED
    BY <1>6, <1>8, <2>2 DEF EndOf
<1>11. ASSUME NEW k \in p..e PROVE r[k] = Plain[k]
  <2>1. k \in 1..t /\ k \in 1..Len(params)
    BY <1>1, <1>2, <1>3
  <2>2. CASE k \in WordPlaces
    <3>1. raw[k] = Held(k)
      BY <2>2 DEF BufferInv
    <3> QED
      BY <1>9, <2>1, <2>2, <3>1, HeldIs, PlainIs
  <2>3. CASE k \notin WordPlaces
    <3>1. raw[k] = Blank
      BY <1>2, <2>1, <2>3 DEF BufferInv
    <3>2. Blank # Kept
      BY CellsDiffer
    <3> QED
      BY <1>9, <2>1, <2>3, <3>1, <3>2, PlainIs
  <2> QED
    BY <2>2, <2>3
<1>12. SubSeq(r, p, e) = SubSeq(Plain, p, e)
  <2>1. p <= e + 1 /\ e <= Len(r) /\ e <= Len(Plain)
    BY <1>1, <1>2, <1>3, <1>8, PlainIs
  <2>2. r \in Seq(Cell) /\ Plain \in Seq(Char)
    BY <1>8, PlainIs
  <2>3. \A k \in p..e : r[k] = Plain[k]
    BY <1>11
  <2> QED
    BY <1>3, <2>1, <2>2, <2>3, SameBetween
<1>13. TextAt(args[i])' = SubSeq(r, p, (e + 1) - 1)
  BY <1>6, <1>8, <1>10 DEF TextAt
<1>14. (e + 1) - 1 = e
  OBVIOUS
<1> QED
  BY <1>12, <1>13, <1>14

\* What /kick finds.
UseInv ==
  IF WordPlaces = {}
  THEN Len(args) = 1
  ELSE /\ args \in Seq(WordStarts)
       /\ \A i \in 1..Len(args) : args[i] <= args[Len(args)]

\* When no word is left or the array is full, every token is its word.
LEMMA RestoreWords ==
  ASSUME params \in Seq(Char), params # <<>>, Sized, SplitInv, ~MoreTokens, Restore
  PROVE  TokensAreWords' /\ UseInv'
<1>1. params' = params /\ args' = args /\ next' = next
  BY DEF Restore
<1>2. CASE WordPlaces = {}
  <2>1. PICK l \in Nat \ {0} : l = Len(params)
    BY EmptySeq
  <2>2. args = <<l + 1>> /\ raw[l + 1] = Nul /\ raw \in Seq(Cell) /\ Len(raw) = l + 1
        /\ Nul # Kept /\ Blank # Nul /\ Blank \in Cell
    BY <1>2, <2>1, CellsDiffer DEF SplitInv, NoWordInv, Sized, Cell
  <2>3. PICK inTokens :
          raw' = [k \in 1..Len(raw) |-> IF raw[k] = Kept /\ k \in inTokens THEN Blank ELSE raw[k]]
    BY DEF Restore
  <2>4. PICK r \in Seq(Cell) : r = raw' /\ Len(r) = l + 1 /\ r[l + 1] = Nul
    <3>1. \A k \in 1..(l + 1) : raw[k] \in Cell
      BY <2>2
    <3>2. raw' \in [1..(l + 1) -> Cell]
      BY <2>2, <2>3, <3>1
    <3>3. raw' \in Seq(Cell) /\ Len(raw') = l + 1 /\ l + 1 \in 1..(l + 1)
      BY <2>1, <3>2
    <3> QED
      BY <2>2, <2>3, <3>3
  <2>5. EndOf(l + 1)' = l + 1
    <3>1. l + 1 \in Nat \ {0} /\ l + 1 \in (l + 1)..Len(r) /\ (l + 1)..((l + 1) - 1) = {}
      BY <2>4
    <3>2. Min({k \in (l + 1)..Len(r) : r[k] = Nul}) = l + 1
      BY <2>4, <3>1, TerminatorIs
    <3> QED
      BY <2>4, <3>2 DEF EndOf
  <2>6. TextAt(l + 1)' = <<>>
    <3>1. SubSeq(r, l + 1, (l + 1) - 1) = <<>>
      BY <2>4
    <3> QED
      BY <2>4, <2>5, <3>1 DEF TextAt
  <2>7. Tokens' = << <<>> >>
    <3>1. Len(args') = 1 /\ args'[1] = l + 1
      BY <1>1, <2>2
    <3>2. Tokens' = [i \in 1..Len(args') |-> TextAt(args[i])']
      BY DEF Tokens
    <3>3. Tokens' = [i \in 1..1 |-> <<>>]
      <4>1. \A i \in 1..1 : TextAt(args[i])' = <<>>
        <5>1. \A i \in 1..1 : args'[i] = l + 1
          BY <3>1
        <5> QED
          BY <2>6, <5>1 DEF TextAt, EndOf
      <4> QED
        BY <3>1, <3>2, <4>1
    <3> QED
      BY <3>3
  <2> QED
    BY <1>1, <1>2, <2>2, <2>7, SameWords DEF TokensAreWords, UseInv
<1>3. CASE WordPlaces # {}
  <2>1. BufferInv /\ PointersInv /\ CutInv
    BY <1>3 DEF SplitInv
  <2>2. PICK n \in 1..MaxArgs : n = Len(args)
    BY <2>1 DEF PointersInv
  <2>3. args \in Seq(WordStarts) /\ \A i \in 1..n : args[i] \in WordStarts
    BY <2>1, <2>2, ElementOfSeq DEF PointersInv
  <2>4. PICK a \in WordStarts : a = args[n]
    BY <2>2, <2>3
  <2>5. PICK t \in WordPlaces : t = Max(WordPlaces) /\ t \in Nat /\ a \in Nat /\ a <= t
    <3>1. a \in WordPlaces /\ WordPlaces \subseteq Nat /\ a \in Nat
      BY PlacesAre
    <3> QED
      BY <1>3, <3>1, LastPlaceIs
  <2>6. /\ \A i \in 1..n : args[i] <= a
        /\ \A i \in 1..n : args[i] # a => raw[WordEnd(args[i]) + 1] = Nul
        /\ \A k \in a..t : raw[k] # Nul
        /\ next = 0 => a = Max(WordStarts)
    BY <2>1, <2>2, <2>4, <2>5 DEF CutInv
  <2>7. next = 0 \/ n = MaxArgs
    BY <2>2, BoundAssumption DEF MoreTokens
  <2>8. next = 0 => WordEnd(a) = t
    BY <1>3, <2>5, <2>6, LastWordEnds
  <2>9. ASSUME NEW i \in 1..n
        PROVE  TextAt(args[i])' = IF n = MaxArgs /\ args[i] = a THEN WordsFrom(args[i])
                                                                ELSE Word(args[i])
    <3>1. PICK p \in WordStarts : p = args[i]
      BY <2>3
    <3>2. i \in 1..Len(args) /\ p \in Nat
      BY <2>2, PlacesAre
    <3>3. CASE p = a
      <4>1. TextAt(args[i])' = SubSeq(Plain, p, t)
        <5>1. raw[t + 1] = Nul /\ t <= t
          BY <2>1, <2>5 DEF BufferInv
        <5> QED
          BY <1>3, <2>1, <2>5, <2>6, <3>1, <3>2, <3>3, <5>1, RestoreGives
      <4>2. CASE n = MaxArgs
        BY <2>5, <3>1, <3>3, <4>1, <4>2, WordIs
      <4>3. CASE n # MaxArgs
        BY <2>7, <2>8, <3>1, <3>3, <4>1, <4>3, WordIs
      <4> QED
        BY <4>2, <4>3
    <3>4. CASE p # a
      <4>1. PICK e \in Nat :
              /\ e = WordEnd(p) /\ p <= e /\ e <= t
              /\ raw[e + 1] = Nul /\ \A k \in p..e : k \in WordPlaces
        <5>1. WordEnd(p) \in p..Len(params) /\ p..WordEnd(p) \subseteq WordPlaces
              /\ WordEnd(p) <= t
          BY <2>5, WordEndIn, WordIs
        <5>2. raw[WordEnd(p) + 1] = Nul
          BY <2>6, <3>1, <3>2, <3>4
        <5>3. WordEnd(p) \in Nat /\ p <= WordEnd(p) /\ \A k \in p..WordEnd(p) : k \in WordPlaces
          BY <3>2, <5>1
        <5> QED
          BY <5>1, <5>2, <5>3
      <4>2. \A k \in p..e : raw[k] # Nul
        <5>1. \A k \in WordPlaces : raw[k] = Held(k) /\ Held(k) # Nul
          BY <2>1, HeldIs, PlacesAre DEF BufferInv
        <5> QED
          BY <4>1, <5>1
      <4>3. TextAt(args[i])' = SubSeq(Plain, p, e)
        BY <1>3, <2>1, <2>5, <3>1, <3>2, <4>1, <4>2, RestoreGives
      <4> QED
        BY <3>1, <3>4, <4>1, <4>3, WordIs
    <3> QED
      BY <3>3, <3>4
  <2>10. Tokens' = [i \in 1..n |-> TextAt(args[i])']
    BY <1>1, <2>2 DEF Tokens
  <2>11. params[1] = Quote => n > 1 /\ args[2] = args[1]
    <3>1. ~(n = 1 /\ next = 1)
      BY <2>2, <2>7, BoundAssumption
    <3> QED
      BY <2>1, <2>2, <3>1 DEF PointersInv
  <2>12. n < MaxArgs => a = Max(WordStarts)
    BY <2>2, <2>6, <2>7
  <2>13. /\ args[1] = Min(WordStarts)
         /\ \A i \in 1..(n - 1) :
              (params[1] = Quote /\ i = 1) \/ Consecutive(args[i], args[i + 1])
    BY <2>1, <2>2 DEF PointersInv
  <2>14. /\ WordPlaces' = WordPlaces /\ WordStarts' = WordStarts
         /\ \A i : Word(i)' = Word(i) /\ WordsFrom(i)' = WordsFrom(i)
         /\ \A i, j : Consecutive(i, j)' = Consecutive(i, j)
    BY <1>1, SameWords
  <2>15. \A i \in 1..n : Tokens'[i] = IF n = MaxArgs /\ args[i] = a THEN WordsFrom(args[i])
                                                                   ELSE Word(args[i])
    BY <2>9, <2>10
  <2>16. TokensAreWords'
    <3> HIDE DEF Tokens
    <3> QED
      BY <1>1, <1>3, <2>2, <2>4, <2>11, <2>12, <2>13, <2>14, <2>15 DEF TokensAreWords
  <2>17. UseInv'
    BY <1>1, <1>3, <2>2, <2>3, <2>4, <2>6, <2>14 DEF UseInv
  <2> QED
    BY <2>16, <2>17
<1> QED
  BY <1>2, <1>3

-----------------------------------------------------------------------------
(* /kick.                                                                  *)

\* What std::stoul may throw for.
Bad(s) == ~DigitsFirst(s, 1) \/ DigitsFirst(s, MaxDigits)

\* What is all that is left begins with the digits its first word begins with.
LEMMA WordsBegin ==
  ASSUME params \in Seq(Char), NEW j \in WordStarts, Bad(WordsFrom(j))
  PROVE  Bad(Word(j))
<1>1. PICK e \in j..Len(params) : e = WordEnd(j)
  BY WordEndIn
<1>2. PICK t \in 1..Len(params) : t = Max(WordPlaces) /\ e <= t
  <2>1. WordPlaces # {}
    BY PlacesAre
  <2> QED
    BY <1>1, <2>1, LastPlaceIs, WordIs
<1>3. j \in 1..Len(params) /\ Len(params) \in Nat /\ j <= e
  BY <1>1, PlacesAre
<1>4. PICK w \in Seq(Char) :
        /\ w = Word(j) /\ Len(w) = e - j + 1
        /\ \A k \in 1..(e - j + 1) : w[k] = Plain[j + k - 1]
  <2>1. /\ SubSeq(Plain, j, e) \in Seq(Char) /\ Len(SubSeq(Plain, j, e)) = e - j + 1
        /\ \A k \in 1..(e - j + 1) : SubSeq(Plain, j, e)[k] = Plain[j + k - 1]
    <3>1. j \in 1..(Len(Plain) + 1) /\ e \in 0..Len(Plain) /\ j <= e + 1 /\ Plain \in Seq(Char)
      BY <1>1, <1>3, PlainIs
    <3> QED
      BY <3>1, BetweenIs
  <2> QED
    BY <1>1, <2>1, WordIs
<1>5. PICK v \in Seq(Char) :
        /\ v = WordsFrom(j) /\ Len(v) = t - j + 1
        /\ \A k \in 1..(t - j + 1) : v[k] = Plain[j + k - 1]
  <2>1. /\ SubSeq(Plain, j, t) \in Seq(Char) /\ Len(SubSeq(Plain, j, t)) = t - j + 1
        /\ \A k \in 1..(t - j + 1) : SubSeq(Plain, j, t)[k] = Plain[j + k - 1]
    <3>1. j \in 1..(Len(Plain) + 1) /\ t \in 0..Len(Plain) /\ j <= t + 1 /\ Plain \in Seq(Char)
      BY <1>2, <1>3, PlainIs
    <3> QED
      BY <3>1, BetweenIs
  <2> QED
    BY <1>2, <2>1, WordIs
<1>6. \A k \in 1..Len(w) : k \in 1..Len(v) /\ w[k] = v[k]
  <2>1. \A k \in 1..(e - j + 1) : k \in 1..(t - j + 1)
    BY <1>2, <1>3
  <2> QED
    BY <1>4, <1>5, <2>1
<1>7. Len(w) < Len(v) => v[Len(w) + 1] = Blank
  <2>1. SUFFICES ASSUME e < t PROVE v[Len(w) + 1] = Blank
    BY <1>2, <1>3, <1>4, <1>5
  <2>2. e + 1 \in 1..Len(params) /\ e + 1 \notin WordPlaces
    BY <1>1, <1>2, <1>3, <2>1, WordEndIn
  <2>3. Len(w) + 1 \in 1..(t - j + 1) /\ j + (Len(w) + 1) - 1 = e + 1
    BY <1>2, <1>3, <1>4, <2>1
  <2> QED
    BY <1>5, <2>2, <2>3, PlainIs
<1>8. Digit # Blank
  BY CellsDiffer
<1>9. Len(w) \in Nat /\ Len(v) \in Nat /\ Len(w) <= Len(v) /\ MaxDigits \in Nat \ {0}
  BY <1>2, <1>3, <1>4, <1>5, BoundAssumption
<1>10. ASSUME DigitsFirst(w, 1) PROVE DigitsFirst(v, 1)
  <2>1. PICK k \in 0..(Len(w) - 1) :
          (\A i \in 1..k : w[i] = Blank) /\ (\A i \in (k + 1)..(k + 1) : w[i] = Digit)
    BY <1>10 DEF DigitsFirst
  <2>2. k \in 0..(Len(v) - 1)
    BY <1>9
  <2>3. \A i \in 1..(k + 1) : i \in 1..Len(w)
    BY <1>9
  <2>4. (\A i \in 1..k : v[i] = Blank) /\ (\A i \in (k + 1)..(k + 1) : v[i] = Digit)
    BY <1>6, <2>1, <2>3
  <2> QED
    BY <2>2, <2>4 DEF DigitsFirst
<1>11. ASSUME DigitsFirst(w, 1), DigitsFirst(v, MaxDigits) PROVE DigitsFirst(w, MaxDigits)
  <2>1. PICK k \in 0..(Len(w) - 1) : (\A i \in 1..k : w[i] = Blank) /\ w[k + 1] = Digit
    <3>1. PICK k \in 0..(Len(w) - 1) :
            (\A i \in 1..k : w[i] = Blank) /\ (\A i \in (k + 1)..(k + 1) : w[i] = Digit)
      BY <1>11 DEF DigitsFirst
    <3> QED
      BY <1>9, <3>1
  <2>2. PICK m \in 0..(Len(v) - MaxDigits) :
          /\ \A i \in 1..m : v[i] = Blank
          /\ \A i \in (m + 1)..(m + MaxDigits) : v[i] = Digit
    BY <1>11 DEF DigitsFirst
  <2>3. k \in Nat /\ m \in Nat /\ k + 1 \in 1..Len(w) /\ m + 1 \in (m + 1)..(m + MaxDigits)
    BY <1>9
  <2>4. v[k + 1] = Digit /\ v[m + 1] = Digit /\ \A i \in 1..k : v[i] = Blank
    <3>1. \A i \in 1..k : i \in 1..Len(w)
      BY <1>9, <2>3
    <3> QED
      BY <1>6, <2>1, <2>2, <2>3, <3>1
  <2>5. m = k
    <3>1. k + 1 \in 1..m \/ m + 1 \in 1..k \/ m = k
      BY <2>3
    <3> QED
      BY <1>8, <2>2, <2>4, <3>1
  <2>6. k + MaxDigits <= Len(w)
    <3>1. SUFFICES ASSUME Len(w) < k + MaxDigits PROVE FALSE
      BY <1>9, <2>3
    <3>2. Len(w) + 1 \in (k + 1)..(k + MaxDigits) /\ Len(w) < Len(v)
      BY <1>9, <2>2, <2>3, <2>5, <3>1
    <3> QED
      BY <1>7, <1>8, <2>2, <2>5, <3>2
  <2>7. \A i \in (k + 1)..(k + MaxDigits) : w[i] = Digit
    <3>1. \A i \in (k + 1)..(k + MaxDigits) : i \in 1..Len(w)
      BY <1>9, <2>3, <2>6
    <3> QED
      BY <1>6, <2>2, <2>5, <3>1
  <2>8. k \in 0..(Len(w) - MaxDigits)
    BY <1>9, <2>3, <2>6
  <2> QED
    BY <2>1, <2>7, <2>8 DEF DigitsFirst
<1> QED
  BY <1>4, <1>5, <1>10, <1>11 DEF Bad

\* Where all that is left is one character, so is the word.
LEMMA OneCharacter ==
  ASSUME params \in Seq(Char), NEW j \in WordStarts, NEW c, WordsFrom(j) = <<c>>
  PROVE  Word(j) = <<c>>
<1>1. PICK t \in 1..Len(params) : t = Max(WordPlaces) /\ j <= t /\ j \in 1..Len(params)
  <2>1. j \in WordPlaces /\ WordPlaces # {}
    BY PlacesAre
  <2> QED
    BY <2>1, LastPlaceIs, PlacesAre
<1>2. Len(SubSeq(Plain, j, t)) = t - j + 1
  <2>1. j \in 1..(Len(Plain) + 1) /\ t \in 0..Len(Plain) /\ j <= t + 1 /\ Plain \in Seq(Char)
    BY <1>1, PlainIs
  <2> QED
    BY <2>1, BetweenIs
<1>3. t - j + 1 = 1
  <2>1. SubSeq(Plain, j, t) = <<c>>
    BY <1>1, WordIs
  <2>2. Len(<<c>>) = 1
    OBVIOUS
  <2> QED
    BY <1>2, <2>1, <2>2
<1>4. WordEnd(j) = t
  <2>1. WordEnd(j) \in j..Len(params) /\ WordEnd(j) <= t
    BY <1>1, WordEndIn, WordIs
  <2> QED
    BY <1>1, <1>3, <2>1
<1> QED
  BY <1>1, <1>4, WordIs

\* std::stoul is given a word that comes after -id, but for the first in quotes.
LEMMA KickThrows ==
  ASSUME params \in Seq(Char), TokensAreWords, UseInv, arg \in Nat \ {0},
         KickId, pc' = "thrown"
  PROVE  OnlyBadIdsThrow'
<1>1. /\ pc = "use" /\ arg < Len(args) /\ Tokens[arg] = <<Id>>
      /\ Bad(Tokens[arg + 1]) /\ params' = params
  <2>1. "use" # "thrown"
    OBVIOUS
  <2> QED
    BY <2>1 DEF KickId, InKick, AfterStoul, Bad
<1>2. WordPlaces # {} /\ args \in Seq(WordStarts)
  <2>1. ASSUME Len(args) = 1 PROVE FALSE
    <3>1. arg < 1
      BY <1>1, <2>1
    <3> QED
      BY <3>1
  <2> QED
    BY <2>1 DEF UseInv
<1>3. PICK n \in Nat : n = Len(args) /\ arg \in 1..(n - 1) /\ arg \in 1..n /\ arg + 1 \in 1..n
  BY <1>1, <1>2
<1>4. PICK i \in WordStarts, j \in WordStarts : i = args[arg] /\ j = args[arg + 1]
  BY <1>2, <1>3, ElementOfSeq
<1>5. /\ args[1] = Min(WordStarts)
      /\ (params[1] = Quote /\ arg = 1) \/ Consecutive(i, j)
      /\ \A k \in 1..n : Tokens[k] = IF n = MaxArgs /\ args[k] = args[n]
                                     THEN WordsFrom(args[k]) ELSE Word(args[k])
  BY <1>1, <1>2, <1>3, <1>4 DEF TokensAreWords
<1>6. /\ WordStarts' = WordStarts /\ \A k : Word(k)' = Word(k)
      /\ \A k, m : Consecutive(k, m)' = Consecutive(k, m)
  BY <1>1, SameWords
<1>7. CASE params[1] = Quote /\ arg = 1
  <2>1. Tokens[arg] \in {Word(i), WordsFrom(i)} /\ i = Min(WordStarts)
    BY <1>3, <1>4, <1>5, <1>7
  <2>2. Word(i) = <<Id>>
    BY <1>1, <2>1, OneCharacter
  <2> QED
    BY <1>1, <1>6, <1>7, <2>1, <2>2 DEF OnlyBadIdsThrow
<1>8. CASE Consecutive(i, j)
  <2>1. i # args[n]
    <3>1. j <= args[n]
      BY <1>2, <1>3, <1>4 DEF UseInv
    <3>2. i < j /\ i \in Nat /\ j \in Nat
      BY <1>8, PlacesAre DEF Consecutive
    <3> QED
      BY <3>1, <3>2
  <2>2. Word(i) = <<Id>>
    BY <1>1, <1>3, <1>4, <1>5, <2>1
  <2>3. Bad(Word(j))
    <3>1. Tokens[arg + 1] \in {Word(j), WordsFrom(j)}
      BY <1>3, <1>4, <1>5
    <3> QED
      BY <1>1, <3>1, WordsBegin
  <2>4. ~DigitsFirst(Word(j), 1)' \/ DigitsFirst(Word(j), MaxDigits)'
    BY <1>6, <2>3 DEF Bad, DigitsFirst
  <2> QED
    BY <1>6, <1>8, <2>2, <2>4 DEF OnlyBadIdsThrow
<1> QED
  BY <1>5, <1>7, <1>8

-----------------------------------------------------------------------------
(* From the line to the tokens.                                            *)

\* What holds of the buffer and the pointers at each step of the way.
TokensInv ==
  /\ line \in Seq(Char)
  /\ params \in Seq(Char)
  /\ arg \in Nat \ {0}
  /\ pc \in {"unquote", "trim", "split", "restore"} => params # <<>> /\ params[1] # Blank
  /\ pc \in {"trim", "split", "restore"} => Sized
  /\ pc = "trim" => CopyInv
  /\ pc \in {"split", "restore"} => SplitInv
  /\ pc = "restore" => ~MoreTokens
  /\ pc = "use" => UseInv
  /\ TokensAreWords
  /\ OnlyBadIdsThrow

\* ParseCommand leaves no blank on either side of the parameters.
LEMMA ParsedParams ==
  ASSUME line \in Seq(Char), ParseCommand
  PROVE  params' \in Seq(Char) /\ (pc' = "unquote" => params' # <<>> /\ params'[1] # Blank)
<1> DEFINE starts == {i \in 1..Len(line) : line[i] # Blank} \cup {Len(line) + 1}
           ends == {i \in Min(starts)..Len(line) : line[i] = Blank} \cup {Len(line) + 1}
<1>1. params' = Trimmed(SubSeq(line, Min(ends) + 1, Len(line)))
  BY DEF ParseCommand
<1>2. PICK l \in Nat : l = Len(line)
  OBVIOUS
<1>3. PICK s \in Nat : s = Min(starts)
  <2>1. starts \subseteq Nat /\ starts # {}
    BY <1>2
  <2> HIDE DEF starts
  <2> QED
    BY <2>1, MinIn
<1>4. PICK e \in Nat : e = Min(ends) /\ e <= l + 1
  <2>1. ends \subseteq Nat /\ l + 1 \in ends
    <3>1. ends = {i \in s..l : line[i] = Blank} \cup {l + 1}
      BY <1>2, <1>3
    <3> HIDE DEF ends
    <3> QED
      BY <3>1
  <2> HIDE DEF ends
  <2> QED
    BY <2>1, MinIn
<1> HIDE DEF starts, ends
<1>5. SubSeq(line, e + 1, l) \in Seq(Char)
  <2>1. CASE e = l + 1
    <3>1. SubSeq(line, e + 1, l) = <<>>
      BY <1>2, <2>1
    <3> QED
      BY <3>1, EmptySeq
  <2>2. CASE e # l + 1
    <3>1. e + 1 \in 1..(Len(line) + 1) /\ l \in 0..Len(line) /\ e + 1 <= l + 1
      BY <1>2, <1>4, <2>2
    <3> QED
      BY <3>1, BetweenIs
  <2> QED
    BY <2>1, <2>2
<1>6. params' \in Seq(Char) /\ Tight(params')
  BY <1>1, <1>2, <1>4, <1>5, TrimmedTight
<1>7. pc' = "unquote" => params' # <<>>
  BY DEF ParseCommand
<1> QED
  BY <1>6, <1>7 DEF Tight

\* The whole way keeps the invariant.
LEMMA TokensInvariant == Spec => []TokensInv
<1>1. Init => TokensInv
  BY EmptySeq DEF Init, TokensInv, TokensAreWords, OnlyBadIdsThrow
<1>2. TokensInv /\ [Next]_vars => TokensInv'
  <2> SUFFICES ASSUME TokensInv, [Next]_vars PROVE TokensInv'
    OBVIOUS
  <2>0. line \in Seq(Char) /\ params \in Seq(Char) /\ arg \in Nat \ {0}
    BY DEF TokensInv
  <2>1. ASSUME line' \in Seq(Char), params' \in Seq(Char), arg' = arg,
               pc' \in {"type", "parse", "done", "null", "unquote"},
               pc' = "unquote" => params' # <<>> /\ params'[1] # Blank
        PROVE  TokensInv'
    BY <2>0, <2>1 DEF TokensInv, TokensAreWords, OnlyBadIdsThrow
  <2>2. ASSUME NEW c \in Char, Type(c) PROVE TokensInv'
    <3>1. line' \in Seq(Char)
      BY <2>0, <2>2, AppendProperties DEF Type
    <3> QED
      BY <2>0, <2>1, <2>2, <3>1 DEF Type
  <2>3. CASE GetNextCommand
    <3>1. line' \in Seq(Char)
      BY <2>0, <2>3, TrimmedTight DEF GetNextCommand
    <3>2. pc' \in {"done", "parse"} /\ params' = params /\ arg' = arg
      BY <2>3 DEF GetNextCommand
    <3> QED
      BY <2>0, <2>1, <3>1, <3>2
  <2>4. CASE ParseCommand
    <3>1. line' = line /\ arg' = arg /\ pc' \in {"null", "done", "unquote"}
      BY <2>4 DEF ParseCommand
    <3> QED
      BY <2>0, <2>1, <2>4, <3>1, ParsedParams
  <2>5. CASE Unquote
    <3>1. Sized' /\ CopyInv'
      BY <2>0, <2>5, UnquoteCopies
    <3>2. /\ pc = "unquote" /\ pc' = "trim"
          /\ line' = line /\ params' = params /\ arg' = arg
      BY <2>5 DEF Unquote
    <3> QED
      BY <2>0, <3>1, <3>2 DEF TokensInv, TokensAreWords, OnlyBadIdsThrow
  <2>6. CASE TrimParameters
    <3>1. /\ pc = "trim" /\ pc' = "split"
          /\ line' = line /\ params' = params /\ arg' = arg
      BY <2>6 DEF TrimParameters
    <3>2. params # <<>> /\ params[1] # Blank /\ Sized /\ CopyInv
      BY <3>1 DEF TokensInv
    <3>3. Sized' /\ SplitInv'
      BY <2>0, <2>6, <3>2, TrimFinds
    <3> QED
      BY <2>0, <3>1, <3>2, <3>3 DEF TokensInv, TokensAreWords, OnlyBadIdsThrow
  <2>7. CASE Split
    <3>1. /\ pc = "split" /\ pc' = pc
          /\ line' = line /\ params' = params /\ arg' = arg
      BY <2>7 DEF Split
    <3>2. params # <<>> /\ params[1] # Blank /\ Sized /\ SplitInv
      BY <3>1 DEF TokensInv
    <3>3. Sized' /\ SplitInv'
      <4>1. WordPlaces' = WordPlaces
        BY <3>1, SameWords
      <4>2. CASE WordPlaces = {}
        BY <2>0, <2>7, <3>2, <4>1, <4>2, SplitsNothing DEF SplitInv
      <4>3. CASE WordPlaces # {}
        BY <2>0, <2>7, <3>2, <4>1, <4>3, SplitsWords DEF SplitInv
      <4> QED
        BY <4>2, <4>3
    <3> QED
      BY <2>0, <3>1, <3>2, <3>3 DEF TokensInv, TokensAreWords, OnlyBadIdsThrow
  <2>8. CASE SplitDone
    <3>1. /\ pc = "split" /\ pc' = "restore" /\ ~MoreTokens
          /\ UNCHANGED <<line, params, raw, next, args, arg>>
      BY <2>8 DEF SplitDone
    <3>2. params # <<>> /\ params[1] # Blank /\ Sized /\ SplitInv
      BY <3>1 DEF TokensInv
    <3>3. Sized' /\ SplitInv' /\ ~MoreTokens'
      <4>1. /\ WordPlaces' = WordPlaces /\ WordStarts' = WordStarts
            /\ \A i, j : WordEnd(i)' = WordEnd(i) /\ Held(i)' = Held(i)
                         /\ Consecutive(i, j)' = Consecutive(i, j)
        BY <3>1, SameWords DEF Held
      <4>2. Sized' /\ ~MoreTokens'
        BY <3>1, <3>2 DEF Sized, MoreTokens
      <4>3. SplitInv'
        BY <3>1, <3>2, <4>1 DEF SplitInv, NoWordInv, BufferInv, PointersInv, CutInv
      <4> QED
        BY <4>2, <4>3
    <3> QED
      BY <2>0, <3>1, <3>2, <3>3 DEF TokensInv, TokensAreWords, OnlyBadIdsThrow
  <2>9. CASE Restore
    <3>1. /\ pc = "restore" /\ pc' = "use"
          /\ line' = line /\ params' = params /\ arg' = arg
      BY <2>9 DEF Restore
    <3>2. params # <<>> /\ Sized /\ SplitInv /\ ~MoreTokens
      BY <3>1 DEF TokensInv
    <3>3. TokensAreWords' /\ UseInv'
      BY <2>0, <2>9, <3>2, RestoreWords
    <3> QED
      BY <2>0, <3>1, <3>3 DEF TokensInv, OnlyBadIdsThrow
  <2>10. ASSUME pc = "use", UNCHANGED <<line, params, raw, args>>, arg' \in Nat \ {0},
                pc' \in {"use", "done", "thrown"}, pc' = "thrown" => OnlyBadIdsThrow'
         PROVE  TokensInv'
    <3>1. /\ WordPlaces' = WordPlaces /\ WordStarts' = WordStarts
          /\ \A i : Word(i)' = Word(i) /\ WordsFrom(i)' = WordsFrom(i)
          /\ \A i, j : Consecutive(i, j)' = Consecutive(i, j)
      BY <2>10, SameWords
    <3>2. Tokens' = Tokens
      BY <2>10 DEF Tokens, TextAt, EndOf
    <3>3. UseInv /\ TokensAreWords
      BY <2>10 DEF TokensInv
    <3>4. UseInv'
      BY <2>10, <3>1, <3>3 DEF UseInv
    <3>5. TokensAreWords'
      BY <2>10, <3>1, <3>2, <3>3 DEF TokensAreWords
    <3>6. OnlyBadIdsThrow'
      BY <2>10 DEF OnlyBadIdsThrow
    <3> QED
      BY <2>0, <2>10, <3>4, <3>5, <3>6 DEF TokensInv
  <2>11. CASE KickId
    <3>1. /\ pc = "use" /\ pc' \in {"use", "thrown"} /\ arg' = arg + 2
          /\ UNCHANGED <<line, params, raw, args>>
      BY <2>11 DEF KickId, InKick, AfterStoul
    <3>2. pc' = "thrown" => OnlyBadIdsThrow'
      <4>1. UseInv /\ TokensAreWords
        BY <3>1 DEF TokensInv
      <4> QED
        BY <2>0, <2>11, <4>1, KickThrows
    <3>3. arg' \in Nat \ {0}
      BY <2>0, <3>1
    <3> QED
      BY <2>10, <3>1, <3>2, <3>3
  <2>12. CASE KickBoth \/ KickOther \/ KickDone
    <3>1. /\ pc = "use" /\ pc' \in {"use", "done"} /\ arg' \in {arg, arg + 1, arg + 2}
          /\ UNCHANGED <<line, params, raw, args>>
      BY <2>12 DEF KickBoth, KickOther, KickDone, InKick
    <3>2. arg' \in Nat \ {0}
      BY <2>0, <3>1
    <3> QED
      BY <2>10, <3>1, <3>2
  <2>13. CASE Finished \/ UNCHANGED vars
    <3>1. UNCHANGED vars
      BY <2>13 DEF Finished
    <3>2. /\ WordPlaces' = WordPlaces /\ WordStarts' = WordStarts
          /\ \A i : Word(i)' = Word(i) /\ WordsFrom(i)' = WordsFrom(i) /\ Held(i)' = Held(i)
                   /\ WordEnd(i)' = WordEnd(i)
          /\ \A i, j : Consecutive(i, j)' = Consecutive(i, j)
      BY <3>1, SameWords DEF vars, Held
    <3>3. Tokens' = Tokens
      BY <3>1 DEF vars, Tokens, TextAt, EndOf
    <3>4. TokensAreWords'
      BY <3>1, <3>2, <3>3 DEF TokensInv, TokensAreWords, vars
    <3>5. OnlyBadIdsThrow'
      <4>1. \A i, n : DigitsFirst(Word(i), n)' <=> DigitsFirst(Word(i), n)
        BY <3>2 DEF DigitsFirst
      <4> QED
        BY <3>1, <3>2, <4>1 DEF TokensInv, OnlyBadIdsThrow, vars
    <3>6. /\ pc' \in {"split", "restore"} => SplitInv'
          /\ pc' = "trim" => CopyInv' /\ Sized'
          /\ pc' = "use" => UseInv'
      <4>1. pc \in {"split", "restore"} => SplitInv'
        BY <3>1, <3>2 DEF vars, TokensInv, SplitInv, NoWordInv, BufferInv, PointersInv, CutInv
      <4>2. pc = "trim" => CopyInv' /\ Sized'
        BY <3>1, <3>2 DEF vars, TokensInv, CopyInv, Sized
      <4>3. pc = "use" => UseInv'
        BY <3>1, <3>2 DEF vars, TokensInv, UseInv
      <4> QED
        BY <3>1, <4>1, <4>2, <4>3 DEF vars
    <3> QED
      BY <2>0, <3>1, <3>4, <3>5, <3>6 DEF TokensInv, vars, Sized, MoreTokens
  <2> QED
    BY <2>2, <2>3, <2>4, <2>5, <2>6, <2>7, <2>8, <2>9, <2>11, <2>12, <2>13 DEF Next
<1> QED
  BY <1>1, <1>2, PTL DEF Spec

\* ParseCommandParameters, for lines of any length and arrays of any size: the pointers are
\* those of the words, in order, each word is cut off from the next, and no pointer or
\* terminator is set anywhere else.
THEOREM TokensCorrect == Spec => []TokensAreWords
<1>1. TokensInv => TokensAreWords
  BY DEF TokensInv
<1> QED
  BY <1>1, TokensInvariant, PTL

\* /kick: whatever else is on the line, the exception that ends the server is thrown only
\* for a -id before something that is no number, or one with as many digits as the largest
\* unsigned long or more; or for a -id in quotes that comes first.
THEOREM KickCorrect == Spec => []OnlyBadIdsThrow
<1>1. TokensInv => OnlyBadIdsThrow
  BY DEF TokensInv
<1> QED
  BY <1>1, TokensInvariant, PTL
=============================================================================

--------------------------- MODULE InputLineProofs ---------------------------
(***************************************************************************)
(* Proofs about InputLine, for any alphabet and any size of the arrays.    *)
(*                                                                         *)
(* The properties speak of the strings one reads from memory; the          *)
(* invariant speaks of each place of the two arrays (LineInv), since a key *)
(* changes places.  TextFrom and TextUntil lead from one to the other.     *)
(***************************************************************************)
EXTENDS InputLine, NaturalFacts, SequenceTheorems

Cell == 1..(2 * MaxInput)

InputTypes ==
  /\ memory \in [Cell -> Letter \cup {Junk, Nul}]
  /\ inputCount \in 0..MaxInput /\ lastInputCount \in 0..MaxInput
  /\ typed \in Seq(Letter) /\ entered \in Seq(Letter)
  /\ aborted \in BOOLEAN /\ touched \in BOOLEAN
  /\ overwritten \in BOOLEAN /\ spoilt \in BOOLEAN

\* m_inputArr holds the line typed.
LineInPlace ==
  /\ inputCount = Len(typed)
  /\ \A i \in 1..inputCount : memory[i] = typed[i]
  /\ memory[inputCount + 1] = Nul

\* m_lastInputArr holds the line entered.
LastInPlace ==
  /\ lastInputCount = Len(entered)
  /\ \A i \in 1..lastInputCount : memory[MaxInput + i] = entered[i]

LineInv ==
  /\ ~touched => /\ typed = <<>> /\ entered = <<>> /\ inputCount = 0 /\ lastInputCount = 0
                 /\ ~overwritten /\ ~aborted
  /\ overwritten => memory[Last] = Nul
  /\ touched /\ ~spoilt =>
       /\ LineInPlace
       /\ entered # <<>> => pushed = entered
       /\ lastInputCount = Len(entered) \/ aborted
       /\ overwritten \/ LastInPlace
       /\ inputCount = MaxInput => overwritten

-----------------------------------------------------------------------------
(* Strings in memory, and what strncpy_s copies.                           *)

\* The string at p ends at the first terminator.
LEMMA TextFrom ==
  ASSUME InputTypes, NEW p \in Cell
  PROVE  /\ TextAt(p) \in Seq(Letter \cup {Junk, Nul})
         /\ Len(TextAt(p)) \in 0..(2 * MaxInput + 1 - p)
         /\ \A i \in 1..Len(TextAt(p)) : TextAt(p)[i] = memory[p + i - 1]
                                        /\ memory[p + i - 1] # Nul
         /\ p + Len(TextAt(p)) \in Cell => memory[p + Len(TextAt(p))] = Nul
<1> DEFINE ends == {i \in p..(2 * MaxInput) : memory[i] = Nul} \cup {2 * MaxInput + 1}
           e == Min(ends)
<1>1. MaxInput \in Nat \ {0} /\ p \in Nat \ {0} /\ p <= 2 * MaxInput /\ 2 * MaxInput + 1 \in Nat
  BY InputAssumption DEF Cell
<1>2. ends \subseteq p..(2 * MaxInput + 1) /\ 2 * MaxInput + 1 \in ends
  BY <1>1
<1>3. e \in ends /\ \A i \in ends : e <= i
  <2> HIDE DEF ends
  <2>1. ends \subseteq Nat /\ ends # {}
    BY <1>1, <1>2
  <2> QED
    BY <2>1, MinIn
<1>4. e \in p..(2 * MaxInput + 1) /\ (e \in Cell => memory[e] = Nul)
      /\ \A i \in p..(e - 1) : i \in Cell /\ memory[i] # Nul
  <2>1. e \in p..(2 * MaxInput + 1)
    BY <1>2, <1>3
  <2>2. e \in Cell => memory[e] = Nul
    BY <1>1, <1>3 DEF Cell
  <2>3. ASSUME NEW i \in p..(e - 1) PROVE i \in Cell /\ memory[i] # Nul
    <3>1. i \in p..(2 * MaxInput) /\ i < e /\ i \in Cell
      BY <1>1, <2>1 DEF Cell
    <3>2. memory[i] = Nul => i \in ends
      BY <3>1
    <3> HIDE DEF ends, e
    <3> QED
      BY <1>1, <1>3, <2>1, <3>1, <3>2
  <2> QED
    BY <2>1, <2>2, <2>3
<1> HIDE DEF e, ends
<1>5. memory \in Seq(Letter \cup {Junk, Nul}) /\ Len(memory) = 2 * MaxInput
  BY <1>1 DEF InputTypes, Cell
<1>6. /\ TextAt(p) \in Seq(Letter \cup {Junk, Nul})
      /\ Len(TextAt(p)) = e - p
      /\ \A i \in 1..(e - p) : TextAt(p)[i] = memory[p + i - 1]
  <2>1. TextAt(p) = SubSeq(memory, p, e - 1)
    BY DEF TextAt, e, ends
  <2>2. p \in 1..(Len(memory) + 1) /\ e - 1 \in (p - 1)..Len(memory)
    <3>1. e \in p..(2 * MaxInput + 1)
      BY <1>4
    <3> QED
      BY <1>1, <1>5, <3>1
  <2> QED
    BY <1>1, <1>4, <1>5, <2>1, <2>2, SubSeqProperties
<1> QED
  BY <1>1, <1>4, <1>6

\* Its length is a number.
LEMMA TextLength ==
  ASSUME InputTypes, NEW p \in Cell
  PROVE  Len(TextAt(p)) \in Nat
<1>1. Len(TextAt(p)) \in 0..(2 * MaxInput + 1 - p)
  BY TextFrom
<1> QED
  BY <1>1

\* What lies between p and a terminator, with none before it, is the string.
LEMMA TextUntil ==
  ASSUME InputTypes, NEW p \in Cell, NEW n \in Nat, p + n \in Cell, memory[p + n] = Nul,
         \A i \in 1..n : memory[p + i - 1] # Nul
  PROVE  Len(TextAt(p)) = n
<1> DEFINE l == Len(TextAt(p))
<1>1. l \in Nat /\ p \in Nat /\ \A i \in 1..l : memory[p + i - 1] # Nul
  <2>1. p \in Nat
    BY InputAssumption DEF Cell
  <2> QED
    BY <2>1, TextFrom, TextLength
<1>2. p + l \in Cell => memory[p + l] = Nul
  BY TextFrom
<1> HIDE DEF l
<1>3. CASE l < n
  <2>1. p + l \in Cell /\ p + (l + 1) - 1 = p + l /\ l + 1 \in 1..n
    BY <1>1, <1>3, InputAssumption DEF Cell
  <2> QED
    BY <1>2, <2>1
<1>4. CASE n < l
  <2>1. p + (n + 1) - 1 = p + n /\ n + 1 \in 1..l
    BY <1>1, <1>4
  <2> QED
    BY <1>1, <2>1
<1> QED
  BY <1>1, <1>3, <1>4 DEF l

\* strncpy_s copies n characters, or the whole string if it is shorter.
LEMMA CopiedIs ==
  ASSUME InputTypes, NEW p \in Cell, NEW n \in Nat
  PROVE  Copied(p, n) = IF n <= Len(TextAt(p)) THEN n ELSE Len(TextAt(p))
<1> DEFINE l == Len(TextAt(p))
<1>1. l \in Nat
  BY TextLength
<1> HIDE DEF l
<1>2. \A x \in {n, l} : (\A y \in {n, l} : x <= y) => Min({n, l}) = x
  BY <1>1, MinIs
<1>3. Min({n, l}) = IF n <= l THEN n ELSE l
  BY <1>1, <1>2
<1> QED
  BY <1>3 DEF Copied, l

\* The memory after a copy from one array to the other that fits.
LEMMA CopyIs ==
  ASSUME InputTypes, NEW n \in 0..MaxInput, NEW p \in {1, Last}, NEW to \in {1, Last},
         Fits(p, n)
  PROVE  /\ Copied(p, n) \in 0..(MaxInput - 1)
         /\ CopyTo(to, p, n) \in [Cell -> Letter \cup {Junk, Nul}]
         /\ \A i \in 1..Copied(p, n) : CopyTo(to, p, n)[to + i - 1] = memory[p + i - 1]
         /\ CopyTo(to, p, n)[to + Copied(p, n)] = Nul
         /\ \A i \in Cell : ~(i \in to..(to + Copied(p, n))) => CopyTo(to, p, n)[i] = memory[i]
<1>1. MaxInput \in Nat \ {0} /\ p \in Cell /\ to \in 1..(MaxInput + 1) /\ n \in Nat
  BY InputAssumption DEF Last, Cell
<1> DEFINE k == Copied(p, n)
<1>2. k \in 0..(MaxInput - 1)
  BY <1>1, CopiedIs, TextFrom DEF Fits, Cell
<1> DEFINE copy == [i \in Cell |-> CASE i - to \in 0..(k - 1) -> memory[p + (i - to)]
                                     [] i - to = k            -> Nul
                                     [] OTHER                 -> memory[i]]
<1>3. CopyTo(to, p, n) = copy
  BY DEF CopyTo, Cell
<1> HIDE DEF k
<1>4. ASSUME NEW i \in Cell, i - to \in 0..(k - 1) PROVE p + (i - to) \in Cell
  BY <1>1, <1>2, <1>4 DEF Cell, Last
<1>5. copy \in [Cell -> Letter \cup {Junk, Nul}]
  <2>1. ASSUME NEW i \in Cell PROVE copy[i] \in Letter \cup {Junk, Nul}
    BY <1>4 DEF InputTypes
  <2> QED
    BY <2>1
<1>6. ASSUME NEW i \in 1..k PROVE copy[to + i - 1] = memory[p + i - 1]
  <2>1. to + i - 1 \in Cell /\ (to + i - 1) - to \in 0..(k - 1) /\ p + ((to + i - 1) - to) = p + i - 1
    BY <1>1, <1>2 DEF Cell
  <2> QED
    BY <2>1
<1>7. copy[to + k] = Nul
  <2>1. to + k \in Cell /\ (to + k) - to = k /\ ~(k \in 0..(k - 1))
    BY <1>1, <1>2 DEF Cell
  <2> QED
    BY <2>1
<1>8. ASSUME NEW i \in Cell, ~(i \in to..(to + k)) PROVE copy[i] = memory[i]
  <2>1. ~(i - to \in 0..(k - 1)) /\ i - to # k
    BY <1>1, <1>2, <1>8 DEF Cell
  <2> QED
    BY <2>1
<1> HIDE DEF copy
<1> QED
  BY <1>2, <1>3, <1>5, <1>6, <1>7, <1>8 DEF k

-----------------------------------------------------------------------------
(* The invariant.                                                          *)

\* A line that is in its place is the string in m_inputArr.
LEMMA LineIsText ==
  ASSUME InputTypes, LineInPlace
  PROVE  TextAt(1) = typed
<1>1. /\ inputCount \in Nat /\ 1 \in Cell /\ 1 + inputCount \in Cell
      /\ typed \in Seq(Letter) /\ Len(typed) = inputCount /\ Nul \notin Letter
  BY InputAssumption, CharAssumption DEF InputTypes, LineInPlace, Cell
<1>2. \A i \in 1..inputCount : memory[1 + i - 1] = typed[i] /\ typed[i] # Nul
  BY <1>1 DEF LineInPlace
<1>3. memory[1 + inputCount] = Nul
  BY <1>1 DEF LineInPlace, InputTypes
<1>4. Len(TextAt(1)) = inputCount
  BY <1>1, <1>2, <1>3, TextUntil
<1>5. TextAt(1) \in Seq(Letter \cup {Junk, Nul}) /\ typed \in Seq(Letter \cup {Junk, Nul})
      /\ \A i \in 1..inputCount : TextAt(1)[i] = typed[i]
  <2>1. TextAt(1) \in Seq(Letter \cup {Junk, Nul})
        /\ \A i \in 1..Len(TextAt(1)) : TextAt(1)[i] = memory[1 + i - 1]
    BY <1>1, TextFrom
  <2>2. typed \in Seq(Letter \cup {Junk, Nul})
    BY <1>1
  <2> QED
    BY <1>2, <1>4, <2>1, <2>2
<1> DEFINE text == TextAt(1)
<1>6. Len(text) = Len(typed) /\ text \in Seq(Letter \cup {Junk, Nul})
      /\ \A i \in 1..Len(text) : text[i] = typed[i]
  BY <1>1, <1>4, <1>5
<1> HIDE DEF text
<1>7. text = typed
  BY <1>5, <1>6, SeqEqual
<1> QED
  BY <1>7 DEF text

\* A last line that is in its place is what up recalls.
LEMMA LastIsText ==
  ASSUME InputTypes, LastInPlace
  PROVE  /\ Copied(Last, lastInputCount) = Len(entered)
         /\ SubSeq(TextAt(Last), 1, Len(entered)) = entered
<1> DEFINE n == lastInputCount
<1>1. /\ n \in 0..MaxInput /\ Last \in Cell /\ Last = MaxInput + 1 /\ MaxInput \in Nat \ {0}
      /\ entered \in Seq(Letter) /\ Len(entered) = n /\ Nul \notin Letter
  BY InputAssumption, CharAssumption DEF InputTypes, LastInPlace, Cell, Last
<1>2. \A i \in 1..n : memory[MaxInput + i] = entered[i] /\ entered[i] # Nul
  BY <1>1 DEF LastInPlace
<1>3. n <= Len(TextAt(Last))
  <2> DEFINE l == Len(TextAt(Last))
  <2>1. l \in Nat /\ (Last + l \in Cell => memory[Last + l] = Nul)
    BY <1>1, TextFrom, TextLength
  <2> HIDE DEF l
  <2>2. ASSUME l < n PROVE FALSE
    <3>1. l + 1 \in 1..n /\ Last + l = MaxInput + (l + 1) /\ Last + l \in Cell
      BY <1>1, <2>1, <2>2 DEF Cell
    <3> QED
      BY <1>2, <2>1, <3>1
  <2>3. n <= l
    BY <1>1, <2>1, <2>2
  <2> QED
    BY <2>3 DEF l
<1>4. Copied(Last, n) = n
  BY <1>1, <1>3, CopiedIs
<1>5. SubSeq(TextAt(Last), 1, n) = entered
  <2> DEFINE text == TextAt(Last)
  <2>1. /\ text \in Seq(Letter \cup {Junk, Nul}) /\ n <= Len(text)
        /\ \A i \in 1..n : i \in 1..Len(text) /\ text[i] = memory[Last + i - 1]
                           /\ Last + i - 1 = MaxInput + i
    BY <1>1, <1>3, TextFrom
  <2> HIDE DEF text
  <2>2. /\ SubSeq(text, 1, n) \in Seq(Letter \cup {Junk, Nul}) /\ Len(SubSeq(text, 1, n)) = n
        /\ \A i \in 1..n : SubSeq(text, 1, n)[i] = entered[i]
    BY <1>1, <1>2, <2>1
  <2>3. entered \in Seq(Letter \cup {Junk, Nul})
    BY <1>1
  <2>4. SubSeq(text, 1, n) = entered
    BY <1>1, <2>2, <2>3, SeqEqual
  <2> QED
    BY <2>4 DEF text
<1> QED
  BY <1>1, <1>4, <1>5

InputInv == InputTypes /\ LineInv /\ OnlyFullLinesAbort

\* Whether the last line fits, place by place.
LEMMA LastFits ==
  InputTypes =>
    (Fits(Last, lastInputCount) <=>
       lastInputCount < MaxInput \/ \E i \in Last..(2 * MaxInput) : memory[i] = Nul)
<1> SUFFICES ASSUME InputTypes
             PROVE  Fits(Last, lastInputCount) <=>
                      \/ lastInputCount < MaxInput
                      \/ \E i \in Last..(2 * MaxInput) : memory[i] = Nul
  OBVIOUS
<1> DEFINE l == Len(TextAt(Last))
<1>1. Last \in Cell /\ Last = MaxInput + 1 /\ MaxInput \in Nat \ {0}
      /\ lastInputCount \in 0..MaxInput
  BY InputAssumption DEF Cell, Last, InputTypes
<1>2. /\ l \in 0..MaxInput /\ (Last + l \in Cell => memory[Last + l] = Nul)
      /\ \A i \in 1..l : memory[Last + i - 1] # Nul
  BY <1>1, TextFrom
<1>3. Copied(Last, lastInputCount) = IF lastInputCount <= l THEN lastInputCount ELSE l
  BY <1>1, CopiedIs
<1> HIDE DEF l
<1>4. l < MaxInput => Last + l \in Last..(2 * MaxInput) /\ Last + l \in Cell
  BY <1>1, <1>2 DEF Cell
<1>5. ASSUME NEW i \in Last..(2 * MaxInput), memory[i] = Nul PROVE l < MaxInput
  <2>1. ASSUME l = MaxInput PROVE FALSE
    <3>1. i - MaxInput \in 1..l /\ Last + (i - MaxInput) - 1 = i
      BY <1>1, <2>1
    <3> QED
      BY <1>2, <1>5, <3>1
  <2> QED
    BY <1>1, <1>2, <2>1
<1> QED
  BY <1>1, <1>2, <1>3, <1>4, <1>5 DEF Fits

LEMMA InputInvInit == Init => InputInv
<1> SUFFICES ASSUME Init
             PROVE  InputInv
  OBVIOUS
<1>1. InputTypes
  <2>1. memory \in [Cell -> {Junk, Nul}]
    BY DEF Init, Cell
  <2>2. memory \in [Cell -> Letter \cup {Junk, Nul}]
    BY <2>1
  <2>3. <<>> \in Seq(Letter)
    OBVIOUS
  <2>4. 0 \in 0..MaxInput
    BY InputAssumption
  <2>5. typed = <<>> /\ entered = <<>> /\ inputCount = 0 /\ lastInputCount = 0
        /\ aborted \in BOOLEAN /\ touched \in BOOLEAN
        /\ overwritten \in BOOLEAN /\ spoilt \in BOOLEAN
    BY DEF Init
  <2> QED
    BY <2>2, <2>3, <2>4, <2>5 DEF InputTypes
<1>2. LineInv
  BY DEF Init, LineInv
<1>3. OnlyFullLinesAbort
  <2>1. lastInputCount < MaxInput /\ ~aborted
    BY InputAssumption DEF Init
  <2> QED
    BY <1>1, <2>1, LastFits DEF OnlyFullLinesAbort
<1> QED
  BY <1>1, <1>2, <1>3 DEF InputInv

\* A character typed.
LEMMA CharKeeps ==
  ASSUME InputInv, NEW c \in Letter, KeyChar(c)
  PROVE  InputInv'
<1> USE DEF InputInv
<1>1. /\ MaxInput \in Nat \ {0} /\ inputCount \in 0..(MaxInput - 1) /\ c # Nul
      /\ memory' = [memory EXCEPT ![inputCount + 1] = c, ![inputCount + 2] = Nul]
      /\ inputCount' = inputCount + 1 /\ typed' = Append(typed, c)
      /\ inputCount + 1 \in Cell /\ inputCount + 2 \in Cell
      /\ UNCHANGED <<lastInputCount, entered, pushed, aborted, spoilt>>
      /\ touched' /\ ~aborted
  BY InputAssumption, CharAssumption DEF KeyChar, InputTypes, Cell
<1>a. overwritten' <=> overwritten \/ inputCount' = MaxInput
  BY DEF KeyChar
<1>2. memory' \in [Cell -> Letter \cup {Junk, Nul}]
      /\ \A i \in Cell : memory'[i] = IF i = inputCount + 2 THEN Nul
                                      ELSE IF i = inputCount + 1 THEN c ELSE memory[i]
  BY <1>1 DEF InputTypes
<1>3. typed' \in Seq(Letter) /\ Len(typed') = Len(typed) + 1
      /\ \A i \in 1..Len(typed') : typed'[i] = IF i = Len(typed) + 1 THEN c ELSE typed[i]
  BY <1>1 DEF InputTypes
<1>4. InputTypes'
  <2>1. touched' \in BOOLEAN /\ overwritten' \in BOOLEAN
    BY DEF KeyChar
  <2> QED
    BY <1>1, <1>2, <1>3, <2>1 DEF InputTypes
<1>5. overwritten' => memory'[Last] = Nul
  <2>1. Last \in Cell /\ Last # inputCount + 1 /\ (Last = inputCount + 2 <=> inputCount' = MaxInput)
    BY <1>1 DEF Last, Cell
  <2> QED
    BY <1>2, <1>a, <2>1 DEF LineInv
<1>6. ~overwritten' => \A i \in 1..MaxInput : memory'[MaxInput + i] = memory[MaxInput + i]
  BY <1>1, <1>2, <1>a DEF Cell
<1>7. \A i \in Last..(2 * MaxInput) : memory[i] = Nul => memory'[i] = Nul
  BY <1>1, <1>2 DEF Last, Cell
<1>8. ASSUME ~spoilt PROVE inputCount = Len(typed) /\ LineInPlace'
  <2>1. inputCount = Len(typed) /\ \A i \in 1..inputCount : memory[i] = typed[i]
    BY <1>8 DEF LineInv, LineInPlace
  <2> QED
    BY <1>1, <1>2, <1>3, <2>1 DEF LineInPlace, Cell
<1>9. ASSUME ~spoilt
      PROVE  /\ entered # <<>> => pushed = entered
             /\ lastInputCount = Len(entered) /\ (overwritten \/ LastInPlace)
  BY <1>1, <1>9 DEF LineInv, LastInPlace
<1>10. LineInv'
  <2>1. ASSUME LastInPlace, ~overwritten' PROVE LastInPlace'
    <3>1. UNCHANGED <<lastInputCount, entered>> /\ \A i \in 1..lastInputCount : i \in 1..MaxInput
      BY <1>1 DEF InputTypes
    <3> QED
      BY <1>6, <2>1, <3>1 DEF LastInPlace
  <2> QED
    BY <1>1, <1>a, <1>5, <1>8, <1>9, <2>1 DEF LineInv
<1>11. OnlyFullLinesAbort'
  <2>1. Fits(Last, lastInputCount)
    BY <1>1 DEF OnlyFullLinesAbort
  <2>2. (InputTypes =>
           (Fits(Last, lastInputCount) <=>
              lastInputCount < MaxInput \/ \E i \in Last..(2 * MaxInput) : memory[i] = Nul))'
    BY LastFits, PTL
  <2>3. Fits(Last, lastInputCount)'
    BY <1>1, <1>4, <1>7, <2>1, <2>2, LastFits DEF Last
  <2> QED
    BY <1>1, <2>3 DEF OnlyFullLinesAbort
<1> QED
  BY <1>4, <1>10, <1>11

\* A character erased.
LEMMA BackspaceKeeps ==
  ASSUME InputInv, KeyBackspace
  PROVE  InputInv'
<1> USE DEF InputInv
<1>1. /\ MaxInput \in Nat \ {0} /\ inputCount \in 0..MaxInput
      /\ inputCount' = IF inputCount = 0 THEN 0 ELSE inputCount - 1
      /\ inputCount' \in 0..(MaxInput - 1) /\ inputCount' + 1 \in Cell
      /\ memory' = [memory EXCEPT ![inputCount' + 1] = Nul]
      /\ typed' = SubSeq(typed, 1, Len(typed) - 1)
      /\ UNCHANGED <<lastInputCount, entered, pushed, aborted, overwritten, spoilt>>
      /\ touched' /\ touched' \in BOOLEAN /\ ~aborted
  BY InputAssumption DEF KeyBackspace, InputTypes, Cell
<1>2. memory' \in [Cell -> Letter \cup {Junk, Nul}]
      /\ \A i \in Cell : memory'[i] = IF i = inputCount' + 1 THEN Nul ELSE memory[i]
  BY <1>1 DEF InputTypes
<1>3. /\ typed' \in Seq(Letter)
      /\ Len(typed') = IF Len(typed) = 0 THEN 0 ELSE Len(typed) - 1
      /\ \A i \in 1..Len(typed') : typed'[i] = typed[i]
  <2>1. typed \in Seq(Letter) /\ Len(typed) \in Nat /\ typed' = SubSeq(typed, 1, Len(typed) - 1)
    BY <1>1 DEF InputTypes
  <2>2. CASE Len(typed) = 0
    <3>1. typed' = <<>>
      BY <2>1, <2>2, SubSeqEmpty
    <3> QED
      BY <2>1, <2>2, <3>1
  <2>3. CASE Len(typed) # 0
    <3>1. /\ 1 \in Int /\ Len(typed) - 1 \in Int /\ 1 <= Len(typed)
          /\ (Len(typed) - 1) - 1 + 1 = Len(typed) - 1
          /\ \A i \in 1..(Len(typed) - 1) : typed[i] \in Letter /\ 1 + i - 1 = i
      BY <2>1, <2>3
    <3>2. /\ SubSeq(typed, 1, Len(typed) - 1) \in Seq(Letter)
          /\ Len(SubSeq(typed, 1, Len(typed) - 1)) = Len(typed) - 1
          /\ \A i \in 1..(Len(typed) - 1) : SubSeq(typed, 1, Len(typed) - 1)[i] = typed[1 + i - 1]
      BY <2>1, <3>1, SubSeqProperties
    <3>3. Len(typed') = Len(typed) - 1 /\ \A i \in 1..(Len(typed) - 1) : typed'[i] = typed[i]
      BY <2>1, <3>2
    <3> QED
      BY <2>1, <2>3, <3>2, <3>3
  <2> QED
    BY <2>2, <2>3
<1>4. InputTypes'
  <2>1. inputCount' \in 0..MaxInput
    BY <1>1
  <2>2. UNCHANGED <<lastInputCount, entered, aborted, overwritten, spoilt>>
        /\ touched' \in BOOLEAN /\ typed' \in Seq(Letter)
    BY <1>1, <1>3
  <2> QED
    BY <1>2, <2>1, <2>2 DEF InputTypes
<1>5. \A i \in Last..(2 * MaxInput) : i \in Cell /\ memory'[i] = memory[i]
  BY <1>1, <1>2 DEF Last, Cell
<1>6. ASSUME ~spoilt
      PROVE  /\ LineInPlace' /\ (entered # <<>> => pushed = entered)
             /\ lastInputCount = Len(entered) /\ (overwritten \/ LastInPlace)
  <2>1. /\ inputCount = Len(typed) /\ \A i \in 1..inputCount : memory[i] = typed[i]
        /\ (entered # <<>> => pushed = entered)
        /\ lastInputCount = Len(entered) /\ (overwritten \/ LastInPlace)
    BY <1>1, <1>6 DEF LineInv, LineInPlace, LastInPlace
  <2>2. inputCount' = Len(typed') /\ \A i \in 1..inputCount' : i \in Cell /\ i \in 1..inputCount
    <3>1. inputCount' = Len(typed') /\ inputCount' \in 0..(MaxInput - 1) /\ inputCount \in Nat
          /\ inputCount' <= inputCount
      BY <1>1, <1>3, <2>1
    <3> QED
      BY <1>1, <3>1 DEF Cell
  <2>3. ASSUME NEW i \in 1..inputCount' PROVE memory'[i] = typed'[i]
    <3>1. i # inputCount' + 1 /\ i \in Cell /\ i \in 1..inputCount /\ i \in 1..Len(typed')
      BY <1>1, <2>2
    <3> QED
      BY <1>2, <1>3, <2>1, <3>1
  <2> QED
    BY <1>1, <1>2, <2>1, <2>2, <2>3 DEF LineInPlace
<1>7. LineInv'
  <2>1. ASSUME LastInPlace PROVE LastInPlace'
    <3>1. UNCHANGED <<lastInputCount, entered>>
          /\ \A i \in 1..lastInputCount : MaxInput + i \in Last..(2 * MaxInput)
      BY <1>1 DEF InputTypes, Last
    <3> QED
      BY <1>5, <2>1, <3>1 DEF LastInPlace
  <2>2. overwritten => memory'[Last] = Nul
    BY <1>1, <1>5 DEF LineInv, Last
  <2> QED
    BY <1>1, <1>6, <2>1, <2>2 DEF LineInv
<1>8. OnlyFullLinesAbort'
  <2>1. Fits(Last, lastInputCount)
    BY <1>1 DEF OnlyFullLinesAbort
  <2>2. (InputTypes =>
           (Fits(Last, lastInputCount) <=>
              lastInputCount < MaxInput \/ \E i \in Last..(2 * MaxInput) : memory[i] = Nul))'
    BY LastFits, PTL
  <2>3. Fits(Last, lastInputCount)'
    BY <1>1, <1>4, <1>5, <2>1, <2>2, LastFits DEF Last
  <2> QED
    BY <1>1, <2>3 DEF OnlyFullLinesAbort
<1> QED
  BY <1>4, <1>7, <1>8

\* A line entered: it becomes the last one, unless it is full.
LEMMA EnterKeeps ==
  ASSUME InputInv, KeyEnter
  PROVE  InputInv'
<1> USE DEF InputInv
<1>1. /\ MaxInput \in Nat \ {0} /\ inputCount \in 0..MaxInput /\ 1 \in Cell /\ Last \in Cell
      /\ Last = MaxInput + 1 /\ lastInputCount' = inputCount /\ ~aborted
  BY InputAssumption DEF KeyEnter, InputTypes, Cell, Last
<1>2. ASSUME ~spoilt PROVE \/ TextAt(1) = typed /\ Copied(1, inputCount) = inputCount
                           \/ ~touched /\ inputCount = 0 /\ typed = <<>>
  <2>1. CASE touched
    <3>1. LineInPlace
      BY <1>2, <2>1 DEF LineInv
    <3>2. TextAt(1) = typed /\ Len(typed) = inputCount
      BY <3>1, LineIsText DEF LineInPlace
    <3>3. Len(TextAt(1)) = inputCount /\ inputCount \in Nat
      BY <1>1, <3>2
    <3>4. Copied(1, inputCount) = IF inputCount <= Len(TextAt(1)) THEN inputCount
                                  ELSE Len(TextAt(1))
      BY <1>1, <3>3, CopiedIs
    <3> QED
      BY <3>2, <3>3, <3>4
  <2>2. CASE ~touched
    BY <2>2 DEF LineInv
  <2> QED
    BY <2>1, <2>2
<1>3. CASE ~Fits(1, inputCount)
  <2>1. aborted' /\ UNCHANGED <<memory, inputCount, history>>
    BY <1>3 DEF KeyEnter
  <2>2. inputCount = MaxInput
    <3>1. Len(TextAt(1)) \in Nat
      BY <1>1, TextLength
    <3> QED
      BY <1>1, <1>3, <3>1, CopiedIs DEF Fits
  <2>3. InputTypes'
    BY <1>1, <2>1 DEF InputTypes, history, KeyEnter
  <2>4. touched /\ ~spoilt => overwritten
    BY <2>2 DEF LineInv
  <2>5. ~touched => inputCount = 0
    BY DEF LineInv
  <2>6. LineInv'
    <3>1. LineInPlace <=> LineInPlace'
      BY <2>1 DEF LineInPlace, history
    <3> QED
      BY <1>1, <2>1, <2>2, <2>4, <2>5, <3>1 DEF LineInv, history
  <2>7. OnlyFullLinesAbort'
    BY <1>1, <2>1, <2>2 DEF OnlyFullLinesAbort
  <2> QED
    BY <2>3, <2>6, <2>7
<1>4. CASE Fits(1, inputCount)
  <2> DEFINE k == Copied(1, inputCount)
             copy == CopyTo(Last, 1, inputCount)
  <2>1. /\ memory' = [copy EXCEPT ![1] = Nul] /\ inputCount' = 0 /\ pushed' = TextAt(1)
        /\ entered' = typed /\ typed' = <<>> /\ touched' /\ ~overwritten' /\ ~aborted'
        /\ spoilt' = spoilt
        /\ aborted' \in BOOLEAN /\ touched' \in BOOLEAN /\ overwritten' \in BOOLEAN
    BY <1>1, <1>4 DEF KeyEnter, InputTypes
  <2>2. /\ k \in 0..(MaxInput - 1) /\ copy \in [Cell -> Letter \cup {Junk, Nul}]
        /\ \A i \in 1..k : copy[Last + i - 1] = memory[1 + i - 1]
        /\ copy[Last + k] = Nul
    BY <1>1, <1>4, CopyIs
  <2> HIDE DEF k, copy
  <2>3. /\ memory' \in [Cell -> Letter \cup {Junk, Nul}] /\ memory'[1] = Nul
        /\ \A i \in Cell : i # 1 => memory'[i] = copy[i]
    BY <1>1, <2>1, <2>2
  <2>4. /\ \A i \in 1..k : memory'[MaxInput + i] = memory[i]
        /\ Last + k \in Last..(2 * MaxInput) /\ memory'[Last + k] = Nul
    BY <1>1, <2>2, <2>3 DEF Cell
  <2>5. InputTypes'
    <3>1. <<>> \in Seq(Letter) /\ 0 \in 0..MaxInput
      BY <1>1
    <3> QED
      BY <1>1, <2>1, <2>3, <3>1 DEF InputTypes
  <2>6. ASSUME ~spoilt PROVE LastInPlace' /\ (entered' # <<>> => pushed' = entered')
    <3>1. CASE ~touched
      BY <1>1, <1>2, <2>1, <2>6, <3>1 DEF LastInPlace, LineInv
    <3>2. CASE touched
      <4>1. k = inputCount /\ TextAt(1) = typed /\ LineInPlace
        BY <1>2, <2>6, <3>2 DEF k, LineInv
      <4> QED
        BY <1>1, <2>1, <2>4, <4>1 DEF LastInPlace, LineInPlace
    <3> QED
      BY <3>1, <3>2
  <2>7. LineInv'
    <3>1. LineInPlace'
      BY <2>1, <2>3 DEF LineInPlace
    <3> QED
      BY <1>1, <2>1, <2>6, <3>1 DEF LineInv, LastInPlace
  <2>8. OnlyFullLinesAbort'
    <3>1. (InputTypes =>
             (Fits(Last, lastInputCount) <=>
                lastInputCount < MaxInput \/ \E i \in Last..(2 * MaxInput) : memory[i] = Nul))'
      BY LastFits, PTL
    <3>2. Fits(Last, lastInputCount)'
      BY <2>4, <2>5, <3>1 DEF Last
    <3> QED
      BY <2>1, <3>2 DEF OnlyFullLinesAbort
  <2> QED
    BY <2>5, <2>7, <2>8
<1> QED
  BY <1>3, <1>4

\* The last line recalled, which always fits.
LEMMA UpKeeps ==
  ASSUME InputInv, KeyUp
  PROVE  InputInv'
<1> USE DEF InputInv
<1> DEFINE k == Copied(Last, lastInputCount)
           copy == CopyTo(1, Last, lastInputCount)
<1>1. /\ MaxInput \in Nat \ {0} /\ lastInputCount \in 0..MaxInput /\ Last \in Cell
      /\ Last = MaxInput + 1 /\ ~aborted /\ inputCount' = lastInputCount
      /\ lastInputCount' = lastInputCount /\ entered \in Seq(Letter)
  BY InputAssumption DEF KeyUp, InputTypes, Cell, Last
<1>2. Fits(Last, lastInputCount)
  BY <1>1 DEF OnlyFullLinesAbort
<1>3. /\ memory' = copy /\ typed' = entered /\ touched'
      /\ UNCHANGED <<aborted, entered, pushed, overwritten>>
      /\ touched' \in BOOLEAN /\ spoilt' \in BOOLEAN
      /\ spoilt' <=> spoilt \/ k < lastInputCount
  BY <1>2 DEF KeyUp
<1>4. /\ k \in 0..(MaxInput - 1) /\ copy \in [Cell -> Letter \cup {Junk, Nul}]
      /\ \A i \in 1..k : copy[1 + i - 1] = memory[Last + i - 1]
      /\ copy[1 + k] = Nul
      /\ \A i \in Cell : ~(i \in 1..(1 + k)) => copy[i] = memory[i]
  BY <1>1, <1>2, CopyIs
<1>5. k = IF lastInputCount <= Len(TextAt(Last)) THEN lastInputCount ELSE Len(TextAt(Last))
  BY <1>1, CopiedIs
<1>6. memory[Last] = Nul => Len(TextAt(Last)) = 0
  <2>1. Last + 0 = Last /\ 0 \in Nat /\ 1..0 = {}
    BY <1>1
  <2> QED
    BY <1>1, <2>1, TextUntil
<1> HIDE DEF k, copy
<1>7. \A i \in Last..(2 * MaxInput) : memory'[i] = memory[i]
  BY <1>1, <1>3, <1>4 DEF Cell
<1>8. InputTypes'
  BY <1>1, <1>3, <1>4 DEF InputTypes
<1>9. ASSUME ~spoilt'
      PROVE  /\ ~spoilt /\ k = lastInputCount /\ lastInputCount < MaxInput
             /\ lastInputCount = Len(entered) /\ (entered # <<>> => pushed = entered)
             /\ LastInPlace
  <2>1. ~spoilt /\ k = lastInputCount /\ lastInputCount < MaxInput
    BY <1>1, <1>3, <1>4, <1>5, <1>9, TextFrom
  <2>2. lastInputCount = Len(entered) /\ (entered # <<>> => pushed = entered)
    BY <1>1, <2>1 DEF LineInv
  <2>3. LastInPlace
    <3>1. CASE overwritten
      <4>1. lastInputCount = 0
        BY <1>1, <1>5, <1>6, <2>1, <3>1 DEF LineInv
      <4> QED
        BY <2>2, <4>1 DEF LastInPlace
    <3>2. CASE ~overwritten
      BY <1>1, <2>1, <2>2, <3>2 DEF LineInv, LastInPlace
    <3> QED
      BY <3>1, <3>2
  <2> QED
    BY <2>1, <2>2, <2>3
<1>10. LineInv'
  <2>1. overwritten' => memory'[Last] = Nul
    BY <1>1, <1>3, <1>7 DEF LineInv
  <2>2. ASSUME ~spoilt' PROVE LineInPlace' /\ LastInPlace' /\ inputCount' # MaxInput
    <3>1. \A i \in 1..k : memory'[i] = memory[MaxInput + i] /\ MaxInput + i \in Last..(2 * MaxInput)
      BY <1>1, <1>3, <1>4
    <3>2. memory'[k + 1] = Nul
      BY <1>3, <1>4
    <3> QED
      BY <1>1, <1>3, <1>7, <1>9, <2>2, <3>1, <3>2 DEF LineInPlace, LastInPlace
  <2> QED
    BY <1>1, <1>3, <1>9, <2>1, <2>2 DEF LineInv
<1>11. OnlyFullLinesAbort'
  <2>1. (InputTypes =>
           (Fits(Last, lastInputCount) <=>
              lastInputCount < MaxInput \/ \E i \in Last..(2 * MaxInput) : memory[i] = Nul))'
    BY LastFits, PTL
  <2>2. Fits(Last, lastInputCount)'
    BY <1>1, <1>2, <1>7, <1>8, <2>1, LastFits DEF Last
  <2> QED
    BY <1>1, <1>3, <2>2 DEF OnlyFullLinesAbort
<1> QED
  BY <1>8, <1>10, <1>11

LEMMA InputInvariant == Spec => []InputInv
<1>1. InputInv /\ [Next]_vars => InputInv'
  <2>1. ASSUME InputInv, UNCHANGED vars PROVE InputInv'
    BY <2>1 DEF vars, counts, history, InputInv, InputTypes, LineInv, LineInPlace, LastInPlace,
                OnlyFullLinesAbort, Fits, Copied, TextAt
  <2> QED
    BY <2>1, CharKeeps, BackspaceKeeps, EnterKeeps, UpKeeps DEF Next, Aborted
<1> QED
  BY <1>1, InputInvInit, PTL DEF Spec

-----------------------------------------------------------------------------
(* What follows.                                                           *)

\* What is drawn, pushed as a command and recalled is what was typed, in arrays of any
\* size and whatever was in them before, until a last line comes back that a full line
\* had overwritten.
THEOREM LinesCorrect == Spec => []LinesAreTyped
<1>1. InputInv => LinesAreTyped
  <2> SUFFICES ASSUME InputTypes, LineInv, touched, ~spoilt
               PROVE  LinesAreTyped
    BY DEF InputInv, LinesAreTyped
  <2>1. TextAt(1) = typed /\ inputCount = Len(typed)
    BY LineIsText DEF LineInv, LineInPlace
  <2>2. overwritten \/ /\ Copied(Last, lastInputCount) = Len(entered)
                       /\ SubSeq(TextAt(Last), 1, Len(entered)) = entered
    BY LastIsText DEF LineInv
  <2> QED
    BY <2>1, <2>2 DEF LineInv, LinesAreTyped
<1> QED
  BY <1>1, InputInvariant, PTL

\* strncpy_s ends the program only for a full line that is entered; a line that is
\* recalled always fits.
THEOREM AbortCorrect == Spec => []OnlyFullLinesAbort
<1>1. InputInv => OnlyFullLinesAbort
  BY DEF InputInv
<1> QED
  BY <1>1, InputInvariant, PTL
=============================================================================

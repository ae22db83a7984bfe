------------------------- MODULE SerialLine_proofs -------------------------
(***************************************************************************)
(* Proofs about SerialLine, for lines of any width, any timeout and any    *)
(* amount of noise.  Each invariant is an account: of the lines returned,  *)
(* of the lines taken for markers, of the room in the arrays and of the    *)
(* lines that came through, what is under way counted in, it says which    *)
(* disturbance pays for what.                                              *)
(***************************************************************************)
EXTENDS SerialLine, SequenceTheorems, FiniteSetTheorems, TLAPS

-----------------------------------------------------------------------------
(* The text of a line holds no line end. *)
TextCharacters == [kind : {"digit", "star"}, line : Int, field : 0 .. 3, place : Int]

LEMMA TextShape ==
    ASSUME NEW k \in Int
    PROVE  Text(k) \in Seq(TextCharacters) /\ Len(Text(k)) >= 1
<1>1. \A c \in Fields : Number(k, c) \in Seq(TextCharacters) /\ Len(Number(k, c)) >= 1
  BY SerialLineAssumption DEF Number, Digit, Fields, TextCharacters
<1>2. \A c \in 0 .. 2 : /\ <<Star(k, c)>> \in Seq(TextCharacters)
                        /\ Len(<<Star(k, c)>>) = 1
  BY DEF Star, TextCharacters
<1>3. CASE IsMarker(k)
  BY <1>2, <1>3 DEF Text
<1>4. CASE ~IsMarker(k)
  <2> DEFINE n1 == Number(k, 1)
             s1 == <<Star(k, 1)>>
             n2 == Number(k, 2)
             s2 == <<Star(k, 2)>>
             n3 == Number(k, 3)
  <2>1. /\ n1 \in Seq(TextCharacters) /\ Len(n1) >= 1
        /\ n2 \in Seq(TextCharacters) /\ n3 \in Seq(TextCharacters)
    BY <1>1 DEF Fields
  <2>2. s1 \in Seq(TextCharacters) /\ s2 \in Seq(TextCharacters)
    BY <1>2
  <2> HIDE DEF n1, s1, n2, s2, n3
  <2>3. n1 \o s1 \in Seq(TextCharacters) /\ Len(n1 \o s1) >= 1
    BY <2>1, <2>2, ConcatProperties, LenProperties
  <2>4. (n1 \o s1) \o n2 \in Seq(TextCharacters) /\ Len((n1 \o s1) \o n2) >= 1
    BY <2>1, <2>3, ConcatProperties, LenProperties
  <2>5. ((n1 \o s1) \o n2) \o s2 \in Seq(TextCharacters) /\ Len(((n1 \o s1) \o n2) \o s2) >= 1
    BY <2>2, <2>4, ConcatProperties, LenProperties
  <2>6. /\ (((n1 \o s1) \o n2) \o s2) \o n3 \in Seq(TextCharacters)
        /\ Len((((n1 \o s1) \o n2) \o s2) \o n3) >= 1
    BY <2>1, <2>5, ConcatProperties, LenProperties
  <2>7. Text(k) = (((n1 \o s1) \o n2) \o s2) \o n3
    BY <1>4 DEF Text, n1, s1, n2, s2, n3
  <2> QED
    BY <2>6, <2>7
<1> QED
  BY <1>3, <1>4

(* The last two characters of a printed line, and no others, are its end.  *)
LEMMA PrintedShape ==
    ASSUME NEW k \in Int
    PROVE  /\ Len(Printed(k)) \in Nat /\ Len(Printed(k)) >= 3
           /\ \A p \in 1 .. Len(Printed(k)) :
                Printed(k)[p] = LineEnd <=> p >= Len(Printed(k)) - 1
<1> DEFINE t == Text(k)
           z == <<LineEnd, LineEnd>>
<1>1. t \in Seq(TextCharacters) /\ Len(t) >= 1 /\ Len(t) \in Nat
  BY TextShape, LenProperties
<1>2. Printed(k) = t \o z
  BY DEF Printed
<1>3. \A p \in 1 .. Len(t) : t[p] # LineEnd
  <2>1. \A p \in 1 .. Len(t) : t[p] \in TextCharacters
    BY <1>1, ElementOfSeq
  <2> QED
    BY <2>1 DEF TextCharacters, LineEnd
<1>4. Len(z) = 2 /\ z[1] = LineEnd /\ z[2] = LineEnd
  OBVIOUS
<1>5. t \in Seq(TextCharacters \cup {LineEnd}) /\ z \in Seq(TextCharacters \cup {LineEnd})
  BY <1>1
<1> HIDE DEF t, z
<1>6. /\ Len(t \o z) = Len(t) + 2
      /\ \A p \in 1 .. Len(t) + 2 :
            (t \o z)[p] = IF p <= Len(t) THEN t[p] ELSE z[p - Len(t)]
  <2>1. /\ Len(t \o z) = Len(t) + Len(z)
        /\ \A p \in 1 .. Len(t) + Len(z) :
              (t \o z)[p] = IF p <= Len(t) THEN t[p] ELSE z[p - Len(t)]
    BY <1>5, ConcatProperties, Zenon
  <2> QED
    BY <1>4, <2>1
<1>7. \A p \in 1 .. Len(t) + 2 : (t \o z)[p] = LineEnd <=> p >= Len(t) + 1
  BY <1>1, <1>3, <1>4, <1>6
<1> QED
  BY <1>1, <1>2, <1>6, <1>7

-----------------------------------------------------------------------------
(* Lines delivered or about to be. *)
Returned == delivered + IF pc = "dispatch" THEN 1 ELSE 0

End == Len(Printed(line))

CountTypes ==
    /\ line \in Nat
    /\ position \in 1 .. End
    /\ pc \in {"check", "skip", "value", "dispatch", "undefined"}
    /\ delivered \in Nat /\ lost \in Nat /\ cuts \in Nat

(* The line being printed is spoiled when its first characters went by     *)
(* unread, or when the line before is still being read: its end was lost.  *)
Spoiled ==
    \/ pc = "value" /\ position \in {1, End}
    \/ pc # "value" /\ position > 1

(* Every line printed was returned or is paid for, and so is the one under *)
(* way if it is spoiled.                                                   *)
NoneForgotten == Returned + lost + cuts >= line - 1 + IF Spoiled THEN 1 ELSE 0

(* Nothing but a line printed was returned; the one under way can only     *)
(* have been when nothing but its \n is left.                              *)
NoneInvented ==
    Returned <= line - 1 + IF pc # "value" /\ position = End THEN 1 ELSE 0

IInv == CountTypes /\ (pc # "undefined" => NoneForgotten /\ NoneInvented)

(* Taking a character moves on in the line, or to the next one.            *)
LEMMA TakeMoves ==
    ASSUME CountTypes, TakeCharacter
    PROVE  /\ line' \in Nat /\ position' \in 1 .. End'
           /\ \/ position < End /\ line' = line /\ position' = position + 1 /\ End' = End
              \/ position = End /\ line' = line + 1 /\ position' = 1
           /\ End \in Nat /\ End >= 3 /\ End' >= 3 /\ End' \in Nat
           /\ Character = LineEnd <=> position >= End - 1
<1>1. line \in Int /\ line + 1 \in Int
  BY DEF CountTypes
<1>2. /\ End \in Nat /\ End >= 3
      /\ \A p \in 1 .. End : Printed(line)[p] = LineEnd <=> p >= End - 1
  BY <1>1, PrintedShape DEF End
<1>3. /\ Len(Printed(line + 1)) \in Nat /\ Len(Printed(line + 1)) >= 3
  BY <1>1, PrintedShape
<1>4. Character = LineEnd <=> position >= End - 1
  BY <1>2 DEF Character, CountTypes
<1>5. CASE position < End
  BY <1>2, <1>4, <1>5 DEF TakeCharacter, End, CountTypes
<1>6. CASE ~(position < End)
  <2>1. line' = line + 1 /\ position' = 1 /\ End' = Len(Printed(line + 1))
    BY <1>6 DEF TakeCharacter, End
  <2> QED
    BY <1>2, <1>3, <1>4, <1>6, <2>1 DEF CountTypes
<1> QED
  BY <1>5, <1>6

LEMMA InitIInv == Init => IInv
<1> SUFFICES ASSUME Init PROVE IInv
  OBVIOUS
<1>1. End \in Nat /\ End >= 3
  BY PrintedShape DEF End, Init
<1> QED
  BY <1>1 DEF Init, IInv, CountTypes, NoneForgotten, NoneInvented, Spoiled, Returned

LEMMA StepKeeps == IInv /\ [Next]_vars => IInv'
<1> SUFFICES ASSUME IInv, [Next]_vars PROVE IInv'
  OBVIOUS
<1> USE DEF IInv
<1>0. CountTypes /\ End \in Nat /\ End >= 3
  BY PrintedShape DEF CountTypes, End
<1>1. CASE LoseCharacter
  <2>1. /\ pc' = pc /\ delivered' = delivered /\ lost' = lost + 1 /\ cuts' = cuts
    BY <1>1 DEF LoseCharacter, readerVars, history
  <2>2. TakeCharacter
    BY <1>1 DEF LoseCharacter
  <2> QED
    BY <1>0, <2>1, <2>2, TakeMoves
       DEF CountTypes, NoneForgotten, NoneInvented, Spoiled, Returned
<1>2. CASE SkipLineEnd
  <2>1. /\ pc = "skip" /\ pc' = pc /\ delivered' = delivered /\ lost' = lost /\ cuts' = cuts
        /\ Character = LineEnd
    BY <1>2 DEF SkipLineEnd, readerVars, history, damage
  <2>2. TakeCharacter
    BY <1>2 DEF SkipLineEnd
  <2> QED
    BY <1>0, <2>1, <2>2, TakeMoves
       DEF CountTypes, NoneForgotten, NoneInvented, Spoiled, Returned
<1>3. CASE ReadFirst
  <2>1. /\ pc = "skip" /\ pc' = "value" /\ delivered' = delivered /\ lost' = lost
        /\ cuts' = cuts /\ Character # LineEnd
    BY <1>3 DEF ReadFirst, history, damage
  <2>2. TakeCharacter
    BY <1>3 DEF ReadFirst
  <2> QED
    BY <1>0, <2>1, <2>2, TakeMoves
       DEF CountTypes, NoneForgotten, NoneInvented, Spoiled, Returned
<1>4. CASE ReadValue
  <2>1. /\ pc = "value" /\ pc' \in {"value", "undefined"} /\ delivered' = delivered
        /\ lost' = lost /\ cuts' = cuts /\ Character # LineEnd
    BY <1>4 DEF ReadValue, StoreCharacter, Overrun, damage
  <2>2. TakeCharacter
    BY <1>4 DEF ReadValue
  <2> QED
    BY <1>0, <2>1, <2>2, TakeMoves
       DEF CountTypes, NoneForgotten, NoneInvented, Spoiled, Returned
<1>5. CASE ReadLineEnd
  <2>1. /\ pc = "value" /\ pc' = "dispatch" /\ delivered' = delivered /\ lost' = lost
        /\ cuts' = cuts /\ Character = LineEnd
    BY <1>5 DEF ReadLineEnd, history, damage
  <2>2. TakeCharacter
    BY <1>5 DEF ReadLineEnd
  <2> QED
    BY <1>0, <2>1, <2>2, TakeMoves
       DEF CountTypes, NoneForgotten, NoneInvented, Spoiled, Returned
<1>6. CASE CutLine
  <2>1. /\ pc = "value" /\ pc' = "check" /\ delivered' = delivered /\ lost' = lost
        /\ cuts' = cuts + 1 /\ line' = line /\ position' = position /\ End' = End
    BY <1>6 DEF CutLine, history, boardVars, End
  <2> QED
    BY <1>0, <2>1 DEF CountTypes, NoneForgotten, NoneInvented, Spoiled, Returned
<1>7. CASE DispatchMarker \/ DispatchSample
  <2>1. /\ pc = "dispatch" /\ pc' \in {"check", "undefined"} /\ delivered' = delivered + 1
        /\ lost' = lost /\ cuts' = cuts /\ line' = line /\ position' = position /\ End' = End
    BY <1>7 DEF DispatchMarker, DispatchSample, SplitSample, Overrun, boardVars, damage, End
  <2> QED
    BY <1>0, <2>1 DEF CountTypes, NoneForgotten, NoneInvented, Spoiled, Returned
<1>8. CASE CallRead \/ SkipNap
  <2>1. /\ pc \in {"check", "skip"} /\ pc' \in {"check", "skip"} /\ delivered' = delivered
        /\ lost' = lost /\ cuts' = cuts /\ line' = line /\ position' = position /\ End' = End
    BY <1>8 DEF CallRead, SkipNap, history, boardVars, damage, End
  <2> QED
    BY <1>0, <2>1 DEF CountTypes, NoneForgotten, NoneInvented, Spoiled, Returned
<1>9. CASE ReadError \/ ValueNap
  <2>1. /\ pc = "value" /\ pc' \in {"value", "undefined"} /\ delivered' = delivered
        /\ lost' = lost /\ cuts' = cuts /\ line' = line /\ position' = position /\ End' = End
    BY <1>9 DEF ReadError, ValueNap, StoreCharacter, Overrun, history, boardVars, damage, End
  <2> QED
    BY <1>0, <2>1 DEF CountTypes, NoneForgotten, NoneInvented, Spoiled, Returned
<1>10. CASE Undefined \/ UNCHANGED vars
  BY <1>10 DEF Undefined, vars, boardVars, readerVars, history, damage, CountTypes,
               NoneForgotten, NoneInvented, Spoiled, Returned, End
<1> QED
  BY <1>1, <1>2, <1>3, <1>4, <1>5, <1>6, <1>7, <1>8, <1>9, <1>10 DEF Next, Read

-----------------------------------------------------------------------------
(* Noise never makes process_data count more lines than the board printed, *)
(* and each lost character or pause costs at most one line, for lines of   *)
(* any width (read_serial).                                                *)
THEOREM LinesAreCounted == Spec => []LinesCounted
<1>1. IInv => LinesCounted
  <2> SUFFICES ASSUME IInv, Idle
               PROVE  delivered \in line - 1 - (lost + cuts) .. line - 1
    BY DEF LinesCounted
  <2>1. CountTypes /\ pc \in {"check", "skip"} /\ position = 1
    BY DEF IInv, Idle
  <2>2. End \in Nat /\ End >= 3
    BY <2>1, PrintedShape DEF CountTypes, End
  <2> QED
    BY <2>1, <2>2 DEF IInv, CountTypes, NoneForgotten, NoneInvented, Spoiled, Returned
<1> QED
  BY <1>1, InitIInv, StepKeeps, PTL DEF Spec

(* Every negative reading comes out one too high, and no two readings      *)
(* other than -1 and 0 are confused, for all of the 24 bits (the           *)
(* conversion of msrecord.c 301).                                          *)
THEOREM ConversionIsOneOff == Spec => []ConversionKeepsOrder
<1>1. \A u \in Readings : u \in 0 .. LastReading
  BY SerialLineAssumption
<1>2. ConversionKeepsOrder
  <2> SUFFICES ASSUME NEW u \in Readings, NEW v \in Readings
               PROVE  /\ Convert(u) - Signed(u) = (IF Signed(u) < 0 THEN 1 ELSE 0)
                      /\ Signed(u) < Signed(v) =>
                            \/ Convert(u) < Convert(v)
                            \/ Signed(u) = -1 /\ Signed(v) = 0
    BY DEF ConversionKeepsOrder
  <2>0. LastReading \in Int
    BY SMT DEF LastReading
  <2>1. /\ u \in Int /\ 0 <= u /\ u <= LastReading
        /\ v \in Int /\ 0 <= v /\ v <= LastReading
    BY <1>1, <2>0
  <2>2. /\ Convert(u) = IF u >= 8388608 THEN u - 16777215 ELSE u
        /\ Convert(v) = IF v >= 8388608 THEN v - 16777215 ELSE v
    BY <2>1, SMT DEF Convert, LastReading
  <2> QED
    BY <2>1, <2>2, SMT DEF Signed, LastReading
<1> QED
  BY <1>2, PTL

-----------------------------------------------------------------------------
(* Columns *)
W == FieldWidth + 1

CharAt(k, p) ==
    IF p < W THEN Digit(k, 1, p)
    ELSE IF p = W THEN Star(k, 1)
    ELSE IF p < 2 * W THEN Digit(k, 2, p - W)
    ELSE IF p = 2 * W THEN Star(k, 2)
    ELSE Digit(k, 3, p - 2 * W)

(* Where in its line a character was printed. *)
FieldStart(c) == IF c = 3 THEN 2 * W ELSE IF c = 2 THEN W ELSE 0

Column(ch) ==
    IF ch.kind = "digit" THEN FieldStart(ch.field) + ch.place
    ELSE IF ch.field = 0 THEN 1
    ELSE IF ch.field = 1 THEN W ELSE 2 * W

(* More damage than the bound is only done when the board fell silent. *)
Bounded ==
    /\ Damage > MaxDamage => ~Printing /\ pc \in {"check", "skip"}
    /\ pc \in {"skip", "value"} => totalSleep < Timeout
    /\ pc \in {"value", "dispatch"} => Len(lineData) >= 1

-----------------------------------------------------------------------------
(* Counting: in a finite set of numbers, each rank is taken. *)
LEMMA NthOf ==
    ASSUME NEW S \in SUBSET Nat, IsFiniteSet(S), NEW n \in 1 .. Cardinality(S)
    PROVE  \E i \in S : Cardinality({j \in S : j < i}) = n - 1
<1> DEFINE c == Cardinality(S)
           below(i) == {j \in S : j < i}
           rank == [i \in S |-> Cardinality(below(i))]
<1>1. c \in Nat
  BY FS_CardinalityType
<1>2. ASSUME NEW i \in S
      PROVE  IsFiniteSet(below(i)) /\ Cardinality(below(i)) \in 0 .. c - 1
  <2>1. IsFiniteSet(S \ {i}) /\ Cardinality(S \ {i}) = c - 1
    BY FS_RemoveElement
  <2>2. below(i) \in SUBSET (S \ {i})
    OBVIOUS
  <2>3. IsFiniteSet(below(i)) /\ Cardinality(below(i)) <= c - 1
    BY <2>1, <2>2, FS_Subset
  <2>4. Cardinality(below(i)) \in Nat
    BY <2>3, FS_CardinalityType
  <2> QED
    BY <1>1, <2>3, <2>4
<1>3. ASSUME NEW i \in S, NEW k \in S, i < k
      PROVE  Cardinality(below(i)) < Cardinality(below(k))
  <2>0. i \in Int /\ k \in Int /\ \A j \in S : j \in Int
    OBVIOUS
  <2>1. i \notin below(i) /\ (below(i) \cup {i}) \in SUBSET below(k)
    <3>1. i \notin below(i)
      BY <2>0
    <3>2. \A j \in below(i) : j \in below(k)
      BY <1>3, <2>0
    <3>3. i \in below(k)
      BY <1>3
    <3> HIDE DEF below
    <3> QED
      BY <3>1, <3>2, <3>3
  <2>2. Cardinality(below(i) \cup {i}) = Cardinality(below(i)) + 1
    BY <1>2, <2>1, FS_AddElement
  <2>3. Cardinality(below(i) \cup {i}) <= Cardinality(below(k))
    BY <1>2, <2>1, FS_Subset
  <2> HIDE DEF below, c
  <2> QED
    BY <1>1, <1>2, <2>2, <2>3
<1>4. rank \in [S -> 0 .. c - 1]
  BY <1>2
<1>5. ASSUME NEW i \in S, NEW k \in S, rank[i] = rank[k] PROVE i = k
  <2>1. rank[i] = Cardinality(below(i)) /\ rank[k] = Cardinality(below(k))
    OBVIOUS
  <2>2. Cardinality(below(i)) \in Int
    BY <1>1, <1>2
  <2> DEFINE bi == Cardinality(below(i))
             bk == Cardinality(below(k))
  <2>3. bi = bk /\ bi \in Int /\ (i < k => bi < bk) /\ (k < i => bk < bi)
    BY <1>3, <1>5, <2>1, <2>2
  <2> HIDE DEF below, rank, bi, bk
  <2>4. i \in Int /\ k \in Int
    OBVIOUS
  <2> QED
    BY <2>3, <2>4
<1>6. rank \in Injection(S, 0 .. c - 1)
  BY <1>4, <1>5 DEF Injection, IsInjective
<1>7. IsFiniteSet(0 .. c - 1) /\ Cardinality(0 .. c - 1) = c
  <2> HIDE DEF c
  <2>1. c - 1 \in Int /\ 0 \in Int
    BY <1>1
  <2>2. IsFiniteSet(0 .. c - 1) /\ Cardinality(0 .. c - 1) = IF 0 > c - 1 THEN 0 ELSE (c - 1) - 0 + 1
    BY <2>1, FS_Interval
  <2> QED
    BY <1>1, <2>2
<1> HIDE DEF rank
<1>8. rank \in Surjection(S, 0 .. c - 1)
  BY <1>6, <1>7, FS_Injection
<1>9. n - 1 \in 0 .. c - 1
  BY <1>1
<1>10. PICK i \in S : rank[i] = n - 1
  BY <1>8, <1>9 DEF Surjection
<1> QED
  BY <1>10 DEF rank

LEMMA Least ==
    ASSUME NEW S \in SUBSET Nat, IsFiniteSet(S), S # {}
    PROVE  \E i \in S : \A j \in S : i <= j
<1>1. Cardinality(S) \in Nat /\ Cardinality(S) # 0
  BY FS_CardinalityType, FS_EmptySet
<1>2. 1 \in 1 .. Cardinality(S)
  BY <1>1
<1>3. PICK i \in S : Cardinality({j \in S : j < i}) = 1 - 1
  BY <1>2, NthOf
<1>4. IsFiniteSet({j \in S : j < i})
  BY FS_Subset
<1>5. {j \in S : j < i} = {}
  BY <1>3, <1>4, FS_EmptySet
<1> QED
  BY <1>5

-----------------------------------------------------------------------------
(* Tokens: each is a whole run of digits. *)
LEMMA RunEnds ==
    ASSUME NEW T, NEW s \in Seq(T), NEW i \in TokenStarts(s)
    PROVE  \E e \in i .. Len(s) :
              /\ \A m \in i .. e : s[m].kind = "digit"
              /\ e < Len(s) => s[e + 1].kind # "digit"
              /\ TokenAt(s, i) = SubSeq(s, i, e)
<1>1. Len(s) \in Nat /\ i \in 1 .. Len(s) /\ s[i].kind = "digit"
  BY LenProperties DEF TokenStarts
<1> DEFINE E == {j \in i .. Len(s) : j < Len(s) => s[j + 1].kind # "digit"}
<1>2. Len(s) \in E /\ E \in SUBSET (i .. Len(s)) /\ E \in SUBSET Nat
  BY <1>1
<1>3. IsFiniteSet(i .. Len(s))
  BY <1>1, FS_Interval
<1>4. IsFiniteSet(E)
  BY <1>2, <1>3, FS_Subset
<1>5. PICK e \in E : \A j \in E : e <= j
  <2> HIDE DEF E
  <2> QED
    BY <1>2, <1>4, Least
<1>6. ASSUME NEW m \in i .. e PROVE s[m].kind = "digit"
  <2>1. CASE m = i
    BY <1>1, <2>1
  <2>2. CASE m # i
    <3>1. m - 1 \in i .. Len(s) /\ m - 1 < e /\ m - 1 < Len(s) /\ (m - 1) + 1 = m
      BY <1>1, <2>2
    <3>2. m - 1 \notin E
      BY <1>1, <1>5, <3>1
    <3> QED
      BY <3>1, <3>2
  <2> QED
    BY <2>1, <2>2
<1> DEFINE Ends(j) == /\ \A m \in i .. j : s[m].kind = "digit"
                      /\ j < Len(s) => s[j + 1].kind # "digit"
           f == CHOOSE j \in i .. Len(s) : Ends(j)
<1>7. e \in i .. Len(s) /\ Ends(e)
  BY <1>6
<1>8. f \in i .. Len(s) /\ Ends(f)
  <2> HIDE DEF Ends
  <2> QED
    BY <1>7
<1>9. TokenAt(s, i) = SubSeq(s, i, f)
  BY DEF TokenAt
<1> HIDE DEF f
<1> QED
  BY <1>8, <1>9

LEMMA TokenCount ==
    ASSUME NEW T, NEW s \in Seq(T)
    PROVE  /\ TokenStarts(s) \in SUBSET Nat /\ IsFiniteSet(TokenStarts(s))
           /\ Cardinality(TokenStarts(s)) \in Nat
           /\ Len(Tokens(s)) = Cardinality(TokenStarts(s))
           /\ \A n \in 1 .. Cardinality(TokenStarts(s)) :
                 /\ Tokens(s)[n] = TokenAt(s, TokenStart(s, n))
                 /\ TokenStart(s, n) \in TokenStarts(s)
                 /\ Cardinality({j \in TokenStarts(s) : j < TokenStart(s, n)}) = n - 1
<1>1. Len(s) \in Nat
  BY LenProperties
<1>2. TokenStarts(s) \in SUBSET (1 .. Len(s)) /\ TokenStarts(s) \in SUBSET Nat
  BY <1>1 DEF TokenStarts
<1>3. IsFiniteSet(1 .. Len(s))
  BY <1>1, FS_Interval
<1>4. IsFiniteSet(TokenStarts(s)) /\ Cardinality(TokenStarts(s)) \in Nat
  BY <1>2, <1>3, FS_Subset, FS_CardinalityType
<1>5. Len(Tokens(s)) = Cardinality(TokenStarts(s))
  BY <1>4 DEF Tokens
<1>6. ASSUME NEW n \in 1 .. Cardinality(TokenStarts(s))
      PROVE  /\ Tokens(s)[n] = TokenAt(s, TokenStart(s, n))
             /\ TokenStart(s, n) \in TokenStarts(s)
             /\ Cardinality({j \in TokenStarts(s) : j < TokenStart(s, n)}) = n - 1
  <2>1. \E i \in TokenStarts(s) : Cardinality({j \in TokenStarts(s) : j < i}) = n - 1
    BY <1>2, <1>4, NthOf
  <2> DEFINE Nth(i) == Cardinality({j \in TokenStarts(s) : j < i}) = n - 1
  <2>2. TokenStart(s, n) = CHOOSE i \in TokenStarts(s) : Nth(i)
    BY DEF TokenStart
  <2>3. \E i \in TokenStarts(s) : Nth(i)
    BY <2>1
  <2>4. TokenStart(s, n) \in TokenStarts(s) /\ Nth(TokenStart(s, n))
    <3> HIDE DEF Nth
    <3> QED
      BY <2>2, <2>3
  <2>5. Tokens(s)[n] = TokenAt(s, TokenStart(s, n))
    BY DEF Tokens
  <2> QED
    BY <2>4, <2>5
<1> QED
  BY <1>2, <1>4, <1>5, <1>6

LEMMA TokenIsRun ==
    ASSUME NEW T, NEW s \in Seq(T), NEW n \in 1 .. Len(Tokens(s))
    PROVE  /\ Tokens(s)[n] \in Seq(T)
           /\ \E i \in TokenStarts(s), e \in 1 .. Len(s) :
                 /\ i <= e /\ \A m \in i .. e : s[m].kind = "digit"
                 /\ e < Len(s) => s[e + 1].kind # "digit"
                 /\ Tokens(s)[n] = SubSeq(s, i, e)
                 /\ Len(Tokens(s)[n]) = e - i + 1
<1>1. PICK i \in TokenStarts(s) : Tokens(s)[n] = TokenAt(s, i)
  BY TokenCount
<1>2. i \in 1 .. Len(s) /\ Len(s) \in Nat
  BY LenProperties DEF TokenStarts
<1>3. PICK e \in i .. Len(s) :
         /\ \A m \in i .. e : s[m].kind = "digit"
         /\ e < Len(s) => s[e + 1].kind # "digit"
         /\ TokenAt(s, i) = SubSeq(s, i, e)
  BY RunEnds
<1>4. i \in Int /\ e \in Int /\ i <= e /\ e \in 1 .. Len(s) /\ \A m \in i .. e : m \in 1 .. Len(s)
  BY <1>2
<1>5. \A m \in i .. e : s[m] \in T
  BY <1>4, ElementOfSeq
<1>6. SubSeq(s, i, e) \in Seq(T) /\ Len(SubSeq(s, i, e)) = e - i + 1
  BY <1>4, <1>5, SubSeqProperties
<1> QED
  BY <1>1, <1>3, <1>4, <1>6

-----------------------------------------------------------------------------
LEMMA Joined ==
    ASSUME NEW S, NEW s1 \in Seq(S), NEW s2 \in Seq(S)
    PROVE  /\ s1 \o s2 \in Seq(S) /\ Len(s1 \o s2) = Len(s1) + Len(s2)
           /\ \A p \in 1 .. Len(s1) : (s1 \o s2)[p] = s1[p]
           /\ \A p \in 1 .. Len(s2) : (s1 \o s2)[Len(s1) + p] = s2[p]
<1>1. /\ s1 \o s2 \in Seq(S) /\ Len(s1 \o s2) = Len(s1) + Len(s2)
      /\ \A i \in 1 .. Len(s1) + Len(s2) :
            (s1 \o s2)[i] = IF i <= Len(s1) THEN s1[i] ELSE s2[i - Len(s1)]
  BY ConcatProperties, Zenon
<1>2. Len(s1) \in Nat /\ Len(s2) \in Nat
  BY LenProperties
<1>3. \A p \in 1 .. Len(s1) : p \in 1 .. Len(s1) + Len(s2) /\ p <= Len(s1)
  BY <1>2
<1>4. \A p \in 1 .. Len(s2) : /\ Len(s1) + p \in 1 .. Len(s1) + Len(s2) /\ ~(Len(s1) + p <= Len(s1))
                               /\ (Len(s1) + p) - Len(s1) = p
  BY <1>2
<1>5. \A p \in 1 .. Len(s2) : (s1 \o s2)[Len(s1) + p] = s2[p]
  BY <1>1, <1>4
<1>6. \A p \in 1 .. Len(s1) : (s1 \o s2)[p] = s1[p]
  BY <1>1, <1>3
<1> QED
  BY <1>1, <1>5, <1>6

(* The characters of a line are where its columns say. *)
LEMMA SampleText ==
    ASSUME NEW k \in Int, ~IsMarker(k)
    PROVE  /\ Len(Text(k)) = LongestText
           /\ \A p \in 1 .. LongestText : Text(k)[p] = CharAt(k, p)
<1> DEFINE n1 == Number(k, 1)
           s1 == <<Star(k, 1)>>
           n2 == Number(k, 2)
           s2 == <<Star(k, 2)>>
           n3 == Number(k, 3)
           S == TextCharacters
<1>1. /\ FieldWidth \in Nat \ {0} /\ W \in Nat /\ W = FieldWidth + 1
      /\ FieldWidth \in Nat /\ 1 \in Nat /\ W + FieldWidth \in Nat
  BY SerialLineAssumption DEF W
<1>2. \A c \in Fields : /\ Number(k, c) \in Seq(S) /\ Len(Number(k, c)) = FieldWidth
                        /\ \A i \in 1 .. FieldWidth : Number(k, c)[i] = Digit(k, c, i)
  BY SerialLineAssumption DEF Number, Digit, Fields, TextCharacters
<1>3. \A c \in 0 .. 2 : /\ <<Star(k, c)>> \in Seq(S) /\ Len(<<Star(k, c)>>) = 1
                        /\ <<Star(k, c)>>[1] = Star(k, c)
  BY DEF Star, TextCharacters
<1>4. /\ n1 \in Seq(S) /\ Len(n1) = FieldWidth /\ \A i \in 1 .. FieldWidth : n1[i] = Digit(k, 1, i)
      /\ n2 \in Seq(S) /\ Len(n2) = FieldWidth /\ \A i \in 1 .. FieldWidth : n2[i] = Digit(k, 2, i)
      /\ n3 \in Seq(S) /\ Len(n3) = FieldWidth /\ \A i \in 1 .. FieldWidth : n3[i] = Digit(k, 3, i)
  BY <1>2 DEF Fields
<1>5. /\ s1 \in Seq(S) /\ Len(s1) = 1 /\ s1[1] = Star(k, 1)
      /\ s2 \in Seq(S) /\ Len(s2) = 1 /\ s2[1] = Star(k, 2)
  BY <1>3
<1>6. Text(k) = (((n1 \o s1) \o n2) \o s2) \o n3
  BY DEF Text
<1> HIDE DEF n1, s1, n2, s2, n3, S
<1>11. n1 \in Seq(S) /\ Len(n1) = FieldWidth
  BY <1>4
<1>12. n2 \in Seq(S) /\ Len(n2) = FieldWidth
  BY <1>4
<1>13. n3 \in Seq(S) /\ Len(n3) = FieldWidth
  BY <1>4
<1>14. s1 \in Seq(S) /\ Len(s1) = 1 /\ s1[1] = Star(k, 1)
  BY <1>5
<1>15. s2 \in Seq(S) /\ Len(s2) = 1 /\ s2[1] = Star(k, 2)
  BY <1>5
<1> DEFINE t1 == n1 \o s1
           t2 == t1 \o n2
           t3 == t2 \o s2
           t4 == t3 \o n3
<1>7. /\ t1 \in Seq(S) /\ Len(t1) = W
      /\ \A p \in 1 .. W : t1[p] = CharAt(k, p)
  <2>0. n1 \in Seq(S) /\ s1 \in Seq(S)
    BY <1>11, <1>14
  <2>1. /\ t1 \in Seq(S) /\ Len(t1) = Len(n1) + Len(s1)
        /\ \A p \in 1 .. Len(n1) : t1[p] = n1[p]
        /\ \A p \in 1 .. Len(s1) : t1[Len(n1) + p] = s1[p]
    BY <2>0
  <2> HIDE DEF t1
  <2>2. \A p \in 1 .. FieldWidth : t1[p] = CharAt(k, p)
    <3>1. \A p \in 1 .. FieldWidth : p < W
      BY <1>1
    <3> QED
      BY <1>4, <1>11, <2>1, <3>1 DEF CharAt
  <2>3. t1[W] = CharAt(k, W)
    <3>1. CharAt(k, W) = Star(k, 1)
      BY <1>1 DEF CharAt
    <3> QED
      BY <1>1, <1>11, <1>14, <2>1, <3>1
  <2>4. \A p \in 1 .. W : p \in 1 .. FieldWidth \/ p = W
    BY <1>1
  <2> QED
    BY <1>1, <1>11, <1>14, <2>1, <2>2, <2>3, <2>4
<1> HIDE DEF t1
<1>8. /\ t2 \in Seq(S) /\ Len(t2) = W + FieldWidth
      /\ \A p \in 1 .. W + FieldWidth : t2[p] = CharAt(k, p)
  <2>1. /\ t2 \in Seq(S) /\ Len(t2) = Len(t1) + Len(n2)
        /\ \A p \in 1 .. Len(t1) : t2[p] = t1[p]
        /\ \A p \in 1 .. Len(n2) : t2[Len(t1) + p] = n2[p]
    BY <1>7, <1>12
  <2> HIDE DEF t2
  <2>2. ASSUME NEW p \in W + 1 .. W + FieldWidth PROVE t2[p] = CharAt(k, p)
    <3>1. p - W \in 1 .. FieldWidth /\ W + (p - W) = p
      BY <1>1
    <3>2. CharAt(k, p) = Digit(k, 2, p - W)
      BY <1>1 DEF CharAt
    <3>3. t2[W + (p - W)] = n2[p - W]
      BY <1>7, <1>12, <2>1, <3>1
    <3> QED
      BY <1>4, <3>1, <3>2, <3>3
  <2>3. \A p \in 1 .. W + FieldWidth : p \in 1 .. W \/ p \in W + 1 .. W + FieldWidth
    BY <1>1
  <2>4. \A p \in 1 .. W : t2[p] = CharAt(k, p)
    BY <1>7, <2>1
  <2> QED
    BY <1>7, <1>12, <2>1, <2>2, <2>3, <2>4
<1> HIDE DEF t2
<1>9. /\ t3 \in Seq(S) /\ Len(t3) = 2 * W
      /\ \A p \in 1 .. 2 * W : t3[p] = CharAt(k, p)
  <2>0. t2 \in Seq(S) /\ s2 \in Seq(S)
    BY <1>8, <1>15
  <2>1. /\ t3 \in Seq(S) /\ Len(t3) = Len(t2) + Len(s2)
        /\ \A p \in 1 .. Len(t2) : t3[p] = t2[p]
        /\ \A p \in 1 .. Len(s2) : t3[Len(t2) + p] = s2[p]
    BY <2>0
  <2> HIDE DEF t3
  <2>2. W + FieldWidth + 1 = 2 * W
    BY <1>1
  <2>3. t3[2 * W] = Star(k, 2)
    BY <1>8, <1>15, <2>1, <2>2
  <2>4. CharAt(k, 2 * W) = Star(k, 2)
    BY <1>1 DEF CharAt
  <2>5. \A p \in 1 .. 2 * W : p \in 1 .. W + FieldWidth \/ p = 2 * W
    BY <1>1
  <2>6. Len(t3) = 2 * W
    BY <1>8, <1>15, <2>1, <2>2
  <2> QED
    BY <1>8, <2>1, <2>3, <2>4, <2>5, <2>6
<1> HIDE DEF t3
<1>10. /\ Len(t4) = LongestText
       /\ \A p \in 1 .. LongestText : t4[p] = CharAt(k, p)
  <2>0. 2 * W \in Nat /\ 2 * W + FieldWidth = LongestText
    BY <1>1 DEF LongestText
  <2>1. /\ Len(t4) = Len(t3) + Len(n3)
        /\ \A p \in 1 .. Len(t3) : t4[p] = t3[p]
        /\ \A p \in 1 .. Len(n3) : t4[Len(t3) + p] = n3[p]
    BY <1>9, <1>13
  <2> HIDE DEF t4
  <2>2. ASSUME NEW p \in 2 * W + 1 .. LongestText PROVE t4[p] = CharAt(k, p)
    <3>1. p - 2 * W \in 1 .. FieldWidth /\ 2 * W + (p - 2 * W) = p
      BY <1>1, <2>0
    <3>2. CharAt(k, p) = Digit(k, 3, p - 2 * W)
      BY <1>1, <2>0 DEF CharAt
    <3>3. t4[2 * W + (p - 2 * W)] = n3[p - 2 * W]
      BY <1>9, <1>13, <2>1, <3>1
    <3> QED
      BY <1>4, <3>1, <3>2, <3>3
  <2>3. \A p \in 1 .. LongestText : p \in 1 .. 2 * W \/ p \in 2 * W + 1 .. LongestText
    BY <1>1, <2>0
  <2>4. \A p \in 1 .. 2 * W : t4[p] = CharAt(k, p)
    BY <1>9, <2>1
  <2> QED
    BY <1>9, <1>13, <2>0, <2>1, <2>2, <2>3, <2>4
<1> QED
  BY <1>6, <1>10 DEF t1, t2, t3

LEMMA MarkerText ==
    ASSUME NEW k \in Int, IsMarker(k)
    PROVE  Text(k) = <<Star(k, 0)>> /\ Len(Text(k)) = 1 /\ Text(k)[1] = Star(k, 0)
BY DEF Text

(* What a character tells of its place. *)
LEMMA Columns ==
    ASSUME NEW k \in 1 .. MaxLines, NEW p \in 1 .. Len(Text(k))
    PROVE  /\ Text(k)[p] \in Characters /\ Text(k)[p].line = k /\ Column(Text(k)[p]) = p
           /\ Text(k)[p].kind = "star" /\ Text(k)[p].field # 0 => ~IsMarker(k)
           /\ p <= LongestText /\ Len(Text(k)) \in 1 .. LongestText
           /\ ~IsMarker(k) => Len(Text(k)) = LongestText
<1>1. FieldWidth \in Nat \ {0} /\ W \in Nat /\ W = FieldWidth + 1 /\ MaxLines \in Nat /\ k \in Int
  BY SerialLineAssumption DEF W
<1>2. LongestText = 3 * FieldWidth + 2
  BY DEF LongestText
<1>3. CASE IsMarker(k)
  <2>0. Len(Text(k)) = 1 /\ Text(k)[1] = Star(k, 0)
    BY <1>1, <1>3, MarkerText
  <2>1. p = 1 /\ Len(Text(k)) = 1 /\ Text(k)[p] = Star(k, 0)
    BY <2>0
  <2>2. Star(k, 0) \in Characters
    BY DEF Characters
  <2> QED
    BY <1>1, <1>2, <1>3, <2>1, <2>2 DEF Star, Column
<1>4. CASE ~IsMarker(k)
  <2>1. Len(Text(k)) = LongestText /\ Text(k)[p] = CharAt(k, p) /\ p \in 1 .. LongestText
    BY <1>1, <1>4, SampleText
  <2>2. CASE p < W
    <3>1. Text(k)[p] = Digit(k, 1, p) /\ p \in 1 .. FieldWidth
      BY <1>1, <2>1, <2>2 DEF CharAt
    <3>2. Text(k)[p] \in Characters
      BY <3>1 DEF Characters, Fields
    <3>3. /\ Text(k)[p].kind = "digit" /\ Text(k)[p].line = k
          /\ Column(Text(k)[p]) = p
      BY <1>1, <3>1 DEF Digit, Column, FieldStart
    <3> QED
      BY <1>1, <1>2, <1>4, <2>1, <3>2, <3>3
  <2>3. CASE p = W
    <3>1. Text(k)[p] = Star(k, 1)
      BY <1>1, <2>1, <2>3 DEF CharAt
    <3>2. Text(k)[p] \in Characters
      BY <3>1 DEF Characters
    <3> QED
      BY <1>1, <1>2, <1>4, <2>1, <2>3, <3>1, <3>2 DEF Star, Column
  <2>4. CASE p > W /\ p < 2 * W
    <3>1. Text(k)[p] = Digit(k, 2, p - W) /\ p - W \in 1 .. FieldWidth
      BY <1>1, <2>1, <2>4 DEF CharAt
    <3>2. Text(k)[p] \in Characters
      BY <3>1 DEF Characters, Fields
    <3>3. /\ Text(k)[p].kind = "digit" /\ Text(k)[p].line = k
          /\ Column(Text(k)[p]) = p
      BY <1>1, <3>1 DEF Digit, Column, FieldStart
    <3> QED
      BY <1>1, <1>2, <1>4, <2>1, <3>2, <3>3
  <2>5. CASE p = 2 * W
    <3>1. Text(k)[p] = Star(k, 2)
      BY <1>1, <2>1, <2>5 DEF CharAt
    <3>2. Text(k)[p] \in Characters
      BY <3>1 DEF Characters
    <3> QED
      BY <1>1, <1>2, <1>4, <2>1, <2>5, <3>1, <3>2 DEF Star, Column
  <2>6. CASE p > 2 * W
    <3>1. Text(k)[p] = Digit(k, 3, p - 2 * W) /\ p - 2 * W \in 1 .. FieldWidth
      BY <1>1, <1>2, <2>1, <2>6 DEF CharAt
    <3>2. Text(k)[p] \in Characters
      BY <3>1 DEF Characters, Fields
    <3>3. /\ Text(k)[p].kind = "digit" /\ Text(k)[p].line = k
          /\ Column(Text(k)[p]) = p
      BY <1>1, <3>1 DEF Digit, Column, FieldStart
    <3> QED
      BY <1>1, <1>2, <1>4, <2>1, <3>2, <3>3
  <2> QED
    BY <1>1, <2>1, <2>2, <2>3, <2>4, <2>5, <2>6
<1> QED
  BY <1>3, <1>4

LEMMA TextLength ==
    ASSUME NEW k \in Int
    PROVE  /\ Len(Text(k)) \in 1 .. LongestText
           /\ IsMarker(k) => Len(Text(k)) = 1
           /\ ~IsMarker(k) => Len(Text(k)) = LongestText
           /\ Len(Printed(k)) = Len(Text(k)) + 2
           /\ \A p \in 1 .. Len(Text(k)) : Printed(k)[p] = Text(k)[p] /\ Printed(k)[p] # LineEnd
           /\ LongestText \in Nat /\ LongestText = 3 * W - 1 /\ W \in Nat /\ W >= 2
<1>1. FieldWidth \in Nat \ {0}
  BY SerialLineAssumption
<1>2. LongestText \in Nat /\ LongestText = 3 * W - 1 /\ W \in Nat /\ W >= 2
  BY <1>1 DEF LongestText, W
<1>3. Text(k) \in Seq(TextCharacters)
  BY TextShape
<1> DEFINE t == Text(k)
           z == <<LineEnd, LineEnd>>
<1>4. t \in Seq(TextCharacters \cup {LineEnd}) /\ z \in Seq(TextCharacters \cup {LineEnd}) /\ Len(z) = 2
  BY <1>3
<1>5. Len(t) \in 1 .. LongestText /\ (IsMarker(k) => Len(t) = 1) /\ (~IsMarker(k) => Len(t) = LongestText)
  <2>1. IsMarker(k) => Len(t) = 1
    BY MarkerText
  <2>2. ~IsMarker(k) => Len(t) = LongestText
    BY SampleText
  <2>3. Len(t) = 1 \/ Len(t) = LongestText
    BY <2>1, <2>2
  <2>4. LongestText >= 1
    BY <1>2
  <2> HIDE DEF t
  <2>5. Len(t) \in 1 .. LongestText
    BY <1>2, <2>3, <2>4
  <2> QED
    BY <2>1, <2>2, <2>5
<1>6. Printed(k) = t \o z
  BY DEF Printed
<1>7. \A p \in 1 .. Len(t) : t[p] \in TextCharacters
  BY <1>3, ElementOfSeq
<1>8. \A p \in 1 .. Len(t) : t[p] # LineEnd
  BY <1>7 DEF TextCharacters, LineEnd
<1> HIDE DEF t, z
<1>9. Len(t \o z) = Len(t) + Len(z) /\ \A p \in 1 .. Len(t) : (t \o z)[p] = t[p]
  BY <1>4, Joined, Zenon
<1>10. Len(t \o z) = Len(t) + 2
  BY <1>4, <1>9
<1> QED
  BY <1>2, <1>5, <1>6, <1>8, <1>9, <1>10 DEF t

-----------------------------------------------------------------------------
(* Types *)
LEMMA CharacterIs ==
    ASSUME CountTypes, line >= 1, Printing, Character # LineEnd
    PROVE  /\ position \in 1 .. Len(Text(line)) /\ position <= End - 2
           /\ position <= LongestText
           /\ Character = Text(line)[position]
           /\ Character \in Characters /\ Column(Character) = position /\ Character.line = line
           /\ Character.kind = "star" /\ Character.field # 0 => ~IsMarker(line)
<1>1. MaxLines \in Nat /\ line \in Nat /\ line <= MaxLines /\ position \in 1 .. End
  BY SerialLineAssumption DEF CountTypes, Printing
<1>2. line \in 1 .. MaxLines /\ line \in Int
  BY <1>1
<1>3. End = Len(Text(line)) + 2 /\ Len(Text(line)) \in Nat
  BY <1>2, TextLength DEF End
<1>4. position < End - 1
  <2>1. /\ End \in Nat
        /\ \A p \in 1 .. End : Printed(line)[p] = LineEnd <=> p >= End - 1
    BY <1>2, PrintedShape DEF End
  <2>2. Printed(line)[position] # LineEnd
    BY DEF Character
  <2> QED
    BY <1>1, <2>1, <2>2
<1>5. position \in 1 .. Len(Text(line))
  BY <1>1, <1>3, <1>4
<1>6. Character = Text(line)[position]
  BY <1>2, <1>5, TextLength DEF Character
<1>7. /\ Text(line)[position] \in Characters /\ Text(line)[position].line = line
      /\ Column(Text(line)[position]) = position
      /\ Text(line)[position].kind = "star" /\ Text(line)[position].field # 0 => ~IsMarker(line)
      /\ position <= LongestText
  BY <1>2, <1>5, Columns
<1> QED
  BY <1>1, <1>3, <1>4, <1>5, <1>6, <1>7

LEMMA TokensTyped ==
    ASSUME lineData \in Seq(Characters), TokensFit,
           token \in [Fields -> Seq(Characters)],
           \A c \in Fields : Len(token[c]) < TokenSize
    PROVE  /\ NewTokens \in [Fields -> Seq(Characters)]
           /\ \A c \in Fields : Len(NewTokens[c]) < TokenSize
<1> DEFINE found == Tokens(lineData)
<1>1. Len(found) \in Nat
  BY TokenCount
<1>2. \A n \in 1 .. Len(found) : found[n] \in Seq(Characters) /\ Len(found[n]) < TokenSize
  BY TokenIsRun DEF TokensFit
<1>3. NewTokens = [c \in Fields |-> IF c <= Len(found) THEN found[c] ELSE token[c]]
  BY DEF NewTokens
<1> HIDE DEF found
<1>4. \A c \in Fields : c <= Len(found) => c \in 1 .. Len(found)
  BY <1>1 DEF Fields
<1>5. \A c \in Fields : /\ (IF c <= Len(found) THEN found[c] ELSE token[c]) \in Seq(Characters)
                        /\ Len(IF c <= Len(found) THEN found[c] ELSE token[c]) < TokenSize
  BY <1>2, <1>4
<1> QED
  BY <1>3, <1>5

LEMMA HeldLine ==
    ASSUME NEW tokens \in [Fields -> Seq(Characters)], NEW k \in Int, HoldsSample(tokens, k)
    PROVE  k \in 1 .. MaxLines
<1>1. 1 \in Fields /\ FieldWidth \in Nat \ {0}
  BY SerialLineAssumption DEF Fields
<1>2. tokens[1] = Number(k, 1) /\ tokens[1] \in Seq(Characters)
  BY <1>1 DEF HoldsSample
<1>3. Len(Number(k, 1)) = FieldWidth /\ Number(k, 1)[1] = Digit(k, 1, 1)
  BY <1>1 DEF Number
<1>4. Digit(k, 1, 1) \in Characters
  BY <1>1, <1>2, <1>3, ElementOfSeq
<1>5. Digit(k, 1, 1).line = k
  BY DEF Digit
<1>6. \A ch \in Characters : ch.line \in 1 .. MaxLines
  BY DEF Characters, Digit, Star
<1> QED
  BY <1>4, <1>5, <1>6

LEMMA StoreTyped ==
    ASSUME lineData \in Seq(Characters), Len(lineData) < LineSize, Len(lineData) >= 1,
           NEW ch \in Characters, StoreCharacter(ch),
           pc = "value", overrun \in {"none", "line_data", "data_sample_token"}
    PROVE  /\ lineData' \in Seq(Characters) /\ Len(lineData') < LineSize
           /\ Len(lineData') >= 1
           /\ pc' \in {"value", "undefined"}
           /\ overrun' \in {"none", "line_data", "data_sample_token"}
<1>1. CASE Len(lineData) + 1 < LineSize
  <2>1. lineData' = Append(lineData, ch) /\ pc' = pc /\ overrun' = overrun
    BY <1>1 DEF StoreCharacter
  <2>2. Append(lineData, ch) \in Seq(Characters) /\ Len(Append(lineData, ch)) = Len(lineData) + 1
    OBVIOUS
  <2>3. Len(lineData) \in Nat
    BY LenProperties
  <2> QED
    BY <1>1, <2>1, <2>2, <2>3
<1>2. CASE ~(Len(lineData) + 1 < LineSize)
  BY <1>2 DEF StoreCharacter, Overrun
<1> QED
  BY <1>1, <1>2

LEMMA InitTypes == Init => TypeOK /\ Bounded
<1> SUFFICES ASSUME Init PROVE TypeOK /\ Bounded
  OBVIOUS
<1>1. /\ MaxLines \in Nat /\ LineSize \in Nat /\ TokenSize \in Nat /\ Timeout \in Nat /\ MaxDamage \in Nat
      /\ LongestText \in Nat /\ LongestText < LineSize /\ FieldWidth \in Nat /\ FieldWidth < TokenSize
  BY TextLength, SerialLineAssumption DEF LongestText
<1>2. << >> \in Seq(Characters) /\ Len(<< >>) = 0
  BY EmptySeq
<1>3. token \in [Fields -> Seq(Characters)] /\ \A c \in Fields : Len(token[c]) < TokenSize
  BY <1>1, <1>2 DEF Init, Unset
<1> QED
  BY <1>1, <1>2, <1>3 DEF Init, TypeOK, Bounded, Damage, Printing

LEMMA StepTypes ==
    TypeOK /\ Bounded /\ CountTypes /\ CountTypes' /\ [Next]_vars => TypeOK' /\ Bounded'
<1> SUFFICES ASSUME TypeOK, Bounded, CountTypes, CountTypes', [Next]_vars
             PROVE  TypeOK' /\ Bounded'
  OBVIOUS
<1> USE DEF boardVars, readerVars, history, damage
<1>0. /\ MaxLines \in Nat /\ LineSize \in Nat /\ TokenSize \in Nat /\ Timeout \in Nat /\ MaxDamage \in Nat
      /\ LongestText \in Nat /\ Timeout >= 1
  BY TextLength, SerialLineAssumption
<1>1. /\ line \in 1 .. MaxLines + 1 /\ Damage \in Nat
      /\ lost \in Nat /\ cuts \in Nat /\ errors \in Nat /\ Damage <= MaxDamage + 1
      /\ lineData \in Seq(Characters) /\ Len(lineData) \in Nat
  BY LenProperties DEF TypeOK, Damage
<1>2. position' \in 1 .. LongestText + 2
  <2>1. line' \in Int /\ position' \in 1 .. End'
    BY DEF CountTypes
  <2>2. End' = Len(Text(line')) + 2 /\ Len(Text(line')) \in 1 .. LongestText
    BY <2>1, TextLength DEF End
  <2> QED
    BY <1>0, <2>1, <2>2
<1>3. ASSUME TakeCharacter, Printing PROVE line' \in 1 .. MaxLines + 1
  BY <1>0, <1>1, <1>3 DEF TakeCharacter, Printing
<1>4. CASE LoseCharacter
  <2>1. line' \in 1 .. MaxLines + 1 /\ Damage < MaxDamage /\ Printing
    BY <1>3, <1>4 DEF LoseCharacter
  <2>2. Damage' = Damage + 1 /\ lost' \in Nat
    BY <1>1, <1>4 DEF LoseCharacter, Damage
  <2> QED
    BY <1>0, <1>1, <1>2, <1>4, <2>1, <2>2 DEF LoseCharacter, TypeOK, Bounded
<1>5. CASE CallRead \/ SkipNap
  <2>1. /\ line' = line /\ Damage' = Damage /\ Printing' = Printing
    BY <1>5 DEF CallRead, SkipNap, Damage, Printing
  <2>0. << >> \in Seq(Characters) /\ Len(<< >>) < LineSize
    BY <1>0, EmptySeq, SerialLineAssumption
  <2>2. lineData' \in Seq(Characters) /\ Len(lineData') < LineSize
    <3>1. lineData' = << >> \/ lineData' = lineData
      BY <1>5 DEF CallRead, SkipNap
    <3> QED
      BY <2>0, <3>1 DEF TypeOK
  <2>3. /\ totalSleep' \in 0 .. Timeout /\ (pc' = "skip" => totalSleep' < Timeout)
        /\ pc \in {"check", "skip"} /\ pc' \in {"check", "skip"}
    <3>1. CASE CallRead
      BY <1>0, <3>1 DEF CallRead
    <3>2. CASE SkipNap
      <4>1. totalSleep \in 0 .. Timeout /\ (pc = "skip" => totalSleep < Timeout)
        BY DEF TypeOK, Bounded
      <4> QED
        BY <1>0, <3>2, <4>1 DEF SkipNap
    <3> QED
      BY <1>5, <3>1, <3>2
  <2> QED
    BY <1>1, <1>2, <1>5, <2>1, <2>2, <2>3 DEF CallRead, SkipNap, TypeOK, Bounded
<1>6. CASE SkipLineEnd \/ ReadLineEnd
  <2>1. line' \in 1 .. MaxLines + 1 /\ Printing
    BY <1>3, <1>6 DEF SkipLineEnd, ReadLineEnd
  <2>2. Damage' = Damage /\ pc' \in {"skip", "dispatch"} /\ (pc' = "dispatch" => pc = "value")
    BY <1>6 DEF SkipLineEnd, ReadLineEnd, Damage
  <2> QED
    BY <1>1, <1>2, <1>6, <2>1, <2>2 DEF SkipLineEnd, ReadLineEnd, TypeOK, Bounded
<1>7. CASE ReadFirst
  <2>1. line' \in 1 .. MaxLines + 1 /\ Printing
    BY <1>3, <1>7 DEF ReadFirst
  <2>2. Character \in Characters
    BY <1>0, <1>1, <1>7, CharacterIs DEF ReadFirst
  <2>3. lineData' \in Seq(Characters) /\ Len(lineData') = 1
    BY <1>7, <2>2 DEF ReadFirst
  <2>4. 1 < LineSize
    BY <1>0, SerialLineAssumption, TextLength DEF LongestText
  <2>5. Damage' = Damage
    BY <1>7 DEF ReadFirst, Damage
  <2> QED
    BY <1>1, <1>2, <1>7, <2>1, <2>3, <2>4, <2>5 DEF ReadFirst, TypeOK, Bounded
<1>8. CASE ReadValue
  <2>1. line' \in 1 .. MaxLines + 1 /\ Printing
    BY <1>3, <1>8 DEF ReadValue
  <2>2. Character \in Characters
    BY <1>0, <1>1, <1>8, CharacterIs DEF ReadValue
  <2>3. /\ lineData' \in Seq(Characters) /\ Len(lineData') < LineSize /\ Len(lineData') >= 1
        /\ pc' \in {"value", "undefined"}
        /\ overrun' \in {"none", "line_data", "data_sample_token"}
    BY <1>8, <2>2, StoreTyped DEF ReadValue, TypeOK, Bounded
  <2>5. Damage' = Damage /\ Damage <= MaxDamage
    <3>1. Damage' = Damage /\ pc \in {"value", "dispatch"}
      BY <1>8 DEF ReadValue, Damage
    <3> QED
      BY <1>0, <1>1, <3>1 DEF Bounded
  <2> QED
    BY <1>0, <1>1, <1>2, <1>8, <2>1, <2>3, <2>5 DEF ReadValue, TypeOK, Bounded
<1>9. CASE ReadError
  <2>1. Last(lineData) \in Characters
    <3>1. Len(lineData) \in 1 .. Len(lineData)
      BY <1>1, <1>9 DEF ReadError, Bounded
    <3> QED
      BY <1>1, <3>1, ElementOfSeq DEF Last
  <2>2. /\ lineData' \in Seq(Characters) /\ Len(lineData') < LineSize /\ Len(lineData') >= 1
        /\ pc' \in {"value", "undefined"}
        /\ overrun' \in {"none", "line_data", "data_sample_token"}
    BY <1>9, <2>1, StoreTyped DEF ReadError, TypeOK, Bounded
  <2>3. Damage' = Damage + 1 /\ Damage < MaxDamage /\ errors' \in Nat
    BY <1>1, <1>9 DEF ReadError, Damage
  <2> QED
    BY <1>0, <1>1, <1>2, <1>9, <2>2, <2>3 DEF ReadError, TypeOK, Bounded
<1>10. CASE ValueNap
  <2>1. Damage' = Damage /\ Printing' = Printing /\ totalSleep' \in 0 .. Timeout
    BY <1>0, <1>10 DEF ValueNap, Damage, Printing, TypeOK
  <2> QED
    BY <1>1, <1>2, <1>10, <2>1 DEF ValueNap, TypeOK, Bounded
<1>11. CASE CutLine
  <2>1. Damage' = Damage + 1 /\ Printing' = Printing /\ totalSleep' \in 0 .. Timeout /\ cuts' \in Nat
    BY <1>0, <1>1, <1>11 DEF CutLine, Damage, Printing, TypeOK
  <2>2. Damage <= MaxDamage /\ (Damage' > MaxDamage => ~Printing)
    BY <1>0, <1>1, <1>11, <2>1 DEF CutLine, Bounded
  <2>3. lineData' \in Seq(Characters) /\ Len(lineData') = 0 /\ 0 < LineSize
    BY <1>0, <1>11, EmptySeq, SerialLineAssumption DEF CutLine
  <2> QED
    BY <1>0, <1>1, <1>2, <1>11, <2>1, <2>2, <2>3 DEF CutLine, TypeOK, Bounded
<1>12. CASE DispatchMarker
  <2>1. Damage' = Damage /\ Damage <= MaxDamage
    <3>1. Damage' = Damage /\ pc \in {"value", "dispatch"}
      BY <1>12 DEF DispatchMarker, Damage
    <3> QED
      BY <1>0, <1>1, <3>1 DEF Bounded
  <2>2. lineData[1] \in Characters
    <3>1. 1 \in 1 .. Len(lineData)
      BY <1>12 DEF DispatchMarker, LooksLikeMarker
    <3> QED
      BY <1>1, <3>1, ElementOfSeq
  <2>3. lineData[1].line \in 1 .. MaxLines
    BY <2>2 DEF Characters, Digit, Star
  <2>4. good' \subseteq 1 .. MaxLines /\ falseMarkers' \in Nat /\ delivered' \in Nat
    <3>1. \/ good' = good \cup {lineData[1].line} /\ falseMarkers' = falseMarkers
          \/ good' = good /\ falseMarkers' = falseMarkers + 1
      BY <1>12 DEF DispatchMarker
    <3>2. delivered' = delivered + 1
      BY <1>12 DEF DispatchMarker
    <3>3. good \subseteq 1 .. MaxLines /\ falseMarkers \in Nat /\ delivered \in Nat
      BY DEF TypeOK
    <3>4. {lineData[1].line} \subseteq 1 .. MaxLines
      BY <2>3
    <3>5. good' \subseteq 1 .. MaxLines
      BY <3>1, <3>3, <3>4, Zenon
    <3>6. falseMarkers' \in Nat /\ delivered' \in Nat
      BY <3>1, <3>2, <3>3
    <3> QED
      BY <3>5, <3>6
  <2>5. lineData' \in Seq(Characters) /\ Len(lineData') = 0 /\ 0 < LineSize
    BY <1>0, <1>12, EmptySeq, SerialLineAssumption DEF DispatchMarker
  <2> QED
    BY <1>0, <1>1, <1>2, <1>12, <2>1, <2>4, <2>5 DEF DispatchMarker, TypeOK, Bounded
<1>13. CASE DispatchSample
  <2>1. Damage' = Damage /\ Damage <= MaxDamage
    <3>1. Damage' = Damage /\ pc \in {"value", "dispatch"}
      BY <1>13 DEF DispatchSample, Damage
    <3> QED
      BY <1>0, <1>1, <3>1 DEF Bounded
  <2>2. lineData' \in Seq(Characters) /\ Len(lineData') = 0 /\ 0 < LineSize
    BY <1>0, <1>13, EmptySeq, SerialLineAssumption DEF DispatchSample
  <2>3. delivered' \in Nat
    BY <1>13 DEF DispatchSample, TypeOK
  <2>4. CASE TokensFit
    <3>1. SplitSample(NewTokens)
      BY <1>13, <2>4 DEF DispatchSample
    <3>2. /\ NewTokens \in [Fields -> Seq(Characters)]
          /\ \A c \in Fields : Len(NewTokens[c]) < TokenSize
      BY <1>1, <2>4, TokensTyped DEF TypeOK
    <3>3. \A k \in 1 .. line : k \in Int
      BY <1>1
    <3>4. good' \subseteq 1 .. MaxLines
      <4> DEFINE new == NewTokens
      <4>1. good' = good \cup {k \in 1 .. line : ~IsMarker(k) /\ HoldsSample(new, k)}
        BY <3>1 DEF SplitSample
      <4>2. new \in [Fields -> Seq(Characters)]
        BY <3>2
      <4> HIDE DEF new
      <4>3. \A k \in 1 .. line : HoldsSample(new, k) => k \in 1 .. MaxLines
        BY <3>3, <4>2, HeldLine
      <4> QED
        BY <4>1, <4>3 DEF TypeOK
    <3>5. token' = NewTokens /\ pc' = "check" /\ overrun' = overrun
      BY <3>1 DEF SplitSample
    <3> QED
      BY <1>0, <1>1, <1>2, <1>13, <2>1, <2>2, <2>3, <3>2, <3>4, <3>5 DEF DispatchSample, TypeOK, Bounded
  <2>5. CASE ~TokensFit
    <3>1. /\ overrun' = "data_sample_token" /\ pc' = "undefined" /\ token' = token /\ good' = good
      BY <1>13, <2>5 DEF DispatchSample, Overrun
    <3> QED
      BY <1>0, <1>1, <1>2, <1>13, <2>1, <2>2, <2>3, <3>1 DEF DispatchSample, TypeOK, Bounded
  <2> QED
    BY <2>4, <2>5
<1>14. CASE Undefined \/ UNCHANGED vars
  <2>1. UNCHANGED vars
    BY <1>14 DEF Undefined
  <2> QED
    BY <2>1 DEF vars, TypeOK, Bounded, Damage, Printing
<1> QED
  BY <1>4, <1>5, <1>6, <1>7, <1>8, <1>9, <1>10, <1>11, <1>12, <1>13, <1>14 DEF Next, Read

Typed == TypeOK /\ Bounded /\ IInv

LEMMA TypesHold == Spec => []Typed
<1>1. Init => TypeOK /\ Bounded
  BY InitTypes
<1>2. TypeOK /\ Bounded /\ IInv /\ IInv' /\ [Next]_vars => TypeOK' /\ Bounded'
  BY StepTypes DEF IInv
<1> QED
  BY <1>1, <1>2, InitIInv, StepKeeps, PTL DEF Spec, Typed

(* Nothing but characters of printed lines gets into line_data and the     *)
(* tokens, and neither array is filled to its end, however lines are cut   *)
(* and run together, for lines and arrays of any size (read_serial,        *)
(* process_data).                                                          *)
THEOREM ArraysAreTyped == Spec => []TypeOK
BY TypesHold, PTL DEF Typed

-----------------------------------------------------------------------------
(* False markers *)
InText == pc \notin {"value", "undefined"} /\ position > 1 /\ position <= Len(Text(line))

(* A separator alone in line_data, taken or about to be for a marker.      *)
LoneStar ==
    /\ pc \in {"value", "dispatch"} /\ Len(lineData) = 1
    /\ lineData[1].kind = "star" /\ lineData[1].field # 0

(* What it took so far: a character lost or a pause before it, and the     *)
(* characters that went by since.                                          *)
Gone ==
    IF pc = "dispatch" \/ lineData[1].line # line THEN W
    ELSE position - Column(lineData[1])

Paid == (IF InText THEN 1 ELSE 0) + (IF LoneStar THEN Gone ELSE 0)

FalseMarkersPaid == falseMarkers * W + Paid <= lost + cuts

StarAhead ==
    LoneStar /\ pc = "value" =>
        /\ lineData[1].line <= line
        /\ lineData[1].line = line => position > Column(lineData[1]) /\ ~IsMarker(line)

(* What the types say of a step. *)
LEMMA Ranges ==
    ASSUME Typed, Typed'
    PROVE  /\ TypeOK /\ CountTypes /\ pc \in {"check", "skip", "value", "dispatch", "undefined"}
           /\ falseMarkers \in Nat /\ lost \in Nat /\ cuts \in Nat /\ lost' \in Nat /\ cuts' \in Nat
           /\ line \in Nat /\ position \in Nat /\ line' \in Nat /\ position' \in Nat /\ W \in Nat /\ W >= 2
           /\ position >= 1 /\ position <= End /\ End \in Nat /\ End = Len(Text(line)) + 2 /\ Len(Text(line)) \in Nat
<1>1. TypeOK /\ CountTypes /\ TypeOK' /\ CountTypes'
  BY DEF Typed, IInv
<1>2. W \in Nat /\ W >= 2
  BY TextLength
<1>3. line \in Int
  BY <1>1 DEF CountTypes
<1>4. End = Len(Text(line)) + 2 /\ Len(Text(line)) \in Nat /\ End \in Nat
  BY <1>3, TextLength DEF End
<1>5. /\ falseMarkers \in Nat /\ lost \in Nat /\ cuts \in Nat /\ lost' \in Nat /\ cuts' \in Nat
      /\ pc \in {"check", "skip", "value", "dispatch", "undefined"}
      /\ position \in 1 .. End /\ line \in Nat /\ line' \in Nat
  BY <1>1 DEF TypeOK, CountTypes
<1>6. position' \in Nat
  <2>1. position' \in 1 .. LongestText + 2
    BY <1>1 DEF TypeOK
  <2> QED
    BY <2>1
<1> QED
  BY <1>1, <1>2, <1>4, <1>5, <1>6

LEMMA StarColumn ==
    ASSUME NEW ch \in Characters, ch.kind = "star", ch.field # 0
    PROVE  Column(ch) \in {W, 2 * W} /\ ch.line \in Nat /\ W \in Nat /\ W >= 2
<1>1. W \in Nat /\ W >= 2
  BY TextLength
<1>2. PICK k \in 1 .. MaxLines, c \in 0 .. 2 : ch = Star(k, c)
  BY DEF Characters, Digit
<1>3. c \in {1, 2}
  BY <1>2 DEF Star
<1>4. ch.kind # "digit" /\ ch.field = c /\ ch.line = k
  BY <1>2 DEF Star
<1>5. Column(ch) = IF c = 1 THEN W ELSE 2 * W
  BY <1>3, <1>4 DEF Column
<1> QED
  BY <1>1, <1>3, <1>4, <1>5

LEMMA LoneStarAt ==
    ASSUME TypeOK, CountTypes, StarAhead, LoneStar
    PROVE  /\ Column(lineData[1]) \in {W, 2 * W} /\ lineData[1].line \in Nat /\ W \in Nat /\ W >= 2
           /\ Gone \in Nat /\ Gone >= 1
           /\ pc = "value" /\ lineData[1].line = line /\ position >= End - 1 => Gone >= W
           /\ pc = "value" /\ lineData[1].line # line => lineData[1].line < line
<1>1. /\ Column(lineData[1]) \in {W, 2 * W} /\ lineData[1].line \in Nat /\ W \in Nat /\ W >= 2
  <2>1. 1 \in 1 .. Len(lineData) /\ lineData \in Seq(Characters)
    BY DEF LoneStar, TypeOK
  <2>2. lineData[1] \in Characters
    BY <2>1, ElementOfSeq
  <2> QED
    BY <2>2, StarColumn DEF LoneStar
<1>2. position \in Nat /\ line \in Nat /\ pc \in {"value", "dispatch"}
  BY DEF CountTypes, TypeOK, LoneStar
<1>3. End = Len(Text(line)) + 2 /\ (~IsMarker(line) => Len(Text(line)) = 3 * W - 1)
  BY <1>2, TextLength DEF End
<1>4. Gone \in Nat /\ Gone >= 1
  BY <1>1, <1>2 DEF Gone, StarAhead
<1>5. ASSUME pc = "value", lineData[1].line = line, position >= End - 1 PROVE Gone >= W
  <2>1. ~IsMarker(line) /\ Gone = position - Column(lineData[1])
    BY <1>5 DEF StarAhead, Gone
  <2>2. End = 3 * W + 1
    BY <1>1, <1>3, <2>1
  <2> QED
    BY <1>1, <1>2, <1>5, <2>1, <2>2
<1>6. pc = "value" /\ lineData[1].line # line => lineData[1].line < line
  BY <1>1, <1>2 DEF StarAhead
<1> QED
  BY <1>1, <1>4, <1>5, <1>6

(* A step that marks no line pays for what it owes. *)
LEMMA PaidBy ==
    ASSUME FalseMarkersPaid, falseMarkers \in Nat, falseMarkers' = falseMarkers,
           lost \in Nat, cuts \in Nat, NEW d \in Nat, lost' + cuts' = lost + cuts + d,
           Paid \in Nat, Paid' \in Nat, Paid' <= Paid + d
    PROVE  FalseMarkersPaid'
<1>0. W \in Nat
  BY TextLength
<1>1. PICK f \in Nat : f = falseMarkers * W
  BY <1>0
<1>2. f + Paid <= lost + cuts /\ falseMarkers' * W = f
  BY <1>1 DEF FalseMarkersPaid
<1>3. f + Paid' <= lost' + cuts'
  BY <1>1, <1>2
<1> QED
  BY <1>2, <1>3 DEF FalseMarkersPaid

(* ... nor does one that leaves all as it is. *)
LEMMA PaidSame ==
    ASSUME FalseMarkersPaid, falseMarkers \in Nat, falseMarkers' = falseMarkers,
           lost \in Nat, cuts \in Nat, lost' = lost, cuts' = cuts,
           Paid \in Nat, Paid' \in Nat, Paid' <= Paid
    PROVE  FalseMarkersPaid'
<1>1. PICK d \in Nat : d = 0
  OBVIOUS
<1>2. lost' + cuts' = lost + cuts + d /\ Paid' <= Paid + d
  BY <1>1
<1> QED
  BY <1>2, PaidBy

LEMMA PaidType ==
    ASSUME TypeOK, CountTypes, StarAhead
    PROVE  Paid \in Nat /\ (IF InText THEN 1 ELSE 0) \in 0 .. 1
           /\ (IF LoneStar THEN Gone ELSE 0) \in Nat
           /\ W \in Nat /\ W >= 2
<1>1. W \in Nat /\ W >= 2
  BY TextLength
<1>2. (IF LoneStar THEN Gone ELSE 0) \in Nat
  BY LoneStarAt
<1> QED
  BY <1>1, <1>2 DEF Paid

LEMMA InitPaid == Init => FalseMarkersPaid /\ StarAhead
<1> SUFFICES ASSUME Init PROVE FalseMarkersPaid /\ StarAhead
  OBVIOUS
<1>1. ~LoneStar /\ ~InText
  BY DEF Init, LoneStar, InText
<1>2. Paid = 0
  BY <1>1 DEF Paid
<1>3. falseMarkers * W = 0
  BY TextLength DEF Init
<1> QED
  BY <1>1, <1>2, <1>3 DEF Init, FalseMarkersPaid, StarAhead

LEMMA StepPaid ==
    Typed /\ Typed' /\ FalseMarkersPaid /\ StarAhead /\ [Next]_vars => FalseMarkersPaid' /\ StarAhead'
<1> SUFFICES ASSUME Typed, Typed', FalseMarkersPaid, StarAhead, [Next]_vars
             PROVE  FalseMarkersPaid' /\ StarAhead'
  OBVIOUS
<1> USE DEF boardVars, readerVars, history, damage
<1>0. /\ TypeOK /\ CountTypes /\ pc \in {"check", "skip", "value", "dispatch", "undefined"}
      /\ falseMarkers \in Nat /\ lost \in Nat /\ cuts \in Nat /\ lost' \in Nat /\ cuts' \in Nat
      /\ line \in Nat /\ position \in Nat /\ line' \in Nat /\ position' \in Nat /\ W \in Nat /\ W >= 2
      /\ position >= 1 /\ position <= End /\ End \in Nat /\ End = Len(Text(line)) + 2 /\ Len(Text(line)) \in Nat
  BY Ranges
<1>1. Paid \in Nat
  BY <1>0, PaidType
<1> DEFINE text == IF InText THEN 1 ELSE 0
           star == IF LoneStar THEN Gone ELSE 0
<1>2. Paid = text + star /\ text \in 0 .. 1 /\ star \in Nat
  BY <1>0, PaidType DEF Paid
<1>3. CASE LoseCharacter
  <2>1. /\ pc' = pc /\ lineData' = lineData /\ falseMarkers' = falseMarkers /\ lost' = lost + 1 /\ cuts' = cuts
        /\ lost' + cuts' = lost + cuts + 1
    BY <1>0, <1>3 DEF LoseCharacter
  <2>2. \/ position < End /\ line' = line /\ position' = position + 1
        \/ position = End /\ line' = line + 1 /\ position' = 1
    BY <1>0, <1>3, TakeMoves DEF LoseCharacter
  <2>3. LoneStar' <=> LoneStar
    BY <2>1 DEF LoneStar
  <2>4. StarAhead'
    <3> SUFFICES ASSUME LoneStar, pc = "value"
                 PROVE  /\ lineData[1].line <= line'
                        /\ lineData[1].line = line' => position' > Column(lineData[1]) /\ ~IsMarker(line')
      BY <2>1, <2>3 DEF StarAhead
    <3> QED
      BY <1>0, <2>2, LoneStarAt DEF StarAhead
  <2>5. CASE LoneStar
    <3>1. Gone' = IF pc = "dispatch" \/ lineData[1].line # line' THEN W ELSE position' - Column(lineData[1])
      BY <2>1 DEF Gone
    <3>2. Gone = IF pc = "dispatch" \/ lineData[1].line # line THEN W ELSE position - Column(lineData[1])
      BY DEF Gone
    <3>3. /\ Column(lineData[1]) \in {W, 2 * W} /\ lineData[1].line \in Nat /\ Gone \in Nat
          /\ pc = "value" /\ lineData[1].line = line /\ position >= End - 1 => Gone >= W
          /\ pc = "value" /\ lineData[1].line # line => lineData[1].line < line
      BY <1>0, <2>5, LoneStarAt
    <3>4. pc \in {"value", "dispatch"}
      BY <2>5 DEF LoneStar
    <3>5. Gone' \in Nat /\ Gone' <= Gone + 1 /\ (pc = "dispatch" => Gone' = Gone)
      <4>1. CASE pc = "dispatch"
        BY <1>0, <3>1, <3>2, <4>1
      <4>2. CASE pc = "value" /\ lineData[1].line # line
        <5>1. lineData[1].line # line'
          BY <1>0, <2>2, <3>3, <4>2
        <5> QED
          BY <1>0, <3>1, <3>2, <4>2, <5>1
      <4>3. CASE pc = "value" /\ lineData[1].line = line /\ line' = line
        <5>1. position' = position + 1
          BY <1>0, <2>2, <4>3
        <5>2. Gone' = position' - Column(lineData[1]) /\ Gone = position - Column(lineData[1])
          BY <3>1, <3>2, <4>3
        <5>3. Column(lineData[1]) \in Int
          BY <1>0, <3>3
        <5>4. Gone' = Gone + 1
          BY <1>0, <5>1, <5>2, <5>3
        <5> QED
          BY <3>3, <4>3, <5>4
      <4>4. CASE pc = "value" /\ lineData[1].line = line /\ line' # line
        <5>1. position >= End - 1
          BY <1>0, <2>2, <4>4
        <5>2. Gone' = W
          BY <3>1, <4>4
        <5> QED
          BY <1>0, <3>3, <4>4, <5>1, <5>2
      <4> QED
        BY <3>4, <4>1, <4>2, <4>3, <4>4
    <3>6. CASE pc = "value"
      <4>1. ~InText /\ ~InText'
        BY <2>1, <3>6 DEF InText
      <4>2. PICK after \in Nat, before \in Nat : after = Gone' /\ before = Gone
        BY <3>3, <3>5
      <4>3. Paid = 0 + before /\ Paid' = 0 + after
        BY <2>3, <2>5, <4>1, <4>2 DEF Paid
      <4>5. after \in Nat /\ before \in Nat /\ after <= before + 1
        BY <3>5, <4>2
      <4>4. Paid' \in Nat /\ Paid' <= Paid + 1
        BY <4>3, <4>5
      <4> QED
        BY <1>0, <1>1, <2>1, <2>4, <4>4, PaidBy
    <3>7. CASE pc = "dispatch"
      <4>1. Paid' \in Nat /\ Paid' <= Paid + 1
        BY <1>2, <2>3, <2>5, <3>5, <3>7 DEF Paid
      <4> QED
        BY <1>0, <1>1, <2>1, <2>4, <4>1, PaidBy
    <3> QED
      BY <3>4, <3>6, <3>7
  <2>6. CASE ~LoneStar
    <3>1. Paid' \in Nat /\ Paid' <= Paid + 1
      BY <1>2, <2>3, <2>6 DEF Paid
    <3> QED
      BY <1>0, <1>1, <2>1, <2>4, <3>1, PaidBy
  <2> QED
    BY <2>5, <2>6
<1>4. CASE SkipLineEnd
  <2>1. /\ pc' = pc /\ pc = "skip" /\ falseMarkers' = falseMarkers /\ lost' = lost /\ cuts' = cuts
    BY <1>0, <1>4 DEF SkipLineEnd
  <2>2. /\ Character = LineEnd
        /\ \/ position < End /\ line' = line /\ position' = position + 1
           \/ position = End /\ line' = line + 1 /\ position' = 1
        /\ position >= End - 1
    BY <1>0, <1>4, TakeMoves DEF SkipLineEnd
  <2>3. ~LoneStar' /\ ~InText'
    BY <1>0, <2>1, <2>2 DEF LoneStar, InText
  <2>4. Paid' = 0
    BY <2>3 DEF Paid
  <2> QED
    BY <1>0, <1>1, <2>1, <2>3, <2>4, PaidSame DEF StarAhead
<1>5. CASE ReadFirst
  <2>1. /\ pc = "skip" /\ pc' = "value" /\ falseMarkers' = falseMarkers /\ lost' = lost /\ cuts' = cuts
        /\ lineData' = <<Character>> /\ Printing /\ Character # LineEnd /\ TakeCharacter
    BY <1>0, <1>5 DEF ReadFirst
  <2>2. /\ position \in 1 .. Len(Text(line)) /\ Character \in Characters /\ Column(Character) = position
        /\ Character.line = line /\ position <= End - 2
        /\ Character.kind = "star" /\ Character.field # 0 => ~IsMarker(line)
    BY <1>0, <2>1, CharacterIs DEF TypeOK
  <2>3. line' = line /\ position' = position + 1
    BY <1>0, <2>1, <2>2, TakeMoves
  <2>4. lineData'[1] = Character
    BY <2>1
  <2>5. ~InText' /\ ~LoneStar
    BY <2>1 DEF InText, LoneStar
  <2>6. CASE LoneStar'
    <3>1. Character.kind = "star" /\ Character.field # 0
      BY <2>4, <2>6 DEF LoneStar
    <3>2. Column(Character) \in {W, 2 * W}
      BY <2>2, <3>1, StarColumn
    <3>3. InText
      BY <1>0, <2>1, <2>2, <3>2 DEF InText
    <3>4. Gone' = 1
      BY <1>0, <2>1, <2>2, <2>3, <2>4 DEF Gone
    <3>5. Paid' = 1 /\ Paid = 1
      BY <2>5, <2>6, <3>3, <3>4 DEF Paid
    <3>6. StarAhead'
      BY <1>0, <2>2, <2>3, <2>4, <3>1 DEF StarAhead
    <3> QED
      BY <1>0, <2>1, <3>5, <3>6, PaidSame
  <2>7. CASE ~LoneStar'
    <3>1. Paid' = 0
      BY <2>5, <2>7 DEF Paid
    <3> QED
      BY <1>0, <1>1, <2>1, <2>7, <3>1, PaidSame DEF StarAhead
  <2> QED
    BY <2>6, <2>7
<1>6. CASE ReadValue \/ ReadError
  <2>1. /\ pc = "value" /\ pc' \in {"value", "undefined"} /\ falseMarkers' = falseMarkers
        /\ lost' = lost /\ cuts' = cuts
    BY <1>0, <1>6 DEF ReadValue, ReadError, StoreCharacter, Overrun
  <2>2. Len(lineData) \in Nat /\ Len(lineData) >= 1 /\ lineData \in Seq(Characters)
    BY <2>1, LenProperties DEF Typed, TypeOK, Bounded
  <2>3. PICK ch : StoreCharacter(ch)
    BY <1>6 DEF ReadValue, ReadError
  <2>4. pc' = "value" => lineData' = Append(lineData, ch)
    BY <2>1, <2>3 DEF StoreCharacter, Overrun
  <2>5. Len(Append(lineData, ch)) = Len(lineData) + 1
    BY <2>2
  <2>6. pc' = "value" => Len(lineData') # 1
    BY <2>2, <2>4, <2>5
  <2>7. ~LoneStar' /\ ~InText'
    BY <2>1, <2>6 DEF LoneStar, InText
  <2>8. Paid' = 0
    BY <2>7 DEF Paid
  <2> QED
    BY <1>0, <1>1, <2>1, <2>7, <2>8, PaidSame DEF StarAhead
<1>7. CASE ReadLineEnd
  <2>1. /\ pc = "value" /\ pc' = "dispatch" /\ falseMarkers' = falseMarkers /\ lineData' = lineData
        /\ lost' = lost /\ cuts' = cuts
    BY <1>0, <1>7 DEF ReadLineEnd
  <2>2. /\ \/ position < End /\ line' = line /\ position' = position + 1
           \/ position = End /\ line' = line + 1 /\ position' = 1
        /\ position >= End - 1
    BY <1>0, <1>7, TakeMoves DEF ReadLineEnd
  <2>3. ~InText'
    BY <1>0, <2>2 DEF InText
  <2>4. (LoneStar' <=> LoneStar) /\ StarAhead'
    BY <2>1 DEF LoneStar, StarAhead
  <2>5. Paid' \in Nat /\ Paid' <= Paid
    <3>1. CASE LoneStar
      <4>1. Gone' = W
        BY <2>1 DEF Gone
      <4>2. Gone >= W /\ Gone \in Nat
        <5>1. lineData[1].line # line => Gone = W
          BY <2>1 DEF Gone
        <5> QED
          BY <1>0, <2>1, <2>2, <3>1, <5>1, LoneStarAt
      <4> QED
        BY <1>0, <1>2, <2>3, <2>4, <3>1, <4>1, <4>2 DEF Paid
    <3>2. CASE ~LoneStar
      BY <1>1, <2>3, <2>4, <3>2 DEF Paid
    <3> QED
      BY <3>1, <3>2
  <2> QED
    BY <1>0, <1>1, <2>1, <2>4, <2>5, PaidSame
<1>8. CASE CutLine
  <2>1. /\ pc' = "check" /\ falseMarkers' = falseMarkers /\ lost' + cuts' = lost + cuts + 1
    BY <1>0, <1>8 DEF CutLine
  <2>2. ~LoneStar'
    BY <2>1 DEF LoneStar
  <2>3. Paid' \in Nat /\ Paid' <= Paid + 1
    BY <1>1, <2>2 DEF Paid
  <2> QED
    BY <1>0, <1>1, <2>1, <2>2, <2>3, PaidBy DEF StarAhead
<1>9. CASE DispatchMarker
  <2>1. /\ pc = "dispatch" /\ pc' = "check" /\ line' = line /\ position' = position
        /\ lost' = lost /\ cuts' = cuts /\ LooksLikeMarker
    BY <1>9 DEF DispatchMarker
  <2>2. ~LoneStar' /\ (InText' <=> InText) /\ StarAhead'
    BY <2>1 DEF LoneStar, InText, StarAhead
  <2>3. Paid' = text
    BY <2>2 DEF Paid
  <2>4. CASE lineData[1].field = 0
    <3>1. falseMarkers' = falseMarkers
      BY <1>9, <2>4 DEF DispatchMarker
    <3>2. Paid' \in Nat /\ Paid' <= Paid /\ lost' = lost /\ cuts' = cuts
      BY <1>0, <1>2, <2>1, <2>3
    <3> QED
      BY <1>0, <1>1, <2>2, <3>1, <3>2, PaidSame
  <2>5. CASE lineData[1].field # 0
    <3>1. falseMarkers' = falseMarkers + 1
      BY <1>9, <2>5 DEF DispatchMarker
    <3>2. LoneStar /\ Gone = W
      BY <2>1, <2>5 DEF LoneStar, LooksLikeMarker, Gone
    <3>3. Paid = text + W
      BY <1>2, <3>2
    <3>4. PICK f \in Nat : f = falseMarkers * W
      BY <1>0
    <3>5. (falseMarkers + 1) * W = f + W
      BY <1>0, <3>4
    <3>6. f + Paid <= lost + cuts
      BY <3>4 DEF FalseMarkersPaid
    <3>7. f + W + Paid' <= lost' + cuts'
      BY <1>0, <1>2, <2>1, <2>3, <3>3, <3>4, <3>6
    <3>8. falseMarkers' * W = f + W
      BY <3>1, <3>5
    <3> QED
      BY <2>2, <3>7, <3>8 DEF FalseMarkersPaid
  <2> QED
    BY <2>4, <2>5
<1>10. CASE CallRead \/ SkipNap \/ ValueNap \/ DispatchSample \/ Undefined \/ UNCHANGED vars
  <2>1. /\ line' = line /\ position' = position /\ falseMarkers' = falseMarkers
        /\ lost' = lost /\ cuts' = cuts
    BY <1>0, <1>10 DEF CallRead, SkipNap, ValueNap, DispatchSample, Undefined, vars
  <2>2. CASE pc' = pc /\ lineData' = lineData
    <3>1. Paid' = Paid /\ StarAhead'
      BY <2>1, <2>2 DEF Paid, LoneStar, InText, Gone, StarAhead
    <3> QED
      BY <1>0, <1>1, <2>1, <3>1, PaidSame
  <2>3. CASE pc \in {"check", "skip", "dispatch"} /\ pc' \in {"check", "skip", "undefined"}
    <3>1. ~LoneStar' /\ StarAhead' /\ (InText' => InText)
      BY <2>1, <2>3 DEF LoneStar, InText, StarAhead
    <3>2. Paid' \in Nat /\ Paid' <= Paid
      BY <1>2, <3>1 DEF Paid
    <3> QED
      BY <1>0, <1>1, <2>1, <3>1, <3>2, PaidSame
  <2> QED
    BY <1>10, <2>2, <2>3 DEF CallRead, SkipNap, ValueNap, DispatchSample, SplitSample, Overrun, Undefined, vars
<1> QED
  BY <1>3, <1>4, <1>5, <1>6, <1>7, <1>8, <1>9, <1>10 DEF Next, Read

(* For numbers of any width, a line that was no marker is taken for one    *)
(* only at the price of a pause and a whole number lost around a           *)
(* separator, however these are spread over the lines before it            *)
(* (read_serial_buffer's comparison with a star).                          *)
THEOREM FalseMarkersCost == Spec => []FalseMarkersAreRare
<1>1. Typed /\ FalseMarkersPaid /\ StarAhead => FalseMarkersAreRare
  <2> SUFFICES ASSUME Typed, FalseMarkersPaid, StarAhead PROVE FalseMarkersAreRare
    OBVIOUS
  <2>1. TypeOK /\ CountTypes
    BY DEF Typed, IInv
  <2>2. Paid \in Nat /\ W \in Nat /\ falseMarkers \in Nat /\ lost \in Nat /\ cuts \in Nat
    BY <2>1, PaidType DEF TypeOK
  <2>3. PICK f \in Nat : f = falseMarkers * W
    BY <2>2
  <2>4. f <= lost + cuts
    BY <2>2, <2>3 DEF FalseMarkersPaid
  <2> QED
    BY <2>3, <2>4 DEF FalseMarkersAreRare, W
<1> QED
  BY <1>1, InitPaid, StepPaid, TypesHold, PTL DEF Spec

-----------------------------------------------------------------------------
(* Lines that are too long *)

(* Before two characters are lost no line runs into the next one twice.    *)
LengthBound ==
    lost < 2 /\ pc = "value" =>
        /\ position > 1
        /\ Len(lineData) <= position - 1 + errors
        /\ Len(lineData) <= LongestText + errors
        /\ position = End => lost >= 1

(* Characters of one line, in the order they were printed in: none is left *)
(* out, and one is repeated for each of the e failing reads.               *)
InOrder(s, e) ==
    \A i, j \in 1 .. Len(s) : i <= j =>
        /\ Column(s[i]) <= Column(s[j])
        /\ j - i <= Column(s[j]) - Column(s[i]) + e
        /\ s[i].kind = "digit" /\ s[j].kind = "digit" /\ s[i].field # s[j].field =>
              \E m \in i .. j : s[m].kind = "star"
        /\ s[i].kind = "digit" => s[j].field # 0

OneLine ==
    lost = 0 /\ pc \in {"value", "dispatch"} =>
        /\ InOrder(lineData, errors)
        /\ pc = "value" => position = Column(lineData[Len(lineData)]) + 1

(* Where the characters of a line may have been printed. *)
LEMMA Places ==
    ASSUME NEW ch \in Characters
    PROVE  /\ ch.kind \in {"digit", "star"} /\ Column(ch) \in Nat /\ W \in Nat /\ W >= 2 /\ FieldWidth = W - 1
           /\ ch.kind = "digit" => /\ ch.field \in Fields /\ ch.field # 0 /\ Column(ch) >= 1
                                   /\ Column(ch) >= FieldStart(ch.field) + 1
                                   /\ Column(ch) <= FieldStart(ch.field) + FieldWidth
           /\ ch.kind = "star" => /\ ch.field \in 0 .. 2
                                  /\ ch.field # 0 => Column(ch) = W \/ Column(ch) = 2 * W
           /\ ch.field = 0 => Column(ch) = 1
<1>1. W \in Nat /\ W >= 2 /\ FieldWidth = W - 1 /\ FieldWidth \in Nat
  BY SerialLineAssumption DEF W
<1>2. CASE \E k \in 1 .. MaxLines, c \in Fields, i \in 1 .. FieldWidth : ch = Digit(k, c, i)
  <2>1. PICK k \in 1 .. MaxLines, c \in Fields, i \in 1 .. FieldWidth : ch = Digit(k, c, i)
    BY <1>2
  <2>2. ch.kind = "digit" /\ ch.field = c /\ ch.place = i
    BY <2>1 DEF Digit
  <2>3. FieldStart(c) \in Nat
    BY <1>1 DEF FieldStart
  <2>4. Column(ch) = FieldStart(c) + i
    BY <2>2 DEF Column
  <2>5. c # 0 /\ c \in Fields
    BY DEF Fields
  <2> QED
    BY <1>1, <2>2, <2>3, <2>4, <2>5
<1>3. CASE \E k \in 1 .. MaxLines, c \in 0 .. 2 : ch = Star(k, c)
  <2>1. PICK k \in 1 .. MaxLines, c \in 0 .. 2 : ch = Star(k, c)
    BY <1>3
  <2>2. ch.kind = "star" /\ ch.field = c
    BY <2>1 DEF Star
  <2>3. Column(ch) = IF c = 0 THEN 1 ELSE IF c = 1 THEN W ELSE 2 * W
    BY <2>2 DEF Column
  <2> QED
    BY <1>1, <2>2, <2>3
<1> QED
  BY <1>2, <1>3 DEF Characters

(* The next character of the line, or the last one once more.             *)
LEMMA OrderGrows ==
    ASSUME NEW s \in Seq(Characters), Len(s) >= 1, NEW e \in Nat, NEW d \in Nat, InOrder(s, e),
           NEW ch \in Characters,
           \/ Column(ch) = Column(s[Len(s)]) + 1 /\ d = e
           \/ ch = s[Len(s)] /\ d = e + 1
    PROVE  InOrder(Append(s, ch), d)
<1> DEFINE n == Len(s)
           t == Append(s, ch)
<1>1. n \in Nat /\ n >= 1 /\ t \in Seq(Characters) /\ Len(t) = n + 1
  OBVIOUS
<1>2. t[n + 1] = ch /\ \A i \in 1 .. n : t[i] = s[i]
  OBVIOUS
<1>3. \A i \in 1 .. n : s[i] \in Characters
  BY ElementOfSeq
<1>4. \A i \in 1 .. n + 1 : i \in 1 .. n \/ i = n + 1
  BY <1>1
<1> HIDE DEF n, t
<1>5. /\ s[n] \in Characters
      /\ Column(s[n]) \in Nat /\ Column(ch) \in Nat
      /\ \/ Column(ch) = Column(s[n]) + 1 /\ d = e
         \/ ch = s[n] /\ d = e + 1
  BY <1>1, <1>3, Places DEF n
<1>6. ASSUME NEW i \in 1 .. n, NEW j \in 1 .. n, i <= j
      PROVE  /\ Column(s[i]) <= Column(s[j])
             /\ j - i <= Column(s[j]) - Column(s[i]) + e
             /\ s[i].kind = "digit" /\ s[j].kind = "digit" /\ s[i].field # s[j].field =>
                   \E m \in i .. j : s[m].kind = "star"
             /\ s[i].kind = "digit" => s[j].field # 0
  BY <1>6 DEF InOrder, n
<1>7. ASSUME NEW i \in 1 .. n + 1, NEW j \in 1 .. n + 1, i <= j
      PROVE  /\ Column(t[i]) <= Column(t[j])
             /\ j - i <= Column(t[j]) - Column(t[i]) + d
             /\ t[i].kind = "digit" /\ t[j].kind = "digit" /\ t[i].field # t[j].field =>
                   \E m \in i .. j : t[m].kind = "star"
             /\ t[i].kind = "digit" => t[j].field # 0
  <2>1. CASE j \in 1 .. n
    <3>1. i \in 1 .. n /\ t[i] = s[i] /\ t[j] = s[j] /\ \A m \in i .. j : t[m] = s[m]
      BY <1>1, <1>2, <1>7, <2>1
    <3>2. Column(s[i]) \in Nat /\ Column(s[j]) \in Nat /\ d >= e
      BY <1>3, <1>5, <2>1, <3>1, Places
    <3>3. /\ Column(t[i]) <= Column(t[j])
          /\ j - i <= Column(t[j]) - Column(t[i]) + d
      <4> DEFINE a == Column(s[i])
                 b == Column(s[j])
      <4>1. a <= b /\ j - i <= b - a + e
        BY <1>6, <1>7, <2>1, <3>1
      <4>2. a \in Nat /\ b \in Nat /\ d >= e
        BY <3>2
      <4> HIDE DEF a, b
      <4>3. a <= b /\ j - i <= b - a + d
        BY <1>1, <4>1, <4>2
      <4> QED
        BY <3>1, <4>3 DEF a, b
    <3>4. /\ t[i].kind = "digit" /\ t[j].kind = "digit" /\ t[i].field # t[j].field =>
                   \E m \in i .. j : t[m].kind = "star"
          /\ t[i].kind = "digit" => t[j].field # 0
      BY <1>6, <1>7, <2>1, <3>1
    <3> QED
      BY <3>3, <3>4
  <2>2. CASE i = n + 1 /\ j = n + 1
    <3>1. t[i] = ch /\ t[j] = ch /\ j - i = 0
      BY <1>1, <1>2, <2>2
    <3>2. ch.kind = "digit" => ch.field # 0
      BY Places
    <3> QED
      BY <1>5, <3>1, <3>2
  <2>3. CASE i \in 1 .. n /\ j = n + 1
    <3>1. t[i] = s[i] /\ t[j] = ch /\ i <= n /\ n \in 1 .. n
      BY <1>1, <1>2, <2>3
    <3>2. Column(s[i]) \in Nat /\ s[i] \in Characters
      BY <1>3, <2>3, Places
    <3>3. /\ Column(s[i]) <= Column(s[n]) /\ n - i <= Column(s[n]) - Column(s[i]) + e
          /\ s[i].kind = "digit" /\ s[n].kind = "digit" /\ s[i].field # s[n].field =>
                \E m \in i .. n : s[m].kind = "star"
          /\ s[i].kind = "digit" => s[n].field # 0
      BY <1>6, <2>3, <3>1
    <3>4. Column(t[i]) <= Column(t[j]) /\ j - i <= Column(t[j]) - Column(t[i]) + d
      <4> DEFINE a == Column(s[i])
                 b == Column(s[n])
                 c == Column(ch)
      <4>1. a <= b /\ n - i <= b - a + e
        BY <3>3
      <4>2. /\ a \in Nat /\ b \in Nat /\ c \in Nat
            /\ (c = b + 1 /\ d = e) \/ (c = b /\ d = e + 1)
        BY <1>5, <3>2
      <4> HIDE DEF a, b, c
      <4>3. a <= c /\ (n + 1) - i <= c - a + d
        BY <1>1, <4>1, <4>2
      <4> QED
        BY <2>3, <3>1, <4>3 DEF a, c
    <3>5. ASSUME s[i].kind = "digit" PROVE ch.field # 0
      <4>1. CASE ch = s[n]
        BY <3>3, <3>5, <4>1
      <4>2. CASE Column(ch) = Column(s[n]) + 1
        <5>1. Column(s[i]) >= 1
          BY <3>2, <3>5, Places
        <5>2. Column(ch) # 1
          BY <1>5, <3>2, <3>3, <4>2, <5>1
        <5> QED
          BY <5>2, Places
      <4> QED
        BY <1>5, <4>1, <4>2
    <3>6. ASSUME s[i].kind = "digit", ch.kind = "digit", s[i].field # ch.field
          PROVE  \E m \in i .. n : s[m].kind = "star"
      <4>1. CASE ch = s[n]
        BY <3>3, <3>6, <4>1
      <4>2. CASE Column(ch) = Column(s[n]) + 1 /\ s[n].kind = "digit"
        <5>1. s[n].field = ch.field
          <6> DEFINE f == s[n].field
                     g == ch.field
                     a == Column(s[n])
                     b == Column(ch)
          <6>1. /\ f \in Fields /\ a \in Nat /\ a >= FieldStart(f) + 1 /\ a <= FieldStart(f) + FieldWidth
                /\ W \in Nat /\ W >= 2 /\ FieldWidth = W - 1
            BY <1>5, <4>2, Places
          <6>2. g \in Fields /\ b \in Nat /\ b >= FieldStart(g) + 1 /\ b <= FieldStart(g) + FieldWidth
            BY <3>6, Places
          <6>3. b = a + 1
            BY <4>2
          <6> HIDE DEF f, g, a, b
          <6>4. f = g
            BY <6>1, <6>2, <6>3 DEF Fields, FieldStart
          <6> QED
            BY <6>4 DEF f, g
        <5> QED
          BY <3>3, <3>6, <4>2, <5>1
      <4>3. CASE s[n].kind = "star"
        BY <1>1, <2>3, <4>3
      <4> QED
        BY <1>5, <4>1, <4>2, <4>3, Places
    <3>7. \A m \in i .. n : m \in 1 .. n /\ m \in i .. j /\ t[m] = s[m]
      BY <1>1, <1>2, <2>3
    <3> QED
      BY <3>1, <3>4, <3>5, <3>6, <3>7
  <2> QED
    BY <1>1, <1>4, <1>7, <2>1, <2>2, <2>3
<1>8. InOrder(t, d)
  BY <1>1, <1>7 DEF InOrder
<1> QED
  BY <1>8 DEF t

(* Two separate runs of digits are of different numbers. *)
LEMMA RunsDiffer ==
    ASSUME NEW s \in Seq(Characters), NEW e \in Nat, InOrder(s, e),
           NEW i \in TokenStarts(s), NEW k \in TokenStarts(s), i < k
    PROVE  s[i].field # s[k].field
<1>1. /\ i \in 1 .. Len(s) /\ k \in 1 .. Len(s) /\ Len(s) \in Nat
      /\ s[i].kind = "digit" /\ s[k].kind = "digit" /\ s[k - 1].kind # "digit"
  BY LenProperties DEF TokenStarts
<1>2. k - 1 \in 1 .. Len(s) /\ i <= k - 1 /\ k - 1 <= k
  BY <1>1
<1>3. s[i] \in Characters /\ s[k] \in Characters /\ s[k - 1] \in Characters
  BY <1>1, <1>2, ElementOfSeq
<1> DEFINE a == Column(s[i])
           b == Column(s[k - 1])
           c == Column(s[k])
           f == s[i].field
<1>4. a <= b /\ b <= c /\ s[k - 1].field # 0
  BY <1>1, <1>2 DEF InOrder
<1>5. b = W \/ b = 2 * W
  BY <1>1, <1>3, <1>4, Places
<1>6. /\ f \in Fields /\ a \in Nat /\ a >= FieldStart(f) + 1
      /\ W \in Nat /\ W >= 2 /\ FieldWidth = W - 1
  BY <1>1, <1>3, Places
<1>7. SUFFICES ASSUME f = s[k].field PROVE FALSE
  OBVIOUS
<1>8. c \in Nat /\ c <= FieldStart(f) + FieldWidth
  BY <1>1, <1>3, <1>7, Places
<1> HIDE DEF a, b, c, f
<1> QED
  BY <1>4, <1>5, <1>6, <1>8 DEF Fields, FieldStart

LEMMA LineRun ==
    ASSUME lineData \in Seq(Characters), NEW n \in 1 .. Len(Tokens(lineData))
    PROVE  \E i \in TokenStarts(lineData), j \in 1 .. Len(lineData) :
              /\ i <= j /\ \A m \in i .. j : lineData[m].kind = "digit"
              /\ j < Len(lineData) => lineData[j + 1].kind # "digit"
              /\ Tokens(lineData)[n] = SubSeq(lineData, i, j)
              /\ Len(Tokens(lineData)[n]) = j - i + 1
BY TokenIsRun

(* Failing reads alone make a token too long only one by one. *)
LEMMA OneLineFits ==
    ASSUME lineData \in Seq(Characters), NEW e \in Nat, InOrder(lineData, e), FieldWidth + e < TokenSize
    PROVE  TokensFit
<1> DEFINE S == TokenStarts(lineData)
           field == [i \in S |-> lineData[i].field]
<1>1. /\ Len(Tokens(lineData)) = Cardinality(S) /\ IsFiniteSet(S) /\ S \in SUBSET Nat
      /\ Len(lineData) \in Nat /\ TokenSize \in Nat
  BY TokenCount, LenProperties, SerialLineAssumption
<1>2. \A i \in S : i \in 1 .. Len(lineData) /\ lineData[i].kind = "digit"
  BY DEF TokenStarts
<1>3. \A i \in 1 .. Len(lineData) : lineData[i] \in Characters
  BY ElementOfSeq
<1>4. field \in [S -> Fields]
  BY <1>2, <1>3, Places
<1>5. ASSUME NEW i \in S, NEW k \in S, field[i] = field[k] PROVE i = k
  <2>1. i \in Nat /\ k \in Nat /\ ~(i < k) /\ ~(k < i)
    BY <1>1, <1>5, RunsDiffer
  <2> QED
    BY <2>1
<1>6. field \in Injection(S, Fields)
  BY <1>4, <1>5 DEF Injection, IsInjective
<1>7. IsFiniteSet(Fields) /\ Cardinality(Fields) = 3
  <2>1. 1 \in Int /\ 3 \in Int
    OBVIOUS
  <2>2. IsFiniteSet(1 .. 3) /\ Cardinality(1 .. 3) = IF 1 > 3 THEN 0 ELSE 3 - 1 + 1
    BY <2>1, FS_Interval
  <2> QED
    BY <2>2 DEF Fields
<1>8. Cardinality(S) <= 3
  <2> HIDE DEF S, field
  <2>1. Cardinality(S) <= Cardinality(Fields)
    BY <1>6, <1>7, FS_Injection
  <2> QED
    BY <1>7, <2>1
<1>9. ASSUME NEW n \in 1 .. Len(Tokens(lineData)) PROVE Len(Tokens(lineData)[n]) < TokenSize
  <2>0. \E i \in TokenStarts(lineData), j \in 1 .. Len(lineData) :
           /\ i <= j /\ \A m \in i .. j : lineData[m].kind = "digit"
           /\ j < Len(lineData) => lineData[j + 1].kind # "digit"
           /\ Tokens(lineData)[n] = SubSeq(lineData, i, j)
           /\ Len(Tokens(lineData)[n]) = j - i + 1
    BY LineRun
  <2>1. PICK i \in TokenStarts(lineData), j \in 1 .. Len(lineData) :
           /\ i <= j /\ \A m \in i .. j : lineData[m].kind = "digit"
           /\ Len(Tokens(lineData)[n]) = j - i + 1
    BY <2>0
  <2>2. i \in 1 .. Len(lineData) /\ i \in i .. j /\ j \in i .. j
    BY <1>1, <1>2, <2>1
  <2>3. lineData[i].kind = "digit" /\ lineData[j].kind = "digit"
    BY <2>1, <2>2
  <2>4. /\ j - i <= Column(lineData[j]) - Column(lineData[i]) + e
        /\ lineData[i].field # lineData[j].field => \E m \in i .. j : lineData[m].kind = "star"
    BY <2>1, <2>2, <2>3 DEF InOrder
  <2>5. lineData[i].field = lineData[j].field
    BY <2>1, <2>4
  <2> DEFINE f == FieldStart(lineData[i].field)
             a == Column(lineData[i])
             b == Column(lineData[j])
  <2>6. /\ a \in Nat /\ b \in Nat /\ a >= f + 1 /\ b <= f + FieldWidth
        /\ W \in Nat /\ FieldWidth = W - 1 /\ lineData[i].field \in Fields
    BY <1>3, <2>2, <2>3, <2>5, Places
  <2>7. f \in Nat
    BY <2>6 DEF FieldStart
  <2>8. j - i <= b - a + e
    BY <2>4
  <2>9. a \in Nat /\ b \in Nat /\ a >= f + 1 /\ b <= f + FieldWidth /\ FieldWidth \in Nat
    BY <2>6, SerialLineAssumption
  <2> HIDE DEF f, a, b
  <2>10. i \in Int /\ j \in Int
    BY <1>1, <2>2
  <2>11. j - i + 1 < TokenSize
    BY <1>1, <2>7, <2>8, <2>9, <2>10
  <2> QED
    BY <2>1, <2>11
<1> QED
  BY <1>1, <1>8, <1>9 DEF TokensFit

LEMMA StepLength ==
    Typed /\ Typed' /\ LengthBound /\ [Next]_vars => LengthBound'
<1> SUFFICES ASSUME Typed, Typed', LengthBound, [Next]_vars, lost' < 2, pc' = "value"
             PROVE  /\ position' > 1
                    /\ Len(lineData') <= position' - 1 + errors'
                    /\ Len(lineData') <= LongestText + errors'
                    /\ position' = End' => lost' >= 1
  BY DEF LengthBound
<1> USE DEF boardVars, readerVars, history, damage
<1>0. /\ TypeOK /\ CountTypes /\ lost \in Nat /\ errors \in Nat /\ lost' \in Nat /\ errors' \in Nat
      /\ position \in Nat /\ position' \in Nat /\ position <= End /\ End \in Nat /\ line >= 1
      /\ LongestText \in Nat /\ LongestText >= 1 /\ Len(lineData) \in Nat /\ lineData \in Seq(Characters)
  <2>1. /\ errors \in Nat /\ errors' \in Nat /\ lineData \in Seq(Characters) /\ line >= 1
    BY SerialLineAssumption DEF Typed, TypeOK
  <2>2. LongestText \in Nat /\ LongestText >= 1
    BY SerialLineAssumption DEF LongestText
  <2> QED
    BY <2>1, <2>2, Ranges, LenProperties
<1>1. CASE LoseCharacter
  <2>1. /\ pc' = pc /\ lineData' = lineData /\ lost' = lost + 1 /\ errors' = errors /\ TakeCharacter
    BY <1>1 DEF LoseCharacter
  <2>2. lost = 0 /\ pc = "value"
    BY <1>0, <2>1
  <2>3. /\ position > 1 /\ Len(lineData) <= position - 1 + errors /\ Len(lineData) <= LongestText + errors
        /\ position # End
    BY <2>2 DEF LengthBound
  <2>4. position' = position + 1
    BY <1>0, <2>1, <2>3, TakeMoves
  <2> QED
    BY <1>0, <2>1, <2>3, <2>4
<1>2. CASE ReadFirst
  <2>1. /\ lineData' = <<Character>> /\ Printing /\ Character # LineEnd /\ TakeCharacter /\ errors' = errors
    BY <1>2 DEF ReadFirst
  <2>2. position \in 1 .. Len(Text(line)) /\ position <= End - 2
    BY <1>0, <2>1, CharacterIs
  <2>3. position' = position + 1 /\ End' = End
    BY <1>0, <2>1, <2>2, TakeMoves
  <2>4. Len(lineData') = 1
    BY <2>1
  <2>5. position >= 1
    BY <2>2
  <2> QED
    BY <1>0, <2>1, <2>2, <2>3, <2>4, <2>5
<1>3. CASE ReadValue
  <2>1. /\ pc = "value" /\ Printing /\ Character # LineEnd /\ TakeCharacter /\ errors' = errors /\ lost' = lost
        /\ StoreCharacter(Character)
    BY <1>3 DEF ReadValue
  <2>2. position <= LongestText /\ position <= End - 2
    BY <1>0, <2>1, CharacterIs
  <2>3. position' = position + 1 /\ End' = End
    BY <1>0, <2>1, <2>2, TakeMoves
  <2>4. Len(lineData') = Len(lineData) + 1
    <3>1. lineData' = Append(lineData, Character)
      BY <2>1 DEF StoreCharacter, Overrun
    <3> QED
      BY <1>0, <3>1
  <2>5. position > 1 /\ Len(lineData) <= position - 1 + errors
    BY <2>1 DEF LengthBound
  <2> QED
    BY <1>0, <2>1, <2>2, <2>3, <2>4, <2>5
<1>4. CASE ReadError
  <2>1. /\ pc = "value" /\ errors' = errors + 1 /\ lost' = lost /\ position' = position /\ End' = End
        /\ StoreCharacter(Last(lineData))
    BY <1>4 DEF ReadError, End
  <2>2. Len(lineData') = Len(lineData) + 1
    <3>1. lineData' = Append(lineData, Last(lineData))
      BY <2>1 DEF StoreCharacter, Overrun
    <3> QED
      BY <1>0, <3>1
  <2>3. /\ position > 1 /\ Len(lineData) <= position - 1 + errors /\ Len(lineData) <= LongestText + errors
        /\ position = End => lost >= 1
    BY <2>1 DEF LengthBound
  <2> QED
    BY <1>0, <2>1, <2>2, <2>3
<1>5. CASE ValueNap \/ UNCHANGED vars
  <2>1. /\ pc = "value" /\ errors' = errors /\ lost' = lost /\ position' = position /\ End' = End
        /\ lineData' = lineData
    BY <1>5 DEF ValueNap, End, vars
  <2> QED
    BY <1>0, <2>1 DEF LengthBound
<1>6. CASE CallRead \/ SkipLineEnd \/ SkipNap \/ ReadLineEnd \/ CutLine \/ DispatchMarker \/ DispatchSample
  BY <1>6 DEF CallRead, SkipLineEnd, SkipNap, ReadLineEnd, CutLine, DispatchMarker, DispatchSample,
              SplitSample, Overrun
<1> QED
  BY <1>1, <1>2, <1>3, <1>4, <1>5, <1>6 DEF Next, Read, Undefined

LEMMA StepOneLine ==
    Typed /\ Typed' /\ OneLine /\ [Next]_vars => OneLine'
<1> SUFFICES ASSUME Typed, Typed', OneLine, [Next]_vars, lost' = 0, pc' \in {"value", "dispatch"}
             PROVE  /\ InOrder(lineData', errors')
                    /\ pc' = "value" => position' = Column(lineData'[Len(lineData')]) + 1
  BY DEF OneLine
<1> USE DEF boardVars, readerVars, history, damage
<1>0. /\ TypeOK /\ CountTypes /\ lost \in Nat /\ errors \in Nat /\ line >= 1
      /\ position \in Nat /\ position <= End /\ End \in Nat
      /\ Len(lineData) \in Nat /\ lineData \in Seq(Characters)
      /\ pc = "value" => Len(lineData) >= 1
  <2>1. /\ errors \in Nat /\ lineData \in Seq(Characters) /\ line >= 1
        /\ pc = "value" => Len(lineData) >= 1
    BY SerialLineAssumption DEF Typed, TypeOK, Bounded
  <2> QED
    BY <2>1, Ranges, LenProperties
<1>1. ~LoseCharacter
  BY <1>0 DEF LoseCharacter
<1>2. CASE ReadFirst
  <2>1. /\ lineData' = <<Character>> /\ Printing /\ Character # LineEnd /\ TakeCharacter
        /\ errors' = errors
    BY <1>2 DEF ReadFirst
  <2>2. Character \in Characters /\ Column(Character) = position /\ position <= End - 2
    BY <1>0, <2>1, CharacterIs
  <2>3. position' = position + 1
    BY <1>0, <2>1, <2>2, TakeMoves
  <2>4. Len(lineData') = 1 /\ lineData'[1] = Character
    BY <2>1
  <2>5. Column(Character) \in Nat /\ (Character.kind = "digit" => Character.field # 0)
    BY <2>2, Places
  <2>6. InOrder(lineData', errors')
    <3>1. \A i, j \in 1 .. Len(lineData') : i = 1 /\ j = 1
      BY <2>4
    <3> QED
      BY <1>0, <2>1, <2>4, <2>5, <3>1 DEF InOrder
  <2> QED
    BY <2>2, <2>3, <2>4, <2>6
<1>3. CASE ReadValue
  <2>1. /\ pc = "value" /\ Printing /\ Character # LineEnd /\ TakeCharacter /\ errors' = errors /\ lost = 0
        /\ StoreCharacter(Character)
    BY <1>3 DEF ReadValue
  <2>2. Character \in Characters /\ Column(Character) = position /\ position <= End - 2
    BY <1>0, <2>1, CharacterIs
  <2>3. position' = position + 1
    BY <1>0, <2>1, <2>2, TakeMoves
  <2>4. lineData' = Append(lineData, Character)
    BY <2>1 DEF StoreCharacter, Overrun
  <2>5. Len(lineData') = Len(lineData) + 1 /\ lineData'[Len(lineData) + 1] = Character
    BY <1>0, <2>4
  <2>6. InOrder(lineData, errors) /\ position = Column(lineData[Len(lineData)]) + 1
    BY <2>1 DEF OneLine
  <2>7. InOrder(lineData', errors')
    BY <1>0, <2>1, <2>2, <2>4, <2>6, OrderGrows
  <2> QED
    BY <2>2, <2>3, <2>5, <2>7
<1>4. CASE ReadError
  <2>1. /\ pc = "value" /\ errors' = errors + 1 /\ lost = 0 /\ position' = position
        /\ StoreCharacter(Last(lineData))
    BY <1>4 DEF ReadError
  <2>2. lineData' = Append(lineData, lineData[Len(lineData)])
    BY <2>1 DEF StoreCharacter, Overrun, Last
  <2>3. lineData[Len(lineData)] \in Characters
    BY <1>0, <2>1, ElementOfSeq
  <2>4. Len(lineData') = Len(lineData) + 1 /\ lineData'[Len(lineData) + 1] = lineData[Len(lineData)]
    BY <1>0, <2>2
  <2>5. InOrder(lineData, errors) /\ position = Column(lineData[Len(lineData)]) + 1
    BY <2>1 DEF OneLine
  <2>6. InOrder(lineData', errors')
    BY <1>0, <2>1, <2>2, <2>3, <2>5, OrderGrows
  <2> QED
    BY <2>1, <2>4, <2>5, <2>6
<1>5. CASE ReadLineEnd \/ ValueNap \/ Undefined \/ UNCHANGED vars
  <2>1. /\ lineData' = lineData /\ errors' = errors /\ lost = 0 /\ pc \in {"value", "dispatch"}
        /\ pc' = "value" => pc = "value" /\ position' = position
    BY <1>5 DEF ReadLineEnd, ValueNap, Undefined, vars
  <2> QED
    BY <2>1 DEF OneLine
<1>6. CASE CallRead \/ SkipLineEnd \/ SkipNap \/ CutLine \/ DispatchMarker \/ DispatchSample
  BY <1>6 DEF CallRead, SkipLineEnd, SkipNap, CutLine, DispatchMarker, DispatchSample, SplitSample, Overrun
<1> QED
  BY <1>1, <1>2, <1>3, <1>4, <1>5, <1>6 DEF Next, Read

LEMMA StepOverruns ==
    Typed /\ Typed' /\ LengthBound /\ OneLine /\ OverrunNeedsLoss /\ [Next]_vars => OverrunNeedsLoss'
<1> SUFFICES ASSUME Typed, Typed', LengthBound, OneLine, OverrunNeedsLoss, [Next]_vars
             PROVE  OverrunNeedsLoss'
  OBVIOUS
<1> USE DEF boardVars, readerVars, history, damage
<1>0. /\ TypeOK /\ CountTypes /\ lost \in Nat /\ errors \in Nat /\ lost' \in Nat /\ errors' \in Nat
      /\ line >= 1 /\ LongestText \in Nat /\ LineSize \in Nat /\ TokenSize \in Nat /\ FieldWidth \in Nat
      /\ Len(lineData) \in Nat /\ lineData \in Seq(Characters) /\ position \in Nat
  <2>1. /\ errors \in Nat /\ errors' \in Nat /\ lineData \in Seq(Characters) /\ line >= 1
        /\ LineSize \in Nat /\ TokenSize \in Nat /\ FieldWidth \in Nat /\ LongestText \in Nat
    BY SerialLineAssumption DEF Typed, TypeOK, LongestText
  <2> QED
    BY <2>1, Ranges, LenProperties
<1>1. ASSUME overrun' = overrun, lost' >= lost, errors' >= errors PROVE OverrunNeedsLoss'
  BY <1>0, <1>1 DEF OverrunNeedsLoss
<1>2. CASE ReadValue
  <2>1. /\ pc = "value" /\ Printing /\ Character # LineEnd /\ errors' = errors /\ lost' = lost
        /\ StoreCharacter(Character)
    BY <1>2 DEF ReadValue
  <2>2. CASE Len(lineData) + 1 < LineSize
    <3>1. overrun' = overrun
      BY <2>1, <2>2 DEF StoreCharacter
    <3> QED
      BY <1>0, <1>1, <2>1, <3>1
  <2>3. CASE ~(Len(lineData) + 1 < LineSize)
    <3>1. overrun' = "line_data"
      BY <2>1, <2>3 DEF StoreCharacter, Overrun
    <3>2. position <= LongestText
      BY <1>0, <2>1, CharacterIs
    <3>3. lost < 2 => Len(lineData) <= position - 1 + errors
      BY <2>1 DEF LengthBound
    <3>4. lost' >= 2 \/ errors' >= LineSize - LongestText
      BY <1>0, <2>1, <2>3, <3>2, <3>3
    <3> QED
      BY <3>1, <3>4 DEF OverrunNeedsLoss
  <2> QED
    BY <2>2, <2>3
<1>3. CASE ReadError
  <2>1. pc = "value" /\ errors' = errors + 1 /\ lost' = lost /\ StoreCharacter(Last(lineData))
    BY <1>3 DEF ReadError
  <2>2. CASE Len(lineData) + 1 < LineSize
    <3>1. overrun' = overrun
      BY <2>1, <2>2 DEF StoreCharacter
    <3> QED
      BY <1>0, <1>1, <2>1, <3>1
  <2>3. CASE ~(Len(lineData) + 1 < LineSize)
    <3>1. overrun' = "line_data"
      BY <2>1, <2>3 DEF StoreCharacter, Overrun
    <3>2. lost < 2 => Len(lineData) <= LongestText + errors
      BY <2>1 DEF LengthBound
    <3>3. lost' >= 2 \/ errors' >= LineSize - LongestText
      BY <1>0, <2>1, <2>3, <3>2
    <3> QED
      BY <3>1, <3>3 DEF OverrunNeedsLoss
  <2> QED
    BY <2>2, <2>3
<1>4. CASE DispatchSample
  <2>1. pc = "dispatch" /\ errors' = errors /\ lost' = lost
    BY <1>4 DEF DispatchSample
  <2>2. CASE TokensFit
    <3>1. overrun' = overrun
      BY <1>4, <2>2 DEF DispatchSample, SplitSample
    <3> QED
      BY <1>0, <1>1, <2>1, <3>1
  <2>3. CASE ~TokensFit
    <3>1. overrun' = "data_sample_token"
      BY <1>4, <2>3 DEF DispatchSample, Overrun
    <3>2. lost = 0 => InOrder(lineData, errors)
      BY <2>1 DEF OneLine
    <3>3. lost = 0 => ~(FieldWidth + errors < TokenSize)
      BY <1>0, <2>3, <3>2, OneLineFits
    <3>4. lost' >= 1 \/ errors' >= TokenSize - FieldWidth
      BY <1>0, <2>1, <3>3
    <3> QED
      BY <3>1, <3>4 DEF OverrunNeedsLoss
  <2> QED
    BY <2>2, <2>3
<1>5. CASE ~ReadValue /\ ~ReadError /\ ~DispatchSample
  <2>1. overrun' = overrun /\ lost' \in {lost, lost + 1} /\ errors' = errors
    BY <1>5 DEF Next, Read, LoseCharacter, CallRead, SkipLineEnd, ReadFirst, SkipNap, ReadLineEnd,
                ValueNap, CutLine, DispatchMarker, Undefined, vars
  <2> QED
    BY <1>0, <1>1, <2>1
<1> QED
  BY <1>2, <1>3, <1>4, <1>5

(* For lines and arrays of any size, line_data is only written past its    *)
(* end when two characters were lost or as many reads failed as there is   *)
(* room left in it, a token only when one was lost or as many reads failed *)
(* as a token has room left (read_serial, process_data).                   *)
THEOREM OverrunsCost == Spec => []OverrunNeedsLoss
<1>1. Init => LengthBound /\ OneLine /\ OverrunNeedsLoss
  BY DEF Init, LengthBound, OneLine, OverrunNeedsLoss
<1> QED
  BY <1>1, StepLength, StepOneLine, StepOverruns, TypesHold, PTL DEF Spec

-----------------------------------------------------------------------------
(* Lines that came through *)

(* The line printed as k was returned as it was and is about to be split.  *)
Arrived == IF pc = "dispatch" THEN {k \in 1 .. line : lineData = Text(k)} ELSE {}

Through == good \cup Arrived

(* Nothing happened to the line under way: none of it was taken yet, all   *)
(* of it was, or line_data holds what was.                                 *)
Unspoiled ==
    \/ pc # "value" /\ position = 1
    \/ pc # "value" /\ position = End /\ line \in Through
    \/ /\ pc = "value" /\ position = Len(lineData) + 1 /\ position < End
       /\ \A i \in 1 .. Len(lineData) : lineData[i] = Text(line)[i]

Missing == (1 .. line - 1) \ Through

MissingPaid ==
    pc # "undefined" => Cardinality(Missing) + (IF Unspoiled THEN 0 ELSE 1) <= Damage

(* Where the numbers of a sample begin and end. *)
LEMMA SampleStarts ==
    ASSUME NEW k \in Int, ~IsMarker(k), NEW s \in Seq(TextCharacters), s = Text(k)
    PROVE  /\ Len(s) = 3 * W - 1 /\ W \in Nat /\ W >= 2
           /\ \A p \in 1 .. 3 * W - 1 : s[p] = CharAt(k, p)
           /\ \A p \in 1 .. 3 * W - 1 : s[p].kind = "digit" <=> p # W /\ p # 2 * W
           /\ TokenStarts(s) = {1, W + 1, 2 * W + 1}
<1>1. /\ W \in Nat /\ W >= 2 /\ LongestText = 3 * W - 1
      /\ Len(s) = LongestText /\ \A p \in 1 .. LongestText : s[p] = CharAt(k, p)
  BY TextLength, SampleText
<1>2. ASSUME NEW p \in 1 .. 3 * W - 1 PROVE s[p].kind = "digit" <=> p # W /\ p # 2 * W
  <2>1. s[p] = CharAt(k, p)
    BY <1>1
  <2>2. p \in Nat /\ 2 * W \in Nat /\ W < 2 * W
    BY <1>1
  <2> QED
    BY <1>1, <2>1, <2>2 DEF CharAt, Digit, Star
<1>3. \A i \in TokenStarts(s) : i \in {1, W + 1, 2 * W + 1}
  <2> SUFFICES ASSUME NEW i \in TokenStarts(s), i # 1 PROVE i \in {W + 1, 2 * W + 1}
    OBVIOUS
  <2>1. i \in 1 .. 3 * W - 1 /\ s[i - 1].kind # "digit"
    BY <1>1 DEF TokenStarts
  <2>2. i - 1 \in 1 .. 3 * W - 1
    BY <1>1, <2>1
  <2>3. i - 1 = W \/ i - 1 = 2 * W
    BY <1>2, <2>1, <2>2
  <2> QED
    BY <1>1, <2>1, <2>3
<1>4. 1 \in TokenStarts(s)
  <2>1. 1 \in 1 .. 3 * W - 1 /\ 1 # W /\ 1 # 2 * W
    BY <1>1
  <2> QED
    BY <1>1, <1>2, <2>1 DEF TokenStarts
<1>5. W + 1 \in TokenStarts(s) /\ 2 * W + 1 \in TokenStarts(s)
  <2>1. /\ W + 1 \in 1 .. 3 * W - 1 /\ W + 1 # W /\ W + 1 # 2 * W /\ W \in 1 .. 3 * W - 1
        /\ 2 * W + 1 \in 1 .. 3 * W - 1 /\ 2 * W + 1 # W /\ 2 * W + 1 # 2 * W /\ 2 * W \in 1 .. 3 * W - 1
        /\ (W + 1) - 1 = W /\ (2 * W + 1) - 1 = 2 * W
    BY <1>1
  <2>2. /\ s[W + 1].kind = "digit" /\ s[2 * W + 1].kind = "digit"
        /\ s[W].kind # "digit" /\ s[2 * W].kind # "digit"
    BY <1>2, <2>1
  <2> QED
    BY <1>1, <2>1, <2>2 DEF TokenStarts
<1> QED
  BY <1>1, <1>2, <1>3, <1>4, <1>5

LEMMA SampleTokens ==
    ASSUME NEW k \in Int, ~IsMarker(k), NEW s \in Seq(TextCharacters), s = Text(k)
    PROVE  /\ TokenAt(s, 1) = Number(k, 1)
           /\ TokenAt(s, W + 1) = Number(k, 2)
           /\ TokenAt(s, 2 * W + 1) = Number(k, 3)
<1>1. /\ Len(s) = 3 * W - 1 /\ W \in Nat /\ W >= 2
      /\ \A p \in 1 .. 3 * W - 1 : s[p] = CharAt(k, p)
      /\ \A p \in 1 .. 3 * W - 1 : s[p].kind = "digit" <=> p # W /\ p # 2 * W
      /\ 1 \in TokenStarts(s) /\ W + 1 \in TokenStarts(s) /\ 2 * W + 1 \in TokenStarts(s)
  BY SampleStarts
<1>2. FieldWidth = W - 1
  BY SerialLineAssumption DEF W
<1>3. ASSUME NEW i \in TokenStarts(s), NEW c \in Fields,
             \/ c = 1 /\ i = 1
             \/ c = 2 /\ i = W + 1
             \/ c = 3 /\ i = 2 * W + 1
      PROVE  TokenAt(s, i) = Number(k, c)
  <2>1. PICK e \in i .. Len(s) :
           /\ \A m \in i .. e : s[m].kind = "digit"
           /\ e < Len(s) => s[e + 1].kind # "digit"
           /\ TokenAt(s, i) = SubSeq(s, i, e)
    BY RunEnds
  <2>2. e \in Nat /\ i <= e /\ e <= 3 * W - 1
    BY <1>1, <1>3
  <2>3. \A m \in i .. e : m # W /\ m # 2 * W
    <3>1. \A m \in i .. e : m \in 1 .. 3 * W - 1
      BY <1>1, <1>3, <2>2
    <3> QED
      BY <1>1, <2>1, <3>1
  <2>4. ~(i <= W /\ W <= e) /\ ~(i <= 2 * W /\ 2 * W <= e)
    <3>1. i <= W /\ W <= e => W \in i .. e
      BY <1>1, <1>3, <2>2
    <3>2. i <= 2 * W /\ 2 * W <= e => 2 * W \in i .. e
      BY <1>1, <1>3, <2>2
    <3> QED
      BY <2>3, <3>1, <3>2
  <2>5. e < 3 * W - 1 => e + 1 = W \/ e + 1 = 2 * W
    <3>1. e < 3 * W - 1 => e + 1 \in 1 .. 3 * W - 1
      BY <1>1, <2>2
    <3> QED
      BY <1>1, <2>1, <3>1
  <2>6. i \in Nat /\ i >= 1 /\ e \in Nat /\ FieldWidth \in Nat
    <3>1. i \in 1 .. Len(s)
      BY DEF TokenStarts
    <3> QED
      BY <1>1, <1>2, <2>2, <3>1
  <2>7. e = i + FieldWidth - 1
    <3>1. CASE c = 1
      <4>1. i = 1
        BY <1>1, <1>3, <3>1
      <4> QED
        BY <1>1, <1>2, <2>2, <2>4, <2>5, <4>1
    <3>2. CASE c = 2
      <4>1. i = W + 1
        BY <1>1, <1>3, <3>2
      <4> QED
        BY <1>1, <1>2, <2>2, <2>4, <2>5, <4>1
    <3>3. CASE c = 3
      <4>1. i = 2 * W + 1
        BY <1>1, <1>3, <3>3
      <4> QED
        BY <1>1, <1>2, <2>2, <2>4, <2>5, <4>1
    <3> QED
      BY <1>3, <3>1, <3>2, <3>3
  <2>8. ASSUME NEW p \in 1 .. FieldWidth PROVE s[i + p - 1] = Digit(k, c, p)
    <3>1. i + p - 1 \in 1 .. 3 * W - 1
      <4>1. W \in Nat /\ p \in Nat /\ p >= 1 /\ p <= FieldWidth
        BY <1>1
      <4>2. i + p - 1 >= 1 /\ i + p - 1 <= e
        BY <2>6, <2>7, <4>1
      <4> QED
        BY <2>2, <2>6, <4>1, <4>2
    <3>2. s[i + p - 1] = CharAt(k, i + p - 1)
      BY <1>1, <3>1
    <3>3. CASE c = 1
      <4>1. i + p - 1 = p /\ p < W
        BY <1>1, <1>2, <1>3, <3>3
      <4> QED
        BY <3>2, <3>3, <4>1 DEF CharAt
    <3>4. CASE c = 2
      <4>1. i + p - 1 = W + p /\ ~(W + p < W) /\ W + p # W /\ W + p < 2 * W /\ (W + p) - W = p
        BY <1>1, <1>2, <1>3, <3>4
      <4> QED
        BY <3>2, <3>4, <4>1 DEF CharAt
    <3>5. CASE c = 3
      <4>1. /\ i + p - 1 = 2 * W + p /\ ~(2 * W + p < W) /\ 2 * W + p # W /\ ~(2 * W + p < 2 * W)
            /\ 2 * W + p # 2 * W /\ (2 * W + p) - 2 * W = p
        BY <1>1, <1>2, <1>3, <3>5
      <4> QED
        BY <3>2, <3>5, <4>1 DEF CharAt
    <3> QED
      BY <1>3, <3>3, <3>4, <3>5
  <2>9. e - i + 1 = FieldWidth
    BY <2>6, <2>7
  <2>10. SubSeq(s, i, e) = Number(k, c)
    <3>1. \A m \in i .. e : s[m] \in TextCharacters
      BY <1>1, <2>2, <2>6, ElementOfSeq
    <3>2. /\ SubSeq(s, i, e) \in Seq(TextCharacters) /\ Len(SubSeq(s, i, e)) = FieldWidth
          /\ \A p \in 1 .. e - i + 1 : SubSeq(s, i, e)[p] = s[i + p - 1]
      BY <2>2, <2>6, <2>9, <3>1, SubSeqProperties
    <3>3. /\ Number(k, c) \in Seq(TextCharacters) /\ Len(Number(k, c)) = FieldWidth
          /\ \A p \in 1 .. FieldWidth : Number(k, c)[p] = Digit(k, c, p)
      BY <2>6 DEF Number, Digit, Fields, TextCharacters
    <3>4. \A p \in 1 .. FieldWidth : SubSeq(s, i, e)[p] = Number(k, c)[p]
      BY <2>8, <2>9, <3>2, <3>3
    <3> QED
      BY <3>2, <3>3, <3>4, SeqEqual
  <2> QED
    BY <2>1, <2>10
<1>4. 1 \in Fields /\ 2 \in Fields /\ 3 \in Fields
  BY DEF Fields
<1> QED
  BY <1>1, <1>3, <1>4

(* A sample that arrives as it was printed gets into its three places.    *)
LEMMA SplitText ==
    ASSUME NEW k \in Int, ~IsMarker(k), lineData = Text(k)
    PROVE  HoldsSample(NewTokens, k)
<1> DEFINE s == lineData
           S == TokenStarts(s)
<1>1. s \in Seq(TextCharacters) /\ W \in Nat /\ W >= 2
  BY TextShape, TextLength
<1>2. /\ S = {1, W + 1, 2 * W + 1}
      /\ TokenAt(s, 1) = Number(k, 1) /\ TokenAt(s, W + 1) = Number(k, 2)
      /\ TokenAt(s, 2 * W + 1) = Number(k, 3)
  BY <1>1, SampleStarts, SampleTokens
<1>3. /\ IsFiniteSet(S) /\ Cardinality(S) \in Nat /\ Len(Tokens(s)) = Cardinality(S)
      /\ \A n \in 1 .. Cardinality(S) :
            /\ Tokens(s)[n] = TokenAt(s, TokenStart(s, n))
            /\ TokenStart(s, n) \in S
            /\ Cardinality({j \in S : j < TokenStart(s, n)}) = n - 1
  BY <1>1, TokenCount
<1>4. /\ {j \in S : j < 1} = {} /\ {j \in S : j < W + 1} = {1} /\ {j \in S : j < 2 * W + 1} = {1, W + 1}
      /\ 1 # W + 1 /\ 2 * W + 1 \notin {1, W + 1}
  BY <1>1, <1>2
<1>5. /\ Cardinality({}) = 0 /\ Cardinality({1}) = 1
      /\ Cardinality({1, W + 1}) = 2 /\ Cardinality(S) = 3
  <2>1. IsFiniteSet({}) /\ Cardinality({}) = 0
    BY FS_EmptySet
  <2>2. IsFiniteSet({1}) /\ Cardinality({1}) = 1
    BY FS_Singleton
  <2>3. IsFiniteSet({1, W + 1}) /\ Cardinality({1, W + 1}) = 2
    <3>1. {1} \cup {W + 1} = {1, W + 1} /\ W + 1 \notin {1}
      BY <1>4
    <3>2. IsFiniteSet({1} \cup {W + 1}) /\ Cardinality({1} \cup {W + 1}) = 1 + 1
      BY <2>2, <3>1, FS_AddElement
    <3> QED
      BY <3>1, <3>2
  <2>4. Cardinality(S) = 3
    <3>1. {1, W + 1} \cup {2 * W + 1} = S /\ 2 * W + 1 \notin {1, W + 1}
      BY <1>2, <1>4
    <3>2. Cardinality({1, W + 1} \cup {2 * W + 1}) = 2 + 1
      BY <2>3, <3>1, FS_AddElement
    <3> QED
      BY <3>1, <3>2
  <2> QED
    BY <2>1, <2>2, <2>3, <2>4
<1>6. TokenStart(s, 1) = 1 /\ TokenStart(s, 2) = W + 1 /\ TokenStart(s, 3) = 2 * W + 1
  <2> HIDE DEF S
  <2>1. ASSUME NEW n \in 1 .. 3
        PROVE  /\ TokenStart(s, n) = 1 => n - 1 = 0
               /\ TokenStart(s, n) = W + 1 => n - 1 = 1
               /\ TokenStart(s, n) = 2 * W + 1 => n - 1 = 2
               /\ TokenStart(s, n) \in {1, W + 1, 2 * W + 1}
    <3>1. TokenStart(s, n) \in S /\ Cardinality({j \in S : j < TokenStart(s, n)}) = n - 1
      BY <1>3, <1>5
    <3>2. n - 1 \in 0 .. 2
      OBVIOUS
    <3>3. TokenStart(s, n) \in {1, W + 1, 2 * W + 1}
      BY <1>2, <3>1
    <3>4. TokenStart(s, n) = 1 => n - 1 = 0
      BY <1>4, <1>5, <3>1
    <3>5. TokenStart(s, n) = W + 1 => n - 1 = 1
      <4> SUFFICES ASSUME TokenStart(s, n) = W + 1 PROVE n - 1 = 1
        OBVIOUS
      <4>1. Cardinality({j \in S : j < W + 1}) = n - 1
        BY <3>1
      <4> QED
        BY <1>4, <1>5, <4>1
    <3>6. TokenStart(s, n) = 2 * W + 1 => n - 1 = 2
      <4> SUFFICES ASSUME TokenStart(s, n) = 2 * W + 1 PROVE n - 1 = 2
        OBVIOUS
      <4>1. Cardinality({j \in S : j < 2 * W + 1}) = n - 1
        BY <3>1
      <4> QED
        BY <1>4, <1>5, <4>1
    <3> QED
      BY <3>3, <3>4, <3>5, <3>6
  <2>2. 1 \in 1 .. 3 /\ 2 \in 1 .. 3 /\ 3 \in 1 .. 3
    OBVIOUS
  <2> QED
    BY <2>1, <2>2
<1>7. /\ Tokens(s)[1] = Number(k, 1) /\ Tokens(s)[2] = Number(k, 2) /\ Tokens(s)[3] = Number(k, 3)
      /\ Len(Tokens(s)) = 3
  <2>1. 1 \in 1 .. Cardinality(S) /\ 2 \in 1 .. Cardinality(S) /\ 3 \in 1 .. Cardinality(S)
    BY <1>5
  <2> QED
    BY <1>2, <1>3, <1>5, <1>6, <2>1
<1>8. ASSUME NEW c \in Fields PROVE NewTokens[c] = Number(k, c)
  <2>1. c \in {1, 2, 3} /\ c <= 3
    BY DEF Fields
  <2>2. NewTokens[c] = Tokens(s)[c]
    BY <1>7, <2>1 DEF NewTokens
  <2> QED
    BY <1>7, <2>1, <2>2
<1> QED
  BY <1>8 DEF HoldsSample

LEMMA Pays ==
    ASSUME NEW A, IsFiniteSet(A), NEW B, NEW x, NEW d \in Nat, NEW e \in Nat, NEW u \in 0 .. 1, NEW v \in 0 .. 1,
           Cardinality(A) + u <= d,
           \/ B \subseteq A /\ d = e /\ v <= u
           \/ B \subseteq A /\ e = d + 1
           \/ B \subseteq (A \cup {x}) /\ e = d /\ u = 1 /\ v = 0
           \/ B \subseteq (A \cup {x}) /\ e = d + 1 /\ v <= u
    PROVE  Cardinality(B) + v <= e
<1>1. Cardinality(A) \in Nat
  BY FS_CardinalityType
<1>2. IsFiniteSet(A \cup {x}) /\ Cardinality(A \cup {x}) <= Cardinality(A) + 1
      /\ Cardinality(A \cup {x}) \in Nat
  <2>1. CASE x \in A
    <3>1. A \cup {x} = A
      BY <2>1
    <3>2. IsFiniteSet(A \cup {x}) /\ Cardinality(A \cup {x}) = Cardinality(A)
      BY <3>1
    <3> QED
      BY <1>1, <3>2
  <2>2. CASE x \notin A
    <3>1. IsFiniteSet(A \cup {x}) /\ Cardinality(A \cup {x}) = Cardinality(A) + 1
      BY <2>2, FS_AddElement
    <3> QED
      BY <1>1, <3>1
  <2> QED
    BY <2>1, <2>2
<1>3. CASE B \subseteq A /\ ((d = e /\ v <= u) \/ e = d + 1)
  <2>1. Cardinality(B) <= Cardinality(A) /\ Cardinality(B) \in Nat
    BY <1>3, FS_Subset, FS_CardinalityType
  <2> QED
    BY <1>1, <1>3, <2>1
<1>4. CASE B \subseteq (A \cup {x}) /\ ((e = d /\ u = 1 /\ v = 0) \/ (e = d + 1 /\ v <= u))
  <2>1. Cardinality(B) <= Cardinality(A \cup {x}) /\ Cardinality(B) \in Nat
    BY <1>2, <1>4, FS_Subset, FS_CardinalityType
  <2> QED
    BY <1>1, <1>2, <1>4, <2>1
<1> QED
  BY <1>3, <1>4

LEMMA MissingIsFinite ==
    ASSUME line \in Nat
    PROVE  IsFiniteSet(Missing)
<1>1. IsFiniteSet(1 .. line - 1)
  BY FS_Interval
<1>2. Missing \subseteq 1 .. line - 1
  BY DEF Missing
<1> QED
  BY <1>1, <1>2, FS_Subset

(* A line arrives complete when its last character was the last taken.     *)
LEMMA CompleteLine ==
    ASSUME lineData \in Seq(Characters), NEW k \in Int, Len(lineData) = Len(Text(k)),
           \A i \in 1 .. Len(lineData) : lineData[i] = Text(k)[i]
    PROVE  lineData = Text(k)
<1>1. Text(k) \in Seq(TextCharacters)
  BY TextShape
<1>2. lineData \in Seq(Characters \cup TextCharacters) /\ Text(k) \in Seq(Characters \cup TextCharacters)
  BY <1>1
<1> QED
  BY <1>2, SeqEqual

LEMMA StepMissing ==
    Typed /\ Typed' /\ MissingPaid /\ [Next]_vars => MissingPaid'
<1> SUFFICES ASSUME Typed, Typed', MissingPaid, [Next]_vars, pc' # "undefined"
             PROVE  MissingPaid'
  BY DEF MissingPaid
<1> USE DEF boardVars, readerVars, history, damage
<1>0. /\ TypeOK /\ CountTypes /\ line \in Nat /\ line \in Int /\ line >= 1 /\ position \in Nat /\ position >= 1
      /\ position <= End /\ End \in Nat /\ End = Len(Text(line)) + 2 /\ Len(Text(line)) \in Nat
      /\ lineData \in Seq(Characters) /\ Len(lineData) \in Nat
      /\ lost \in Nat /\ cuts \in Nat /\ errors \in Nat
  <2>1. /\ errors \in Nat /\ lineData \in Seq(Characters) /\ line >= 1
    BY SerialLineAssumption DEF Typed, TypeOK
  <2> QED
    BY <2>1, Ranges, LenProperties
<1>1. Damage \in Nat /\ Damage' \in Nat /\ IsFiniteSet(Missing)
  <2>1. TypeOK /\ TypeOK'
    BY DEF Typed
  <2>2. Damage \in Nat /\ Damage' \in Nat
    <3>1. /\ lost \in Nat /\ cuts \in Nat /\ errors \in Nat
          /\ lost' \in Nat /\ cuts' \in Nat /\ errors' \in Nat
      BY <2>1 DEF TypeOK
    <3>2. \A a, b, c \in Nat : a + b + c \in Nat
      OBVIOUS
    <3>3. Damage = lost + cuts + errors /\ Damage' = lost' + cuts' + errors'
      BY DEF Damage
    <3>4. Damage \in Nat
      BY <3>1, <3>3
    <3>5. Damage' \in Nat
      BY <3>1, <3>2, <3>3, Zenon
    <3> QED
      BY <3>4, <3>5
  <2> QED
    BY <1>0, <2>2, MissingIsFinite
<1>2. pc # "undefined"
  BY DEF Next, Read, LoseCharacter, CallRead, SkipLineEnd, ReadFirst, SkipNap, ReadValue, ReadError, ReadLineEnd,
         ValueNap, CutLine, DispatchMarker, DispatchSample, Undefined, vars
<1> DEFINE u == IF Unspoiled THEN 0 ELSE 1
           v == IF Unspoiled' THEN 0 ELSE 1
<1>3. u \in 0 .. 1 /\ v \in 0 .. 1 /\ Cardinality(Missing) + u <= Damage
  BY <1>2 DEF MissingPaid
<1>4. ASSUME \/ Missing' \subseteq Missing /\ Damage' = Damage /\ (Unspoiled => Unspoiled')
             \/ Missing' \subseteq Missing /\ Damage' = Damage + 1
             \/ Missing' \subseteq (Missing \cup {line}) /\ Damage' = Damage /\ ~Unspoiled /\ Unspoiled'
             \/ Missing' \subseteq (Missing \cup {line}) /\ Damage' = Damage + 1 /\ (Unspoiled => Unspoiled')
      PROVE  MissingPaid'
  <2>1. /\ Unspoiled => u = 0
        /\ ~Unspoiled => u = 1
        /\ Unspoiled' => v = 0
        /\ ~Unspoiled' => v = 1
    OBVIOUS
  <2> HIDE DEF u, v
  <2>2. (Unspoiled => Unspoiled') => v <= u
    BY <1>3, <2>1
  <2>3. \/ Missing' \subseteq Missing /\ Damage = Damage' /\ v <= u
        \/ Missing' \subseteq Missing /\ Damage' = Damage + 1
        \/ Missing' \subseteq (Missing \cup {line}) /\ Damage' = Damage /\ u = 1 /\ v = 0
        \/ Missing' \subseteq (Missing \cup {line}) /\ Damage' = Damage + 1 /\ v <= u
    BY <1>4, <2>1, <2>2
  <2>4. Cardinality(Missing') + v <= Damage'
    BY <1>1, <1>3, <2>3, Pays
  <2> QED
    BY <2>4 DEF MissingPaid, v
<1>5. ASSUME line' = line, Through \subseteq Through'
      PROVE  Missing' \subseteq Missing
  BY <1>5 DEF Missing
<1>6. ASSUME line' = line + 1, Through \subseteq Through'
      PROVE  /\ Missing' \subseteq (Missing \cup {line})
             /\ line \in Through => Missing' \subseteq Missing
  <2>1. \A k \in 1 .. line' - 1 : k \in 1 .. line - 1 \/ k = line
    BY <1>0, <1>6
  <2>2. Missing' = (1 .. line' - 1) \ Through' /\ Missing = (1 .. line - 1) \ Through
    BY DEF Missing
  <2> QED
    BY <1>6, <2>1, <2>2
<1>7. CASE LoseCharacter
  <2>1. /\ pc' = pc /\ lineData' = lineData /\ good' = good /\ Damage' = Damage + 1 /\ TakeCharacter
    BY <1>0, <1>7 DEF LoseCharacter, Damage
  <2>2. \/ position < End /\ line' = line
        \/ position = End /\ line' = line + 1 /\ position' = 1
    BY <1>0, <2>1, TakeMoves
  <2>3. Through \subseteq Through'
    <3>1. \A k \in 1 .. line : k \in 1 .. line'
      BY <1>0, <2>2
    <3>2. Arrived \subseteq Arrived'
      BY <2>1, <3>1 DEF Arrived
    <3> QED
      BY <2>1, <3>2 DEF Through
  <2>4. CASE line' = line
    BY <1>4, <1>5, <2>1, <2>3, <2>4
  <2>5. CASE position = End /\ line' = line + 1 /\ position' = 1
    <3>1. Unspoiled => Unspoiled'
      BY <1>0, <2>1, <2>5 DEF Unspoiled
    <3> QED
      BY <1>4, <1>6, <2>1, <2>3, <2>5, <3>1
  <2> QED
    BY <2>2, <2>4, <2>5
<1>8. CASE SkipLineEnd
  <2>1. /\ pc' = pc /\ pc = "skip" /\ lineData' = lineData /\ good' = good /\ Damage' = Damage /\ TakeCharacter
        /\ Character = LineEnd
    BY <1>8 DEF SkipLineEnd, Damage
  <2>2. /\ \/ position < End /\ line' = line /\ position' = position + 1
           \/ position = End /\ line' = line + 1 /\ position' = 1
        /\ position >= End - 1 /\ End >= 3
    BY <1>0, <2>1, TakeMoves
  <2>3. Through' = Through
    BY <2>1 DEF Arrived, Through
  <2>4. CASE position < End
    <3>1. ~Unspoiled
      BY <1>0, <2>1, <2>2, <2>4 DEF Unspoiled
    <3> QED
      BY <1>0, <1>4, <1>5, <2>1, <2>2, <2>3, <2>4, <3>1
  <2>5. CASE position = End /\ line' = line + 1 /\ position' = 1
    <3>1. Unspoiled'
      BY <2>1, <2>5 DEF Unspoiled
    <3>2. Unspoiled => line \in Through
      BY <1>0, <2>1, <2>2, <2>5 DEF Unspoiled
    <3> QED
      BY <1>4, <1>6, <2>1, <2>3, <2>5, <3>1, <3>2
  <2> QED
    BY <1>0, <2>2, <2>4, <2>5
<1>9. CASE ReadFirst \/ ReadValue
  <2>1. /\ good' = good /\ Damage' = Damage /\ TakeCharacter /\ Character # LineEnd /\ Printing
        /\ pc \in {"skip", "value"} /\ pc' = "value"
    BY <1>9 DEF ReadFirst, ReadValue, StoreCharacter, Overrun, Damage
  <2>2. /\ position \in 1 .. Len(Text(line)) /\ position <= End - 2
        /\ Character = Text(line)[position]
    BY <1>0, <2>1, CharacterIs
  <2>3. line' = line /\ position' = position + 1 /\ End' = End
    BY <1>0, <2>1, <2>2, TakeMoves
  <2>4. Through' = Through
    BY <2>1 DEF Arrived, Through
  <2>5. ASSUME Unspoiled PROVE Unspoiled'
    <3>1. CASE ReadFirst
      <4>1. lineData' = <<Character>> /\ pc = "skip"
        BY <3>1 DEF ReadFirst
      <4>2. position = 1
        BY <1>0, <2>2, <2>5, <4>1 DEF Unspoiled
      <4>3. Len(lineData') = 1 /\ \A i \in 1 .. Len(lineData') : lineData'[i] = Text(line')[i]
        BY <2>2, <2>3, <4>1, <4>2
      <4> QED
        BY <1>0, <2>1, <2>2, <2>3, <4>2, <4>3 DEF Unspoiled
    <3>2. CASE ReadValue
      <4>1. lineData' = Append(lineData, Character) /\ pc = "value"
        BY <2>1, <3>2 DEF ReadValue, StoreCharacter, Overrun
      <4>2. position = Len(lineData) + 1 /\ \A i \in 1 .. Len(lineData) : lineData[i] = Text(line)[i]
        BY <2>5, <4>1 DEF Unspoiled
      <4>3. /\ Len(lineData') = Len(lineData) + 1 /\ lineData'[Len(lineData) + 1] = Character
            /\ \A i \in 1 .. Len(lineData) : lineData'[i] = lineData[i]
        BY <1>0, <4>1
      <4>4. \A i \in 1 .. Len(lineData) + 1 : i \in 1 .. Len(lineData) \/ i = Len(lineData) + 1
        BY <1>0
      <4>5. \A i \in 1 .. Len(lineData') : lineData'[i] = Text(line')[i]
        BY <2>2, <2>3, <4>2, <4>3, <4>4
      <4> QED
        BY <1>0, <2>1, <2>2, <2>3, <4>2, <4>3, <4>5 DEF Unspoiled
    <3> QED
      BY <1>9, <3>1, <3>2
  <2> QED
    BY <1>4, <1>5, <2>1, <2>3, <2>4, <2>5
<1>10. CASE ReadError \/ CutLine
  <2>1. /\ pc = "value" /\ pc' \in {"value", "check"} /\ line' = line /\ good' = good
    BY <1>10 DEF ReadError, CutLine, StoreCharacter, Overrun
  <2>2. Damage' = Damage + 1
    BY <1>0, <1>10 DEF ReadError, CutLine, Damage
  <2>3. Through' = Through
    BY <2>1 DEF Arrived, Through
  <2> QED
    BY <1>4, <1>5, <2>1, <2>2, <2>3
<1>11. CASE ReadLineEnd
  <2>1. /\ pc = "value" /\ pc' = "dispatch" /\ lineData' = lineData /\ good' = good /\ Damage' = Damage
        /\ TakeCharacter /\ Character = LineEnd
    BY <1>11 DEF ReadLineEnd, Damage
  <2>2. /\ \/ position < End /\ line' = line /\ position' = position + 1 /\ End' = End
           \/ position = End /\ line' = line + 1 /\ position' = 1
        /\ position >= End - 1 /\ End >= 3
    BY <1>0, <2>1, TakeMoves
  <2>3. Through \subseteq Through'
    BY <2>1 DEF Arrived, Through
  <2>4. CASE position < End /\ line' = line /\ position' = position + 1 /\ End' = End
    <3>1. ASSUME Unspoiled PROVE Unspoiled'
      <4>1. position = Len(lineData) + 1 /\ \A i \in 1 .. Len(lineData) : lineData[i] = Text(line)[i]
        BY <2>1, <3>1 DEF Unspoiled
      <4>2. Len(lineData) = Len(Text(line)) /\ position' = End'
        BY <1>0, <2>2, <2>4, <4>1
      <4>3. lineData' = Text(line')
        BY <1>0, <2>1, <2>4, <4>1, <4>2, CompleteLine
      <4>4. line' \in 1 .. line'
        BY <1>0, <2>4
      <4>5. line' \in Through'
        BY <2>1, <4>3, <4>4 DEF Arrived, Through
      <4> QED
        BY <2>1, <4>2, <4>5 DEF Unspoiled
    <3> QED
      BY <1>4, <1>5, <2>1, <2>3, <2>4, <3>1
  <2>5. CASE position = End /\ line' = line + 1 /\ position' = 1
    <3>1. ~Unspoiled /\ Unspoiled'
      BY <1>0, <2>1, <2>5 DEF Unspoiled
    <3> QED
      BY <1>4, <1>6, <2>1, <2>3, <2>5, <3>1
  <2> QED
    BY <2>2, <2>4, <2>5
<1>12. CASE DispatchMarker \/ DispatchSample
  <2>1. /\ pc = "dispatch" /\ pc' = "check" /\ line' = line /\ position' = position /\ Damage' = Damage
    BY <1>12 DEF DispatchMarker, DispatchSample, SplitSample, Overrun, Damage
  <2>2. good \subseteq good'
    BY <1>12, <2>1 DEF DispatchMarker, DispatchSample, SplitSample, Overrun
  <2>3. ASSUME NEW k \in Arrived PROVE k \in good'
    <3>1. k \in 1 .. line /\ lineData = Text(k) /\ k \in Int
      BY <1>0, <2>1 DEF Arrived
    <3>2. /\ IsMarker(k) => Len(lineData) = 1 /\ lineData[1] = Star(k, 0)
          /\ ~IsMarker(k) => Len(lineData) # 1
      <4>1. IsMarker(k) => Len(Text(k)) = 1 /\ Text(k)[1] = Star(k, 0)
        BY <3>1, MarkerText
      <4>2. ~IsMarker(k) => Len(Text(k)) = LongestText
        BY <3>1, TextLength
      <4>3. LongestText # 1
        BY SerialLineAssumption DEF LongestText
      <4> QED
        BY <3>1, <4>1, <4>2, <4>3
    <3>3. CASE DispatchMarker
      <4>1. Len(lineData) = 1
        BY <3>3 DEF DispatchMarker, LooksLikeMarker
      <4>2. lineData[1].field = 0 /\ lineData[1].line = k
        BY <3>2, <4>1 DEF Star
      <4> QED
        BY <3>3, <4>2 DEF DispatchMarker
    <3>4. CASE DispatchSample
      <4>1. ~IsMarker(k)
        BY <3>2, <3>4 DEF DispatchSample, LooksLikeMarker, Star
      <4>2. HoldsSample(NewTokens, k)
        BY <3>1, <4>1, SplitText
      <4>3. SplitSample(NewTokens)
        BY <2>1, <3>4 DEF DispatchSample, Overrun
      <4> QED
        BY <3>1, <4>1, <4>2, <4>3 DEF SplitSample
    <3> QED
      BY <1>12, <3>3, <3>4
  <2>4. Through \subseteq Through' /\ (line \in Through => line' \in Through')
    BY <2>1, <2>2, <2>3 DEF Through
  <2>5. Unspoiled => Unspoiled'
    <3>1. End' = End
      BY <2>1 DEF End
    <3> QED
      BY <2>1, <2>4, <3>1 DEF Unspoiled
  <2> QED
    BY <1>4, <1>5, <2>1, <2>4, <2>5
<1>13. CASE CallRead \/ SkipNap
  <2>1. /\ pc \in {"check", "skip"} /\ pc' \in {"check", "skip"} /\ line' = line /\ position' = position
        /\ good' = good /\ Damage' = Damage /\ End' = End
    BY <1>13 DEF CallRead, SkipNap, Damage, End
  <2>2. Through' = Through
    BY <2>1 DEF Arrived, Through
  <2>3. Unspoiled => Unspoiled'
    BY <2>1, <2>2 DEF Unspoiled
  <2> QED
    BY <1>4, <1>5, <2>1, <2>2, <2>3
<1>14. CASE ValueNap \/ UNCHANGED vars
  <2>1. /\ pc' = pc /\ line' = line /\ position' = position /\ lineData' = lineData
        /\ good' = good /\ Damage' = Damage /\ End' = End
    BY <1>14 DEF ValueNap, vars, Damage, End
  <2>2. Through' = Through
    BY <2>1 DEF Arrived, Through
  <2>3. Unspoiled => Unspoiled'
    BY <2>1, <2>2 DEF Unspoiled
  <2> QED
    BY <1>4, <1>5, <2>1, <2>2, <2>3
<1> QED
  BY <1>7, <1>8, <1>9, <1>10, <1>11, <1>12, <1>13, <1>14 DEF Next, Read, Undefined

(* For lines of any width, however losses, pauses and failing reads fall   *)
(* on them: a disturbance spoils at most the line it hits, and no line     *)
(* takes a token from the one before it (read_serial, process_data).       *)
THEOREM DamageStaysLocal == Spec => []DamageIsLocal
<1>1. Init => MissingPaid
  <2> SUFFICES ASSUME Init PROVE MissingPaid
    OBVIOUS
  <2>1. Missing = {}
    BY DEF Init, Missing
  <2>2. Cardinality(Missing) = 0
    BY <2>1, FS_EmptySet
  <2>3. Unspoiled
    BY DEF Init, Unspoiled
  <2> QED
    BY <2>2, <2>3 DEF Init, MissingPaid, Damage
<1>2. Typed /\ MissingPaid => DamageIsLocal
  <2> SUFFICES ASSUME Typed, MissingPaid, Idle PROVE Cardinality((1 .. line - 1) \ good) <= Damage
    BY DEF DamageIsLocal
  <2>1. Missing = (1 .. line - 1) \ good /\ Unspoiled /\ pc # "undefined"
    BY DEF Idle, Missing, Arrived, Through, Unspoiled
  <2>2. line \in Nat
    BY DEF Typed, IInv, CountTypes
  <2>3. Cardinality(Missing) \in Nat
    BY <2>2, MissingIsFinite, FS_CardinalityType
  <2>4. Cardinality(Missing) + 0 <= Damage
    BY <2>1 DEF MissingPaid
  <2> QED
    BY <2>1, <2>3, <2>4
<1> QED
  BY <1>1, <1>2, StepMissing, TypesHold, PTL DEF Spec
=============================================================================

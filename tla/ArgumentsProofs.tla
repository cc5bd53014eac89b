--------------------------- MODULE ArgumentsProofs ---------------------------
(***************************************************************************)
(* The parser of command lines stays within its text, makes progress and   *)
(* finds the words of the line, for texts of every length.                 *)
(***************************************************************************)
EXTENDS Arguments, SequenceTheorems, FiniteSetTheorems, NaturalsInduction, WellFoundedInduction, TLAPS

(* The inductive invariant.  Progress needs the case of a word that has    *)
(* just begun: it has not taken a character yet, and the one it is at does *)
(* not end it, which for a string is only so because there is no NUL.      *)
WordGrows ==
  pc = "word" => \/ top < p /\ Len(argv) + 1 < p
                 \/ top = p /\ ~EndOfWord
NoNul == form = "string" => \A i \in 1 .. Len(text) : text[i] # NUL

IInv == TypeOK /\ InBounds /\ Progress /\ WordGrows /\ NoNul

LEMMA InitIInv == Init => IInv
<1> SUFFICES ASSUME Init PROVE IInv
  OBVIOUS
<1>1. text \in Seq(Char)
  <2>1. PICK n \in 0 .. MaxLen : text \in [1 .. n -> Char]
    BY DEF Init, Texts
  <2>2. n \in Nat
    BY ArgumentsAssumption
  <2>3. QED
    BY <2>1, <2>2, SeqDef
<1>2. Len(text) \in Nat /\ DOMAIN text = 1 .. Len(text)
  BY <1>1, LenProperties
<1>3. <<>> \in Seq(Char) /\ <<>> \in Seq(Seq(Char)) /\ Len(<<>>) = 0
  BY EmptySeq
<1>4. TypeOK
  BY <1>1, <1>2, <1>3 DEF Init, TypeOK
<1>5. NoNul
  BY <1>2 DEF Init, NoNul, Range
<1>6. QED
  BY <1>3, <1>4, <1>5 DEF Init, IInv, InBounds, Progress, WordGrows

(* A character that is not NUL is one of the text's.                       *)
LEMMA InText ==
  ASSUME TypeOK, NEW i \in Nat \ {0}, At(i) # NUL
  PROVE  i \in 1 .. Len(text) /\ At(i) = text[i]
BY LenProperties DEF TypeOK, At

(* Where a step may go on: the text's end is not here.                     *)
LEMMA NotEnded ==
  ASSUME IInv, ~Ended
  PROVE  p \in 1 .. Len(text) /\ At(p) # NUL
<1>1. Len(text) \in Nat /\ DOMAIN text = 1 .. Len(text)
  BY LenProperties DEF IInv, TypeOK
<1>2. CASE form = "char*"
  BY <1>1, <1>2, InText DEF IInv, TypeOK, Ended, EndAt
<1>3. CASE form = "string"
  BY <1>1, <1>3 DEF IInv, TypeOK, Ended, EndAt, At, NoNul
<1>4. QED
  BY <1>2, <1>3 DEF IInv, TypeOK

(* The piece between top and p is a sequence of characters.                *)
LEMMA PieceProperties ==
  ASSUME IInv
  PROVE  /\ Piece \in Seq(Char)
         /\ space_arg \o Piece \in Seq(Char)
         /\ top < p => space_arg \o Piece # <<>>
<1>1. Len(text) \in Nat /\ DOMAIN text = 1 .. Len(text)
  BY LenProperties DEF IInv, TypeOK
<1>2. \A i \in top .. p - 1 : text[i] \in Char
  BY <1>1, ElementOfSeq DEF IInv, TypeOK
<1>3. /\ Piece \in Seq(Char)
      /\ Len(Piece) = IF top <= p - 1 THEN p - 1 - top + 1 ELSE 0
  BY <1>1, <1>2, SubSeqProperties DEF IInv, TypeOK, Piece
<1>4. space_arg \in Seq(Char)
  BY DEF IInv, TypeOK
<1>5. /\ space_arg \o Piece \in Seq(Char)
      /\ Len(space_arg \o Piece) = Len(space_arg) + Len(Piece)
  BY <1>3, <1>4, ConcatProperties
<1>6. ASSUME top < p PROVE space_arg \o Piece # <<>>
  <2>1. Len(Piece) > 0
    BY <1>3, <1>6 DEF IInv, TypeOK
  <2>2. Len(space_arg) \in Nat
    BY <1>4, LenProperties
  <2>3. Len(space_arg \o Piece) # 0
    BY <1>5, <2>1, <2>2, <1>3, LenProperties
  <2>4. QED
    BY <2>3, EmptySeq
<1>7. QED
  BY <1>3, <1>5, <1>6

-----------------------------------------------------------------------------
(* One lemma for the steps that pass over one character.                   *)
LEMMA OneCharacter ==
  ASSUME IInv, Skip \/ Advance
  PROVE  IInv'
<1>1. ~Ended /\ p' = p + 1 /\ UNCHANGED <<form, text, pc, top, space_arg, argv>>
  BY DEF Skip, Advance, EndOfWord
<1>2. p \in 1 .. Len(text) /\ Len(text) \in Nat
  BY <1>1, NotEnded, LenProperties DEF IInv, TypeOK
<1>3. TypeOK'
  BY <1>1, <1>2 DEF IInv, TypeOK
<1>4. InBounds'
  BY <1>1, <1>2 DEF IInv, TypeOK, InBounds, Ended, EndAt, At
<1>5. Len(argv) \in Nat
  BY LenProperties DEF IInv, TypeOK
<1>6. Progress'
  BY <1>1, <1>2, <1>5 DEF IInv, Progress
<1>7. WordGrows'
  BY <1>1, <1>2, <1>5 DEF IInv, TypeOK, InBounds, Progress, WordGrows
<1>8. QED
  BY <1>1, <1>3, <1>4, <1>6, <1>7 DEF IInv, NoNul

LEMMA EscapeStep ==
  ASSUME IInv, Escape
  PROVE  IInv'
<1>1. /\ ~Ended /\ At(p + 1) = Blank
      /\ p' = p + 2 /\ top' = p + 1
      /\ space_arg' = space_arg \o Piece
      /\ UNCHANGED <<form, text, pc, argv>>
  BY DEF Escape, EndOfWord, Escapes
<1>2. Len(text) \in Nat /\ p \in 1 .. Len(text)
  BY <1>1, NotEnded, LenProperties DEF IInv, TypeOK
<1>3. p + 1 \in 1 .. Len(text) /\ ~EndAt(p + 1)
  <2>1. At(p + 1) # NUL
    BY <1>1 DEF Blank, NUL
  <2>2. p + 1 \in 1 .. Len(text)
    BY <1>2, <2>1, InText DEF IInv
  <2>3. QED
    BY <1>2, <2>1, <2>2 DEF EndAt
<1>4. TypeOK'
  BY <1>1, <1>2, <1>3, PieceProperties DEF IInv, TypeOK
<1>5. InBounds'
  BY <1>1, <1>2, <1>3 DEF IInv, InBounds, Ended, EndAt, At
<1>6. Len(argv) \in Nat
  BY LenProperties DEF IInv, TypeOK
<1>7. Progress' /\ WordGrows'
  BY <1>1, <1>2, <1>6 DEF IInv, Progress, WordGrows
<1>8. QED
  BY <1>1, <1>4, <1>5, <1>7 DEF IInv, NoNul

LEMMA BeginStep ==
  ASSUME IInv, Begin
  PROVE  IInv'
<1>1. /\ ~Ended /\ At(p) \notin Space
      /\ pc' = "word" /\ top' = p /\ space_arg' = <<>>
      /\ UNCHANGED <<form, text, p, argv>>
  BY DEF Begin
<1>2. ~EndOfWord
  BY <1>1, NotEnded DEF EndOfWord, Separators, Space
<1>3. TypeOK'
  BY <1>1, EmptySeq DEF IInv, TypeOK
<1>4. InBounds'
  BY <1>1 DEF IInv, TypeOK, InBounds, EndAt, At
<1>5. WordGrows'
  BY <1>1, <1>2 DEF WordGrows, EndOfWord, Ended, EndAt, At
<1>6. QED
  BY <1>1, <1>3, <1>4, <1>5 DEF IInv, Progress, NoNul

LEMMA EndWordStep ==
  ASSUME IInv, EndWord
  PROVE  IInv'
<1>1. /\ pc = "word" /\ EndOfWord /\ pc' = "skip"
      /\ argv' = Append(argv, space_arg \o Piece)
      /\ UNCHANGED <<form, text, p, top, space_arg>>
  BY DEF EndWord
<1> DEFINE word == space_arg \o Piece
<1>2. top < p /\ Len(argv) + 1 < p
  BY <1>1 DEF IInv, WordGrows
<1>3. word \in Seq(Char) /\ word # <<>>
  BY <1>2, PieceProperties
<1>4. argv \in Seq(Seq(Char)) /\ Len(argv) \in Nat /\ DOMAIN argv = 1 .. Len(argv)
  BY LenProperties DEF IInv, TypeOK
<1> HIDE DEF word
<1>5. /\ argv' \in Seq(Seq(Char))
      /\ Len(argv') = Len(argv) + 1
      /\ DOMAIN argv' = 1 .. Len(argv) + 1
      /\ \A k \in 1 .. Len(argv) : argv'[k] = argv[k]
      /\ argv'[Len(argv) + 1] = word
  BY <1>1, <1>3, <1>4, AppendProperties, LenProperties DEF word
<1>6. TypeOK'
  BY <1>1, <1>5 DEF IInv, TypeOK
<1>7. InBounds'
  BY <1>1 DEF IInv, TypeOK, InBounds, EndAt, At
<1>8. Progress'
  BY <1>1, <1>2, <1>3, <1>4, <1>5 DEF IInv, Progress
<1>9. QED
  BY <1>1, <1>6, <1>7, <1>8 DEF IInv, WordGrows, NoNul

LEMMA StepIInv == IInv /\ [Next]_vars => IInv'
<1> SUFFICES ASSUME IInv, [Next]_vars PROVE IInv'
  OBVIOUS
<1>1. CASE Skip \/ Advance
  BY <1>1, OneCharacter
<1>2. CASE Escape
  BY <1>2, EscapeStep
<1>3. CASE Begin
  BY <1>3, BeginStep
<1>4. CASE EndWord
  BY <1>4, EndWordStep
<1>5. CASE Done \/ UNCHANGED vars
  <2>1. UNCHANGED <<form, text, p, top, space_arg, argv>> /\ pc' \in {pc, "done"}
    BY <1>5 DEF Done, vars
  <2>2. TypeOK' /\ InBounds'
    BY <2>1 DEF IInv, TypeOK, InBounds, EndAt, At
  <2>3. QED
    BY <2>1, <2>2 DEF IInv, Progress, WordGrows, NoNul, EndOfWord, Ended, EndAt, At
<1>6. QED
  BY <1>1, <1>2, <1>3, <1>4, <1>5 DEF Next

THEOREM Invariance == Spec => []IInv
BY InitIInv, StepIInv, PTL DEF Spec

(* The variables of arg_t::process keep their types.                       *)
THEOREM TypeCorrect == Spec => []TypeOK
<1>1. IInv => TypeOK
  BY DEF IInv
<1>2. QED
  BY <1>1, Invariance, PTL

(* _p stays within the text whatever escapes it contains.                  *)
THEOREM StaysInBounds == Spec => []InBounds
<1>1. IInv => InBounds
  BY DEF IInv
<1>2. QED
  BY <1>1, Invariance, PTL

(* Every word takes a character and none is empty.                         *)
THEOREM MakesProgress == Spec => []Progress
<1>1. IInv => Progress
  BY DEF IInv
<1>2. QED
  BY <1>1, Invariance, PTL

-----------------------------------------------------------------------------
(* Positions in their order.  o enumerates S: it is increasing and has the *)
(* members of S, n of them.                                                *)
Enumerates(o, n, S) ==
  /\ o \in [1 .. n -> S]
  /\ \A i, j \in 1 .. n : i < j => o[i] < o[j]
  /\ \A x \in S : \E i \in 1 .. n : o[i] = x

LEMMA CountOfEnumeration ==
  ASSUME NEW S \in SUBSET Nat, NEW n \in Nat, NEW o, Enumerates(o, n, S)
  PROVE  Cardinality(S) = n
<1>1. o \in [1 .. n -> S] /\ \A i \in 1 .. n : o[i] \in Nat
  BY DEF Enumerates
<1>2. ASSUME NEW i \in 1 .. n, NEW j \in 1 .. n, o[i] = o[j] PROVE i = j
  <2>1. ~(i < j) /\ ~(j < i)
    BY <1>1, <1>2 DEF Enumerates
  <2>2. QED
    BY <2>1
<1>3. o \in Injection(1 .. n, S)
  BY <1>1, <1>2 DEF Injection, IsInjective
<1>4. o \in Surjection(1 .. n, S)
  BY <1>1 DEF Surjection, Enumerates
<1>5. ExistsBijection(1 .. n, S)
  BY <1>3, <1>4 DEF ExistsBijection, Bijection
<1>6. QED
  BY <1>5, FS_CountingElements

(* There is only one enumeration, and Ascending finds it: the member with  *)
(* k members up to itself is the k-th.                                     *)
LEMMA AscendingIsEnumeration ==
  ASSUME NEW S \in SUBSET Nat, NEW n \in Nat, NEW o, Enumerates(o, n, S)
  PROVE  Cardinality(S) = n /\ Ascending(S) = o
<1>1. Cardinality(S) = n
  BY CountOfEnumeration
<1>2. /\ o \in [1 .. n -> S] /\ \A i \in 1 .. n : o[i] \in Nat
      /\ \A i, j \in 1 .. n : i < j => o[i] < o[j]
      /\ \A x \in S : \E i \in 1 .. n : o[i] = x
  BY DEF Enumerates
<1>3. ASSUME NEW k \in 1 .. n PROVE Cardinality({j \in S : j <= o[k]}) = k
  <2> DEFINE T == {j \in S : j <= o[k]}
             first == [i \in 1 .. k |-> o[i]]
  <2>1. \A i \in 1 .. k : i \in 1 .. n /\ first[i] = o[i] /\ (i = k \/ i < k)
    OBVIOUS
  <2>2. \A i \in 1 .. k : o[i] \in S /\ o[i] <= o[k]
    BY <1>2, <2>1
  <2>3. first \in [1 .. k -> T]
    BY <2>2
  <2>4. \A i, j \in 1 .. k : i < j => first[i] < first[j]
    BY <1>2, <2>1
  <2>5. ASSUME NEW x \in T PROVE \E i \in 1 .. k : first[i] = x
    <3>1. PICK i \in 1 .. n : o[i] = x
      BY <1>2
    <3>2. ~(k < i)
      BY <1>2, <3>1
    <3>3. i \in 1 .. k
      BY <3>2
    <3>4. QED
      BY <2>1, <3>1, <3>3
  <2>6. Enumerates(first, k, T)
    BY <2>3, <2>4, <2>5 DEF Enumerates
  <2>7. T \in SUBSET Nat
    <3>1. T \subseteq S
      OBVIOUS
    <3> HIDE DEF T
    <3>2. QED
      BY <3>1
  <2> HIDE DEF T, first
  <2>8. Cardinality(T) = k
    BY <2>6, <2>7, CountOfEnumeration
  <2>9. QED
    BY <2>8 DEF T
<1> DEFINE Member(k) == CHOOSE i \in S : Cardinality({j \in S : j <= i}) = k
<1>4. ASSUME NEW k \in 1 .. n PROVE Member(k) = o[k]
  <2>1. o[k] \in S /\ Cardinality({j \in S : j <= o[k]}) = k
    BY <1>2, <1>3
  <2>2. ASSUME NEW i \in S, Cardinality({j \in S : j <= i}) = k PROVE i = o[k]
    <3>1. PICK l \in 1 .. n : o[l] = i
      BY <1>2
    <3>2. Cardinality({j \in S : j <= i}) = l
      BY <1>3, <3>1
    <3>3. QED
      BY <2>2, <3>1, <3>2
  <2>3. QED
    BY <2>1, <2>2
<1>5. Ascending(S) = [k \in 1 .. n |-> Member(k)]
  BY <1>1 DEF Ascending
<1> HIDE DEF Member
<1>6. [k \in 1 .. n |-> Member(k)] = o
  BY <1>2, <1>4
<1>7. QED
  BY <1>1, <1>5, <1>6

(* What joins two enumerations enumerates both sets.                       *)
LEMMA JoinEnumerations ==
  ASSUME NEW S \in SUBSET Nat, NEW T \in SUBSET Nat, \A x \in S : \A y \in T : x < y,
         NEW m \in Nat, NEW n \in Nat, NEW o, NEW q,
         Enumerates(o, m, S), Enumerates(q, n, T)
  PROVE  Enumerates([i \in 1 .. m + n |-> IF i <= m THEN o[i] ELSE q[i - m]], m + n, S \cup T)
<1> DEFINE r == [i \in 1 .. m + n |-> IF i <= m THEN o[i] ELSE q[i - m]]
<1>1. \A i \in 1 .. m + n : \/ i \in 1 .. m /\ r[i] = o[i]
                            \/ i - m \in 1 .. n /\ ~(i <= m) /\ r[i] = q[i - m]
  OBVIOUS
<1>2. /\ \A i \in 1 .. m : o[i] \in S /\ o[i] \in Nat
      /\ \A i \in 1 .. n : q[i] \in T /\ q[i] \in Nat
  BY DEF Enumerates
<1>3. DOMAIN r = 1 .. m + n /\ r = [i \in 1 .. m + n |-> r[i]]
  OBVIOUS
<1>4. r \in [1 .. m + n -> S \cup T]
  <2>1. \A i \in 1 .. m + n : r[i] \in S \cup T
    BY <1>1, <1>2
  <2> HIDE DEF r
  <2>2. QED
    BY <1>3, <2>1
<1>5. ASSUME NEW i \in 1 .. m + n, NEW j \in 1 .. m + n, i < j PROVE r[i] < r[j]
  <2> HIDE DEF r
  <2>1. CASE j <= m
    <3>1. i \in 1 .. m /\ j \in 1 .. m /\ r[i] = o[i] /\ r[j] = o[j]
      BY <1>1, <1>5, <2>1
    <3>2. QED
      BY <1>5, <3>1 DEF Enumerates
  <2>2. CASE i <= m /\ ~(j <= m)
    <3>1. i \in 1 .. m /\ j - m \in 1 .. n /\ r[i] = o[i] /\ r[j] = q[j - m]
      BY <1>1, <2>2
    <3>2. QED
      BY <1>2, <3>1
  <2>3. CASE ~(i <= m)
    <3>1. /\ i - m \in 1 .. n /\ j - m \in 1 .. n /\ i - m < j - m
          /\ r[i] = q[i - m] /\ r[j] = q[j - m]
      BY <1>1, <1>5, <2>3
    <3>2. QED
      BY <3>1 DEF Enumerates
  <2>4. QED
    BY <2>1, <2>2, <2>3
<1>6. ASSUME NEW x \in S \cup T PROVE \E i \in 1 .. m + n : r[i] = x
  <2>1. CASE x \in S
    <3>1. PICK i \in 1 .. m : o[i] = x
      BY <2>1 DEF Enumerates
    <3>2. i \in 1 .. m + n /\ r[i] = x
      BY <3>1
    <3>3. QED
      BY <3>2
  <2>2. CASE x \in T
    <3>1. PICK i \in 1 .. n : q[i] = x
      BY <2>2 DEF Enumerates
    <3>2. m + i \in 1 .. m + n /\ ~(m + i <= m) /\ (m + i) - m = i
      OBVIOUS
    <3>3. r[m + i] = x
      BY <3>1, <3>2
    <3>4. QED
      BY <3>2, <3>3
  <2>3. QED
    BY <2>1, <2>2
<1> HIDE DEF r
<1>7. Enumerates(r, m + n, S \cup T)
  BY <1>4, <1>5, <1>6 DEF Enumerates
<1>8. QED
  BY <1>7 DEF r

(* A set of naturals has a least element.                                  *)
LEMMA LeastNatural ==
  ASSUME NEW T \in SUBSET Nat, T # {}
  PROVE  \E k \in T : \A m \in T : k <= m
<1>1. \E k \in T : \A m \in T : ~ (<<m, k>> \in OpToRel(<, Nat))
  BY NatLessThanWellFounded, WFMin
<1>2. PICK k \in T : \A m \in T : ~ (<<m, k>> \in OpToRel(<, Nat))
  BY <1>1
<1>3. ASSUME NEW m \in T PROVE k <= m
  <2>1. m \in Nat /\ k \in Nat
    OBVIOUS
  <2>2. m < k => <<m, k>> \in OpToRel(<, Nat)
    BY <2>1, Zenon DEF OpToRel
  <2>3. ~ (m < k)
    BY <1>2, <2>2, Zenon
  <2>4. QED
    BY <2>1, <2>3
<1>4. QED
  BY <1>3

Single(x)  == [i \in 1 .. 1 |-> x]
HasOrder(S) == \E n \in Nat : \E o \in [1 .. n -> S] : Enumerates(o, n, S)

(* Positions can be enumerated.  There is no least number up to which some *)
(* of them cannot: the others would be enumerated, and the last one joins. *)
LEMMA PositionsHaveOrder ==
  ASSUME NEW bound \in Nat, NEW S \in SUBSET (1 .. bound)
  PROVE  HasOrder(S)
<1> DEFINE Bad == {b \in Nat : \E T \in SUBSET (1 .. b) : ~HasOrder(T)}
<1>1. ASSUME Bad # {} PROVE FALSE
  <2>1. PICK b \in Bad : \A c \in Bad : b <= c
    <3>1. Bad \in SUBSET Nat
      OBVIOUS
    <3> HIDE DEF Bad
    <3>2. QED
      BY <1>1, <3>1, LeastNatural
  <2>2. PICK T \in SUBSET (1 .. b) : ~HasOrder(T)
    BY <2>1
  <2>3. b \in Nat
    BY <2>1
  <2>4. CASE T = {}
    <3>1. Enumerates(<<>>, 0, T) /\ <<>> \in [1 .. 0 -> T]
      BY <2>4 DEF Enumerates
    <3>2. QED
      BY <2>2, <3>1 DEF HasOrder
  <2>5. CASE T # {}
    <3>0. b # 0
      <4>1. 1 .. 0 = {}
        OBVIOUS
      <4>2. QED
        BY <2>2, <2>5, <4>1
    <3>1. b # 0 /\ b - 1 \in Nat
      BY <2>3, <3>0
    <3>2. b - 1 \notin Bad
      BY <2>1, <3>1
    <3>3. T \ {b} \in SUBSET (1 .. b - 1)
      BY <2>2, <2>3
    <3>4. HasOrder(T \ {b})
      BY <3>1, <3>2, <3>3
    <3> HIDE DEF Bad
    <3>5. b \in T
      <4>1. b \notin T => T \ {b} = T
        OBVIOUS
      <4>2. QED
        BY <2>2, <3>4, <4>1
    <3>6. PICK n \in Nat : \E o \in [1 .. n -> T \ {b}] : Enumerates(o, n, T \ {b})
      BY <3>4 DEF HasOrder
    <3>7. PICK o \in [1 .. n -> T \ {b}] : Enumerates(o, n, T \ {b})
      BY <3>6
    <3>8. Enumerates(Single(b), 1, {b})
      BY <2>3 DEF Enumerates, Single
    <3>9. /\ T \ {b} \in SUBSET Nat /\ {b} \in SUBSET Nat
          /\ \A x \in T \ {b} : \A y \in {b} : x < y
      BY <2>3, <3>1, <3>3
    <3> DEFINE r == [i \in 1 .. n + 1 |-> IF i <= n THEN o[i] ELSE Single(b)[i - n]]
    <3>10. Enumerates(r, n + 1, (T \ {b}) \cup {b})
      BY <3>7, <3>8, <3>9, JoinEnumerations
    <3> HIDE DEF r
    <3>11. Enumerates(r, n + 1, T) /\ n + 1 \in Nat
      <4>1. (T \ {b}) \cup {b} = T
        BY <3>5
      <4>2. Enumerates(r, n + 1, T)
        BY <3>10, <4>1, Zenon
      <4>3. QED
        BY <4>2
    <3>12. QED
      BY <2>2, <3>11 DEF HasOrder, Enumerates
  <2>6. QED
    BY <2>4, <2>5
<1>2. QED
  BY <1>1

(* What Ascending gives for a set of positions.                            *)
LEMMA AscendingProperties ==
  ASSUME NEW bound \in Nat, NEW S \in SUBSET (1 .. bound)
  PROVE  /\ Cardinality(S) \in Nat
         /\ Enumerates(Ascending(S), Cardinality(S), S)
         /\ DOMAIN Ascending(S) = 1 .. Cardinality(S)
<1>1. PICK n \in Nat : \E o \in [1 .. n -> S] : Enumerates(o, n, S)
  BY PositionsHaveOrder DEF HasOrder
<1>2. PICK o \in [1 .. n -> S] : Enumerates(o, n, S)
  BY <1>1
<1>3. S \in SUBSET Nat
  OBVIOUS
<1>4. Cardinality(S) = n /\ Ascending(S) = o
  BY <1>2, <1>3, AscendingIsEnumeration
<1>5. QED
  BY <1>2, <1>4

LEMMA AscendingJoin ==
  ASSUME NEW bound \in Nat, NEW S \in SUBSET (1 .. bound), NEW T \in SUBSET (1 .. bound),
         \A x \in S : \A y \in T : x < y
  PROVE  /\ Cardinality(S \cup T) = Cardinality(S) + Cardinality(T)
         /\ \A i \in 1 .. Cardinality(S) : Ascending(S \cup T)[i] = Ascending(S)[i]
         /\ \A i \in 1 .. Cardinality(T) :
              Ascending(S \cup T)[Cardinality(S) + i] = Ascending(T)[i]
<1> DEFINE m == Cardinality(S)
           n == Cardinality(T)
           r == [i \in 1 .. m + n |-> IF i <= m THEN Ascending(S)[i] ELSE Ascending(T)[i - m]]
<1>1. /\ m \in Nat /\ n \in Nat
      /\ Enumerates(Ascending(S), m, S) /\ Enumerates(Ascending(T), n, T)
  BY AscendingProperties
<1>2. S \in SUBSET Nat /\ T \in SUBSET Nat /\ S \cup T \in SUBSET Nat
  OBVIOUS
<1> HIDE DEF m, n
<1>3. Enumerates(r, m + n, S \cup T)
  BY <1>1, <1>2, JoinEnumerations
<1>4. m + n \in Nat
  BY <1>1
<1>5. Cardinality(S \cup T) = m + n /\ Ascending(S \cup T) = r
  <2> HIDE DEF r
  <2>1. QED
    BY <1>2, <1>3, <1>4, AscendingIsEnumeration
<1>6. /\ \A i \in 1 .. m : r[i] = Ascending(S)[i]
      /\ \A i \in 1 .. n : r[m + i] = Ascending(T)[i]
  BY <1>1
<1> HIDE DEF r
<1>7. QED
  BY <1>5, <1>6 DEF m, n

LEMMA AscendingInterval ==
  ASSUME NEW a \in Nat \ {0}, NEW b \in Nat, b + 1 >= a
  PROVE  /\ Cardinality(a .. b) = b + 1 - a
         /\ \A i \in 1 .. b + 1 - a : Ascending(a .. b)[i] = a + i - 1
<1> DEFINE n == b + 1 - a
           o == [i \in 1 .. n |-> a + i - 1]
<1>1. n \in Nat /\ a .. b \in SUBSET Nat
  OBVIOUS
<1>2. Enumerates(o, n, a .. b)
  <2>1. o \in [1 .. n -> a .. b]
    OBVIOUS
  <2>2. \A i, j \in 1 .. n : i < j => o[i] < o[j]
    OBVIOUS
  <2>3. ASSUME NEW x \in a .. b PROVE \E i \in 1 .. n : o[i] = x
    <3>1. x + 1 - a \in 1 .. n /\ o[x + 1 - a] = x
      OBVIOUS
    <3>2. QED
      BY <3>1
  <2>4. QED
    BY <2>1, <2>2, <2>3 DEF Enumerates
<1>3. \A i \in 1 .. n : o[i] = a + i - 1
  OBVIOUS
<1> HIDE DEF n, o
<1>4. Cardinality(a .. b) = n /\ Ascending(a .. b) = o
  BY <1>1, <1>2, AscendingIsEnumeration
<1>5. QED
  BY <1>3, <1>4 DEF n

LEMMA AscendingSingle ==
  ASSUME NEW x \in Nat \ {0}
  PROVE  Cardinality({x}) = 1 /\ Ascending({x})[1] = x
<1>1. {x} = x .. x /\ x + 1 >= x
  OBVIOUS
<1>2. /\ Cardinality(x .. x) = x + 1 - x
      /\ \A i \in 1 .. x + 1 - x : Ascending(x .. x)[i] = x + i - 1
  BY <1>1, AscendingInterval
<1>3. x + 1 - x = 1 /\ x + 1 - 1 = x /\ 1 \in 1 .. 1
  OBVIOUS
<1>4. QED
  BY <1>1, <1>2, <1>3

LEMMA AscendingEmpty == Cardinality({}) = 0 /\ Ascending({}) = <<>>
  BY FS_EmptySet DEF Ascending

-----------------------------------------------------------------------------
(* What a text has at positions, and its words.                            *)
LEMMA CharsProperties ==
  ASSUME NEW t \in Seq(Char), NEW S \in SUBSET (1 .. Len(t))
  PROVE  /\ Chars(t, S) \in Seq(Char) /\ Len(Chars(t, S)) = Cardinality(S)
         /\ Cardinality(S) \in Nat
         /\ \A k \in 1 .. Cardinality(S) :
              Ascending(S)[k] \in S /\ Chars(t, S)[k] = t[Ascending(S)[k]]
         /\ \A j \in S : \E k \in 1 .. Cardinality(S) : Chars(t, S)[k] = t[j]
<1> DEFINE n == Cardinality(S)
           o == Ascending(S)
<1>1. Len(t) \in Nat /\ \A i \in 1 .. Len(t) : t[i] \in Char
  BY LenProperties, ElementOfSeq
<1>2. n \in Nat /\ Enumerates(o, n, S) /\ DOMAIN o = 1 .. n
  BY <1>1, AscendingProperties
<1>3. Chars(t, S) = [k \in 1 .. n |-> t[o[k]]]
  BY <1>2 DEF Chars
<1> HIDE DEF n, o
<1>4. \A k \in 1 .. n : o[k] \in S /\ t[o[k]] \in Char
  BY <1>1, <1>2 DEF Enumerates
<1>5. Chars(t, S) \in Seq(Char) /\ Len(Chars(t, S)) = n
  BY <1>2, <1>3, <1>4, SeqDef
<1>6. \A k \in 1 .. n : Chars(t, S)[k] = t[o[k]]
  BY <1>3
<1>7. \A j \in S : \E k \in 1 .. n : Chars(t, S)[k] = t[j]
  BY <1>2, <1>6 DEF Enumerates
<1>8. QED
  BY <1>2, <1>4, <1>5, <1>6, <1>7 DEF n, o

LEMMA CharsJoin ==
  ASSUME NEW t \in Seq(Char), NEW S \in SUBSET (1 .. Len(t)), NEW T \in SUBSET (1 .. Len(t)),
         \A x \in S : \A y \in T : x < y
  PROVE  Chars(t, S \cup T) = Chars(t, S) \o Chars(t, T)
<1> DEFINE m == Cardinality(S)
           n == Cardinality(T)
           u == Chars(t, S)
           v == Chars(t, T)
           w == Chars(t, S \cup T)
<1>1. Len(t) \in Nat
  BY LenProperties
<1>2. /\ u \in Seq(Char) /\ Len(u) = m /\ m \in Nat
      /\ \A k \in 1 .. m : u[k] = t[Ascending(S)[k]]
  BY CharsProperties
<1>3. /\ v \in Seq(Char) /\ Len(v) = n /\ n \in Nat
      /\ \A k \in 1 .. n : v[k] = t[Ascending(T)[k]]
  BY CharsProperties
<1>4. /\ Cardinality(S \cup T) = m + n
      /\ \A i \in 1 .. m : Ascending(S \cup T)[i] = Ascending(S)[i]
      /\ \A i \in 1 .. n : Ascending(S \cup T)[m + i] = Ascending(T)[i]
  BY <1>1, AscendingJoin
<1>5. /\ w \in Seq(Char) /\ Len(w) = m + n
      /\ \A k \in 1 .. m + n : w[k] = t[Ascending(S \cup T)[k]]
  <2> DEFINE U == S \cup T
  <2>1. U \in SUBSET (1 .. Len(t))
    OBVIOUS
  <2> HIDE DEF U, m, n
  <2>2. /\ Chars(t, U) \in Seq(Char) /\ Len(Chars(t, U)) = Cardinality(U)
        /\ \A k \in 1 .. Cardinality(U) : Chars(t, U)[k] = t[Ascending(U)[k]]
    BY <2>1, CharsProperties
  <2>3. Cardinality(U) = m + n
    BY <1>4 DEF U
  <2>4. QED
    BY <2>2, <2>3 DEF U
<1> HIDE DEF m, n, u, v, w
<1>6. /\ u \o v \in Seq(Char) /\ Len(u \o v) = m + n
      /\ \A i \in 1 .. m + n : (u \o v)[i] = IF i <= m THEN u[i] ELSE v[i - m]
  <2>1. /\ u \o v \in Seq(Char) /\ Len(u \o v) = Len(u) + Len(v)
        /\ \A i \in 1 .. Len(u) + Len(v) :
             (u \o v)[i] = IF i <= Len(u) THEN u[i] ELSE v[i - Len(u)]
    BY <1>2, <1>3, ConcatProperties
  <2>2. QED
    BY <1>2, <1>3, <2>1
<1>7. ASSUME NEW i \in 1 .. m + n PROVE w[i] = (u \o v)[i]
  <2>1. CASE i <= m
    <3>1. i \in 1 .. m
      BY <1>2, <1>3, <2>1
    <3>2. w[i] = t[Ascending(S)[i]]
      BY <1>4, <1>5, <3>1
    <3>3. QED
      BY <1>2, <1>6, <2>1, <3>1, <3>2
  <2>2. CASE ~(i <= m)
    <3>1. i - m \in 1 .. n /\ m + (i - m) = i
      BY <1>2, <1>3, <2>2
    <3>2. w[i] = t[Ascending(T)[i - m]]
      <4>1. Ascending(S \cup T)[m + (i - m)] = Ascending(T)[i - m]
        BY <1>4, <3>1
      <4>2. QED
        BY <1>5, <3>1, <4>1
    <3>3. QED
      BY <1>3, <1>6, <2>2, <3>1, <3>2
  <2>3. QED
    BY <2>1, <2>2
<1>8. w = u \o v
  BY <1>5, <1>6, <1>7, SeqEqual
<1>9. QED
  BY <1>8 DEF u, v, w

LEMMA CharsInterval ==
  ASSUME NEW t \in Seq(Char), NEW a \in 1 .. Len(t) + 1, NEW b \in 0 .. Len(t), b + 1 >= a
  PROVE  /\ Chars(t, a .. b) = SubSeq(t, a, b)
         /\ Cardinality(a .. b) = b + 1 - a
<1>1. Len(t) \in Nat /\ \A i \in a .. b : t[i] \in Char
  BY LenProperties, ElementOfSeq
<1> DEFINE n == b + 1 - a
<1>2. /\ Cardinality(a .. b) = n
      /\ \A i \in 1 .. n : Ascending(a .. b)[i] = a + i - 1
  <2>1. a \in Nat \ {0} /\ b \in Nat
    BY <1>1
  <2>2. QED
    BY <2>1, AscendingInterval
<1>3. n \in Nat /\ a .. b \in SUBSET (1 .. Len(t))
  BY <1>1
<1>4. /\ Chars(t, a .. b) \in Seq(Char) /\ Len(Chars(t, a .. b)) = n
      /\ \A i \in 1 .. n : Chars(t, a .. b)[i] = t[a + i - 1]
  <2> DEFINE U == a .. b
  <2>1. U \in SUBSET (1 .. Len(t))
    BY <1>3
  <2> HIDE DEF U
  <2>2. /\ Chars(t, U) \in Seq(Char) /\ Len(Chars(t, U)) = Cardinality(U)
        /\ \A k \in 1 .. Cardinality(U) : Chars(t, U)[k] = t[Ascending(U)[k]]
    BY <2>1, CharsProperties
  <2> HIDE DEF n
  <2>3. QED
    BY <1>2, <2>2 DEF U
<1>5. /\ SubSeq(t, a, b) \in Seq(Char) /\ Len(SubSeq(t, a, b)) = n
      /\ \A i \in 1 .. n : SubSeq(t, a, b)[i] = t[a + i - 1]
  BY <1>1, SubSeqProperties
<1> HIDE DEF n
<1>6. QED
  BY <1>2, <1>4, <1>5, SeqEqual DEF n

(* The words that begin at the positions in S.                             *)
WordsAt(t, S) == [k \in DOMAIN Ascending(S) |-> Chars(t, Kept(t, Ascending(S)[k]))]

LEMMA KeptPositions ==
  ASSUME NEW t \in Seq(Char), NEW i \in 1 .. Len(t)
  PROVE  Kept(t, i) \in SUBSET (1 .. Len(t)) /\ Kept(t, i) \in SUBSET (i .. Len(t))
BY LenProperties DEF Kept, WordAt

LEMMA WordsProperties ==
  ASSUME NEW t \in Seq(Char), NEW S \in SUBSET (1 .. Len(t))
  PROVE  /\ WordsAt(t, S) \in Seq(Seq(Char)) /\ Len(WordsAt(t, S)) = Cardinality(S)
         /\ Cardinality(S) \in Nat
         /\ \A k \in 1 .. Cardinality(S) :
              /\ Ascending(S)[k] \in S
              /\ WordsAt(t, S)[k] = Chars(t, Kept(t, Ascending(S)[k]))
<1> DEFINE n == Cardinality(S)
           o == Ascending(S)
           e(k) == Chars(t, Kept(t, o[k]))
<1>1. n \in Nat /\ Enumerates(o, n, S) /\ DOMAIN o = 1 .. n
  BY LenProperties, AscendingProperties
<1>2. WordsAt(t, S) = [k \in 1 .. n |-> e(k)]
  BY <1>1 DEF WordsAt
<1> HIDE DEF n, o
<1>3. \A k \in 1 .. n : o[k] \in S /\ o[k] \in 1 .. Len(t)
  BY <1>1 DEF Enumerates
<1>4. ASSUME NEW k \in 1 .. n PROVE e(k) \in Seq(Char)
  <2>1. Kept(t, o[k]) \in SUBSET (1 .. Len(t))
    BY <1>3, KeptPositions
  <2>2. QED
    BY <2>1, CharsProperties
<1> HIDE DEF e
<1>5. [k \in 1 .. n |-> e(k)] \in [1 .. n -> Seq(Char)]
  BY <1>4
<1>6. WordsAt(t, S) \in Seq(Seq(Char)) /\ Len(WordsAt(t, S)) = n
  BY <1>1, <1>2, <1>5, SeqDef
<1>7. \A k \in 1 .. n : WordsAt(t, S)[k] = e(k)
  BY <1>2
<1>8. QED
  BY <1>1, <1>3, <1>6, <1>7 DEF n, o, e

(* One more word, behind the others.                                       *)
LEMMA WordsAppend ==
  ASSUME NEW t \in Seq(Char), NEW S \in SUBSET (1 .. Len(t)), NEW x \in 1 .. Len(t),
         \A y \in S : y < x
  PROVE  WordsAt(t, S \cup {x}) = Append(WordsAt(t, S), Chars(t, Kept(t, x)))
<1> DEFINE n == Cardinality(S)
           T == S \cup {x}
           word == Chars(t, Kept(t, x))
<1>1. Len(t) \in Nat /\ T \in SUBSET (1 .. Len(t)) /\ {x} \in SUBSET (1 .. Len(t))
  BY LenProperties
<1>2. Cardinality({x}) = 1 /\ Ascending({x})[1] = x
  BY <1>1, AscendingSingle
<1>3. /\ Cardinality(T) = n + 1
      /\ \A i \in 1 .. n : Ascending(T)[i] = Ascending(S)[i]
      /\ Ascending(T)[n + 1] = x
  <2>1. /\ Cardinality(T) = n + Cardinality({x})
        /\ \A i \in 1 .. n : Ascending(T)[i] = Ascending(S)[i]
        /\ \A i \in 1 .. Cardinality({x}) : Ascending(T)[n + i] = Ascending({x})[i]
    BY <1>1, AscendingJoin
  <2> HIDE DEF n, T
  <2>2. Ascending(T)[n + 1] = Ascending({x})[1]
    <3>1. 1 \in 1 .. Cardinality({x})
      BY <1>2
    <3>2. QED
      BY <2>1, <3>1
  <2>3. QED
    BY <1>2, <2>1, <2>2
<1>4. /\ WordsAt(t, S) \in Seq(Seq(Char)) /\ Len(WordsAt(t, S)) = n /\ n \in Nat
      /\ \A k \in 1 .. n : WordsAt(t, S)[k] = Chars(t, Kept(t, Ascending(S)[k]))
  BY WordsProperties
<1>5. /\ WordsAt(t, T) \in Seq(Seq(Char)) /\ Len(WordsAt(t, T)) = n + 1
      /\ \A k \in 1 .. n + 1 : WordsAt(t, T)[k] = Chars(t, Kept(t, Ascending(T)[k]))
  <2> HIDE DEF T, n
  <2>1. QED
    BY <1>1, <1>3, WordsProperties
<1>6. word \in Seq(Char)
  BY KeptPositions, CharsProperties
<1> HIDE DEF n, T
<1>7. WordsAt(t, T)[n + 1] = word
  BY <1>3, <1>4, <1>5
<1> HIDE DEF word
<1>8. /\ Append(WordsAt(t, S), word) \in Seq(Seq(Char))
      /\ Len(Append(WordsAt(t, S), word)) = n + 1
      /\ \A i \in 1 .. n : Append(WordsAt(t, S), word)[i] = WordsAt(t, S)[i]
      /\ Append(WordsAt(t, S), word)[n + 1] = word
  BY <1>4, <1>6, AppendProperties
<1>9. ASSUME NEW i \in 1 .. n + 1
      PROVE  WordsAt(t, T)[i] = Append(WordsAt(t, S), word)[i]
  <2>1. CASE i \in 1 .. n
    BY <1>3, <1>4, <1>5, <1>8, <2>1
  <2>2. CASE i = n + 1
    BY <1>7, <1>8, <2>2
  <2>3. QED
    BY <1>4, <2>1, <2>2
<1>10. WordsAt(t, T) = Append(WordsAt(t, S), word)
  BY <1>5, <1>8, <1>9, SeqEqual
<1>11. QED
  BY <1>10 DEF T, word
-----------------------------------------------------------------------------
(* Where the parser is in the line it reads.  Only characters that no word *)
(* has lie between a break, or the beginning, and q.                       *)
Gap(t, q) ==
  \E b \in 0 .. q - 1 : /\ b = 0 \/ BreakAt(t, b)
                        /\ \A j \in b + 1 .. q - 1 : t[j] = VTab
StartsBefore(t, e) == {i \in Starts(t) : i < e}
Taken(t, s, e)     == {j \in s .. e - 1 : ~DropsAt(t, j)}

(* In the word that begins at s.                                           *)
Within(s) ==
  /\ s \in Starts(Read) /\ argv = WordsAt(Read, StartsBefore(Read, s))
  /\ s <= top
  /\ \A j \in s .. p - 1 : ~BreakAt(Read, j)
  /\ \A j \in top .. p - 1 : ~DropsAt(Read, j)
  /\ space_arg = Chars(Read, Taken(Read, s, top))
  /\ p <= Len(Read) /\ Read[p] = Blank => BreakAt(Read, p)

Between ==
  /\ argv = WordsAt(Read, StartsBefore(Read, p))
  /\ p = Len(Read) + 1 \/ BreakAt(Read, p) \/ Gap(Read, p)

WordsInv ==
  /\ IF pc = "word" THEN \E s \in 1 .. p : Within(s) ELSE Between
  /\ pc = "done" => p = Len(Read) + 1

(* What is read ends where EndAt says, which both forms tell by a NUL.     *)
LEMMA ReadProperties ==
  ASSUME IInv
  PROVE  /\ Read \in Seq(Char) /\ Len(Read) \in Nat /\ Len(Read) <= Len(text)
         /\ \A i \in 1 .. Len(Read) : Read[i] = text[i] /\ Read[i] # NUL /\ At(i) = Read[i]
         /\ At(Len(Read) + 1) = NUL
         /\ p \in 1 .. Len(Read) + 1
         /\ Ended <=> p = Len(Read) + 1
<1> DEFINE n == Len(text)
           I == {i \in 1 .. n : text[i] = NUL}
<1>1. /\ text \in Seq(Char) /\ n \in Nat /\ DOMAIN text = 1 .. n
      /\ \A i \in 1 .. n : text[i] \in Char
  BY LenProperties, ElementOfSeq DEF IInv, TypeOK
<1>2. Line = IF I # {} THEN Min(I) ELSE 0
  BY DEF Line, SelectInSeq
<1>3. CASE I = {}
  <2>1. Line = 0 /\ Read = text
    BY <1>2, <1>3 DEF Read
  <2>2. \A i \in 1 .. n : text[i] # NUL
    BY <1>3
  <2>3. \A i \in 1 .. n : At(i) = text[i]
    BY <1>1 DEF At
  <2>4. At(n + 1) = NUL
    BY <1>1 DEF At
  <2>5. p \in 1 .. n + 1 /\ (Ended <=> p = n + 1)
    BY <1>1, <2>2, <2>3, <2>4 DEF IInv, TypeOK, Ended, EndAt
  <2>6. QED
    BY <1>1, <2>1, <2>2, <2>3, <2>4, <2>5
<1>4. CASE I # {}
  <2>1. PICK l \in I : \A i \in I : l <= i
    <3>1. I \in SUBSET Nat
      OBVIOUS
    <3> HIDE DEF I
    <3>2. QED
      BY <1>4, <3>1, LeastNatural
  <2>2. Line = l
    <3>1. Min(I) \in I /\ \A i \in I : Min(I) <= i
      <4>1. \E x \in I : \A y \in I : x =< y
        BY <2>1
      <4> HIDE DEF I
      <4>2. QED
        BY <4>1 DEF Min
    <3>2. Min(I) = l
      <4>1. Min(I) <= l /\ l <= Min(I)
        BY <2>1, <3>1
      <4>2. Min(I) \in Nat /\ l \in Nat
        BY <3>1
      <4> HIDE DEF I
      <4>3. QED
        BY <4>1, <4>2
    <3>3. QED
      BY <1>2, <1>4, <3>2
  <2>3. /\ l \in 1 .. n /\ text[l] = NUL
        /\ \A i \in 1 .. l - 1 : text[i] # NUL
    BY <1>1, <2>1
  <2> HIDE DEF I
  <2>4. Read = SubSeq(text, 1, l - 1)
    BY <2>2, <2>3 DEF Read
  <2>5. /\ Read \in Seq(Char) /\ Len(Read) = l - 1
        /\ \A i \in 1 .. l - 1 : Read[i] = text[i]
    <3>1. \A i \in 1 .. l - 1 : text[i] \in Char
      BY <1>1, <2>3
    <3>2. /\ SubSeq(text, 1, l - 1) \in Seq(Char)
          /\ Len(SubSeq(text, 1, l - 1)) = IF 1 <= l - 1 THEN l - 1 - 1 + 1 ELSE 0
          /\ \A i \in 1 .. l - 1 - 1 + 1 : SubSeq(text, 1, l - 1)[i] = text[1 + i - 1]
      BY <2>3, <3>1, SubSeqProperties
    <3>3. QED
      BY <2>3, <2>4, <3>2
  <2>6. \A i \in 1 .. l : At(i) = text[i]
    BY <1>1, <2>3 DEF At
  <2>7. form = "char*"
    BY <2>3 DEF IInv, TypeOK, NoNul
  <2>8. p \in 1 .. l
    <3>1. EndAt(l)
      BY <2>3, <2>6, <2>7 DEF EndAt
    <3>2. ~(l \in 1 .. p - 1)
      BY <3>1 DEF IInv, InBounds
    <3>3. QED
      BY <1>1, <2>3, <3>2 DEF IInv, TypeOK
  <2>9. Ended <=> p = l
    BY <2>3, <2>6, <2>7, <2>8 DEF Ended, EndAt
  <2>10. QED
    BY <1>1, <2>3, <2>5, <2>6, <2>8, <2>9
<1>5. QED
  BY <1>3, <1>4

LEMMA ReadStays ==
  ASSUME UNCHANGED text
  PROVE  Read' = Read
BY DEF Read, Line, SelectInSeq

(* Where the parser stands is a character of the line, or its end.         *)
LEMMA AtPosition ==
  ASSUME IInv
  PROVE  /\ ~Ended => p \in 1 .. Len(Read) /\ At(p) = Read[p]
         /\ p \in 1 .. Len(Read) /\ At(p + 1) # NUL
              => p < Len(Read) /\ At(p + 1) = Read[p + 1]
         /\ EndOfWord <=> p = Len(Read) + 1 \/ Read[p] \in {Blank, Tab}
         /\ p \in 1 .. Len(Read) => (Escapes <=> DropsAt(Read, p))
<1>1. /\ Len(Read) \in Nat
      /\ \A i \in 1 .. Len(Read) : Read[i] # NUL /\ At(i) = Read[i]
      /\ At(Len(Read) + 1) = NUL
      /\ p \in 1 .. Len(Read) + 1
      /\ Ended <=> p = Len(Read) + 1
  BY ReadProperties
<1>2. ~Ended => p \in 1 .. Len(Read) /\ At(p) = Read[p]
  BY <1>1
<1>3. p \in 1 .. Len(Read) /\ At(p + 1) # NUL
        => p < Len(Read) /\ At(p + 1) = Read[p + 1]
  BY <1>1
<1>4. EndOfWord <=> p = Len(Read) + 1 \/ Read[p] \in {Blank, Tab}
  BY <1>1, <1>2 DEF EndOfWord, Separators
<1>5. p \in 1 .. Len(Read) => (Escapes <=> DropsAt(Read, p))
  <2>1. CASE p = Len(Read)
    <3>1. At(p + 1) = NUL /\ NUL # Blank /\ ~(p < Len(Read))
      BY <1>1, <2>1 DEF Blank, NUL
    <3>2. QED
      BY <3>1 DEF Escapes, DropsAt
  <2>2. CASE p \in 1 .. Len(Read) /\ p < Len(Read)
    <3>1. p + 1 \in 1 .. Len(Read)
      BY <1>1, <2>2
    <3>2. QED
      BY <1>1, <2>2, <3>1 DEF Escapes, DropsAt
  <2>3. QED
    BY <1>1, <2>1, <2>2
<1>6. QED
  BY <1>2, <1>3, <1>4, <1>5

-----------------------------------------------------------------------------
(* No word begins at a character that the parser skips.                    *)
LEMMA SkipWords ==
  ASSUME IInv, WordsInv, Skip
  PROVE  WordsInv'
<1>1. /\ pc = "skip" /\ ~Ended /\ At(p) \in Space /\ p' = p + 1
      /\ UNCHANGED <<form, text, pc, top, space_arg, argv>>
  BY DEF Skip
<1>2. Read' = Read
  BY <1>1, ReadStays
<1>3. /\ Len(Read) \in Nat /\ p \in 1 .. Len(Read) /\ Read[p] \in {Blank, Tab, VTab}
  BY <1>1, AtPosition, ReadProperties DEF Space
<1>4. BreakAt(Read, p) \/ Gap(Read, p)
  BY <1>1, <1>3 DEF WordsInv, Between
<1>5. ASSUME Gap(Read, p), ~BreakAt(Read, p) PROVE Read[p] = VTab
  <2>1. PICK b \in 0 .. p - 1 : /\ b = 0 \/ BreakAt(Read, b)
                                /\ \A j \in b + 1 .. p - 1 : Read[j] = VTab
    BY <1>5 DEF Gap
  <2>2. p = 1 \/ BreakAt(Read, p - 1) \/ Read[p - 1] = VTab
    BY <1>3, <2>1
  <2>3. p = 1 \/ Read[p - 1] # Backslash
    BY <2>2 DEF BreakAt, VTab, Tab, Blank, Backslash
  <2>4. ~EscapedAt(Read, p)
    BY <1>3, <2>3 DEF EscapedAt
  <2>5. QED
    BY <1>3, <1>5, <2>4 DEF BreakAt
<1>6. p \notin Starts(Read)
  BY <1>4, <1>5 DEF Starts, StartsWord
<1>7. StartsBefore(Read, p + 1) = StartsBefore(Read, p)
  BY <1>3, <1>6 DEF StartsBefore, Starts
<1>8. Gap(Read, p + 1)
  <2>1. CASE BreakAt(Read, p)
    BY <1>3, <2>1 DEF Gap
  <2>2. CASE ~BreakAt(Read, p)
    <3>1. PICK b \in 0 .. p - 1 : /\ b = 0 \/ BreakAt(Read, b)
                                  /\ \A j \in b + 1 .. p - 1 : Read[j] = VTab
      BY <1>4, <2>2 DEF Gap
    <3>2. b \in 0 .. (p + 1) - 1 /\ \A j \in b + 1 .. (p + 1) - 1 : Read[j] = VTab
      BY <1>3, <1>4, <1>5, <2>2, <3>1
    <3>3. QED
      BY <3>1, <3>2 DEF Gap
  <2>3. QED
    BY <2>1, <2>2
<1>9. Between'
  BY <1>1, <1>2, <1>7, <1>8 DEF WordsInv, Between
<1>10. QED
  BY <1>1, <1>9 DEF WordsInv

(* A word begins where the parser leaves what it skips.                    *)
LEMMA BeginWords ==
  ASSUME IInv, WordsInv, Begin
  PROVE  WordsInv'
<1>1. /\ pc = "skip" /\ ~Ended /\ At(p) \notin Space
      /\ pc' = "word" /\ top' = p /\ space_arg' = <<>>
      /\ UNCHANGED <<form, text, p, argv>>
  BY DEF Begin
<1>2. Read' = Read
  BY <1>1, ReadStays
<1>3. /\ Len(Read) \in Nat /\ p \in 1 .. Len(Read)
      /\ Read[p] # Blank /\ Read[p] # Tab /\ Read[p] # VTab
  BY <1>1, AtPosition, ReadProperties DEF Space
<1>4. ~BreakAt(Read, p)
  BY <1>3 DEF BreakAt
<1>5. Gap(Read, p)
  BY <1>1, <1>3, <1>4 DEF WordsInv, Between
<1>6. p \in Starts(Read)
  BY <1>3, <1>4, <1>5 DEF Starts, StartsWord, Gap
<1>7. Taken(Read, p, p) = {}
  BY <1>3 DEF Taken
<1>8. Chars(Read, {}) = <<>>
  BY AscendingEmpty DEF Chars
<1>9. Within(p)'
  BY <1>1, <1>2, <1>3, <1>6, <1>7, <1>8 DEF Within, WordsInv, Between
<1>10. QED
  BY <1>1, <1>3, <1>9 DEF WordsInv

(* A character that is kept where it is.                                   *)
LEMMA AdvanceWords ==
  ASSUME IInv, WordsInv, Advance
  PROVE  WordsInv'
<1>1. /\ pc = "word" /\ ~EndOfWord /\ ~Escapes /\ p' = p + 1
      /\ UNCHANGED <<form, text, pc, top, space_arg, argv>>
  BY DEF Advance
<1>2. Read' = Read
  BY <1>1, ReadStays
<1>3. PICK s \in 1 .. p : Within(s)
  BY <1>1 DEF WordsInv
<1>4. /\ Len(Read) \in Nat /\ p \in 1 .. Len(Read) + 1 /\ top \in Nat /\ top <= p
  BY ReadProperties DEF IInv, TypeOK, InBounds
<1>5. /\ p \in 1 .. Len(Read) /\ Read[p] # Blank /\ Read[p] # Tab
      /\ ~DropsAt(Read, p)
  BY <1>1, <1>4, AtPosition
<1>6. ~BreakAt(Read, p)
  BY <1>5 DEF BreakAt
<1>7. p + 1 <= Len(Read) /\ Read[p + 1] = Blank => BreakAt(Read, p + 1)
  BY <1>4, <1>5 DEF BreakAt, EscapedAt, DropsAt
<1>8. /\ \A j \in s .. (p + 1) - 1 : ~BreakAt(Read, j)
      /\ \A j \in top .. (p + 1) - 1 : ~DropsAt(Read, j)
  BY <1>3, <1>4, <1>5, <1>6 DEF Within
<1>9. Within(s)'
  BY <1>1, <1>2, <1>3, <1>7, <1>8 DEF Within
<1>10. s \in 1 .. p'
  BY <1>1, <1>4
<1>11. QED
  BY <1>1, <1>9, <1>10 DEF WordsInv

(* The piece between top and p is added to what the word has.              *)
LEMMA PieceIsTaken ==
  ASSUME IInv, NEW s \in 1 .. p, Within(s)
  PROVE  space_arg \o Piece = Chars(Read, Taken(Read, s, p))
<1>1. /\ Len(Read) \in Nat /\ p \in 1 .. Len(Read) + 1 /\ top \in 1 .. p /\ s <= top
      /\ Read \in Seq(Char) /\ Len(Read) <= Len(text) /\ Len(text) \in Nat
      /\ \A i \in 1 .. Len(Read) : Read[i] = text[i]
      /\ \A i \in 1 .. Len(text) : text[i] \in Char
  BY ReadProperties, LenProperties, ElementOfSeq DEF IInv, TypeOK, InBounds, Within
<1>2. Taken(Read, s, p) = Taken(Read, s, top) \cup (top .. p - 1)
  BY <1>1 DEF Taken, Within
<1>3. /\ Taken(Read, s, top) \in SUBSET (1 .. Len(Read))
      /\ top .. p - 1 \in SUBSET (1 .. Len(Read))
      /\ \A x \in Taken(Read, s, top) : \A y \in top .. p - 1 : x < y
  BY <1>1 DEF Taken
<1>4. Chars(Read, Taken(Read, s, p)) = Chars(Read, Taken(Read, s, top)) \o Chars(Read, top .. p - 1)
  <2> DEFINE S == Taken(Read, s, top)
             T == top .. p - 1
  <2>1. /\ S \in SUBSET (1 .. Len(Read)) /\ T \in SUBSET (1 .. Len(Read))
        /\ \A x \in S : \A y \in T : x < y
    BY <1>3
  <2> HIDE DEF S, T
  <2>2. Chars(Read, S \cup T) = Chars(Read, S) \o Chars(Read, T)
    BY <1>1, <2>1, CharsJoin
  <2>3. QED
    BY <1>2, <2>2 DEF S, T
<1>5. Chars(Read, top .. p - 1) = SubSeq(Read, top, p - 1)
  <2>1. top \in 1 .. Len(Read) + 1 /\ p - 1 \in 0 .. Len(Read) /\ (p - 1) + 1 >= top
    BY <1>1
  <2>2. QED
    BY <1>1, <2>1, CharsInterval
<1>6. SubSeq(Read, top, p - 1) = Piece
  <2>1. \A i \in top .. p - 1 : Read[i] = text[i] /\ text[i] \in Char
    BY <1>1
  <2> DEFINE n == IF top <= p - 1 THEN p - 1 - top + 1 ELSE 0
  <2>2. /\ Piece \in Seq(Char) /\ Len(Piece) = n
        /\ \A i \in 1 .. (p - 1) - top + 1 : Piece[i] = text[top + i - 1]
    BY <1>1, <2>1, SubSeqProperties DEF Piece
  <2>3. /\ SubSeq(Read, top, p - 1) \in Seq(Char) /\ Len(SubSeq(Read, top, p - 1)) = n
        /\ \A i \in 1 .. (p - 1) - top + 1 : SubSeq(Read, top, p - 1)[i] = Read[top + i - 1]
    BY <1>1, <2>1, SubSeqProperties
  <2>4. ASSUME NEW i \in 1 .. n PROVE SubSeq(Read, top, p - 1)[i] = Piece[i]
    <3>1. i \in 1 .. (p - 1) - top + 1 /\ top + i - 1 \in top .. p - 1
      BY <1>1
    <3>2. QED
      BY <2>1, <2>2, <2>3, <3>1
  <2> HIDE DEF n
  <2>5. QED
    BY <2>2, <2>3, <2>4, SeqEqual
<1>7. QED
  BY <1>4, <1>5, <1>6 DEF Within

(* An escape: the backslash is not taken, the blank is.                    *)
LEMMA EscapeWords ==
  ASSUME IInv, WordsInv, Escape
  PROVE  WordsInv'
<1>1. /\ pc = "word" /\ ~EndOfWord /\ Escapes
      /\ space_arg' = space_arg \o Piece
      /\ top' = p + 1 /\ p' = p + 2
      /\ UNCHANGED <<form, text, pc, argv>>
  BY DEF Escape
<1>2. Read' = Read
  BY <1>1, ReadStays
<1>3. PICK s \in 1 .. p : Within(s)
  BY <1>1 DEF WordsInv
<1>4. /\ Len(Read) \in Nat /\ p \in 1 .. Len(Read) + 1 /\ top \in Nat /\ top <= p
  BY ReadProperties DEF IInv, TypeOK, InBounds
<1>5. p \in 1 .. Len(Read) /\ DropsAt(Read, p)
  BY <1>1, <1>4, AtPosition
<1>6. Read[p] = Backslash /\ p + 1 <= Len(Read) /\ Read[p + 1] = Blank
  BY <1>4, <1>5 DEF DropsAt
<1>7. ~BreakAt(Read, p) /\ ~BreakAt(Read, p + 1) /\ ~DropsAt(Read, p + 1)
  <2>1. Backslash # Blank /\ Backslash # Tab /\ Blank # Tab
    BY DEF Backslash, Blank, Tab
  <2>2. (p + 1) - 1 = p /\ p + 1 > 1
    BY <1>4
  <2>3. EscapedAt(Read, p + 1)
    BY <1>6, <2>2 DEF EscapedAt
  <2>4. QED
    BY <1>6, <2>1, <2>3 DEF BreakAt, DropsAt
<1>8. \A j \in s .. (p + 2) - 1 : ~BreakAt(Read, j)
  BY <1>3, <1>4, <1>7 DEF Within
<1>9. \A j \in p + 1 .. (p + 2) - 1 : ~DropsAt(Read, j)
  BY <1>4, <1>7
<1>10. p + 2 <= Len(Read) /\ Read[p + 2] = Blank => BreakAt(Read, p + 2)
  <2>1. (p + 2) - 1 = p + 1 /\ Backslash # Blank
    BY <1>4 DEF Backslash, Blank
  <2>2. ~EscapedAt(Read, p + 2)
    BY <1>6, <2>1 DEF EscapedAt
  <2>3. QED
    BY <2>2 DEF BreakAt
<1>11. Taken(Read, s, p + 1) = Taken(Read, s, p)
  BY <1>4, <1>5 DEF Taken
<1>12. space_arg' = Chars(Read, Taken(Read, s, p + 1))
  BY <1>1, <1>3, <1>11, PieceIsTaken
<1>13. Within(s)'
  BY <1>1, <1>2, <1>3, <1>4, <1>8, <1>9, <1>10, <1>12 DEF Within
<1>14. s \in 1 .. p'
  BY <1>1, <1>4
<1>15. QED
  BY <1>1, <1>13, <1>14 DEF WordsInv

(* A word that ends is the one that its beginning makes, and none has      *)
(* begun inside it.                                                        *)
LEMMA EndWordWords ==
  ASSUME IInv, WordsInv, EndWord
  PROVE  WordsInv'
<1>1. /\ pc = "word" /\ EndOfWord /\ pc' = "skip"
      /\ argv' = Append(argv, space_arg \o Piece)
      /\ UNCHANGED <<form, text, p, top, space_arg>>
  BY DEF EndWord
<1>2. Read' = Read
  BY <1>1, ReadStays
<1>3. PICK s \in 1 .. p : Within(s)
  BY <1>1 DEF WordsInv
<1>4. Len(Read) \in Nat /\ p \in 1 .. Len(Read) + 1 /\ Read \in Seq(Char)
  BY ReadProperties
<1>5. p = Len(Read) + 1 \/ BreakAt(Read, p)
  <2>1. p = Len(Read) + 1 \/ Read[p] = Blank \/ Read[p] = Tab
    BY <1>1, AtPosition
  <2>2. QED
    BY <1>3, <1>4, <2>1 DEF BreakAt, Within
<1>6. s \in 1 .. Len(Read) /\ ~BreakAt(Read, s) /\ Read[s] # VTab
  BY <1>3 DEF Within, Starts, StartsWord
<1>7. s < p
  BY <1>4, <1>5, <1>6
<1>8. \A j \in s .. p - 1 : ~BreakAt(Read, j)
  BY <1>3 DEF Within
<1>9. WordAt(Read, s) = s .. p - 1
  <2>1. ASSUME NEW j \in s .. Len(Read), ~(j <= p - 1)
        PROVE  ~(\A l \in s .. j : ~BreakAt(Read, l))
    <3>1. p \in s .. j /\ p # Len(Read) + 1
      BY <1>4, <1>6, <1>7, <2>1
    <3>2. QED
      BY <1>5, <3>1
  <2>2. ASSUME NEW j \in s .. p - 1
        PROVE  j \in s .. Len(Read) /\ \A l \in s .. j : ~BreakAt(Read, l)
    BY <1>4, <1>8
  <2>3. WordAt(Read, s) = {j \in s .. Len(Read) : \A l \in s .. j : ~BreakAt(Read, l)}
    BY DEF WordAt
  <2>4. ASSUME NEW j \in WordAt(Read, s) PROVE j \in s .. p - 1
    BY <1>4, <1>6, <2>1, <2>3, <2>4
  <2>5. QED
    BY <2>2, <2>3, <2>4
<1>10. Kept(Read, s) = Taken(Read, s, p)
  BY <1>9 DEF Kept, Taken
<1>11. ASSUME NEW i \in Starts(Read), s < i, i < p PROVE FALSE
  <2>1. PICK b \in 0 .. i - 1 : /\ b = 0 \/ BreakAt(Read, b)
                                /\ \A j \in b + 1 .. i - 1 : Read[j] = VTab
    BY <1>11 DEF Starts, StartsWord
  <2>2. i \in Nat
    BY DEF Starts
  <2>3. CASE b < s
    <3>1. s \in b + 1 .. i - 1
      BY <1>11, <2>2, <2>3
    <3>2. QED
      BY <1>6, <2>1, <3>1
  <2>4. CASE ~(b < s)
    <3>1. b \in s .. p - 1 /\ b # 0
      BY <1>4, <1>6, <1>11, <2>2, <2>4
    <3>2. QED
      BY <1>8, <2>1, <3>1
  <2>5. QED
    BY <2>3, <2>4
<1>12. StartsBefore(Read, p) = StartsBefore(Read, s) \cup {s}
  <2>1. s \in Starts(Read) /\ \A i \in Starts(Read) : i \in Nat
    BY <1>3 DEF Within, Starts
  <2>2. \A i \in Starts(Read) : i < p => i < s \/ i = s
    BY <1>4, <1>6, <1>11, <2>1
  <2>3. \A i \in Starts(Read) : i < s => i < p
    BY <1>4, <1>6, <1>7, <2>1
  <2>4. QED
    BY <1>7, <2>1, <2>2, <2>3 DEF StartsBefore
<1>13. argv' = WordsAt(Read, StartsBefore(Read, p))
  <2> DEFINE S == StartsBefore(Read, s)
  <2>1. S \in SUBSET (1 .. Len(Read)) /\ \A y \in S : y < s
    BY DEF StartsBefore, Starts
  <2> HIDE DEF S
  <2>2. WordsAt(Read, S \cup {s}) = Append(WordsAt(Read, S), Chars(Read, Kept(Read, s)))
    BY <1>4, <1>6, <2>1, WordsAppend
  <2>3. space_arg \o Piece = Chars(Read, Kept(Read, s))
    BY <1>3, <1>10, PieceIsTaken
  <2>4. argv = WordsAt(Read, S)
    BY <1>3 DEF Within, S
  <2>5. QED
    BY <1>1, <1>12, <2>2, <2>3, <2>4 DEF S
<1>14. Between'
  BY <1>1, <1>2, <1>5, <1>13 DEF Between
<1>15. QED
  BY <1>1, <1>14 DEF WordsInv

LEMMA InitWords == Init => WordsInv
<1> SUFFICES ASSUME Init PROVE WordsInv
  OBVIOUS
<1>1. pc = "skip" /\ p = 1 /\ argv = <<>>
  BY DEF Init
<1>2. /\ Read \in Seq(Char) /\ Len(Read) \in Nat
  BY InitIInv, ReadProperties
<1>3. StartsBefore(Read, 1) = {}
  BY <1>2 DEF StartsBefore, Starts
<1>4. WordsAt(Read, {}) = <<>>
  BY AscendingEmpty DEF WordsAt
<1>5. Gap(Read, 1)
  BY DEF Gap
<1>6. QED
  BY <1>1, <1>3, <1>4, <1>5 DEF WordsInv, Between

LEMMA StepWords == IInv /\ WordsInv /\ [Next]_vars => WordsInv'
<1> SUFFICES ASSUME IInv, WordsInv, [Next]_vars PROVE WordsInv'
  OBVIOUS
<1>1. CASE Done \/ UNCHANGED vars
  <2>1. /\ UNCHANGED <<form, text, p, top, space_arg, argv>>
        /\ pc' = pc \/ (pc = "skip" /\ pc' = "done" /\ Ended)
    BY <1>1 DEF Done, vars
  <2>2. Read' = Read
    BY <2>1, ReadStays
  <2>3. \A s : Within(s)' = Within(s)
    BY <2>1, <2>2 DEF Within
  <2>4. Between' = Between
    BY <2>1, <2>2 DEF Between
  <2>5. Ended => p = Len(Read) + 1
    BY ReadProperties
  <2>6. QED
    BY <2>1, <2>2, <2>3, <2>4, <2>5 DEF WordsInv
<1>2. QED
  BY <1>1, SkipWords, BeginWords, AdvanceWords, EscapeWords, EndWordWords DEF Next

(* When the parser is done it has all the words of what it read.           *)
LEMMA AllWords == IInv /\ WordsInv => WordsOfLine
<1> SUFFICES ASSUME IInv, WordsInv, pc = "done" PROVE argv = Words(Read)
  BY DEF WordsOfLine
<1>1. p = Len(Read) + 1 /\ argv = WordsAt(Read, StartsBefore(Read, p))
  BY DEF WordsInv, Between
<1>2. Len(Read) \in Nat
  BY ReadProperties
<1>3. StartsBefore(Read, p) = Starts(Read)
  BY <1>1, <1>2 DEF StartsBefore, Starts
<1>4. QED
  BY <1>1, <1>3 DEF Words, WordsAt

(* Both forms of process() split every line into its words.                *)
THEOREM LinesAreSplit == Spec => []WordsOfLine
<1>1. Init => IInv /\ WordsInv
  BY InitIInv, InitWords
<1>2. IInv /\ WordsInv /\ [Next]_vars => IInv' /\ WordsInv'
  BY StepIInv, StepWords
<1>3. QED
  BY <1>1, <1>2, AllWords, PTL DEF Spec

-----------------------------------------------------------------------------
(* The line that a command and a name are passed on in.                    *)
PassedOn(v) == <<Letter>> \o <<Blank>> \o v

LEMMA PassedOnChars ==
  ASSUME NEW v \in Seq(Char)
  PROVE  /\ PassedOn(v) \in Seq(Char) /\ Len(PassedOn(v)) = Len(v) + 2
         /\ PassedOn(v)[1] = Letter /\ PassedOn(v)[2] = Blank
         /\ \A i \in 1 .. Len(v) : PassedOn(v)[i + 2] = v[i]
<1> DEFINE a == <<Letter>>
           b == <<Blank>>
<1>1. a \in Seq(Char) /\ Len(a) = 1 /\ a[1] = Letter
  BY DEF Char
<1>2. b \in Seq(Char) /\ Len(b) = 1 /\ b[1] = Blank
  BY DEF Char
<1>3. Len(v) \in Nat
  BY LenProperties
<1> HIDE DEF a, b
<1>4. /\ a \o b \in Seq(Char) /\ Len(a \o b) = 1 + 1
      /\ (a \o b)[1] = Letter /\ (a \o b)[2] = Blank
  <2>1. /\ a \o b \in Seq(Char) /\ Len(a \o b) = Len(a) + Len(b)
        /\ \A i \in 1 .. Len(a) + Len(b) :
             (a \o b)[i] = IF i <= Len(a) THEN a[i] ELSE b[i - Len(a)]
    BY <1>1, <1>2, ConcatProperties
  <2>2. QED
    BY <1>1, <1>2, <2>1
<1> DEFINE c == a \o b
<1>5. c \in Seq(Char) /\ Len(c) = 2 /\ c[1] = Letter /\ c[2] = Blank
  BY <1>4
<1> HIDE DEF c
<1>6. /\ c \o v \in Seq(Char) /\ Len(c \o v) = Len(c) + Len(v)
      /\ \A i \in 1 .. Len(c) + Len(v) :
           (c \o v)[i] = IF i <= Len(c) THEN c[i] ELSE v[i - Len(c)]
  BY <1>5, ConcatProperties
<1>7. /\ Len(c \o v) = Len(v) + 2
      /\ \A i \in 1 .. Len(v) + 2 : (c \o v)[i] = IF i <= 2 THEN c[i] ELSE v[i - 2]
  BY <1>3, <1>5, <1>6
<1>8. \A i \in 1 .. Len(v) : i + 2 \in 1 .. Len(v) + 2 /\ ~(i + 2 <= 2) /\ (i + 2) - 2 = i
  BY <1>3
<1>9. \A i \in 1 .. Len(v) : (c \o v)[i + 2] = v[i]
  BY <1>7, <1>8
<1>10. (c \o v)[1] = Letter /\ (c \o v)[2] = Blank
  BY <1>3, <1>5, <1>7
<1>11. PassedOn(v) = c \o v
  BY DEF PassedOn, a, b, c
<1>12. QED
  BY <1>6, <1>7, <1>9, <1>10, <1>11

(* Without a blank in it a name is a word again.                           *)
LEMMA PlainNamesPass ==
  ASSUME NEW v \in Seq(Char), Len(v) # 0, v[1] # VTab,
         \A i \in 1 .. Len(v) : v[i] # Tab /\ v[i] # Blank
  PROVE  Words(PassedOn(v)) = <<<<Letter>>, v>>
<1> DEFINE u == PassedOn(v)
           n == Len(v)
<1>1. /\ u \in Seq(Char) /\ Len(u) = n + 2 /\ n \in Nat \ {0}
      /\ u[1] = Letter /\ u[2] = Blank
      /\ \A i \in 1 .. n : u[i + 2] = v[i]
  BY PassedOnChars, LenProperties
<1> HIDE DEF u
<1>2. \A i \in 3 .. n + 2 : u[i] = v[i - 2] /\ u[i] # Tab /\ u[i] # Blank
  <2>1. ASSUME NEW i \in 3 .. n + 2 PROVE u[i] = v[i - 2] /\ u[i] # Tab /\ u[i] # Blank
    <3>1. i - 2 \in 1 .. n /\ (i - 2) + 2 = i
      BY <1>1
    <3>2. u[(i - 2) + 2] = v[i - 2]
      BY <1>1, <3>1
    <3>3. QED
      BY <3>1, <3>2
  <2>2. QED
    BY <2>1
<1>3. u[3] = v[1] /\ u[3] # VTab
  BY <1>1, <1>2
<1>4. Letter \notin {Blank, Tab, VTab, Backslash} /\ Blank # VTab
  BY DEF Letter, Blank, Tab, VTab, Backslash
<1>5. /\ ~BreakAt(u, 1) /\ BreakAt(u, 2) /\ u[1] # VTab
      /\ \A i \in 3 .. n + 2 : ~BreakAt(u, i)
  BY <1>1, <1>2, <1>4 DEF BreakAt, EscapedAt
<1>6. StartsWord(u, 1) /\ StartsWord(u, 3) /\ ~StartsWord(u, 2)
  <2>1. StartsWord(u, 1)
    <3>1. 0 \in 0 .. 1 - 1 /\ \A j \in 0 + 1 .. 1 - 1 : u[j] = VTab
      OBVIOUS
    <3>2. QED
      BY <1>5, <3>1 DEF StartsWord
  <2>2. StartsWord(u, 3)
    <3>1. 2 \in 0 .. 3 - 1 /\ \A j \in 2 + 1 .. 3 - 1 : u[j] = VTab
      OBVIOUS
    <3>2. ~BreakAt(u, 3)
      BY <1>1, <1>5
    <3>3. QED
      BY <1>3, <1>5, <3>1, <3>2 DEF StartsWord
  <2>3. QED
    BY <1>5, <2>1, <2>2 DEF StartsWord
<1>7. ASSUME NEW i \in 4 .. n + 2, StartsWord(u, i) PROVE FALSE
  <2>1. PICK b \in 0 .. i - 1 : /\ b = 0 \/ BreakAt(u, b)
                                /\ \A j \in b + 1 .. i - 1 : u[j] = VTab
    BY <1>7 DEF StartsWord
  <2>2. b = 0 \/ b = 2
    <3>1. b \in 3 .. n + 2 \/ b = 0 \/ b = 1 \/ b = 2
      BY <1>1, <1>7
    <3>2. QED
      BY <1>5, <2>1, <3>1
  <2>3. CASE b = 0
    BY <1>5, <1>7, <2>1, <2>3
  <2>4. CASE b = 2
    BY <1>3, <1>7, <2>1, <2>4
  <2>5. QED
    BY <2>2, <2>3, <2>4
<1>8. Starts(u) = {1} \cup {3}
  <2>1. \A i \in 1 .. n + 2 : i = 1 \/ i = 2 \/ i = 3 \/ i \in 4 .. n + 2
    BY <1>1
  <2>2. 1 \in 1 .. n + 2 /\ 3 \in 1 .. n + 2
    BY <1>1
  <2>3. Starts(u) = {i \in 1 .. n + 2 : StartsWord(u, i)}
    BY <1>1 DEF Starts
  <2>4. QED
    BY <1>6, <1>7, <2>1, <2>2, <2>3
<1>9. Kept(u, 1) = 1 .. 1
  <2>1. ASSUME NEW j \in WordAt(u, 1) PROVE j = 1
    <3>1. j \in 1 .. n + 2 /\ \A l \in 1 .. j : ~BreakAt(u, l)
      BY <1>1 DEF WordAt
    <3>2. ~(2 \in 1 .. j)
      BY <1>5, <3>1
    <3>3. QED
      BY <3>1, <3>2
  <2>2. 1 \in WordAt(u, 1)
    <3>1. 1 \in 1 .. Len(u) /\ \A l \in 1 .. 1 : ~BreakAt(u, l)
      BY <1>1, <1>5
    <3>2. QED
      BY <3>1 DEF WordAt
  <2>3. ~DropsAt(u, 1)
    BY <1>1, <1>4 DEF DropsAt
  <2>4. QED
    BY <2>1, <2>2, <2>3 DEF Kept
<1>10. Kept(u, 3) = 3 .. n + 2
  <2>1. WordAt(u, 3) = 3 .. n + 2
    BY <1>1, <1>5 DEF WordAt
  <2>2. \A j \in 3 .. n + 2 : ~DropsAt(u, j)
    <3>1. ASSUME NEW j \in 3 .. n + 2, j < n + 2 PROVE u[j + 1] # Blank
      <4>1. j + 1 \in 3 .. n + 2
        BY <1>1, <3>1
      <4>2. QED
        BY <1>2, <4>1
    <3>2. QED
      BY <1>1, <3>1 DEF DropsAt
  <2>3. QED
    BY <2>1, <2>2 DEF Kept
<1>11. Chars(u, 1 .. 1) = <<Letter>>
  <2>1. 1 \in 1 .. Len(u) + 1 /\ 1 \in 0 .. Len(u) /\ 1 + 1 >= 1
    BY <1>1
  <2>2. Chars(u, 1 .. 1) = SubSeq(u, 1, 1)
    BY <1>1, <2>1, CharsInterval
  <2>3. u[1] \in Char /\ \A i \in 1 .. 1 : u[i] \in Char
    BY <1>1, ElementOfSeq
  <2>4. /\ SubSeq(u, 1, 1) \in Seq(Char)
        /\ Len(SubSeq(u, 1, 1)) = IF 1 <= 1 THEN 1 - 1 + 1 ELSE 0
        /\ \A i \in 1 .. 1 - 1 + 1 : SubSeq(u, 1, 1)[i] = u[1 + i - 1]
    BY <2>3, SubSeqProperties
  <2>5. Len(SubSeq(u, 1, 1)) = 1 /\ SubSeq(u, 1, 1)[1] = Letter
    BY <1>1, <2>4
  <2>6. <<Letter>> \in Seq(Char) /\ Len(<<Letter>>) = 1 /\ <<Letter>>[1] = Letter
    BY <1>1, <2>3
  <2>7. \A i \in 1 .. 1 : SubSeq(u, 1, 1)[i] = <<Letter>>[i]
    BY <2>5, <2>6
  <2>8. SubSeq(u, 1, 1) = <<Letter>>
    BY <2>4, <2>5, <2>6, <2>7, SeqEqual
  <2>9. QED
    BY <2>2, <2>8
<1>12. Chars(u, 3 .. n + 2) = v
  <2>1. 3 \in 1 .. Len(u) + 1 /\ n + 2 \in 0 .. Len(u) /\ (n + 2) + 1 >= 3
    BY <1>1
  <2>2. Chars(u, 3 .. n + 2) = SubSeq(u, 3, n + 2)
    BY <1>1, <2>1, CharsInterval
  <2>3. \A i \in 3 .. n + 2 : u[i] \in Char
    BY <1>1, ElementOfSeq
  <2>4. /\ SubSeq(u, 3, n + 2) \in Seq(Char)
        /\ Len(SubSeq(u, 3, n + 2)) = IF 3 <= n + 2 THEN n + 2 - 3 + 1 ELSE 0
        /\ \A i \in 1 .. n + 2 - 3 + 1 : SubSeq(u, 3, n + 2)[i] = u[3 + i - 1]
    BY <1>1, <2>3, SubSeqProperties
  <2>5. Len(SubSeq(u, 3, n + 2)) = n
    BY <1>1, <2>4
  <2>6. ASSUME NEW i \in 1 .. n PROVE SubSeq(u, 3, n + 2)[i] = v[i]
    <3>1. i \in 1 .. n + 2 - 3 + 1 /\ 3 + i - 1 = i + 2
      BY <1>1
    <3>2. QED
      BY <1>1, <2>4, <3>1
  <2>7. SubSeq(u, 3, n + 2) = v
    BY <2>4, <2>5, <2>6, SeqEqual
  <2>8. QED
    BY <2>2, <2>7
<1>13. WordsAt(u, {1}) = <<<<Letter>>>>
  <2>1. {} \in SUBSET (1 .. Len(u)) /\ 1 \in 1 .. Len(u) /\ \A y \in {} : y < 1
    BY <1>1
  <2>2. WordsAt(u, {} \cup {1}) = Append(WordsAt(u, {}), Chars(u, Kept(u, 1)))
    BY <1>1, <2>1, WordsAppend
  <2>3. WordsAt(u, {}) = <<>>
    BY AscendingEmpty DEF WordsAt
  <2>4. {} \cup {1} = {1}
    OBVIOUS
  <2>5. WordsAt(u, {1}) = Append(<<>>, <<Letter>>)
    BY <1>9, <1>11, <2>2, <2>3, <2>4
  <2>6. QED
    BY <2>5
<1>14. WordsAt(u, {1} \cup {3}) = Append(WordsAt(u, {1}), v)
  <2> DEFINE S == {1}
  <2>1. S \in SUBSET (1 .. Len(u)) /\ 3 \in 1 .. Len(u) /\ \A y \in S : y < 3
    BY <1>1
  <2> HIDE DEF S
  <2>2. WordsAt(u, S \cup {3}) = Append(WordsAt(u, S), Chars(u, Kept(u, 3)))
    BY <1>1, <2>1, WordsAppend
  <2>3. QED
    BY <1>10, <1>12, <2>2 DEF S
<1>15. Words(u) = WordsAt(u, {1} \cup {3})
  BY <1>8 DEF Words, WordsAt
<1>16. Append(<<<<Letter>>>>, v) = <<<<Letter>>, v>>
  <2> DEFINE a == <<Letter>>
  <2>1. a \in Seq(Char)
    BY DEF Char
  <2> HIDE DEF a
  <2>2. <<a>> \in Seq(Seq(Char)) /\ Len(<<a>>) = 1 /\ <<a>>[1] = a
    BY <2>1
  <2>3. /\ <<a, v>> \in Seq(Seq(Char)) /\ Len(<<a, v>>) = 2
        /\ <<a, v>>[1] = a /\ <<a, v>>[2] = v
    BY <2>1
  <2>4. /\ Append(<<a>>, v) \in Seq(Seq(Char)) /\ Len(Append(<<a>>, v)) = Len(<<a>>) + 1
        /\ \A i \in 1 .. Len(<<a>>) : Append(<<a>>, v)[i] = <<a>>[i]
        /\ Append(<<a>>, v)[Len(<<a>>) + 1] = v
    BY <2>2, AppendProperties
  <2>5. /\ Len(Append(<<a>>, v)) = 2
        /\ Append(<<a>>, v)[1] = a /\ Append(<<a>>, v)[2] = v
    BY <2>2, <2>4
  <2>6. \A i \in 1 .. 2 : Append(<<a>>, v)[i] = <<a, v>>[i]
    BY <2>3, <2>5
  <2>7. QED
    BY <2>3, <2>4, <2>5, <2>6, SeqEqual DEF a
<1>17. QED
  BY <1>13, <1>14, <1>15, <1>16 DEF u

(* With a blank in it a name is not the second of two words: it would have *)
(* all the characters behind the command, but the blank is either a break  *)
(* or makes the backslash before it go.                                    *)
LEMMA NamesWithBlanksDoNot ==
  ASSUME NEW v \in Seq(Char), NEW i \in 1 .. Len(v), v[i] = Blank
  PROVE  Words(PassedOn(v)) # <<<<Letter>>, v>>
<1> SUFFICES ASSUME Words(PassedOn(v)) = <<<<Letter>>, v>> PROVE FALSE
  OBVIOUS
<1> DEFINE u == PassedOn(v)
           n == Len(v)
           S == Starts(u)
<1>1. /\ u \in Seq(Char) /\ Len(u) = n + 2 /\ n \in Nat
      /\ u[1] = Letter /\ u[2] = Blank
      /\ \A k \in 1 .. n : u[k + 2] = v[k]
  BY PassedOnChars, LenProperties
<1> HIDE DEF u
<1>2. S \in SUBSET (1 .. Len(u))
  BY DEF Starts
<1>3. WordsAt(u, S) = <<<<Letter>>, v>>
  BY DEF Words, WordsAt, u
<1> HIDE DEF S
<1> DEFINE o == Ascending(S)
<1>4. Cardinality(S) = 2 /\ WordsAt(u, S)[2] = Chars(u, Kept(u, o[2])) /\ o[2] \in S
  <2>1. /\ Len(WordsAt(u, S)) = Cardinality(S)
        /\ \A k \in 1 .. Cardinality(S) :
             o[k] \in S /\ WordsAt(u, S)[k] = Chars(u, Kept(u, o[k]))
    BY <1>1, <1>2, WordsProperties
  <2>2. Cardinality(S) = 2
    BY <1>3, <2>1
  <2>3. QED
    BY <2>1, <2>2
<1>5. o[1] < o[2] /\ o[1] \in 1 .. n + 2 /\ o[2] \in 1 .. n + 2
  <2>1. Enumerates(o, 2, S)
    <3>1. Len(u) \in Nat
      BY <1>1
    <3>2. Enumerates(o, Cardinality(S), S)
      BY <1>2, <3>1, AscendingProperties
    <3>3. QED
      BY <1>4, <3>2
  <2>2. 1 \in 1 .. 2 /\ 2 \in 1 .. 2 /\ 1 < 2 /\ \A x \in S : x \in 1 .. n + 2
    BY <1>1, <1>2
  <2> HIDE DEF o
  <2>3. o[1] < o[2] /\ o[1] \in S /\ o[2] \in S
    BY <2>1, <2>2 DEF Enumerates
  <2>4. QED
    BY <2>2, <2>3
<1> HIDE DEF o
<1>6. o[2] \in 3 .. n + 2
  <2>1. Blank # Tab /\ Blank # Letter /\ Letter # Backslash
    BY DEF Blank, Tab, Letter, Backslash
  <2>2. BreakAt(u, 2)
    BY <1>1, <2>1 DEF BreakAt, EscapedAt
  <2>3. 2 \notin S
    BY <2>2 DEF S, Starts, StartsWord
  <2>4. o[2] # 2
    BY <1>4, <2>3
  <2>5. QED
    BY <1>1, <1>5, <2>4
<1> DEFINE K == Kept(u, o[2])
<1>7. K \in SUBSET (1 .. Len(u)) /\ K \in SUBSET (3 .. n + 2)
  <2>1. o[2] \in 1 .. Len(u)
    BY <1>1, <1>5
  <2>2. Kept(u, o[2]) \in SUBSET (1 .. Len(u)) /\ Kept(u, o[2]) \in SUBSET (o[2] .. Len(u))
    BY <1>1, <2>1, KeptPositions
  <2>3. \A x \in o[2] .. Len(u) : x \in 3 .. n + 2
    BY <1>1, <1>6
  <2>4. QED
    BY <2>2, <2>3
<1>8. Cardinality(K) = n
  <2>1. Chars(u, K) = v
    BY <1>3, <1>4
  <2> HIDE DEF K
  <2>2. Len(Chars(u, K)) = Cardinality(K)
    BY <1>1, <1>7, CharsProperties
  <2>3. QED
    BY <2>1, <2>2
<1>9. K = 3 .. n + 2
  <2>1. IsFiniteSet(3 .. n + 2) /\ Cardinality(3 .. n + 2) = IF 3 > n + 2 THEN 0 ELSE n + 2 - 3 + 1
    BY <1>1, FS_Interval
  <2>2. Cardinality(3 .. n + 2) = n
    BY <1>1, <2>1
  <2> HIDE DEF K
  <2>3. QED
    BY <1>7, <1>8, <2>1, <2>2, FS_Subset
<1>10. /\ i + 2 \in K /\ u[i + 2] = Blank
       /\ (i + 2) - 1 = i + 1 /\ i + 2 <= Len(u) /\ i + 2 > 1
  BY <1>1, <1>9
<1>11. ~BreakAt(u, i + 2)
  <2>1. i + 2 \in o[2] .. Len(u) /\ \A l \in o[2] .. i + 2 : ~BreakAt(u, l)
    BY <1>10 DEF Kept, WordAt
  <2>2. i + 2 \in o[2] .. i + 2
    BY <1>1, <1>6, <2>1
  <2>3. QED
    BY <2>1, <2>2
<1>12. u[i + 1] = Backslash
  <2>1. EscapedAt(u, i + 2)
    BY <1>10, <1>11 DEF BreakAt
  <2>2. QED
    BY <1>10, <2>1 DEF EscapedAt
<1>13. i + 1 \in K
  <2>1. Backslash # Blank
    BY DEF Backslash, Blank
  <2>2. i + 1 # 2
    BY <1>1, <1>12, <2>1
  <2>3. QED
    BY <1>1, <1>9, <2>2
<1>14. DropsAt(u, i + 1)
  <2>1. i + 1 < Len(u) /\ (i + 1) + 1 = i + 2
    BY <1>1
  <2>2. QED
    BY <1>10, <1>12, <2>1 DEF DropsAt
<1>15. QED
  BY <1>13, <1>14 DEF Kept

(* The characters of a word: no tabulator, and unless it has a blank, at   *)
(* first the one that it begins at.                                        *)
LEMMA CharsOfWord ==
  ASSUME NEW t \in Seq(Char), NEW s \in Starts(t)
  PROVE  LET w == Chars(t, Kept(t, s))
         IN  /\ \A k \in 1 .. Len(w) : w[k] # Tab
             /\ (\A k \in 1 .. Len(w) : w[k] # Blank) => Len(w) # 0 /\ w[1] # VTab
<1> DEFINE w == Chars(t, Kept(t, s))
           K == Kept(t, s)
           o == Ascending(K)
           n == Cardinality(K)
<1>1. /\ Len(t) \in Nat /\ s \in 1 .. Len(t)
      /\ ~BreakAt(t, s) /\ t[s] # VTab
  BY LenProperties DEF Starts, StartsWord
<1>2. K \in SUBSET (1 .. Len(t)) /\ K \in SUBSET (s .. Len(t))
  BY <1>1, KeptPositions
<1>3. \A j \in K : ~BreakAt(t, j) /\ ~DropsAt(t, j)
  <2>1. ASSUME NEW j \in K PROVE ~BreakAt(t, j) /\ ~DropsAt(t, j)
    <3>1. j \in s .. Len(t) /\ (\A l \in s .. j : ~BreakAt(t, l)) /\ ~DropsAt(t, j)
      BY DEF Kept, WordAt
    <3>2. j \in s .. j
      BY <1>1, <3>1
    <3>3. QED
      BY <3>1, <3>2
  <2>2. QED
    BY <2>1
<1>4. /\ Len(w) = n /\ n \in Nat
      /\ \A k \in 1 .. n : o[k] \in K /\ w[k] = t[o[k]]
      /\ \A j \in K : \E k \in 1 .. n : w[k] = t[j]
  <2> HIDE DEF K
  <2>1. QED
    BY <1>2, CharsProperties DEF K
<1>5. Enumerates(o, n, K)
  <2> HIDE DEF K
  <2>1. QED
    BY <1>1, <1>2, AscendingProperties
<1>6. \A k \in 1 .. Len(w) : w[k] # Tab
  <2> HIDE DEF K, w, o, n
  <2>1. QED
    BY <1>3, <1>4 DEF BreakAt
<1>7. ASSUME \A k \in 1 .. Len(w) : w[k] # Blank
      PROVE  Len(w) # 0 /\ w[1] # VTab
  <2>1. s \in K
    <3>1. s \in WordAt(t, s)
      BY <1>1 DEF WordAt
    <3>2. ASSUME DropsAt(t, s) PROVE FALSE
      <4>1. t[s] = Backslash /\ s < Len(t) /\ t[s + 1] = Blank /\ (s + 1) - 1 = s /\ s + 1 > 1
        BY <1>1, <3>2 DEF DropsAt
      <4>2. Backslash # Blank /\ Blank # Tab
        BY DEF Backslash, Blank, Tab
      <4>3. EscapedAt(t, s + 1)
        BY <4>1 DEF EscapedAt
      <4>4. ~BreakAt(t, s + 1) /\ ~DropsAt(t, s + 1)
        BY <4>1, <4>2, <4>3 DEF BreakAt, DropsAt
      <4>5. s + 1 \in s .. Len(t) /\ \A l \in s .. s + 1 : ~BreakAt(t, l)
        BY <1>1, <4>1, <4>4
      <4>6. s + 1 \in K
        BY <4>4, <4>5 DEF Kept, WordAt
      <4>7. PICK k \in 1 .. n : w[k] = t[s + 1]
        BY <1>4, <4>6
      <4> HIDE DEF w, n, K
      <4>8. QED
        BY <1>4, <1>7, <4>1, <4>7
    <3>3. QED
      BY <3>1, <3>2 DEF Kept
  <2> HIDE DEF w, n, o, K
  <2>2. PICK k \in 1 .. n : o[k] = s
    BY <1>5, <2>1 DEF Enumerates
  <2>3. 1 \in 1 .. n /\ o[1] \in K /\ o[1] \in s .. Len(t)
    <3>1. 1 \in 1 .. n
      BY <1>4, <2>2
    <3>2. o[1] \in K
      BY <1>4, <3>1
    <3>3. QED
      BY <1>2, <3>1, <3>2
  <2>4. ~(1 < k)
    <3>1. 1 < k => o[1] < o[k]
      BY <1>5, <2>2, <2>3 DEF Enumerates
    <3>2. QED
      BY <1>1, <2>2, <2>3, <3>1
  <2>5. k = 1
    BY <1>4, <2>2, <2>4
  <2>6. QED
    BY <1>1, <1>4, <2>2, <2>3, <2>5
<1>8. QED
  BY <1>6, <1>7

(* A name passes from the client's command line to the server exactly when *)
(* it has no blank.                                                        *)
LEMMA NamesPass == IInv /\ WordsInv => Forwarded
<1> SUFFICES ASSUME IInv, WordsInv, pc = "done", Len(argv) = 2, argv[1] = <<Letter>>
             PROVE  Words(argv[1] \o <<Blank>> \o argv[2]) = argv
                      <=> Blank \notin Range(argv[2])
  BY DEF Forwarded
<1> DEFINE v == argv[2]
           S == Starts(Read)
<1>1. argv = WordsAt(Read, S)
  BY AllWords DEF WordsOfLine, Words, WordsAt
<1>2. Read \in Seq(Char)
  BY ReadProperties
<1>3. S \in SUBSET (1 .. Len(Read))
  BY DEF Starts
<1>4. PICK s \in Starts(Read) : v = Chars(Read, Kept(Read, s))
  <2>1. /\ Len(WordsAt(Read, S)) = Cardinality(S)
        /\ \A k \in 1 .. Cardinality(S) :
             /\ Ascending(S)[k] \in S
             /\ WordsAt(Read, S)[k] = Chars(Read, Kept(Read, Ascending(S)[k]))
    BY <1>2, <1>3, WordsProperties
  <2>2. Cardinality(S) = 2
    BY <1>1, <2>1
  <2>3. Ascending(S)[2] \in S /\ v = Chars(Read, Kept(Read, Ascending(S)[2]))
    BY <1>1, <2>1, <2>2
  <2>4. QED
    BY <2>3
<1>5. /\ v \in Seq(Char) /\ Len(v) \in Nat /\ DOMAIN v = 1 .. Len(v)
  <2>1. argv \in Seq(Seq(Char)) /\ 2 \in 1 .. Len(argv)
    BY DEF IInv, TypeOK
  <2>2. v \in Seq(Char)
    BY <2>1, ElementOfSeq
  <2> HIDE DEF v
  <2>3. QED
    BY <2>2, LenProperties
<1>6. argv = <<<<Letter>>, v>>
  <2>1. argv \in Seq(Seq(Char))
    BY DEF IInv, TypeOK
  <2>2. argv = <<argv[1], argv[2]>>
    <3>1. argv[1] \in Seq(Char) /\ argv[2] \in Seq(Char)
      <4>1. 1 \in 1 .. Len(argv) /\ 2 \in 1 .. Len(argv)
        OBVIOUS
      <4>2. QED
        BY <2>1, <4>1, ElementOfSeq
    <3> DEFINE pair == <<argv[1], argv[2]>>
    <3>2. pair \in Seq(Seq(Char)) /\ Len(pair) = 2 /\ pair[1] = argv[1] /\ pair[2] = argv[2]
      BY <3>1
    <3> HIDE DEF pair
    <3>3. \A i \in 1 .. 2 : argv[i] = pair[i]
      BY <3>2
    <3>4. argv = pair
      BY <2>1, <3>2, <3>3, SeqEqual
    <3>5. QED
      BY <3>4 DEF pair
  <2>3. QED
    BY <2>2
<1>7. /\ \A k \in 1 .. Len(v) : v[k] # Tab
      /\ (\A k \in 1 .. Len(v) : v[k] # Blank) => Len(v) # 0 /\ v[1] # VTab
  BY <1>2, <1>4, CharsOfWord
<1> HIDE DEF v
<1>8. argv[1] \o <<Blank>> \o argv[2] = PassedOn(v)
  BY DEF PassedOn, v
<1>9. ASSUME \A k \in 1 .. Len(v) : v[k] # Blank PROVE Words(PassedOn(v)) = argv
  <2>1. Words(PassedOn(v)) = <<<<Letter>>, v>>
    BY <1>5, <1>7, <1>9, PlainNamesPass
  <2>2. QED
    BY <1>6, <2>1
<1>10. ASSUME NEW k \in 1 .. Len(v), v[k] = Blank PROVE Words(PassedOn(v)) # argv
  <2>1. Words(PassedOn(v)) # <<<<Letter>>, v>>
    BY <1>5, <1>10, NamesWithBlanksDoNot
  <2>2. QED
    BY <1>6, <2>1
<1>11. Blank \notin Range(v) <=> \A k \in 1 .. Len(v) : v[k] # Blank
  BY <1>5 DEF Range
<1>12. QED
  BY <1>8, <1>9, <1>10, <1>11 DEF v

(* A name that the client passes on arrives exactly when it has no blank.  *)
THEOREM NamesAreForwarded == Spec => []Forwarded
<1>1. Init => IInv /\ WordsInv
  BY InitIInv, InitWords
<1>2. IInv /\ WordsInv /\ [Next]_vars => IInv' /\ WordsInv'
  BY StepIInv, StepWords
<1>3. QED
  BY <1>1, <1>2, NamesPass, PTL DEF Spec
=============================================================================

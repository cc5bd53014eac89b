----------------------------- MODULE BufferProofs -----------------------------
(***************************************************************************)
(* The two buffers that text is collected in.                              *)
(*                                                                         *)
(* How far buffer_t keeps what is written into it: for which lengths       *)
(* extend() makes the room that is missing, and for which the head         *)
(* survives the copy into the larger array.                                *)
(*                                                                         *)
(* And what becomes of standard input in the client's _command_str: every  *)
(* line that fits is used, and where blank lines come from.                *)
(***************************************************************************)
EXTENDS Buffer, ClientMain, SequenceTheorems, NaturalsInduction, WellFoundedInduction, TLAPS

(* The bodies that are written, and the sizes that grow out of them.       *)
WrittenLengths == Lengths \cup {HeadSize}
Fits(n) == n + 1 <= DefaultSize - HeadSize
Rooms == {DefaultSize - HeadSize} \cup {n + 1 : n \in {m \in WrittenLengths : ~Fits(m)}}

(* extend() makes room only when less is left than it is asked to add, so  *)
(* a body has to fit, or to be longer than twice the room there is.        *)
Doubling == \A n \in WrittenLengths : \A room \in Rooms : n + 1 <= room \/ n + 1 > 2 * room

(* strncpy() stops at the first '\0', so of a head that is copied only the *)
(* last bytes may be zero.                                                 *)
Solid ==
  \A n \in WrittenLengths : ~Fits(n) =>
    \A i \in 0 .. HeadSize - 1 : \A j \in 0 .. i : PackageHead(n)[j] = 0 => PackageHead(n)[i] = 0

SizeOK ==
  /\ size - HeadSize \in Rooms
  /\ touched <= size
  /\ write_idx <= size /\ read_idx <= write_idx

IInv == TypeOK /\ SizeOK

-----------------------------------------------------------------------------
LEMMA Sizes ==
  /\ HeadSize \in Nat \ {0} /\ Space \in Nat /\ Base \in Nat \ {0, 1} /\ DefaultSize \in Nat
  /\ HeadSize < DefaultSize /\ DefaultSize < Space
  /\ WrittenLengths \subseteq Nat
  /\ \A room \in Rooms : room \in Nat /\ room >= DefaultSize - HeadSize
<1>1. /\ HeadSize \in Nat \ {0} /\ Space \in Nat /\ Base \in Nat \ {0, 1} /\ DefaultSize \in Nat
      /\ HeadSize < DefaultSize /\ DefaultSize < Space
      /\ WrittenLengths \subseteq Nat
  BY BufferAssumption DEF WrittenLengths
<1>2. \A room \in Rooms : room \in Nat /\ room >= DefaultSize - HeadSize
  BY <1>1 DEF Rooms, Fits
<1>3. QED
  BY <1>1, <1>2

LEMMA HeadIsBytes ==
  ASSUME NEW n \in Nat
  PROVE  PackageHead(n) \in [0 .. HeadSize - 1 -> Byte]
<1>1. ASSUME NEW i \in 0 .. HeadSize - 1 PROVE (n \div Base ^ i) % Base \in Byte
  <2>1. PICK p \in Nat \ {0} : p = Base ^ i
    BY PowerAssumption
  <2>2. (n \div p) % Base \in 0 .. Base - 1
    BY Sizes
  <2>3. QED
    BY <2>1, <2>2 DEF Byte
<1>2. QED
  BY <1>1 DEF PackageHead

LEMMA SmallBytes == 0 \in Byte /\ Body \in Byte /\ Junk \in Byte
  BY Sizes DEF Byte, Body, Junk

(* What a write() leaves in the array, if it grows in time.                *)
LEMMA WrittenIs ==
  ASSUME Doubling, IInv, NEW n \in WrittenLengths, NEW body \in [0 .. n - 1 -> Byte],
         Written(n, body)
  PROVE  /\ IInv' /\ Asserted'
         /\ frame' = [length |-> n, body |-> body] /\ write_idx' = HeadSize + n
         /\ \A i \in 0 .. n - 1 : buff'[HeadSize + i] = body[i]
         /\ buff'[write_idx'] = 0
         /\ Solid => \A i \in 0 .. HeadSize - 1 : buff'[i] = PackageHead(n)[i]
<1> DEFINE headed == [i \in Addr |-> IF i < HeadSize THEN PackageHead(n)[i] ELSE buff[i]]
           room == size - HeadSize
           missing == Missing(n, room)
           e == IF n + 1 > room THEN Extended(missing, headed)
                                ELSE [size |-> size, buff |-> headed]
           end == HeadSize + n
<1>1. /\ end < Space
      /\ size' = e.size
      /\ buff' = [i \in Addr |-> IF i = end THEN 0
                                 ELSE IF i >= HeadSize /\ i < end THEN body[i - HeadSize]
                                 ELSE e.buff[i]]
      /\ read_idx' = 0 /\ write_idx' = end
      /\ touched' = Top(IF e.size = size THEN touched ELSE 0, end + 1)
      /\ frame' = [length |-> n, body |-> body]
  BY DEF Written
<1>2. /\ n \in Nat /\ size \in Nat /\ touched \in Nat /\ touched <= size
      /\ HeadSize \in Nat \ {0} /\ Space \in Nat /\ end \in Nat
      /\ room \in Rooms /\ room \in Nat /\ size = HeadSize + room
      /\ room >= DefaultSize - HeadSize
      /\ buff \in [Addr -> Byte]
  BY Sizes DEF IInv, TypeOK, SizeOK
<1>3. n + 1 <= room \/ n + 1 > 2 * room
  BY <1>2 DEF Doubling
<1>4. headed \in [Addr -> Byte]
  <2>1. ASSUME NEW i \in Addr PROVE headed[i] \in Byte
    <3>1. CASE i < HeadSize
      <4>1. i \in 0 .. HeadSize - 1
        BY <1>2, <3>1 DEF Addr
      <4>2. QED
        BY <1>2, <3>1, <4>1, HeadIsBytes
    <3>2. CASE ~(i < HeadSize)
      BY <1>2, <3>2
    <3>3. QED
      BY <3>1, <3>2
  <2>2. QED
    BY <2>1
<1>5. \A i \in 0 .. HeadSize - 1 : i \in Addr /\ headed[i] = PackageHead(n)[i]
  BY <1>1, <1>2 DEF Addr
<1> HIDE DEF headed
(* The array after extend(), if it was called.                             *)
<1>6. /\ e.size \in Nat /\ end + 1 <= e.size /\ e.size - HeadSize \in Rooms
      /\ e.size = size \/ e.size = end + 1
      /\ e.buff \in [Addr -> Byte]
      /\ Solid => \A i \in 0 .. HeadSize - 1 : e.buff[i] = PackageHead(n)[i]
  <2>1. CASE n + 1 <= room
    <3>1. e = [size |-> size, buff |-> headed]
      BY <1>2, <2>1
    <3> HIDE DEF e
    <3>2. e.size = size /\ e.buff = headed
      BY <3>1
    <3>3. QED
      BY <1>2, <1>4, <1>5, <2>1, <3>2
  <2>2. CASE n + 1 > 2 * room
    <3>1. n + 1 > room /\ missing = n + 1 - room /\ room < missing
      BY <1>2, <2>2 DEF Missing
    <3>2. e = [size |-> size + missing, buff |-> Strncpy(headed, size)]
      BY <3>1 DEF Extended
    <3> HIDE DEF e
    <3>3. e.size = end + 1 /\ e.buff = Strncpy(headed, size)
      <4>1. size + missing = end + 1
        BY <1>2, <3>1
      <4>2. QED
        BY <3>2, <4>1
    <3>4. ~Fits(n) /\ n + 1 \in Rooms
      BY <1>2, <3>1, Sizes DEF Fits, Rooms
    <3>5. end + 1 - HeadSize = n + 1
      BY <1>2
    <3>6. e.buff \in [Addr -> Byte]
      <4>1. ASSUME NEW i \in Addr
            PROVE  (IF i >= size THEN Junk
                    ELSE IF \E j \in 0 .. i : headed[j] = 0 THEN 0 ELSE headed[i]) \in Byte
        BY <1>4, SmallBytes
      <4>2. QED
        BY <3>3, <4>1 DEF Strncpy
    <3>7. ASSUME Solid, NEW i \in 0 .. HeadSize - 1
          PROVE  e.buff[i] = PackageHead(n)[i]
      <4>1. i \in Addr /\ ~(i >= size) /\ headed[i] = PackageHead(n)[i]
        BY <1>2, <1>5
      <4>2. e.buff[i] = IF \E j \in 0 .. i : headed[j] = 0 THEN 0 ELSE headed[i]
        BY <3>3, <4>1 DEF Strncpy
      <4>3. (\E j \in 0 .. i : headed[j] = 0) => PackageHead(n)[i] = 0
        <5>1. ASSUME NEW j \in 0 .. i, headed[j] = 0 PROVE PackageHead(n)[i] = 0
          <6>1. j \in 0 .. HeadSize - 1
            BY <1>2
          <6>2. PackageHead(n)[j] = 0
            BY <1>5, <5>1, <6>1
          <6>3. QED
            BY <3>4, <3>7, <6>2 DEF Solid
        <5>2. QED
          BY <5>1
      <4>4. QED
        BY <4>1, <4>2, <4>3
    <3>8. QED
      BY <1>2, <3>3, <3>4, <3>5, <3>6, <3>7
  <2>3. QED
    BY <1>3, <2>1, <2>2
<1> HIDE DEF e
<1>7. /\ size' \in Nat /\ size' - HeadSize \in Rooms /\ write_idx' < size'
      /\ touched' \in Nat /\ touched' <= size'
  <2>1. size' \in Nat /\ size' - HeadSize \in Rooms /\ write_idx' < size' /\ end + 1 <= size'
    BY <1>1, <1>2, <1>6
  <2>2. touched' = Top(IF size' = size THEN touched ELSE 0, end + 1)
    BY <1>1
  <2> HIDE DEF end
  <2>3. touched' \in Nat /\ touched' <= size'
    BY <1>2, <2>1, <2>2 DEF Top
  <2>4. QED
    BY <2>1, <2>3
<1>8. /\ buff' \in [Addr -> Byte]
      /\ \A i \in 0 .. n - 1 : buff'[HeadSize + i] = body[i]
      /\ buff'[end] = 0
      /\ \A i \in 0 .. HeadSize - 1 : buff'[i] = e.buff[i]
  <2>1. ASSUME NEW i \in Addr
        PROVE  (IF i = end THEN 0
                ELSE IF i >= HeadSize /\ i < end THEN body[i - HeadSize]
                ELSE e.buff[i]) \in Byte
    <3>1. i >= HeadSize /\ i < end => i - HeadSize \in 0 .. n - 1
      BY <1>2 DEF Addr
    <3>2. i >= HeadSize /\ i < end => body[i - HeadSize] \in Byte
      BY <3>1
    <3>3. e.buff[i] \in Byte
      BY <1>6
    <3>4. QED
      BY <3>2, <3>3, SmallBytes
  <2>2. buff' \in [Addr -> Byte]
    BY <1>1, <2>1
  <2>3. end \in Addr
    BY <1>1, <1>2 DEF Addr
  <2>4. \A i \in 0 .. HeadSize - 1 : i \in Addr /\ i # end /\ ~(i >= HeadSize)
    BY <1>1, <1>2 DEF Addr
  <2>5. \A i \in Addr : buff'[i] = IF i = end THEN 0
                                   ELSE IF i >= HeadSize /\ i < end THEN body[i - HeadSize]
                                   ELSE e.buff[i]
    BY <1>1
  <2>6. \A i \in 0 .. n - 1 : buff'[HeadSize + i] = body[i]
    <3>1. TAKE i \in 0 .. n - 1
    <3>2. PICK k : k = HeadSize + i
      OBVIOUS
    <3>3. k \in Addr /\ k # end /\ k >= HeadSize /\ k < end /\ k - HeadSize = i
      BY <1>1, <1>2, <3>2 DEF Addr
    <3>4. buff'[k] = body[k - HeadSize]
      BY <2>5, <3>3
    <3>5. QED
      BY <3>2, <3>3, <3>4
  <2>7. QED
    BY <2>2, <2>3, <2>4, <2>5, <2>6
<1>9. TypeOK'
  <2>1. read_idx' \in Nat /\ write_idx' \in Nat
    BY <1>1, <1>2
  <2>2. frame'.length \in Nat \cup {-1}
    BY <1>1, <1>2
  <2>3. QED
    BY <1>7, <1>8, <2>1, <2>2 DEF TypeOK
<1>10. SizeOK' /\ Asserted'
  BY <1>1, <1>2, <1>7 DEF SizeOK, Asserted
<1>11. QED
  BY <1>1, <1>6, <1>8, <1>9, <1>10 DEF IInv

LEMMA InitStep == Init => IInv /\ FrameIntact /\ Asserted
<1>1. SUFFICES ASSUME Init PROVE IInv /\ FrameIntact /\ Asserted
  OBVIOUS
<1>2. /\ size = DefaultSize /\ read_idx = 0 /\ write_idx = 0
      /\ buff = [i \in Addr |-> Junk] /\ touched = 0 /\ frame = NoFrame
  BY <1>1 DEF Init
<1>3. TypeOK
  <2>1. buff \in [Addr -> Byte]
    BY <1>2, SmallBytes
  <2>2. frame.length \in Nat \cup {-1}
    BY <1>2 DEF NoFrame
  <2>3. QED
    BY <1>2, <2>1, <2>2, Sizes DEF TypeOK
<1>4. SizeOK
  <2>1. size - HeadSize \in Rooms
    BY <1>2 DEF Rooms
  <2>2. touched <= size /\ write_idx <= size /\ read_idx <= write_idx
    BY <1>2, Sizes
  <2>3. QED
    BY <2>1, <2>2 DEF SizeOK
<1>5. FrameIntact /\ Asserted
  BY <1>2, Sizes DEF FrameIntact, Asserted
<1>6. QED
  BY <1>3, <1>4, <1>5 DEF IInv

(* The other operations do not write behind write_idx.                     *)
LEMMA ReceivedStep ==
  ASSUME IInv, NEW n \in Reads, ServerRecv(n) \/ ClientRecv(n)
  PROVE  IInv' /\ FrameIntact' /\ Asserted'
<1>1. /\ n < size /\ read_idx' = 0 /\ write_idx' = n /\ frame' = NoFrame /\ size' = size
      /\ touched' = Top(touched, n + 1) \/ touched' = Top(touched, n)
  BY DEF ServerRecv, ClientRecv, Received
<1>2. /\ n \in Nat /\ size \in Nat /\ touched \in Nat /\ touched <= size
      /\ size - HeadSize \in Rooms /\ buff \in [Addr -> Byte]
  BY BufferAssumption DEF IInv, TypeOK, SizeOK
<1>3. touched' \in Nat /\ touched' <= size
  BY <1>1, <1>2 DEF Top
<1>4. buff' \in [Addr -> Byte]
  <2>1. ASSUME NEW i \in Addr
        PROVE  /\ (IF i < n THEN Body ELSE IF i = n THEN 0 ELSE buff[i]) \in Byte
               /\ (IF i < n THEN Body ELSE buff[i]) \in Byte
    BY <1>2, SmallBytes
  <2>2. CASE ServerRecv(n)
    BY <2>1, <2>2 DEF ServerRecv
  <2>3. CASE ClientRecv(n)
    BY <2>1, <2>3 DEF ClientRecv
  <2>4. QED
    BY <2>2, <2>3
<1>5. frame'.length \in Nat \cup {-1}
  BY <1>1 DEF NoFrame
<1>6. IInv'
  BY <1>1, <1>2, <1>3, <1>4, <1>5 DEF IInv, TypeOK, SizeOK
<1>7. QED
  BY <1>1, <1>2, <1>6 DEF FrameIntact, Asserted

LEMMA NextStep ==
  ASSUME Doubling, IInv, [Next]_vars
  PROVE  IInv' /\ Asserted' /\ (Solid /\ FrameIntact => FrameIntact')
<1>1. ASSUME NEW n \in WrittenLengths, NEW body \in [0 .. n - 1 -> Byte], Written(n, body)
      PROVE  IInv' /\ Asserted' /\ (Solid => FrameIntact')
  <2>1. /\ IInv' /\ Asserted'
        /\ frame' = [length |-> n, body |-> body] /\ write_idx' = HeadSize + n
        /\ \A i \in 0 .. n - 1 : buff'[HeadSize + i] = body[i]
        /\ buff'[write_idx'] = 0
        /\ Solid => \A i \in 0 .. HeadSize - 1 : buff'[i] = PackageHead(n)[i]
    BY <1>1, WrittenIs
  <2>2. frame'.length = n /\ frame'.body = body
    BY <2>1
  <2>3. QED
    BY <2>1, <2>2 DEF FrameIntact, PackageHead
<1>2. ASSUME NEW n \in Lengths, WriteString(n)
      PROVE  IInv' /\ Asserted' /\ (Solid => FrameIntact')
  <2> DEFINE body == [i \in 0 .. n - 1 |-> Body]
  <2>1. body \in [0 .. n - 1 -> Byte] /\ n \in WrittenLengths
    BY SmallBytes DEF WrittenLengths
  <2>2. Written(n, body)
    BY <1>2 DEF WriteString
  <2> HIDE DEF body
  <2>3. QED
    BY <1>1, <2>1, <2>2
<1>3. ASSUME NEW v \in 0 .. Base, WriteInteger(v)
      PROVE  IInv' /\ Asserted' /\ (Solid => FrameIntact')
  <2>1. PackageHead(v) \in [0 .. HeadSize - 1 -> Byte] /\ HeadSize \in WrittenLengths
    BY Sizes, HeadIsBytes DEF WrittenLengths
  <2>2. Written(HeadSize, PackageHead(v))
    BY <1>3 DEF WriteInteger
  <2>3. QED
    BY <1>1, <2>1, <2>2
<1>4. ASSUME UNCHANGED <<size, buff, touched>>, frame' \in {frame, NoFrame},
             write_idx' = write_idx \/ (frame' = NoFrame /\ write_idx' = 0),
             read_idx' \in {0, read_idx, write_idx}, read_idx' <= write_idx'
      PROVE  IInv' /\ Asserted' /\ (FrameIntact => FrameIntact')
  <2>1. TypeOK'
    <3>1. frame'.length \in Nat \cup {-1}
      BY <1>4 DEF IInv, TypeOK, NoFrame
    <3>2. QED
      BY <1>4, <3>1 DEF IInv, TypeOK
  <2>2. SizeOK' /\ Asserted'
    BY <1>4 DEF IInv, TypeOK, SizeOK, Asserted
  <2>3. FrameIntact => FrameIntact'
    BY <1>4 DEF FrameIntact, PackageHead
  <2>4. QED
    BY <2>1, <2>2, <2>3 DEF IInv
<1>5. CASE Reset
  BY <1>4, <1>5 DEF Reset
<1>6. CASE Sent
  BY <1>4, <1>6 DEF Sent, IInv, TypeOK
<1>7. CASE UNCHANGED vars
  BY <1>4, <1>7 DEF vars, IInv, SizeOK
<1>8. QED
  BY <1>2, <1>3, <1>5, <1>6, <1>7, ReceivedStep DEF Next

-----------------------------------------------------------------------------
(* Nothing reaches behind the array, if every body fits into the room that *)
(* is left or is longer than twice that room.                              *)
THEOREM StaysInBounds ==
  ASSUME Doubling
  PROVE  Spec => []InBounds
<1>1. Init => IInv
  BY InitStep
<1>2. IInv /\ [Next]_vars => IInv'
  BY NextStep
<1>3. IInv => InBounds
  BY DEF IInv, SizeOK, InBounds
<1>4. QED
  BY <1>1, <1>2, <1>3, PTL DEF Spec

(* Under the same condition the assertions of buffer.cpp never fail; the   *)
(* run that breaks one writes a body that does not meet it.                *)
THEOREM AssertionsHold ==
  ASSUME Doubling
  PROVE  Spec => []Asserted
<1>1. Init => IInv /\ Asserted
  BY InitStep
<1>2. IInv /\ [Next]_vars => IInv' /\ Asserted'
  BY NextStep
<1>3. QED
  BY <1>1, <1>2, PTL DEF Spec

(* What write() was given is what the frame says, if besides no head that  *)
(* is copied into a larger array has a zero byte below another one.        *)
THEOREM FramesStayIntact ==
  ASSUME Doubling, Solid
  PROVE  Spec => []FrameIntact
<1>1. Init => IInv /\ FrameIntact
  BY InitStep
<1>2. IInv /\ FrameIntact /\ [Next]_vars => IInv' /\ FrameIntact'
  BY NextStep
<1>3. QED
  BY <1>1, <1>2, PTL DEF Spec

-----------------------------------------------------------------------------
(* What fgetline() has done with the input.  Letters: no newline among the *)
(* characters from b to before e.  LineEnds: e is behind a line.           *)
Letters(b, e) == \A i \in b .. e - 1 : stdin[i] = Letter
LineEnds(e) == e = Len(stdin) + 1 \/ stdin[e] = Newline

(* Where a piece begins: with a line, or a number of full buffers behind   *)
(* the beginning of one.                                                   *)
BeginsPiece(s) ==
  \/ BeginsLine(s)
  \/ \E b \in 1 .. s - 1 : BeginsLine(b) /\ Letters(b, s) /\ (s - b) % Room = 0

(* The characters before it are parts of the lines that are used.          *)
Edge == IF pc = "fgetline" THEN from ELSE pos

(* A line that is used has no newline inside, and ends where the line of   *)
(* the input does unless it fills the buffer.                              *)
Used(u) ==
  /\ u.from \in 1 .. Len(stdin) /\ u.from < Edge
  /\ u.len \in 0 .. Room - 1 /\ u.from + u.len <= Len(stdin) + 1
  /\ Letters(u.from, u.from + u.len)
  /\ u.len = Room - 1 \/ LineEnds(u.from + u.len)

ReadingOK ==
  /\ stdin \in Seq({Letter, Newline}) /\ used \in Seq([from : Nat, len : Nat, as : {"command", "address"}])
  /\ pc = "fgetline" => Letters(from, pos)
  /\ pc = "exit" => pos = Len(stdin) + 1
  /\ Edge = Len(stdin) + 1 \/ BeginsPiece(Edge)

LinesOK ==
  /\ \A k \in DOMAIN used : Used(used[k])
  /\ \A k, l \in DOMAIN used : used[k].from = used[l].from => k = l
  /\ \A b \in 1 .. Len(stdin) :
       BeginsLine(b) /\ b < Edge => \E k \in DOMAIN used : used[k].from = b

MainInv == MainTypeOK /\ ReadingOK /\ LinesOK /\ BlankLines

-----------------------------------------------------------------------------
(* A set of naturals has a least element.                                  *)
LEMMA LeastNatural ==
  ASSUME NEW T \in SUBSET Nat, T # {}
  PROVE  \E k \in T : \A m \in T : k <= m
<1>1. \E k \in T : \A m \in T : ~ (<<m, k>> \in OpToRel(<, Nat))
  BY NatLessThanWellFounded, WFMin
<1>2. PICK k \in T : \A m \in T : ~ (<<m, k>> \in OpToRel(<, Nat))
  BY <1>1
<1>3. ASSUME NEW m \in T PROVE k <= m
  <2>1. m \in Nat /\ k \in Nat
    OBVIOUS
  <2>2. m < k => <<m, k>> \in OpToRel(<, Nat)
    BY <2>1, Zenon DEF OpToRel
  <2>3. ~ (m < k)
    BY <1>2, <2>2, Zenon
  <2>4. QED
    BY <2>1, <2>3
<1>4. QED
  BY <1>3

(* A full buffer more leaves the same remainder.                           *)
LEMMA OneMoreRoom ==
  ASSUME NEW d \in Nat \ {0}, NEW n \in Nat, n % d = 0
  PROVE  (n + d) % d = 0
<1>1. PICK q \in Int : q = n \div d
  OBVIOUS
<1>2. n = d * q
  BY <1>1
<1>3. n + d = d * (q + 1)
  BY <1>2
<1>4. (n + d) \div d = q + 1
  BY <1>3
<1>5. n + d = d * ((n + d) \div d) + ((n + d) % d)
  OBVIOUS
<1>6. QED
  BY <1>3, <1>4, <1>5

LEMMA InputChars ==
  ASSUME ReadingOK
  PROVE  /\ Len(stdin) \in Nat /\ DOMAIN stdin = 1 .. Len(stdin)
         /\ \A i \in 1 .. Len(stdin) : stdin[i] = Letter \/ stdin[i] = Newline
         /\ Letter # Newline /\ Letter # EOF /\ Newline # EOF
<1>1. stdin \in Seq({Letter, Newline})
  BY DEF ReadingOK
<1>2. QED
  BY <1>1, LenProperties, ElementOfSeq DEF Letter, Newline, EOF

(* The length of the line that begins at b: there is one, and it is the    *)
(* number of letters up to where a line ends.                              *)
LEMMA LineLength ==
  ASSUME ReadingOK, NEW b \in 1 .. Len(stdin) + 1
  PROVE  /\ LineLen(b) \in 0 .. Len(stdin) + 1 - b
         /\ Letters(b, b + LineLen(b)) /\ LineEnds(b + LineLen(b))
<1> DEFINE last == Len(stdin)
<1>1. last \in Nat /\ b \in 1 .. last + 1
  BY InputChars
<1> DEFINE T == {n \in Nat : b + n <= last + 1 /\ (b + n = last + 1 \/ stdin[b + n] = Newline)}
<1>2. last + 1 - b \in T
  <2> HIDE DEF last
  <2>1. QED
    BY <1>1
<1>3. PICK n \in T : \A m \in T : n <= m
  <2>1. T \in SUBSET Nat /\ T # {}
    BY <1>2
  <2> HIDE DEF T
  <2>2. QED
    BY <2>1, LeastNatural
<1>4. n \in 0 .. last + 1 - b /\ LineEnds(b + n)
  BY <1>1 DEF LineEnds
<1>5. ASSUME NEW i \in b .. b + n - 1 PROVE stdin[i] = Letter
  <2>1. /\ i - b \in Nat /\ ~(n <= i - b) /\ b + (i - b) = i
        /\ i \in 1 .. last
    BY <1>1, <1>4
  <2>2. i - b \notin T
    BY <1>3, <2>1
  <2>3. stdin[i] # Newline
    BY <1>1, <2>1, <2>2
  <2>4. QED
    BY <2>1, <2>3, InputChars
<1>6. \E m \in 0 .. Len(stdin) + 1 - b :
        /\ \A i \in b .. b + m - 1 : stdin[i] = Letter
        /\ b + m = Len(stdin) + 1 \/ stdin[b + m] = Newline
  <2>1. /\ \A i \in b .. b + n - 1 : stdin[i] = Letter
        /\ b + n = Len(stdin) + 1 \/ stdin[b + n] = Newline
    BY <1>4, <1>5 DEF LineEnds
  <2> HIDE DEF T
  <2>2. QED
    BY <1>4, <2>1
<1> DEFINE L == LineLen(b)
<1>7. /\ L \in 0 .. Len(stdin) + 1 - b
      /\ \A i \in b .. b + L - 1 : stdin[i] = Letter
      /\ b + L = Len(stdin) + 1 \/ stdin[b + L] = Newline
  BY <1>6 DEF LineLen
<1>8. QED
  BY <1>7 DEF Letters, LineEnds

LEMMA LengthIsUnique ==
  ASSUME ReadingOK, NEW b \in 1 .. Len(stdin) + 1, NEW n \in 0 .. Len(stdin) + 1 - b,
         Letters(b, b + n), LineEnds(b + n)
  PROVE  LineLen(b) = n
<1>1. Len(stdin) \in Nat /\ b \in Nat /\ n \in Nat
  BY InputChars
<1> DEFINE m == LineLen(b)
<1>2. m \in 0 .. Len(stdin) + 1 - b /\ Letters(b, b + m) /\ LineEnds(b + m)
  BY LineLength
<1> HIDE DEF m
<1>3. ASSUME m < n PROVE FALSE
  <2>1. b + m \in b .. b + n - 1 /\ b + m # Len(stdin) + 1
    BY <1>1, <1>2, <1>3
  <2>2. QED
    BY <1>2, <2>1, InputChars DEF Letters, LineEnds
<1>4. ASSUME n < m PROVE FALSE
  <2>1. b + n \in b .. b + m - 1 /\ b + n # Len(stdin) + 1
    BY <1>1, <1>2, <1>4
  <2>2. QED
    BY <1>2, <2>1, InputChars DEF Letters, LineEnds
<1>5. QED
  BY <1>1, <1>2, <1>3, <1>4 DEF m

-----------------------------------------------------------------------------
(* main() gets a line, from the character that fgetline() began with to    *)
(* before the one it has come to.                                          *)
GetsLine ==
  /\ pc = "fgetline" /\ Line
  /\ from < pos' /\ pos' <= Len(stdin) + 1
  /\ \/ pos' = pos + 1 /\ stdin[pos] = Newline
     \/ pos' = pos + 1 /\ stdin[pos] = Letter /\ len = Room - 1
     \/ pos' = pos /\ pos = Len(stdin) + 1

LEMMA GetsLineStep ==
  ASSUME MainTypeOK, ReadingOK, EndOfLine \/ Full \/ (EndOfFile /\ len # 0)
  PROVE  GetsLine
<1>1. /\ Len(stdin) \in Nat /\ pos \in 1 .. Len(stdin) + 1 /\ from \in 1 .. pos
      /\ Room \in Nat
  BY InputChars, ClientMainAssumption DEF MainTypeOK
<1>2. IF pos <= Len(stdin) THEN fgetc = stdin[pos] /\ pos \in 1 .. Len(stdin) ELSE fgetc = EOF
  BY <1>1 DEF fgetc
<1>3. fgetc # EOF => pos <= Len(stdin) /\ (stdin[pos] = Letter \/ stdin[pos] = Newline)
  BY <1>1, <1>2, InputChars
<1>4. fgetc = EOF => pos = Len(stdin) + 1
  BY <1>1, <1>2, InputChars
<1>5. CASE EndOfLine
  BY <1>1, <1>2, <1>3, <1>5, InputChars DEF EndOfLine, GetsLine
<1>6. CASE Full
  BY <1>1, <1>3, <1>6 DEF Full, GetsLine
<1>7. CASE EndOfFile /\ len # 0
  BY <1>1, <1>4, <1>7 DEF EndOfFile, GetsLine, len
<1>8. QED
  BY <1>5, <1>6, <1>7

(* What a line leaves for the next one begins a piece.                     *)
LEMMA NextPiece ==
  ASSUME MainTypeOK, ReadingOK, GetsLine
  PROVE  pos' = Len(stdin) + 1 \/ BeginsPiece(pos')
<1>1. /\ Len(stdin) \in Nat /\ pos \in 1 .. Len(stdin) + 1 /\ from \in 1 .. pos
      /\ Room \in Nat \ {0, 1} /\ pc = "fgetline"
  BY InputChars, ClientMainAssumption DEF MainTypeOK, GetsLine
<1>2. CASE pos' = pos + 1 /\ stdin[pos] = Newline
  BY <1>1, <1>2 DEF BeginsPiece, BeginsLine
<1>3. CASE pos' = pos + 1 /\ stdin[pos] = Letter /\ len = Room - 1
  <2>1. pos = from + Room - 1 /\ pos' = from + Room /\ from \in 1 .. pos' - 1
    BY <1>1, <1>3 DEF len
  <2>2. from # Len(stdin) + 1 /\ BeginsPiece(from)
    BY <1>1, <2>1 DEF ReadingOK, Edge
  <2>3. Letters(from, pos')
    BY <1>1, <1>3 DEF ReadingOK, Letters
  <2>4. CASE BeginsLine(from)
    <3>1. pos' - from = 0 + Room /\ 0 % Room = 0
      BY <1>1, <2>1
    <3>2. (pos' - from) % Room = 0
      BY <1>1, <3>1, OneMoreRoom
    <3>3. QED
      BY <2>1, <2>3, <2>4, <3>2 DEF BeginsPiece
  <2>5. CASE ~BeginsLine(from)
    <3>1. PICK b \in 1 .. from - 1 :
            BeginsLine(b) /\ Letters(b, from) /\ (from - b) % Room = 0
      BY <2>2, <2>5 DEF BeginsPiece
    <3>2. b \in 1 .. pos' - 1 /\ from - b \in Nat /\ pos' - b = (from - b) + Room
      BY <1>1, <2>1, <3>1
    <3>3. (pos' - b) % Room = 0
      BY <1>1, <3>1, <3>2, OneMoreRoom
    <3>4. Letters(b, pos')
      BY <1>1, <2>1, <2>3, <3>1 DEF Letters
    <3>5. QED
      BY <3>1, <3>2, <3>3, <3>4 DEF BeginsPiece
  <2>6. QED
    BY <2>4, <2>5
<1>4. QED
  BY <1>1, <1>2, <1>3 DEF GetsLine

(* A line that is empty is one of the input, or the end of one that fills  *)
(* whole buffers.                                                          *)
LEMMA BlankLine ==
  ASSUME MainTypeOK, ReadingOK, GetsLine, len = 0
  PROVE  \/ BeginsLine(from)
         \/ \E b \in 1 .. from - 1 :
              BeginsLine(b) /\ b + LineLen(b) = from /\ LineLen(b) % Room = 0
<1>1. /\ Len(stdin) \in Nat /\ pos \in 1 .. Len(stdin) + 1 /\ from \in 1 .. pos
      /\ Room \in Nat \ {0, 1} /\ pc = "fgetline"
  BY InputChars, ClientMainAssumption DEF MainTypeOK, GetsLine
<1>2. pos = from /\ pos \in 1 .. Len(stdin) /\ stdin[from] = Newline
  BY <1>1 DEF GetsLine, len
<1>3. BeginsPiece(from)
  BY <1>1, <1>2 DEF ReadingOK, Edge
<1>4. ASSUME NEW b \in 1 .. from - 1,
             BeginsLine(b), Letters(b, from), (from - b) % Room = 0
      PROVE  b + LineLen(b) = from /\ LineLen(b) % Room = 0
  <2>1. /\ b \in 1 .. Len(stdin) + 1 /\ from - b \in 0 .. Len(stdin) + 1 - b
        /\ b + (from - b) = from
    BY <1>1, <1>2, <1>4
  <2>2. Letters(b, b + (from - b)) /\ LineEnds(b + (from - b))
    BY <1>2, <1>4, <2>1 DEF LineEnds
  <2>3. LineLen(b) = from - b
    BY <2>1, <2>2, LengthIsUnique
  <2>4. QED
    BY <1>4, <2>1, <2>3
<1>5. QED
  BY <1>3, <1>4 DEF BeginsPiece

LEMMA GetsLineKeeps ==
  ASSUME MainInv, GetsLine
  PROVE  MainInv'
<1>1. /\ Len(stdin) \in Nat /\ pos \in 1 .. Len(stdin) + 1 /\ from \in 1 .. pos
      /\ Room \in Nat \ {0, 1} /\ pc = "fgetline" /\ len \in 0 .. Room - 1
      /\ pos' \in from + 1 .. Len(stdin) + 1 /\ pos <= pos' /\ pos' <= pos + 1
      /\ MainTypeOK /\ ReadingOK /\ LinesOK /\ BlankLines
  BY InputChars, ClientMainAssumption DEF MainInv, MainTypeOK, GetsLine, len
<1> DEFINE line == [from |-> from, len |-> len,
                    as |-> IF connected THEN "command" ELSE "address"]
<1>2. /\ used' = Append(used, line)
      /\ pc' \in {"main", "undefined"} /\ connected' \in BOOLEAN
      /\ stdin' = stdin /\ from' = from
  BY <1>1 DEF GetsLine, Line, MainTypeOK
<1>3. /\ used \in Seq([from : Nat, len : Nat, as : {"command", "address"}])
      /\ line \in [from : Nat, len : Nat, as : {"command", "address"}]
  <2>1. from \in Nat /\ len \in Nat
    BY <1>1
  <2>2. QED
    BY <1>1, <2>1 DEF ReadingOK
<1>4. /\ used' \in Seq([from : Nat, len : Nat, as : {"command", "address"}])
      /\ Len(used) \in Nat /\ DOMAIN used = 1 .. Len(used)
      /\ DOMAIN used' = 1 .. Len(used) + 1
      /\ \A k \in DOMAIN used : used'[k] = used[k]
      /\ used'[Len(used) + 1] = line
  BY <1>2, <1>3, AppendProperties, LenProperties
<1>5. /\ line.from = from /\ line.len = len
      /\ \A k \in DOMAIN used' : k \in DOMAIN used \/ k = Len(used) + 1
  BY <1>4
<1> HIDE DEF line
<1>6. Edge = from /\ Edge' = pos'
  BY <1>1, <1>2 DEF Edge
<1>7. MainTypeOK'
  <2>1. \A k \in DOMAIN used' : used'[k].len \in 0 .. Room - 1
    BY <1>1, <1>4, <1>5 DEF MainTypeOK
  <2>2. QED
    BY <1>1, <1>2, <2>1 DEF MainTypeOK
<1>8. ReadingOK'
  <2>1. pos' = Len(stdin) + 1 \/ BeginsPiece(pos')
    BY <1>1, NextPiece
  <2>2. (Edge = Len(stdin) + 1 \/ BeginsPiece(Edge))'
    BY <1>2, <1>6, <2>1 DEF BeginsPiece, BeginsLine, Letters
  <2>3. QED
    BY <1>1, <1>2, <1>4, <2>2 DEF ReadingOK
<1>9. LinesOK'
  <2>1. ASSUME NEW k \in DOMAIN used PROVE Used(used[k])'
    <3>1. /\ used[k].from \in 1 .. Len(stdin) /\ used[k].from < from
          /\ used[k].len \in 0 .. Room - 1 /\ used[k].from + used[k].len <= Len(stdin) + 1
          /\ Letters(used[k].from, used[k].from + used[k].len)
          /\ used[k].len = Room - 1 \/ LineEnds(used[k].from + used[k].len)
      BY <1>1, <1>6 DEF LinesOK, Used
    <3>2. used'[k].from = used[k].from /\ used'[k].len = used[k].len
      BY <1>4
    <3>3. used[k].from < Edge'
      BY <1>1, <1>6, <3>1
    <3>4. stdin' = stdin
      BY <1>2
    <3>5. QED
      BY <3>1, <3>2, <3>3, <3>4 DEF Used, Letters, LineEnds
  <2>2. ASSUME NEW k \in DOMAIN used', k = Len(used) + 1 PROVE Used(used[k])'
    <3>1. from + len = pos
      BY <1>1 DEF len
    <3>2. from \in 1 .. Len(stdin) /\ from < Edge' /\ from + len <= Len(stdin) + 1
      BY <1>1, <1>6, <3>1
    <3>3. \A i \in from .. from + len - 1 : stdin[i] = Letter
      BY <1>1, <3>1 DEF ReadingOK, Letters
    <3>4. len = Room - 1 \/ from + len = Len(stdin) + 1 \/ stdin[from + len] = Newline
      BY <3>1 DEF GetsLine
    <3>5. used'[k].from = from /\ used'[k].len = len
      BY <1>4, <1>5, <2>2
    <3>6. /\ used'[k].from \in 1 .. Len(stdin) /\ used'[k].from < Edge'
          /\ used'[k].len \in 0 .. Room - 1
          /\ used'[k].from + used'[k].len <= Len(stdin) + 1
      BY <1>1, <3>2, <3>5
    <3>7. \A i \in used'[k].from .. used'[k].from + used'[k].len - 1 : stdin[i] = Letter
      BY <3>3, <3>5
    <3>8. LET e == used'[k].from + used'[k].len
          IN  used'[k].len = Room - 1 \/ e = Len(stdin) + 1 \/ stdin[e] = Newline
      BY <3>4, <3>5
    <3>9. stdin' = stdin
      BY <1>2
    <3>10. QED
      BY <3>6, <3>7, <3>8, <3>9 DEF Used, Letters, LineEnds
  <2>3. \A k \in DOMAIN used : used[k].from < from
    BY <1>1, <1>6 DEF LinesOK, Used
  <2>4. ASSUME NEW k \in DOMAIN used', NEW l \in DOMAIN used', used'[k].from = used'[l].from
        PROVE  k = l
    <3>1. \A i \in DOMAIN used : used[i].from \in Nat /\ used[i].from # from
      BY <1>1, <2>3 DEF LinesOK, Used
    <3>2. \A i, j \in DOMAIN used : used[i].from = used[j].from => i = j
      BY <1>1 DEF LinesOK
    <3>3. \A i \in DOMAIN used' :
            \/ i \in DOMAIN used /\ used'[i].from = used[i].from
            \/ i = Len(used) + 1 /\ used'[i].from = from
      BY <1>4, <1>5
    <3>4. QED
      BY <2>4, <3>1, <3>2, <3>3
  <2>5. ASSUME NEW b \in 1 .. Len(stdin), BeginsLine(b), b < pos'
        PROVE  \E k \in DOMAIN used' : used'[k].from = b
    <3>1. CASE b < from
      <4>1. PICK k \in DOMAIN used : used[k].from = b
        BY <1>1, <1>6, <2>5, <3>1 DEF LinesOK
      <4>2. k \in DOMAIN used' /\ used'[k].from = b
        BY <1>4, <4>1
      <4>3. QED
        BY <4>2
    <3>2. CASE b = from
      <4>1. Len(used) + 1 \in DOMAIN used' /\ used'[Len(used) + 1].from = b
        BY <1>4, <1>5, <3>2
      <4>2. QED
        BY <4>1
    <3>3. CASE from < b
      <4>1. b - 1 \in from .. pos - 1 /\ b # 1
        BY <1>1, <2>5, <3>3
      <4>2. stdin[b - 1] = Letter
        BY <1>1, <4>1 DEF ReadingOK, Letters
      <4>3. QED
        BY <1>1, <2>5, <4>1, <4>2, InputChars DEF BeginsLine
    <3>4. QED
      BY <1>1, <3>1, <3>2, <3>3
  <2>6. \A k \in DOMAIN used' : Used(used[k])'
    BY <1>5, <2>1, <2>2
  <2>7. \A b \in 1 .. Len(stdin') :
          BeginsLine(b)' /\ b < Edge' => \E k \in DOMAIN used' : used'[k].from = b
    BY <1>2, <1>6, <2>5 DEF BeginsLine
  <2>8. \A k, l \in DOMAIN used' : used'[k].from = used'[l].from => k = l
    BY <2>4
  <2>9. QED
    BY <2>6, <2>7, <2>8 DEF LinesOK
<1>10. BlankLines'
  <2>1. ASSUME NEW k \in DOMAIN used', used'[k].len = 0
        PROVE  \/ BeginsLine(used'[k].from)
               \/ \E b \in 1 .. used'[k].from - 1 :
                    /\ BeginsLine(b) /\ b + LineLen(b) = used'[k].from
                    /\ LineLen(b) % Room = 0
    <3>1. CASE k \in DOMAIN used
      <4>1. used'[k] = used[k]
        BY <1>4, <3>1
      <4>2. QED
        BY <1>1, <2>1, <3>1, <4>1 DEF BlankLines
    <3>2. CASE k = Len(used) + 1
      <4>1. used'[k].from = from /\ len = 0
        BY <1>4, <1>5, <2>1, <3>2
      <4>2. QED
        BY <1>1, <4>1, BlankLine
    <3>3. QED
      BY <1>5, <3>1, <3>2
  <2>2. \A b : BeginsLine(b)' = BeginsLine(b) /\ LineLen(b)' = LineLen(b)
    BY <1>2 DEF BeginsLine, LineLen
  <2>3. QED
    BY <2>1, <2>2 DEF BlankLines
<1>11. QED
  BY <1>7, <1>8, <1>9, <1>10 DEF MainInv

-----------------------------------------------------------------------------
LEMMA MainInitStep == MainInit => MainInv
<1> SUFFICES ASSUME MainInit PROVE MainInv
  OBVIOUS
<1>1. PICK n \in 0 .. MaxLen : stdin \in [1 .. n -> {Letter, Newline}]
  BY DEF MainInit, Inputs
<1>2. n \in Nat /\ stdin \in Seq({Letter, Newline}) /\ Len(stdin) \in Nat
  BY <1>1, ClientMainAssumption, LenProperties
<1>3. used = <<>> /\ DOMAIN used = {}
  BY DEF MainInit
<1>4. MainTypeOK
  BY <1>2, <1>3 DEF MainInit, MainTypeOK
<1>5. ReadingOK
  <2>1. used \in Seq([from : Nat, len : Nat, as : {"command", "address"}])
    BY <1>3
  <2>2. BeginsPiece(Edge)
    BY DEF MainInit, Edge, BeginsPiece, BeginsLine
  <2>3. QED
    BY <1>2, <2>1, <2>2 DEF MainInit, ReadingOK
<1>6. LinesOK
  BY <1>2, <1>3 DEF MainInit, LinesOK, Edge
<1>7. BlankLines
  BY <1>3 DEF BlankLines
<1>8. QED
  BY <1>4, <1>5, <1>6, <1>7 DEF MainInv

(* What does not touch the lines that are used, nor the edge, leaves what  *)
(* is known of them.                                                       *)
LEMMA EdgeStays ==
  ASSUME LinesOK, BlankLines, UNCHANGED <<stdin, used>>, Edge' = Edge
  PROVE  LinesOK' /\ BlankLines'
<1>1. \A u : Used(u)' = Used(u)
  BY DEF Used, Letters, LineEnds
<1>2. \A b : BeginsLine(b)' = BeginsLine(b) /\ LineLen(b)' = LineLen(b)
  BY DEF BeginsLine, LineLen
<1>3. QED
  BY <1>1, <1>2 DEF LinesOK, BlankLines

LEMMA MainNextStep == MainInv /\ [MainNext]_main_vars => MainInv'
<1> SUFFICES ASSUME MainInv, [MainNext]_main_vars PROVE MainInv'
  OBVIOUS
<1>1. /\ Len(stdin) \in Nat /\ pos \in 1 .. Len(stdin) + 1 /\ from \in 1 .. pos
      /\ Room \in Nat \ {0, 1}
      /\ MainTypeOK /\ ReadingOK /\ LinesOK /\ BlankLines
  BY InputChars, ClientMainAssumption DEF MainInv, MainTypeOK
<1>2. ASSUME UNCHANGED <<stdin, used>>, Edge' = Edge
      PROVE  /\ LinesOK' /\ BlankLines'
             /\ (Edge = Len(stdin) + 1 \/ BeginsPiece(Edge))'
  BY <1>1, <1>2, EdgeStays DEF ReadingOK, BeginsPiece, BeginsLine, Letters
<1>3. CASE fgetline
  <2>1. Edge' = Edge /\ UNCHANGED <<stdin, used>>
    BY <1>3 DEF fgetline, Edge
  <2>2. MainTypeOK'
    BY <1>1, <1>3 DEF fgetline, MainTypeOK, len
  <2>3. ReadingOK'
    BY <1>1, <1>2, <1>3, <2>1 DEF fgetline, ReadingOK, Letters
  <2>4. QED
    BY <1>2, <2>1, <2>2, <2>3 DEF MainInv
<1>4. CASE Store
  <2>1. Edge' = Edge /\ UNCHANGED <<stdin, used>> /\ pc = "fgetline" /\ pc' = pc
    BY <1>4 DEF Store, Edge
  <2>2. pos \in 1 .. Len(stdin) /\ stdin[pos] = Letter
    BY <1>1, <1>4, InputChars DEF Store, fgetc
  <2>3. MainTypeOK'
    BY <1>1, <1>4, <2>2 DEF Store, MainTypeOK, len
  <2>4. Letters(from, pos)'
    BY <1>1, <1>4, <2>1, <2>2 DEF Store, ReadingOK, Letters
  <2>5. ReadingOK'
    BY <1>1, <1>2, <2>1, <2>4 DEF ReadingOK
  <2>6. QED
    BY <1>2, <2>1, <2>3, <2>5 DEF MainInv
<1>5. CASE EndOfLine \/ Full \/ (EndOfFile /\ len # 0)
  BY <1>1, <1>5, GetsLineStep, GetsLineKeeps
<1>6. CASE EndOfFile /\ len = 0
  <2>1. /\ pc = "fgetline" /\ pc' = "exit" /\ UNCHANGED <<stdin, pos, from, connected, used>>
        /\ pos = from
    BY <1>1, <1>6 DEF EndOfFile, len
  <2>2. Edge' = Edge
    BY <2>1 DEF Edge
  <2>3. pos = Len(stdin) + 1
    BY <1>1, <1>6, InputChars DEF EndOfFile, fgetc
  <2>4. MainTypeOK'
    BY <1>1, <2>1 DEF MainTypeOK
  <2>5. ReadingOK'
    BY <1>1, <1>2, <2>1, <2>2, <2>3 DEF ReadingOK
  <2>6. QED
    BY <1>2, <2>1, <2>2, <2>4, <2>5 DEF MainInv
<1>7. CASE UNCHANGED main_vars
  <2>1. Edge' = Edge /\ UNCHANGED <<stdin, used>>
    BY <1>7 DEF main_vars, Edge
  <2>2. MainTypeOK' /\ ReadingOK'
    BY <1>1, <1>2, <1>7, <2>1 DEF main_vars, MainTypeOK, ReadingOK, Letters, len
  <2>3. QED
    BY <1>2, <2>1, <2>2 DEF MainInv
<1>8. QED
  BY <1>3, <1>4, <1>5, <1>6, <1>7 DEF MainNext

(* Every line of the input that fits in _command_str is used, whole and    *)
(* once, when the input has been read to its end.                          *)
LEMMA ReadLinesAreUsed == MainInv => LinesDelivered
<1> SUFFICES ASSUME MainInv PROVE LinesDelivered
  OBVIOUS
<1>1. /\ Len(stdin) \in Nat /\ Room \in Nat \ {0, 1}
      /\ MainTypeOK /\ ReadingOK /\ LinesOK
  BY InputChars, ClientMainAssumption DEF MainInv
<1>2. ASSUME pc = "exit", NEW b \in 1 .. Len(stdin), BeginsLine(b), LineLen(b) < Room
      PROVE  \E k \in DOMAIN used :
               /\ used[k].from = b /\ used[k].len = LineLen(b)
               /\ \A l \in DOMAIN used \ {k} : used[l].from # b
  <2>1. Edge = Len(stdin) + 1
    BY <1>1, <1>2 DEF ReadingOK, Edge
  <2>2. PICK k \in DOMAIN used : used[k].from = b
    BY <1>1, <1>2, <2>1 DEF LinesOK
  <2> DEFINE n == used[k].len
  <2>3. /\ n \in 0 .. Room - 1 /\ b + n <= Len(stdin) + 1
        /\ Letters(b, b + n) /\ (n = Room - 1 \/ LineEnds(b + n))
    BY <1>1, <2>2 DEF LinesOK, Used
  <2> DEFINE m == LineLen(b)
  <2>4. m \in 0 .. Len(stdin) + 1 - b /\ Letters(b, b + m) /\ LineEnds(b + m) /\ m < Room
    BY <1>1, <1>2, LineLength
  <2> HIDE DEF n, m
  <2>5. n = m
    <3>1. CASE LineEnds(b + n)
      <4>1. n \in 0 .. Len(stdin) + 1 - b /\ b \in 1 .. Len(stdin) + 1
        BY <1>1, <2>3
      <4>2. QED
        BY <1>1, <2>3, <3>1, <4>1, LengthIsUnique DEF m
    <3>2. CASE ~LineEnds(b + n)
      <4>1. n = Room - 1 /\ m <= n
        BY <1>1, <2>3, <2>4, <3>2
      <4>2. m < n => b + m \in b .. b + n - 1 /\ b + m \in 1 .. Len(stdin)
        BY <1>1, <2>3, <2>4, <4>1
      <4>3. m < n => FALSE
        BY <1>1, <2>3, <2>4, <4>2, InputChars DEF Letters, LineEnds
      <4>4. QED
        BY <1>1, <2>3, <2>4, <4>1, <4>3
    <3>3. QED
      BY <3>1, <3>2
  <2>6. \A l \in DOMAIN used \ {k} : used[l].from # b
    BY <1>1, <2>2 DEF LinesOK
  <2>7. QED
    BY <2>2, <2>5, <2>6 DEF n, m
<1>3. QED
  BY <1>1, <1>2 DEF LinesDelivered

(* Every line that fits is used whole and once, whatever comes before it,  *)
(* for every input and every size of _command_str.                         *)
THEOREM LinesAreDelivered == MainSpec => []LinesDelivered
<1>1. QED
  BY MainInitStep, MainNextStep, ReadLinesAreUsed, PTL DEF MainSpec

(* main() gets a blank line, which process() looks for an argument in,     *)
(* only where the input has one or behind a line of whole buffers.         *)
THEOREM BlankLinesAreExplained == MainSpec => []BlankLines
<1>1. MainInv => BlankLines
  BY DEF MainInv
<1>2. QED
  BY <1>1, MainInitStep, MainNextStep, PTL DEF MainSpec
=============================================================================

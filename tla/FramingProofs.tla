---------------------------- MODULE FramingProofs ----------------------------
(***************************************************************************)
(* Packets framed by their length, on a stream of any size and in pieces   *)
(* of any size, are a channel of whole packets.                            *)
(***************************************************************************)
EXTENDS Framing, SequenceTheorems, TLAPS

Byte == {0, 1}

(* The bytes on their way, and those already taken of the packet that is   *)
(* being read.                                                             *)
Unread == stream \o todo
Taken == (IF part = "body" THEN HeadSize ELSE 0) + Len(data)

TypeInv ==
  /\ looping \in BOOLEAN /\ pieces \in BOOLEAN /\ closed \in BOOLEAN
  /\ todo \in Seq(Byte) /\ stream \in Seq(Byte) /\ data \in Seq(Byte)
  /\ part \in {"head", "body", "stopped"}
  /\ count \in Nat
  /\ sent \in Seq(Bodies) /\ received \in Seq(Seq(Byte))
  /\ closed => todo = <<>>
  /\ ~looping => ~pieces /\ data = <<>>

(* start says where in the history of the stream each packet's frame       *)
(* begins, and the next one's would.                                       *)
Layout(start) ==
  /\ start \in [1 .. Len(sent) + 1 -> Nat]
  /\ \A i \in 1 .. Len(sent) : start[i + 1] = start[i] + HeadSize + Len(sent[i])
  /\ \A i, j \in 1 .. Len(sent) + 1 : i <= j => start[i] <= start[j]

(* What has been read is the beginning of the packet that is due.          *)
Due(bytes, whole) == Len(bytes) <= Len(whole) /\ bytes = SubSeq(whole, 1, Len(bytes))

(* c bytes have been taken from the stream and it continues from there.    *)
(* The loss of the writer cuts it short; otherwise it ends with the last   *)
(* packet, and if read() is not repeated no packet is in it in part.       *)
StreamAt(start, c) ==
  /\ Layout(start) /\ c \in Nat
  /\ \A i \in 1 .. Len(sent) : \A k \in 1 .. HeadSize + Len(sent[i]) :
       c < start[i] + k /\ start[i] + k <= c + Len(Unread) =>
         Unread[start[i] + k - c] = Frame(sent[i])[k]
  /\ c + Len(Unread) <= start[Len(sent) + 1]
  /\ closed \/ c + Len(Unread) = start[Len(sent) + 1]
  /\ closed \/ looping \/ \E e \in 1 .. Len(sent) + 1 : c + Len(stream) = start[e]

(* The reader has got whole packets so far, and knows which byte of the    *)
(* packet that is due comes next.                                          *)
ReaderAt(start, c) ==
  LET due == Len(received) + 1
  IN  /\ due <= Len(sent) + 1
      /\ \A i \in 1 .. Len(received) : received[i] = sent[i]
      /\ c = start[due] + Taken
      /\ part = "head" => /\ count = HeadSize
                          /\ \/ data = <<>>
                             \/ due <= Len(sent) /\ Due(data, HeadOf(Len(sent[due])))
      /\ part = "body" => /\ due <= Len(sent)
                          /\ count = Len(sent[due])
                          /\ Due(data, sent[due])

(* The writer is gone and so is all it has sent.                           *)
Over == closed /\ stream = <<>> /\ data = <<>>

IInv ==
  /\ TypeInv
  /\ \/ part = "stopped"
     \/ Over
     \/ \E start, c : StreamAt(start, c) /\ ReaderAt(start, c)

-----------------------------------------------------------------------------
LEMMA FrameType ==
  ASSUME NEW b \in Bodies
  PROVE  /\ b \in Seq(Byte) /\ Len(b) \in Nat
         /\ HeadOf(Len(b)) \in Seq(Byte) /\ Len(HeadOf(Len(b))) = HeadSize
         /\ Length(HeadOf(Len(b))) = Len(b)
         /\ Frame(b) \in Seq(Byte) /\ Len(Frame(b)) = HeadSize + Len(b)
         /\ \A k \in 1 .. HeadSize : Frame(b)[k] = HeadOf(Len(b))[k]
         /\ \A k \in 1 .. Len(b) : Frame(b)[HeadSize + k] = b[k]
<1>1. b \in Seq(Byte) /\ Len(b) \in Nat /\ Len(b) < 2 ^ HeadSize /\ HeadSize \in Nat \ {0}
  BY FramingAssumption DEF Byte
<1>2. Len(b) \in 0 .. 2 ^ HeadSize - 1
  BY <1>1, HeadAssumption
<1>3. HeadOf(Len(b)) \in Seq(Byte) /\ Length(HeadOf(Len(b))) = Len(b)
  BY <1>2, HeadAssumption DEF Byte
<1>4. Len(HeadOf(Len(b))) = HeadSize
  BY <1>1 DEF HeadOf
<1>5. /\ Frame(b) \in Seq(Byte) /\ Len(Frame(b)) = HeadSize + Len(b)
      /\ \A i \in 1 .. HeadSize + Len(b) :
           Frame(b)[i] = IF i <= HeadSize THEN HeadOf(Len(b))[i] ELSE b[i - HeadSize]
  BY <1>1, <1>3, <1>4, ConcatProperties DEF Frame
<1>6. QED
  BY <1>1, <1>3, <1>4, <1>5

(* Bytes move from what is to be written to the stream.                    *)
LEMMA Moved ==
  ASSUME NEW s \in Seq(Byte), NEW t \in Seq(Byte), NEW n \in 0 .. Len(t)
  PROVE  /\ SubSeq(t, 1, n) \in Seq(Byte) /\ SubSeq(t, n + 1, Len(t)) \in Seq(Byte)
         /\ s \o SubSeq(t, 1, n) \in Seq(Byte)
         /\ (s \o SubSeq(t, 1, n)) \o SubSeq(t, n + 1, Len(t)) = s \o t
<1> DEFINE u == SubSeq(t, 1, n)
           v == SubSeq(t, n + 1, Len(t))
<1>1. /\ Len(t) \in Nat
      /\ u \in Seq(Byte) /\ Len(u) = n /\ \A i \in 1 .. n : u[i] = t[i]
      /\ v \in Seq(Byte) /\ Len(v) = Len(t) - n
      /\ \A i \in 1 .. Len(t) - n : v[i] = t[n + i]
  OBVIOUS
<1> HIDE DEF u, v
<1>2. u \o v = t
  <2>1. /\ u \o v \in Seq(Byte) /\ Len(u \o v) = Len(t)
        /\ \A i \in 1 .. Len(t) : (u \o v)[i] = IF i <= n THEN u[i] ELSE v[i - n]
    BY <1>1, ConcatProperties
  <2>2. \A i \in 1 .. Len(t) : (u \o v)[i] = t[i]
    BY <1>1, <2>1
  <2>3. QED
    BY <2>1, <2>2, SeqEqual
<1>3. s \o u \in Seq(Byte) /\ (s \o u) \o v = s \o (u \o v)
  BY <1>1, ConcatAssociative, ConcatProperties
<1>4. QED
  BY <1>1, <1>2, <1>3 DEF u, v

(* Bytes are taken from the front of the stream.                           *)
LEMMA Shifted ==
  ASSUME NEW s \in Seq(Byte), NEW t \in Seq(Byte), NEW n \in 0 .. Len(s)
  PROVE  LET u == SubSeq(s, n + 1, Len(s))
         IN  /\ SubSeq(s, 1, n) \in Seq(Byte) /\ Len(SubSeq(s, 1, n)) = n
             /\ u \in Seq(Byte) /\ Len(u) = Len(s) - n
             /\ u \o t \in Seq(Byte) /\ Len(u \o t) = Len(s \o t) - n
             /\ \A i \in 1 .. Len(u \o t) : (u \o t)[i] = (s \o t)[n + i]
             /\ \A i \in 1 .. n : SubSeq(s, 1, n)[i] = (s \o t)[i]
<1> DEFINE u == SubSeq(s, n + 1, Len(s))
<1>1. /\ SubSeq(s, 1, n) \in Seq(Byte) /\ Len(SubSeq(s, 1, n)) = n
      /\ \A i \in 1 .. n : SubSeq(s, 1, n)[i] = s[i]
  OBVIOUS
<1>2. /\ u \in Seq(Byte) /\ Len(u) = Len(s) - n
      /\ \A i \in 1 .. Len(u) : u[i] = s[n + i]
      /\ Len(s) \in Nat /\ Len(t) \in Nat
  OBVIOUS
<1>3. /\ s \o t \in Seq(Byte) /\ Len(s \o t) = Len(s) + Len(t)
      /\ \A i \in 1 .. Len(s) + Len(t) :
           (s \o t)[i] = IF i <= Len(s) THEN s[i] ELSE t[i - Len(s)]
  BY ConcatProperties
<1> HIDE DEF u
<1>4. /\ u \o t \in Seq(Byte) /\ Len(u \o t) = Len(u) + Len(t)
      /\ \A i \in 1 .. Len(u) + Len(t) :
           (u \o t)[i] = IF i <= Len(u) THEN u[i] ELSE t[i - Len(u)]
  BY <1>2, ConcatProperties
<1>5. \A i \in 1 .. Len(u \o t) : (u \o t)[i] = (s \o t)[n + i]
  BY <1>2, <1>3, <1>4
<1>6. Len(u \o t) = Len(s \o t) - n
  BY <1>2, <1>3, <1>4
<1>7. \A i \in 1 .. n : SubSeq(s, 1, n)[i] = (s \o t)[i]
  BY <1>1, <1>2, <1>3
<1>8. QED
  BY <1>1, <1>2, <1>4, <1>5, <1>6, <1>7 DEF u

-----------------------------------------------------------------------------
(* The history of the stream goes on with a packet that is sent.           *)
Grown(start, b) ==
  [i \in 1 .. Len(sent) + 2 |->
     IF i <= Len(sent) + 1 THEN start[i] ELSE start[Len(sent) + 1] + HeadSize + Len(b)]

LEMMA LayoutGrows ==
  ASSUME TypeInv, NEW start, Layout(start), NEW b \in Bodies, sent' = Append(sent, b),
         NEW new, new = Grown(start, b)
  PROVE  Layout(new)'
<1> DEFINE m == Len(sent)
<1>1. /\ m \in Nat /\ Len(sent') = m + 1
      /\ sent'[m + 1] = b
      /\ \A i \in 1 .. m : sent'[i] = sent[i] /\ sent[i] \in Bodies
  BY DEF TypeInv
<1>2. HeadSize \in Nat /\ Len(b) \in Nat /\ \A i \in 1 .. m : Len(sent[i]) \in Nat
  BY <1>1, FrameType, FramingAssumption
<1>3. start \in [1 .. m + 1 -> Nat]
  BY DEF Layout
<1> HIDE DEF m
<1>4. /\ \A i \in 1 .. m + 1 : new[i] = start[i]
      /\ new[m + 2] = start[m + 1] + HeadSize + Len(b)
      /\ new \in [1 .. m + 2 -> Nat]
  BY <1>1, <1>2, <1>3 DEF m, Grown
<1>5. \A i \in 1 .. m + 1 : new[i + 1] = new[i] + HeadSize + Len(sent'[i])
  BY <1>1, <1>2, <1>3, <1>4 DEF Layout, m
<1>6. \A i, j \in 1 .. m + 2 : i <= j => new[i] <= new[j]
  <2>1. \A i \in 1 .. m + 1 : start[i] <= start[m + 1]
    BY <1>1 DEF Layout, m
  <2>2. \A i, j \in 1 .. m + 1 : i <= j => new[i] <= new[j]
    BY <1>4 DEF Layout, m
  <2>3. \A i \in 1 .. m + 2 : new[i] <= new[m + 2]
    BY <1>1, <1>2, <1>3, <1>4, <2>1
  <2>4. TAKE i, j \in 1 .. m + 2
  <2>5. CASE j = m + 2
    BY <2>3, <2>5
  <2>6. CASE j # m + 2 /\ i <= j
    BY <1>1, <2>2, <2>6
  <2>7. QED
    BY <2>5, <2>6
<1>7. QED
  <2>1. Len(sent') + 1 = m + 2 /\ Len(sent') = m + 1
    BY <1>1
  <2>2. QED
    BY <1>4, <1>5, <1>6, <2>1 DEF Layout

(* The reader takes n bytes from the stream.                               *)
Takes(n) ==
  /\ stream' = SubSeq(stream, n + 1, Len(stream))
  /\ UNCHANGED <<todo, sent, closed, looping>>

LEMMA StreamShrinks ==
  ASSUME TypeInv, NEW start, NEW c, StreamAt(start, c), NEW n \in 0 .. Len(stream), Takes(n)
  PROVE  StreamAt(start, c + n)'
<1>1. /\ stream \in Seq(Byte) /\ todo \in Seq(Byte) /\ c \in Nat
      /\ Len(stream) \in Nat /\ n \in Nat
  BY DEF TypeInv, StreamAt
<1>2. /\ stream' \in Seq(Byte) /\ Len(stream') = Len(stream) - n
      /\ Unread' \in Seq(Byte) /\ Len(Unread') = Len(Unread) - n
      /\ \A i \in 1 .. Len(Unread') : Unread'[i] = Unread[n + i]
  <2> DEFINE u == SubSeq(stream, n + 1, Len(stream))
  <2>1. /\ u \in Seq(Byte) /\ Len(u) = Len(stream) - n
        /\ u \o todo \in Seq(Byte) /\ Len(u \o todo) = Len(stream \o todo) - n
        /\ \A i \in 1 .. Len(u \o todo) : (u \o todo)[i] = (stream \o todo)[n + i]
    <3>1. PICK s \in Seq(Byte) : s = stream
      BY <1>1
    <3>2. PICK t \in Seq(Byte) : t = todo
      BY <1>1
    <3>3. n \in 0 .. Len(s)
      BY <3>1
    <3>4. LET v == SubSeq(s, n + 1, Len(s))
          IN  /\ v \in Seq(Byte) /\ Len(v) = Len(s) - n
              /\ v \o t \in Seq(Byte) /\ Len(v \o t) = Len(s \o t) - n
              /\ \A i \in 1 .. Len(v \o t) : (v \o t)[i] = (s \o t)[n + i]
      BY <3>3, Shifted
    <3>5. QED
      BY <3>1, <3>2, <3>4
  <2> HIDE DEF u
  <2>2. stream' = u /\ Unread' = u \o todo /\ Unread = stream \o todo
    BY DEF u, Unread, Takes
  <2>3. QED
    BY <2>1, <2>2 DEF u
<1>3. Unread \in Seq(Byte) /\ Len(Unread) \in Nat
  BY <1>1, ConcatProperties DEF Unread
<1>4. /\ Layout(start)' /\ start \in [1 .. Len(sent) + 1 -> Nat] /\ Len(sent) \in Nat
      /\ UNCHANGED <<sent, closed, looping>>
  BY DEF StreamAt, Layout, TypeInv, Takes
<1> DEFINE now == Len(Unread)
           then == Len(Unread')
<1>5. now \in Nat /\ then = now - n /\ then >= 0
  <2>1. Len(Unread') \in Nat
    BY <1>2
  <2>2. QED
    BY <1>2, <1>3, <2>1
<1> HIDE DEF now, then
<1>6. \A i \in 1 .. Len(sent) : \A k \in 1 .. HeadSize + Len(sent[i]) :
        c + n < start[i] + k /\ start[i] + k <= c + n + then =>
          Unread'[start[i] + k - (c + n)] = Frame(sent[i])[k]
  <2> TAKE i \in 1 .. Len(sent)
  <2>1. TAKE k \in 1 .. HeadSize + Len(sent[i])
  <2>2. HAVE c + n < start[i] + k /\ start[i] + k <= c + n + then
  <2> DEFINE s == start[i]
  <2>3. s \in Nat /\ k \in Nat
    <3>1. sent[i] \in Bodies
      BY <1>4 DEF TypeInv
    <3>2. HeadSize + Len(sent[i]) \in Nat
      BY <3>1, FrameType, FramingAssumption
    <3>3. QED
      BY <1>4, <3>2
  <2>4. c < start[i] + k /\ start[i] + k <= c + now =>
          Unread[start[i] + k - c] = Frame(sent[i])[k]
    BY DEF StreamAt, now
  <2>5. /\ c < s + k /\ s + k <= c + now
        /\ s + k - (c + n) \in 1 .. then
        /\ n + (s + k - (c + n)) = s + k - c
    <3> HIDE DEF s
    <3>1. c \in Nat /\ n \in Nat
      BY <1>1
    <3>2. c + n < s + k /\ s + k <= c + n + then
      BY <2>2 DEF s
    <3>3. QED
      BY <1>5, <2>3, <3>1, <3>2
  <2>6. Unread'[s + k - (c + n)] = Unread[n + (s + k - (c + n))]
    BY <1>2, <2>5 DEF then
  <2>7. QED
    BY <2>4, <2>5, <2>6
<1>7. c + n + then = c + now /\ c + n + Len(stream') = c + Len(stream) /\ c + n \in Nat
  <2>1. c \in Nat /\ n \in Nat /\ Len(stream) \in Nat /\ Len(stream') = Len(stream) - n
    BY <1>1, <1>2
  <2>2. QED
    BY <1>5, <2>1
<1>8. QED
  BY <1>4, <1>6, <1>7 DEF StreamAt, now, then

(* What it has then read of the head or of the body.                       *)
LEMMA BytesAreDue ==
  ASSUME TypeInv, NEW start, NEW c, StreamAt(start, c), ReaderAt(start, c),
         NEW n \in Nat, n <= Len(stream), n <= count - Len(data), part # "stopped"
  PROVE  LET bytes == data \o SubSeq(stream, 1, n)
             due == Len(received) + 1
         IN  /\ bytes \in Seq(Byte) /\ Len(bytes) = Len(data) + n
             /\ part = "head" =>
                  \/ bytes = <<>>
                  \/ due <= Len(sent) /\ Due(bytes, HeadOf(Len(sent[due])))
             /\ part = "body" => due <= Len(sent) /\ Due(bytes, sent[due])
<1> DEFINE bytes == data \o SubSeq(stream, 1, n)
           due == Len(received) + 1
           m == Len(sent)
           skip == IF part = "body" THEN HeadSize ELSE 0
           got == Len(data)
           left == Len(Unread)
           first == start[due]
           last == start[m + 1]
<1>1. /\ stream \in Seq(Byte) /\ todo \in Seq(Byte) /\ data \in Seq(Byte) /\ c \in Nat
      /\ Len(stream) \in Nat /\ Len(data) \in Nat /\ count \in Nat
      /\ HeadSize \in Nat \ {0} /\ skip \in Nat
  BY FramingAssumption DEF TypeInv, StreamAt
<1>2. /\ SubSeq(stream, 1, n) \in Seq(Byte) /\ Len(SubSeq(stream, 1, n)) = n
      /\ \A i \in 1 .. n : SubSeq(stream, 1, n)[i] = Unread[i]
  BY <1>1, Shifted DEF Unread
<1>3. Unread \in Seq(Byte) /\ Len(Unread) \in Nat /\ Len(stream) <= Len(Unread)
  BY <1>1, ConcatProperties DEF Unread
<1>4. /\ bytes \in Seq(Byte) /\ Len(bytes) = Len(data) + n
      /\ \A i \in 1 .. Len(data) + n :
           bytes[i] = IF i <= Len(data) THEN data[i] ELSE Unread[i - Len(data)]
  <2> DEFINE t == SubSeq(stream, 1, n)
  <2>1. t \in Seq(Byte) /\ Len(t) = n /\ \A i \in 1 .. n : t[i] = Unread[i]
    BY <1>2
  <2> HIDE DEF t
  <2>2. /\ data \o t \in Seq(Byte) /\ Len(data \o t) = Len(data) + n
        /\ \A i \in 1 .. Len(data) + n : (data \o t)[i] = IF i <= Len(data) THEN data[i]
                                                          ELSE t[i - Len(data)]
    BY <1>1, <2>1, ConcatProperties
  <2>3. \A i \in 1 .. Len(data) + n : (data \o t)[i] = IF i <= Len(data) THEN data[i]
                                                    ELSE Unread[i - Len(data)]
    BY <1>1, <2>1, <2>2
  <2>4. QED
    BY <2>2, <2>3 DEF t
<1>5. /\ m \in Nat /\ due \in Nat \ {0} /\ due <= m + 1
      /\ first \in Nat /\ last \in Nat
      /\ c = first + skip + got
      /\ c + left <= last
      /\ got \in Nat /\ left \in Nat /\ n <= left
  <2>1. /\ sent \in Seq(Bodies) /\ received \in Seq(Seq(Byte))
    BY DEF TypeInv
  <2>2. m \in Nat /\ due \in Nat \ {0}
    BY <2>1
  <2>3. /\ due <= m + 1 /\ start \in [1 .. m + 1 -> Nat]
        /\ c = start[due] + Taken
        /\ c + Len(Unread) <= start[m + 1]
    BY DEF ReaderAt, StreamAt, Layout
  <2>4. Taken = skip + got
    BY DEF Taken
  <2>5. got \in Nat /\ left \in Nat /\ n <= left
    BY <1>1, <1>3
  <2> HIDE DEF m, due, skip, got, left
  <2>6. start[due] \in Nat /\ start[m + 1] \in Nat
    BY <2>2, <2>3
  <2>7. c = first + (skip + got) /\ c + left <= last
    BY <2>3, <2>4 DEF left
  <2> HIDE DEF first, last
  <2>8. skip \in Nat /\ first \in Nat /\ last \in Nat
    BY <1>1, <2>6 DEF first, last
  <2>9. QED
    BY <2>2, <2>3, <2>5, <2>7, <2>8
<1> HIDE DEF bytes, due, m, skip, got, left, first, last
<1>6. CASE n = 0
  <2>1. bytes = data
    BY <1>1, <1>4, <1>6, SeqEqual
  <2>2. QED
    BY <1>1, <1>4, <1>6, <2>1 DEF ReaderAt, due, m, bytes
<1>7. CASE n > 0
  <2>1. due <= m /\ due \in 1 .. m
    <3>1. due = m + 1 => first = last
      BY DEF first, last
    <3>2. skip \in Nat /\ c \in Nat
      BY <1>1
    <3>3. due # m + 1
      BY <1>5, <1>7, <3>1, <3>2
    <3>4. QED
      BY <1>5, <3>3
  <2>2. sent[due] \in Bodies
    BY <2>1 DEF TypeInv, m
  <2> DEFINE b == sent[due]
  <2>3. /\ b \in Seq(Byte) /\ Len(b) \in Nat
        /\ HeadOf(Len(b)) \in Seq(Byte) /\ Len(HeadOf(Len(b))) = HeadSize
        /\ \A k \in 1 .. HeadSize : Frame(b)[k] = HeadOf(Len(b))[k]
        /\ \A k \in 1 .. Len(b) : Frame(b)[HeadSize + k] = b[k]
    BY <2>2, FrameType
  <2>4. \A k \in 1 .. HeadSize + Len(b) :
          c < start[due] + k /\ start[due] + k <= c + Len(Unread) =>
            Unread[start[due] + k - c] = Frame(b)[k]
    BY <2>1 DEF StreamAt, m
  <2>5. ASSUME NEW j \in 1 .. n, skip + Len(data) + j <= HeadSize + Len(b)
        PROVE  Unread[j] = Frame(b)[skip + Len(data) + j]
    <3> DEFINE k == skip + Len(data) + j
    <3>1. /\ k \in 1 .. HeadSize + Len(b)
          /\ first + k - c = j /\ c < first + k
          /\ first + k <= c + left
      <4>1. /\ HeadSize + Len(b) \in Nat /\ skip \in Nat /\ c \in Nat
            /\ j \in Nat /\ 1 <= j /\ j <= n
        BY <1>1, <2>3
      <4>2. skip + got + j <= HeadSize + Len(b) /\ k = skip + got + j
        BY <2>5 DEF got
      <4> HIDE DEF k
      <4>3. QED
        BY <1>5, <4>1, <4>2
    <3> HIDE DEF k
    <3>2. Unread[first + k - c] = Frame(b)[k]
      BY <2>4, <3>1 DEF first, left
    <3>3. QED
      BY <3>1, <3>2 DEF k
  <2> HIDE DEF b
  <2>6. CASE part = "head"
    <3> DEFINE h == HeadOf(Len(b))
    <3>1. /\ skip = 0 /\ count = HeadSize
          /\ \A k \in 1 .. HeadSize : Frame(b)[k] = h[k]
          /\ h \in Seq(Byte) /\ Len(h) = HeadSize
      BY <2>3, <2>6 DEF skip, ReaderAt
    <3>2. Len(bytes) <= Len(h) /\ Len(bytes) \in Nat
      BY <1>1, <1>4, <3>1
    <3> HIDE DEF h
    <3>3. \A i \in 1 .. Len(data) : data[i] = h[i]
      <4>1. data = <<>> \/ Due(data, h)
        BY <2>6 DEF ReaderAt, due, b, m, h
      <4>2. CASE Due(data, h)
        BY <1>1, <3>1, <4>2 DEF Due
      <4>3. QED
        BY <4>1, <4>2
    <3>4. \A i \in 1 .. Len(bytes) : bytes[i] = h[i]
      <4>1. TAKE i \in 1 .. Len(bytes)
      <4>2. CASE i <= Len(data)
        BY <1>1, <1>4, <3>3, <4>2
      <4>3. CASE i > Len(data)
        <5>1. /\ i - Len(data) \in 1 .. n
              /\ skip + Len(data) + (i - Len(data)) = i
              /\ i <= HeadSize + Len(b) /\ i \in 1 .. HeadSize
          BY <1>1, <1>4, <2>3, <3>1, <3>2, <4>3
        <5>2. Unread[i - Len(data)] = Frame(b)[i]
          BY <2>5, <5>1
        <5>3. QED
          BY <1>1, <1>4, <3>1, <4>3, <5>1, <5>2
      <4>4. QED
        BY <1>1, <1>4, <4>2, <4>3
    <3>5. Due(bytes, h)
      <4>1. /\ SubSeq(h, 1, Len(bytes)) \in Seq(Byte)
            /\ Len(SubSeq(h, 1, Len(bytes))) = Len(bytes)
            /\ \A i \in 1 .. Len(bytes) : SubSeq(h, 1, Len(bytes))[i] = h[i]
        BY <3>1, <3>2
      <4>2. bytes = SubSeq(h, 1, Len(bytes))
        BY <1>4, <3>4, <4>1, SeqEqual
      <4>3. QED
        BY <3>2, <4>2 DEF Due
    <3>6. QED
      BY <1>4, <2>1, <2>6, <3>5 DEF b, bytes, due, m, h
  <2>7. CASE part = "body"
    <3>1. skip = HeadSize /\ count = Len(b) /\ Due(data, b)
      BY <2>7 DEF skip, ReaderAt, b, due
    <3>2. Len(bytes) <= Len(b) /\ Len(bytes) \in Nat
      BY <1>1, <1>4, <2>3, <3>1
    <3>3. \A i \in 1 .. Len(data) : data[i] = b[i]
      BY <1>1, <2>3, <3>1 DEF Due
    <3>4. \A i \in 1 .. Len(bytes) : bytes[i] = b[i]
      <4>1. TAKE i \in 1 .. Len(bytes)
      <4>2. CASE i <= Len(data)
        BY <1>1, <1>4, <3>3, <4>2
      <4>3. CASE i > Len(data)
        <5>1. /\ i - Len(data) \in 1 .. n
              /\ skip + Len(data) + (i - Len(data)) = HeadSize + i
              /\ HeadSize + i <= HeadSize + Len(b) /\ i \in 1 .. Len(b)
          BY <1>1, <1>4, <2>3, <3>1, <3>2, <4>3
        <5>2. Unread[i - Len(data)] = Frame(b)[HeadSize + i]
          BY <2>5, <5>1
        <5>3. QED
          BY <1>1, <1>4, <2>3, <4>3, <5>1, <5>2
      <4>4. QED
        BY <1>1, <1>4, <4>2, <4>3
    <3>5. Due(bytes, b)
      <4>1. /\ SubSeq(b, 1, Len(bytes)) \in Seq(Byte)
            /\ Len(SubSeq(b, 1, Len(bytes))) = Len(bytes)
            /\ \A i \in 1 .. Len(bytes) : SubSeq(b, 1, Len(bytes))[i] = b[i]
        BY <2>3, <3>2
      <4>2. bytes = SubSeq(b, 1, Len(bytes))
        BY <1>4, <3>4, <4>1, SeqEqual
      <4>3. QED
        BY <3>2, <4>2 DEF Due
    <3>6. QED
      BY <1>4, <2>1, <2>7, <3>5 DEF b, bytes, due, m
  <2>8. QED
    BY <2>6, <2>7 DEF TypeInv
<1>8. QED
  BY <1>6, <1>7

(* Without a loop around read() a packet is in the stream as a whole.      *)
LEMMA WholeIsThere ==
  ASSUME TypeInv, NEW start, NEW c, StreamAt(start, c), ReaderAt(start, c),
         ~looping, ~closed, stream # <<>>, part # "stopped"
  PROVE  Len(data) = 0 /\ count <= Len(stream)
<1> DEFINE m == Len(sent)
           due == Len(received) + 1
           ls == Len(stream)
           first == start[due]
<1>1. /\ data = <<>> /\ c \in Nat /\ ls \in Nat \ {0} /\ m \in Nat /\ due \in Nat \ {0}
      /\ HeadSize \in Nat \ {0}
  BY EmptySeq, FramingAssumption DEF TypeInv, StreamAt
<1>2. PICK e \in 1 .. m + 1 : c + ls = start[e]
  BY DEF StreamAt
<1>3. /\ start \in [1 .. m + 1 -> Nat]
      /\ \A i, j \in 1 .. m + 1 : i <= j => start[i] <= start[j]
      /\ \A i \in 1 .. m : start[i + 1] = start[i] + HeadSize + Len(sent[i])
  BY DEF StreamAt, Layout
<1>4. /\ due <= m + 1
      /\ c = first + Taken /\ Taken = IF part = "body" THEN HeadSize ELSE 0
  BY <1>1 DEF ReaderAt, Taken
<1> HIDE DEF m, due, ls
<1>5. due \in 1 .. m + 1 /\ first \in Nat
  BY <1>1, <1>3, <1>4
<1>6. ~(e <= due)
  <2>1. e <= due => start[e] <= first
    BY <1>3, <1>5
  <2>2. c >= first
    BY <1>1, <1>4, <1>5
  <2>3. start[e] > c
    BY <1>1, <1>2
  <2>4. start[e] \in Nat
    BY <1>3
  <2> HIDE DEF first
  <2>5. QED
    BY <1>1, <1>5, <2>1, <2>2, <2>3, <2>4
<1>7. due \in 1 .. m /\ due + 1 <= e /\ due + 1 \in 1 .. m + 1
  BY <1>1, <1>5, <1>6
<1>8. start[due + 1] <= c + ls /\ start[due + 1] = first + HeadSize + Len(sent[due])
  BY <1>2, <1>3, <1>7
<1>9. Len(sent[due]) \in Nat
  <2>1. sent[due] \in Bodies
    BY <1>7 DEF TypeInv, m
  <2>2. QED
    BY <2>1, FrameType
<1>10. count = IF part = "body" THEN Len(sent[due]) ELSE HeadSize
  BY DEF ReaderAt, TypeInv, due
<1> DEFINE b == Len(sent[due])
<1>11. b \in Nat
  BY <1>9
<1>12. first + HeadSize + b <= c + ls /\ count = IF part = "body" THEN b ELSE HeadSize
  BY <1>8, <1>10
<1> HIDE DEF b, first
<1>13. count <= ls
  BY <1>1, <1>4, <1>5, <1>11, <1>12
<1>14. QED
  BY <1>1, <1>13 DEF ls

-----------------------------------------------------------------------------
(* The steps.  Each keeps the invariant and is a step of the channel or    *)
(* leaves it alone.                                                        *)
ChannelStep == [Channel!Next]_(Channel!vars)

LEMMA InitStep == Init => IInv /\ Channel!Init
<1> SUFFICES ASSUME Init PROVE IInv /\ Channel!Init
  OBVIOUS
<1>1. TypeInv
  <2>1. <<>> \in Seq(Byte) /\ <<>> \in Seq(Bodies) /\ <<>> \in Seq(Seq(Byte))
    OBVIOUS
  <2>2. HeadSize \in Nat
    BY FramingAssumption
  <2>3. QED
    BY <2>1, <2>2 DEF Init, TypeInv
<1> DEFINE start == [i \in 1 .. 1 |-> 0]
<1>2. Len(sent) = 0 /\ Len(received) = 0 /\ Len(data) = 0 /\ Unread = <<>>
  <2>1. <<>> \o <<>> = <<>>
    BY ConcatEmptySeq, EmptySeq
  <2>2. QED
    BY <2>1 DEF Init, Unread
<1>3. StreamAt(start, 0)
  BY <1>2 DEF Init, StreamAt, Layout
<1>4. ReaderAt(start, 0)
  BY <1>2 DEF Init, ReaderAt, Taken
<1>5. Channel!Init
  BY DEF Init, Channel!Init
<1>6. QED
  BY <1>1, <1>3, <1>4, <1>5 DEF IInv

LEMMA SendStep ==
  ASSUME IInv, NEW b \in Bodies, Send(b)
  PROVE  IInv' /\ ChannelStep
<1>1. /\ ~closed /\ todo = <<>> /\ todo' = Frame(b) /\ sent' = Append(sent, b)
      /\ UNCHANGED <<looping, pieces, stream, closed, part, count, data, received>>
  BY DEF Send, kind
<1>2. /\ Frame(b) \in Seq(Byte) /\ Len(Frame(b)) = HeadSize + Len(b)
      /\ Len(b) \in Nat /\ HeadSize \in Nat \ {0}
  BY FrameType, FramingAssumption
<1>3. TypeInv'
  BY <1>1, <1>2 DEF IInv, TypeInv
<1>4. ASSUME NEW start, NEW c, StreamAt(start, c), ReaderAt(start, c)
      PROVE  \E s, d : StreamAt(s, d)' /\ ReaderAt(s, d)'
  <2> DEFINE m == Len(sent)
             ls == Len(stream)
  <2>1. PICK new : new = Grown(start, b)
    OBVIOUS
  <2>2. Layout(new)'
    BY <1>1, <1>4, <2>1, LayoutGrows DEF IInv, StreamAt
  <2>3. /\ m \in Nat /\ Len(sent') = m + 1 /\ sent'[m + 1] = b
        /\ \A i \in 1 .. m : sent'[i] = sent[i] /\ sent[i] \in Bodies
        /\ c \in Nat /\ ls \in Nat /\ stream \in Seq(Byte)
    BY <1>1, <1>4 DEF IInv, TypeInv, StreamAt
  <2>4. /\ Unread = stream
        /\ Len(Unread') = ls + HeadSize + Len(b)
        /\ \A i \in 1 .. ls : Unread'[i] = stream[i]
        /\ \A i \in 1 .. HeadSize + Len(b) : Unread'[ls + i] = Frame(b)[i]
    <3> DEFINE f == Frame(b)
               len == HeadSize + Len(b)
    <3>1. f \in Seq(Byte) /\ Len(f) = len /\ len \in Nat
      BY <1>2
    <3> HIDE DEF f, len
    <3>2. /\ Len(stream \o f) = ls + len
          /\ \A i \in 1 .. ls + len : (stream \o f)[i] = IF i <= ls THEN stream[i] ELSE f[i - ls]
      BY <2>3, <3>1, ConcatProperties
    <3>3. Unread = stream /\ Unread' = stream \o f
      BY <1>1, <2>3, ConcatEmptySeq DEF Unread, f
    <3> HIDE DEF ls
    <3>4. \A i \in 1 .. ls : i \in 1 .. ls + len
      BY <2>3, <3>1
    <3>5. ls + len = ls + HeadSize + Len(b) /\ ls \in Nat
      BY <1>2, <2>3 DEF len
    <3>6. \A i \in 1 .. ls : (stream \o f)[i] = stream[i]
      BY <3>2, <3>4, <3>5
    <3>7. \A i \in 1 .. len : (stream \o f)[ls + i] = f[i]
      <4>1. TAKE i \in 1 .. len
      <4>2. PICK j : j = ls + i
        OBVIOUS
      <4>3. j \in 1 .. ls + len /\ ~(j <= ls) /\ j - ls = i
        BY <3>1, <3>5, <4>2
      <4>4. (stream \o f)[j] = f[j - ls]
        BY <3>2, <4>3
      <4>5. QED
        BY <4>2, <4>3, <4>4
    <3>8. Len(stream \o f) = ls + HeadSize + Len(b)
      BY <3>2, <3>5
    <3>9. QED
      BY <3>3, <3>6, <3>7, <3>8 DEF f, len
  <2>5. /\ start \in [1 .. m + 1 -> Nat]
        /\ \A i \in 1 .. m + 1 : new[i] = start[i]
        /\ new[m + 2] = start[m + 1] + HeadSize + Len(b)
        /\ \A i \in 1 .. m : start[i] + HeadSize + Len(sent[i]) <= start[m + 1]
    <3>1. /\ start \in [1 .. m + 1 -> Nat]
          /\ \A i \in 1 .. m : start[i + 1] = start[i] + HeadSize + Len(sent[i])
          /\ \A i, j \in 1 .. m + 1 : i <= j => start[i] <= start[j]
      BY <1>4 DEF StreamAt, Layout
    <3> HIDE DEF m
    <3>2. \A i \in 1 .. m : i + 1 \in 1 .. m + 1 /\ m + 1 \in 1 .. m + 1 /\ i + 1 <= m + 1
      BY <2>3
    <3>3. \A i \in 1 .. m : start[i] + HeadSize + Len(sent[i]) <= start[m + 1]
      BY <3>1, <3>2
    <3>4. /\ \A i \in 1 .. m + 1 : new[i] = start[i]
          /\ new[m + 2] = start[m + 1] + HeadSize + Len(b)
      BY <2>1, <2>3 DEF Grown, m
    <3>5. QED
      BY <3>1, <3>3, <3>4
  <2>6. c + ls = start[m + 1]
    BY <1>1, <1>4, <2>4 DEF StreamAt
  <2> HIDE DEF m, ls
  <2>7. \A i \in 1 .. Len(sent') : \A k \in 1 .. HeadSize + Len(sent'[i]) :
          c < new[i] + k /\ new[i] + k <= c + Len(Unread') =>
            Unread'[new[i] + k - c] = Frame(sent'[i])[k]
    <3> TAKE i \in 1 .. Len(sent')
    <3> TAKE k \in 1 .. HeadSize + Len(sent'[i])
    <3> HAVE c < new[i] + k /\ new[i] + k <= c + Len(Unread')
    <3>1. CASE i \in 1 .. m
      <4>1. /\ sent'[i] = sent[i] /\ new[i] = start[i] /\ start[i] \in Nat
            /\ HeadSize + Len(sent[i]) \in Nat /\ start[m + 1] \in Nat
        <5>1. HeadSize + Len(sent[i]) \in Nat
          BY <1>2, <2>3, <3>1, FrameType
        <5>2. QED
          BY <2>3, <2>5, <3>1, <5>1
      <4> DEFINE s == start[i]
                 at == s + k - c
                 len == HeadSize + Len(sent[i])
      <4>2. s + len <= start[m + 1] /\ k \in 1 .. len /\ c < s + k
        <5>1. s + HeadSize + Len(sent[i]) <= start[m + 1]
          BY <2>5, <3>1
        <5>2. Len(sent[i]) \in Nat /\ HeadSize \in Nat
          BY <1>2, <2>3, <3>1, FrameType
        <5>3. s + HeadSize + Len(sent[i]) = s + len
          BY <4>1, <5>2
        <5>4. k \in 1 .. len /\ c < s + k
          BY <4>1
        <5>5. QED
          BY <5>1, <5>3, <5>4
      <4>3. at \in 1 .. ls /\ s + k <= c + ls
        <5> HIDE DEF s, len
        <5>1. s \in Nat /\ len \in Nat
          BY <4>1 DEF s, len
        <5>2. QED
          BY <2>3, <2>6, <4>2, <5>1
      <4>4. Unread[at] = Frame(sent[i])[k]
        BY <1>4, <2>4, <3>1, <4>2, <4>3 DEF StreamAt, m, ls
      <4>5. QED
        BY <2>4, <4>1, <4>3, <4>4
    <3>2. CASE i = m + 1
      <4>1. /\ sent'[i] = b /\ new[i] = start[m + 1] /\ k \in 1 .. HeadSize + Len(b)
        BY <2>3, <2>5, <3>2
      <4>2. new[i] + k - c = ls + k
        BY <1>2, <2>3, <2>6, <4>1
      <4>3. QED
        BY <2>4, <4>1, <4>2
    <3>3. QED
      BY <2>3, <3>1, <3>2
  <2>8. c + Len(Unread') = new[Len(sent') + 1]
    BY <1>2, <2>3, <2>4, <2>5, <2>6
  <2>9. \E e \in 1 .. Len(sent') + 1 : c + Len(stream') = new[e]
    BY <1>1, <2>3, <2>5, <2>6 DEF ls
  <2>10. StreamAt(new, c)'
    <3>1. new[Len(sent') + 1] \in Nat
      BY <2>2, <2>3 DEF Layout
    <3>2. QED
      BY <2>2, <2>3, <2>7, <2>8, <2>9, <3>1 DEF StreamAt
  <2>11. ReaderAt(new, c)'
    <3> DEFINE due == Len(received) + 1
    <3>1. due \in Nat \ {0} /\ Len(received) \in Nat
      BY DEF IInv, TypeInv
    <3>2. due <= m + 1 /\ new[due] = start[due]
      BY <1>4, <2>3, <2>5, <3>1 DEF ReaderAt, m
    <3>3. \A i \in 1 .. m : sent'[i] = sent[i]
      BY <2>3
    <3>4. Taken' = Taken
      BY <1>1 DEF Taken
    <3>5. due <= m => due \in 1 .. m
      BY <2>3, <3>1
    <3>6. \A i \in 1 .. Len(received) : i \in 1 .. m
      BY <2>3, <3>1, <3>2
    <3>7. QED
      BY <1>1, <1>4, <2>3, <3>2, <3>3, <3>4, <3>5, <3>6 DEF ReaderAt, m, Due
  <2>12. QED
    BY <2>10, <2>11
<1>5. IInv'
  BY <1>1, <1>3, <1>4 DEF IInv, Over
<1>6. Channel!Send(b)
  BY <1>1 DEF Channel!Send
<1>7. QED
  BY <1>5, <1>6 DEF ChannelStep, Channel!Next

LEMMA anetWriteStep ==
  ASSUME IInv, anetWrite
  PROVE  IInv' /\ ChannelStep
<1> DEFINE room == Lesser(Len(todo), Cap - Len(stream))
<1>1. /\ todo # <<>>
      /\ UNCHANGED <<looping, pieces, closed, part, count, data, sent, received>>
  BY DEF anetWrite, kind
<1>2. stream \in Seq(Byte) /\ todo \in Seq(Byte) /\ ~closed /\ (~looping => ~pieces)
  BY <1>1 DEF IInv, TypeInv
<1>3. PICK n \in 1 .. Len(todo) :
        /\ stream' = stream \o SubSeq(todo, 1, n)
        /\ todo' = SubSeq(todo, n + 1, Len(todo))
        /\ ~pieces => n = Len(todo)
  <2>1. PICK n \in IF pieces THEN 1 .. room ELSE {Len(todo)} \cap {room} :
          /\ stream' = stream \o SubSeq(todo, 1, n)
          /\ todo' = SubSeq(todo, n + 1, Len(todo))
    BY DEF anetWrite
  <2> DEFINE lt == Len(todo)
             ls == Len(stream)
  <2>2. lt \in Nat \ {0} /\ ls \in Nat /\ Cap \in Nat
    BY <1>1, <1>2, EmptySeq, FramingAssumption
  <2>3. room = IF lt < Cap - ls THEN lt ELSE Cap - ls
    BY DEF Lesser
  <2>4. IF pieces THEN n \in 1 .. room ELSE n = lt
    BY <2>1
  <2> HIDE DEF lt, ls, room
  <2>5. n \in 1 .. lt /\ (~pieces => n = lt)
    BY <2>2, <2>3, <2>4
  <2>6. QED
    BY <2>1, <2>5 DEF lt
<1>4. /\ todo' \in Seq(Byte) /\ stream' \in Seq(Byte) /\ Unread' = Unread
      /\ ~pieces => stream' = Unread
  <2>1. /\ SubSeq(todo, n + 1, Len(todo)) \in Seq(Byte)
        /\ stream \o SubSeq(todo, 1, n) \in Seq(Byte)
        /\ (stream \o SubSeq(todo, 1, n)) \o SubSeq(todo, n + 1, Len(todo)) = stream \o todo
    <3>1. PICK s \in Seq(Byte) : s = stream
      BY <1>2
    <3>2. PICK t \in Seq(Byte) : t = todo
      BY <1>2
    <3>3. n \in 0 .. Len(t)
      BY <3>2
    <3>4. /\ SubSeq(t, 1, n) \in Seq(Byte) /\ SubSeq(t, n + 1, Len(t)) \in Seq(Byte)
          /\ s \o SubSeq(t, 1, n) \in Seq(Byte)
          /\ (s \o SubSeq(t, 1, n)) \o SubSeq(t, n + 1, Len(t)) = s \o t
      BY <3>3, Moved
    <3>5. QED
      BY <3>1, <3>2, <3>4
  <2>2. ~pieces => SubSeq(todo, 1, n) = todo
    BY <1>2, <1>3, SubSeqFull
  <2>3. QED
    BY <1>3, <2>1, <2>2 DEF Unread
<1> HIDE DEF room
<1>5. TypeInv'
  BY <1>1, <1>2, <1>4 DEF IInv, TypeInv
<1>6. ASSUME NEW start, NEW c, StreamAt(start, c), ReaderAt(start, c)
      PROVE  StreamAt(start, c)' /\ ReaderAt(start, c)'
  <2>1. ReaderAt(start, c)'
    <3>1. Taken' = Taken
      BY <1>1 DEF Taken
    <3>2. QED
      BY <1>1, <1>6, <3>1 DEF ReaderAt, Due
  <2>2. closed \/ looping \/ \E e \in 1 .. Len(sent) + 1 : c + Len(stream') = start[e]
    <3>1. Len(sent) + 1 \in 1 .. Len(sent) + 1
      BY DEF IInv, TypeInv
    <3>2. QED
      BY <1>2, <1>4, <1>6, <3>1 DEF StreamAt
  <2>3. StreamAt(start, c)'
    BY <1>1, <1>4, <1>6, <2>2 DEF StreamAt, Layout
  <2>4. QED
    BY <2>1, <2>3
<1>7. IInv'
  <2>1. part = "stopped" \/ \E start, c : StreamAt(start, c) /\ ReaderAt(start, c)
    BY <1>2 DEF IInv, Over
  <2>2. QED
    BY <1>1, <1>5, <1>6, <2>1 DEF IInv
<1>8. QED
  BY <1>1, <1>7 DEF ChannelStep, Channel!vars

LEMMA CloseStep ==
  ASSUME IInv, Close
  PROVE  IInv' /\ ChannelStep
<1>1. /\ ~closed /\ closed' = TRUE /\ todo' = <<>>
      /\ UNCHANGED <<looping, pieces, stream, part, count, data, sent, received>>
  BY DEF Close, kind
<1>2. stream \in Seq(Byte) /\ todo \in Seq(Byte) /\ Len(stream) \in Nat /\ Len(todo) \in Nat
  BY DEF IInv, TypeInv
<1>3. TypeInv'
  <2>1. <<>> \in Seq(Byte)
    OBVIOUS
  <2>2. QED
    BY <1>1, <2>1 DEF IInv, TypeInv
<1>4. /\ Unread' = stream /\ Len(Unread) = Len(stream) + Len(todo)
      /\ \A i \in 1 .. Len(stream) : Unread[i] = stream[i]
  <2>1. Unread' = stream
    BY <1>1, <1>2, ConcatEmptySeq DEF Unread
  <2>2. /\ Len(stream \o todo) = Len(stream) + Len(todo)
        /\ \A i \in 1 .. Len(stream) + Len(todo) :
             (stream \o todo)[i] = IF i <= Len(stream) THEN stream[i] ELSE todo[i - Len(stream)]
    BY <1>2, ConcatProperties
  <2>3. QED
    BY <1>2, <2>1, <2>2 DEF Unread
<1>5. ASSUME NEW start, NEW c, StreamAt(start, c), ReaderAt(start, c)
      PROVE  StreamAt(start, c)' /\ ReaderAt(start, c)'
  <2>1. ReaderAt(start, c)'
    <3>1. Taken' = Taken
      BY <1>1 DEF Taken
    <3>2. QED
      BY <1>1, <1>5, <3>1 DEF ReaderAt, Due
  <2>2. /\ c \in Nat /\ c + Len(Unread) <= start[Len(sent) + 1]
        /\ start \in [1 .. Len(sent) + 1 -> Nat] /\ Len(sent) \in Nat
    BY <1>5 DEF StreamAt, Layout, IInv, TypeInv
  <2> DEFINE ls == Len(stream)
             lt == Len(todo)
             last == start[Len(sent) + 1]
  <2>3. c + ls <= last
    <3>1. ls \in Nat /\ lt \in Nat /\ c + (ls + lt) <= last /\ last \in Nat
      BY <1>2, <1>4, <2>2
    <3> HIDE DEF ls, lt, last
    <3>2. QED
      BY <2>2, <3>1
  <2>4. \A i \in 1 .. Len(sent) : \A k \in 1 .. HeadSize + Len(sent[i]) :
          c < start[i] + k /\ start[i] + k <= c + ls =>
            stream[start[i] + k - c] = Frame(sent[i])[k]
    <3> TAKE i \in 1 .. Len(sent)
    <3> TAKE k \in 1 .. HeadSize + Len(sent[i])
    <3> HAVE c < start[i] + k /\ start[i] + k <= c + ls
    <3> DEFINE s == start[i]
    <3>1. s \in Nat /\ k \in Nat
      <4>1. sent[i] \in Bodies
        BY DEF IInv, TypeInv
      <4>2. HeadSize + Len(sent[i]) \in Nat
        BY <4>1, FrameType, FramingAssumption
      <4>3. QED
        BY <2>2, <4>2
    <3>2. s + k - c \in 1 .. ls /\ s + k <= c + (ls + lt)
      <4>1. ls \in Nat /\ lt \in Nat /\ c < s + k /\ s + k <= c + ls
        BY <1>2
      <4> HIDE DEF s, ls, lt
      <4>2. QED
        BY <2>2, <3>1, <4>1
    <3>3. Unread[s + k - c] = Frame(sent[i])[k]
      BY <1>4, <1>5, <3>2 DEF StreamAt
    <3>4. QED
      BY <1>4, <3>2, <3>3
  <2>5. StreamAt(start, c)'
    BY <1>1, <1>4, <1>5, <2>3, <2>4 DEF StreamAt, Layout
  <2>6. QED
    BY <2>1, <2>5
<1>6. IInv'
  BY <1>1, <1>3, <1>5 DEF IInv, Over
<1>7. Channel!Close
  BY <1>1 DEF Channel!Close
<1>8. QED
  BY <1>6, <1>7 DEF ChannelStep, Channel!Next

(* The call for a head or a body has returned, with all it asked for or    *)
(* with all there will ever be.                                            *)
LEMMA ReturnedStep ==
  ASSUME IInv, NEW start, NEW c, StreamAt(start, c), ReaderAt(start, c), part # "stopped",
         NEW n \in 0 .. Len(stream), n <= count - Len(data), Takes(n), pieces' = pieces,
         NEW bytes, bytes = data \o SubSeq(stream, 1, n), Returned(bytes),
         Len(bytes) < count => closed /\ n = Len(stream)
  PROVE  IInv' /\ ChannelStep
<1> DEFINE due == Len(received) + 1
<1>1. /\ stream \in Seq(Byte) /\ todo \in Seq(Byte) /\ data \in Seq(Byte) /\ count \in Nat
      /\ sent \in Seq(Bodies) /\ received \in Seq(Seq(Byte)) /\ part \in {"head", "body"}
      /\ n \in Nat /\ n <= Len(stream) /\ Len(data) \in Nat /\ c \in Nat
      /\ due \in Nat \ {0} /\ Len(received) = due - 1 /\ Len(sent) \in Nat
      /\ HeadSize \in Nat \ {0}
  <2>1. /\ stream \in Seq(Byte) /\ todo \in Seq(Byte) /\ data \in Seq(Byte) /\ count \in Nat
        /\ sent \in Seq(Bodies) /\ received \in Seq(Seq(Byte)) /\ part \in {"head", "body"}
        /\ c \in Nat /\ HeadSize \in Nat \ {0}
    BY FramingAssumption DEF IInv, TypeInv, StreamAt
  <2>2. Len(stream) \in Nat /\ Len(data) \in Nat /\ Len(sent) \in Nat /\ Len(received) \in Nat
    BY <2>1
  <2>3. n \in Nat /\ n <= Len(stream)
    BY <2>2
  <2>4. due \in Nat \ {0} /\ Len(received) = due - 1
    BY <2>2
  <2>5. QED
    BY <2>1, <2>2, <2>3, <2>4
<1>2. /\ bytes \in Seq(Byte) /\ Len(bytes) = Len(data) + n
      /\ part = "head" => \/ bytes = <<>>
                          \/ due <= Len(sent) /\ Due(bytes, HeadOf(Len(sent[due])))
      /\ part = "body" => due <= Len(sent) /\ Due(bytes, sent[due])
  BY <1>1, BytesAreDue DEF IInv
<1>3. /\ UNCHANGED <<looping, pieces, todo, closed, sent>> /\ data' = <<>>
      /\ stream' = SubSeq(stream, n + 1, Len(stream)) /\ stream' \in Seq(Byte)
  BY <1>1 DEF Takes, Returned
<1>4. due <= Len(sent) + 1 /\ \A i \in 1 .. Len(received) : received[i] = sent[i]
  BY DEF ReaderAt
<1>5. StreamAt(start, c + n)'
  BY StreamShrinks DEF IInv
<1>6. <<>> \in Seq(Byte) /\ Len(<<>>) = 0
  OBVIOUS
<1>7. Len(bytes) < count => stream' = <<>> /\ closed'
  BY <1>1, <1>3
<1>8. Len(bytes) \in Nat /\ Len(bytes) <= count
  BY <1>1, <1>2
<1>9. Len(bytes) # count => stream' = <<>> /\ closed'
  <2> DEFINE l == Len(bytes)
  <2>1. l \in Nat /\ l <= count /\ count \in Nat
    BY <1>1, <1>8
  <2>2. l < count => stream' = <<>> /\ closed'
    BY <1>7
  <2> HIDE DEF l
  <2>3. l # count => stream' = <<>> /\ closed'
    <3>1. l # count => l < count
      BY <2>1
    <3>2. QED
      BY <2>2, <3>1
  <2>4. QED
    BY <2>3 DEF l
<1>10. /\ start \in [1 .. Len(sent) + 1 -> Nat]
       /\ \A i \in 1 .. Len(sent) : start[i + 1] = start[i] + HeadSize + Len(sent[i])
       /\ \A i \in 1 .. Len(sent) : start[i] \in Nat /\ start[i + 1] \in Nat
  <2>1. /\ start \in [1 .. Len(sent) + 1 -> Nat]
        /\ \A i \in 1 .. Len(sent) : start[i + 1] = start[i] + HeadSize + Len(sent[i])
    BY DEF StreamAt, Layout
  <2>2. \A i \in 1 .. Len(sent) : i \in 1 .. Len(sent) + 1 /\ i + 1 \in 1 .. Len(sent) + 1
    BY <1>1
  <2>3. QED
    BY <2>1, <2>2
<1> HIDE DEF due
<1>11. CASE part = "head"
  <2>1. /\ part' = "body" /\ received' = received
        /\ IF Len(bytes) = HeadSize THEN count' = Length(bytes)
                                    ELSE count' \in 0 .. 2 ^ HeadSize - 1
    BY <1>11 DEF Returned
  <2>2. count = HeadSize /\ c = start[due] + Len(data)
    BY <1>1, <1>11 DEF ReaderAt, Taken, due
  <2>3. CASE Len(bytes) = HeadSize
    <3>1. due <= Len(sent) /\ due \in 1 .. Len(sent)
      <4>1. bytes # <<>>
        BY <1>1, <1>6, <2>3
      <4>2. due <= Len(sent)
        BY <1>2, <1>11, <4>1
      <4>3. QED
        BY <1>1, <4>2
    <3> DEFINE b == sent[due]
               h == HeadOf(Len(b))
    <3>2. b \in Bodies
      BY <1>1, <3>1
    <3>3. h \in Seq(Byte) /\ Len(h) = HeadSize /\ Length(h) = Len(b) /\ Len(b) \in Nat
      BY <3>2, FrameType
    <3>4. b \in Seq(Byte)
      BY <3>2, FrameType
    <3> HIDE DEF h
    <3>5. bytes = h
      <4>1. Due(bytes, h)
        BY <1>1, <1>2, <1>6, <1>11, <2>3 DEF h
      <4>2. bytes = SubSeq(h, 1, Len(h))
        BY <2>3, <3>3, <4>1 DEF Due
      <4>3. QED
        BY <3>3, <4>2, SubSeqFull
    <3>6. count' = Len(b)
      BY <2>1, <2>3, <3>3, <3>5
    <3>7. TypeInv'
      BY <1>1, <1>3, <1>6, <2>1, <3>3, <3>6 DEF IInv, TypeInv
    <3>8. ReaderAt(start, c + n)'
      <4>1. c + n = start[due] + HeadSize
        <5>1. start[due] \in Nat
          BY <1>10, <3>1
        <5>2. QED
          BY <1>1, <1>2, <2>2, <2>3, <5>1
      <4>2. Taken' = HeadSize
        BY <1>1, <1>3, <1>6, <2>1 DEF Taken
      <4>3. Due(<<>>, b)
        BY <1>6, <3>4, SubSeqEmpty DEF Due
      <4>4. /\ Len(received') + 1 = due /\ sent' = sent
            /\ \A i \in 1 .. Len(received') : received'[i] = sent[i]
            /\ due <= Len(sent) + 1
        BY <1>3, <1>4, <2>1 DEF due
      <4>5. QED
        BY <1>3, <2>1, <3>1, <3>6, <4>1, <4>2, <4>3, <4>4 DEF ReaderAt, Due
    <3>9. IInv'
      BY <1>5, <3>7, <3>8 DEF IInv
    <3>10. QED
      BY <1>3, <2>1, <3>9 DEF ChannelStep, Channel!vars
  <2>4. CASE Len(bytes) # HeadSize
    <3>1. stream' = <<>> /\ closed'
      BY <1>9, <2>2, <2>4
    <3>2. count' \in Nat
      BY <2>1, <2>4, HeadAssumption
    <3>3. TypeInv'
      BY <1>1, <1>3, <1>6, <2>1, <3>2 DEF IInv, TypeInv
    <3>4. IInv'
      BY <1>3, <3>1, <3>3 DEF IInv, Over
    <3>5. QED
      BY <1>3, <2>1, <3>4 DEF ChannelStep, Channel!vars
  <2>5. QED
    BY <2>3, <2>4
<1>12. CASE part = "body"
  <2>1. part' = "head" /\ count' = HeadSize /\ received' = Append(received, bytes)
    BY <1>12 DEF Returned
  <2> DEFINE b == sent[due]
  <2>2. due \in 1 .. Len(sent) /\ count = Len(b) /\ c = start[due] + (HeadSize + Len(data))
    BY <1>1, <1>2, <1>12 DEF ReaderAt, Taken, due
  <2>3. b \in Seq(Byte) /\ Len(b) \in Nat
    <3>1. b \in Bodies
      BY <1>1, <2>2
    <3>2. QED
      BY <3>1, FrameType
  <2>4. /\ received' \in Seq(Seq(Byte)) /\ Len(received') = due
        /\ \A i \in 1 .. Len(received) : received'[i] = received[i]
        /\ received'[due] = bytes
    <3>1. /\ received' \in Seq(Seq(Byte)) /\ Len(received') = Len(received) + 1
          /\ \A i \in 1 .. Len(received) : received'[i] = received[i]
          /\ received'[Len(received) + 1] = bytes
      <4>1. PICK r \in Seq(Seq(Byte)) : r = received
        BY <1>1
      <4>2. PICK x \in Seq(Byte) : x = bytes
        BY <1>2
      <4>3. /\ Append(r, x) \in Seq(Seq(Byte)) /\ Len(Append(r, x)) = Len(r) + 1
            /\ \A i \in 1 .. Len(r) : Append(r, x)[i] = r[i]
            /\ Append(r, x)[Len(r) + 1] = x
        BY AppendProperties
      <4>4. QED
        BY <2>1, <4>1, <4>2, <4>3
    <3>2. QED
      BY <3>1 DEF due
  <2>5. TypeInv'
    BY <1>1, <1>3, <1>6, <2>1, <2>4 DEF IInv, TypeInv
  <2>6. Channel!Whole /\ Len(received) < Len(sent)
    <3>1. DOMAIN received = 1 .. Len(received)
      BY <1>1
    <3>2. \A i \in 1 .. Len(received) : i <= Len(sent)
      BY <1>1, <2>2
    <3>3. \A i \in 1 .. Len(received) : received[i] = sent[i]
      BY <1>4 DEF ReaderAt
    <3>4. Channel!Whole
      BY <3>1, <3>2, <3>3 DEF Channel!Whole
    <3>5. Len(received) < Len(sent)
      BY <1>1, <2>2 DEF due
    <3>6. QED
      BY <3>4, <3>5
  <2>7. CASE Len(bytes) = count
    <3>1. bytes = b
      <4>1. bytes = SubSeq(b, 1, Len(b))
        BY <1>2, <1>12, <2>2, <2>7 DEF Due
      <4>2. QED
        BY <2>3, <4>1, SubSeqFull
    <3>2. ReaderAt(start, c + n)'
      <4>1. c + n = start[due + 1]
        <5>1. start[due + 1] = start[due] + HeadSize + Len(b) /\ start[due] \in Nat
          BY <1>10, <2>2
        <5> DEFINE s == start[due]
                   ld == Len(data)
                   lb == Len(b)
        <5>2. /\ c = s + (HeadSize + ld) /\ ld + n = lb /\ s \in Nat /\ ld \in Nat
              /\ HeadSize \in Nat /\ n \in Nat /\ start[due + 1] = s + HeadSize + lb
          BY <1>1, <1>2, <2>2, <2>7, <5>1
        <5> HIDE DEF s, ld, lb
        <5>3. QED
          BY <5>2
      <4>2. Taken' = 0
        BY <1>3, <1>6, <2>1 DEF Taken
      <4>3. start[due + 1] \in Nat
        BY <1>10, <2>2
      <4>4. \A i \in 1 .. due : received'[i] = sent[i]
        <5>1. \A i \in 1 .. due : i = due \/ i \in 1 .. Len(received)
          BY <1>1
        <5>2. QED
          BY <1>4, <2>4, <3>1, <5>1
      <4>5. due + 1 <= Len(sent) + 1
        BY <1>1, <2>2
      <4>6. QED
        BY <1>3, <2>1, <2>4, <4>1, <4>2, <4>3, <4>4, <4>5 DEF ReaderAt
    <3>3. IInv'
      BY <1>5, <2>5, <3>2 DEF IInv
    <3>4. Channel!Receive
      BY <1>3, <2>1, <2>6, <3>1 DEF Channel!Receive, due
    <3>5. QED
      BY <3>3, <3>4 DEF ChannelStep, Channel!Next
  <2>8. CASE Len(bytes) # count
    <3>1. stream' = <<>> /\ closed' /\ closed
      BY <1>3, <1>9, <2>8
    <3>2. IInv'
      BY <1>3, <2>5, <3>1 DEF IInv, Over
    <3>3. Channel!ReceiveCut
      <4>1. Len(bytes) \in 0 .. Len(b) /\ bytes = SubSeq(b, 1, Len(bytes))
        BY <1>2, <1>8, <1>12, <2>3 DEF Due
      <4>2. QED
        BY <1>3, <2>1, <2>6, <3>1, <4>1 DEF Channel!ReceiveCut, due
    <3>4. QED
      BY <3>2, <3>3 DEF ChannelStep, Channel!Next
  <2>9. QED
    BY <2>7, <2>8
<1>13. QED
  BY <1>1, <1>11, <1>12

(* When all is over, calls return nothing.                                 *)
LEMMA OverStep ==
  ASSUME IInv, Over, Returned(<<>>), part # "stopped",
         UNCHANGED <<kind, todo, stream, closed, sent>>
  PROVE  IInv' /\ ChannelStep
<1>1. /\ UNCHANGED <<looping, pieces, todo, stream, closed, sent>> /\ data' = <<>>
      /\ closed /\ stream = <<>>
      /\ sent \in Seq(Bodies) /\ received \in Seq(Seq(Byte)) /\ part \in {"head", "body"}
      /\ HeadSize \in Nat
  BY FramingAssumption DEF IInv, TypeInv, Over, Returned, kind
<1>2. <<>> \in Seq(Byte) /\ Len(<<>>) = 0
  OBVIOUS
<1>3. CASE part = "head"
  <2>1. part' = "body" /\ received' = received /\ count' \in Nat
    BY <1>1, <1>2, <1>3, FramingAssumption, HeadAssumption DEF Returned
  <2>2. TypeInv'
    BY <1>1, <1>2, <2>1 DEF IInv, TypeInv
  <2>3. QED
    BY <1>1, <2>1, <2>2 DEF IInv, Over, ChannelStep, Channel!vars
<1>4. CASE part = "body"
  <2>1. part' = "head" /\ count' = HeadSize /\ received' = Append(received, <<>>)
    BY <1>4 DEF Returned
  <2>2. received' \in Seq(Seq(Byte))
    BY <1>1, <1>2, <2>1, AppendProperties
  <2>3. TypeInv'
    BY <1>1, <1>2, <2>1, <2>2 DEF IInv, TypeInv
  <2> DEFINE next == IF Channel!Whole /\ Len(received) < Len(sent)
                     THEN sent[Len(received) + 1] ELSE <<>>
  <2>4. Len(next) \in Nat
    <3>1. CASE Channel!Whole /\ Len(received) < Len(sent)
      <4>1. Len(received) + 1 \in 1 .. Len(sent)
        BY <1>1, <3>1
      <4>2. sent[Len(received) + 1] \in Bodies
        BY <1>1, <4>1
      <4>3. QED
        BY <3>1, <4>2, FrameType
    <3>2. CASE ~(Channel!Whole /\ Len(received) < Len(sent))
      BY <1>2, <3>2
    <3>3. QED
      BY <3>1, <3>2
  <2>5. SubSeq(next, 1, 0) = <<>>
    BY SubSeqEmpty
  <2>6. \E n \in 0 .. Len(next) : received' = Append(received, SubSeq(next, 1, n))
    <3>1. 0 \in 0 .. Len(next)
      BY <2>4
    <3>2. received' = Append(received, SubSeq(next, 1, 0))
      BY <2>1, <2>5
    <3> HIDE DEF next
    <3>3. QED
      BY <3>1, <3>2
  <2>7. Channel!ReceiveCut
    BY <1>1, <2>6 DEF Channel!ReceiveCut
  <2>8. QED
    BY <1>1, <2>1, <2>3, <2>7 DEF IInv, Over, ChannelStep, Channel!Next
<1>5. QED
  BY <1>1, <1>3, <1>4

(* Whatever a read() gives, the call goes on or has returned.              *)
LEMMA ReaderStep ==
  ASSUME IInv, Reader
  PROVE  IInv' /\ ChannelStep
<1>1. /\ part # "stopped" /\ Len(data) <= count
      /\ stream \in Seq(Byte) /\ todo \in Seq(Byte) /\ data \in Seq(Byte) /\ count \in Nat
      /\ Len(stream) \in Nat /\ Len(data) \in Nat
      /\ looping \in BOOLEAN /\ pieces \in BOOLEAN /\ closed \in BOOLEAN
      /\ ~looping => ~pieces /\ data = <<>>
  BY DEF IInv, TypeInv, Reader, ReadSome, ReadNothing, ReadEnd, Reading
<1>2. <<>> \in Seq(Byte) /\ Len(<<>>) = 0
  OBVIOUS
<1>3. ASSUME ReadSome
      PROVE  IInv' /\ ChannelStep
  <2> DEFINE most == Lesser(count - Len(data), Len(stream))
  <2>1. PICK n \in IF pieces THEN 1 .. most ELSE {most} :
          /\ stream' = SubSeq(stream, n + 1, Len(stream))
          /\ read(data \o SubSeq(stream, 1, n))
    BY <1>3 DEF ReadSome
  <2>2. /\ stream # <<>> /\ Len(data) < count
        /\ UNCHANGED <<looping, pieces, todo, closed, sent>>
    BY <1>3 DEF ReadSome, kind
  <2>3. Len(stream) > 0
    BY <1>1, <2>2, EmptySeq
  <2>4. /\ n \in 0 .. Len(stream) /\ n \in Nat /\ n <= count - Len(data) /\ n <= Len(stream)
        /\ ~pieces => n = most
    <3> DEFINE ls == Len(stream)
               ld == Len(data)
    <3>1. ls \in Nat /\ ld \in Nat /\ count \in Nat /\ ld < count /\ ls > 0
      BY <1>1, <2>2, <2>3
    <3>2. n \in (IF pieces THEN 1 .. Lesser(count - ld, ls) ELSE {Lesser(count - ld, ls)})
      BY <2>1
    <3> HIDE DEF ls, ld
    <3>3. n \in 0 .. ls /\ n \in Nat /\ n <= count - ld /\ n <= ls
      BY <3>1, <3>2 DEF Lesser
    <3>4. ~pieces => n = Lesser(count - ld, ls)
      BY <3>2
    <3>5. QED
      BY <3>3, <3>4 DEF ls, ld
  <2> HIDE DEF most
  <2>5. PICK start, c : StreamAt(start, c) /\ ReaderAt(start, c)
    BY <1>1, <2>2 DEF IInv, Over
  <2> DEFINE bytes == data \o SubSeq(stream, 1, n)
  <2>6. Takes(n)
    BY <2>1, <2>2 DEF Takes
  <2>7. /\ bytes \in Seq(Byte) /\ Len(bytes) = Len(data) + n
        /\ part = "head" =>
             \/ bytes = <<>>
             \/ /\ Len(received) + 1 <= Len(sent)
                /\ Due(bytes, HeadOf(Len(sent[Len(received) + 1])))
        /\ part = "body" => /\ Len(received) + 1 <= Len(sent)
                            /\ Due(bytes, sent[Len(received) + 1])
    BY <1>1, <2>4, <2>5, BytesAreDue DEF IInv
  <2>8. read(bytes)
    BY <2>1
  <2> HIDE DEF bytes
  <2>9. CASE looping /\ Len(bytes) < count
    <3>1. data' = bytes /\ UNCHANGED <<part, count, received>>
      BY <2>8, <2>9 DEF read
    <3>2. StreamAt(start, c + n)'
      BY <2>4, <2>5, <2>6, StreamShrinks DEF IInv
    <3>3. TypeInv'
      <4>1. stream' \in Seq(Byte)
        <5>1. PICK s \in Seq(Byte) : s = stream
          BY <1>1
        <5>2. PICK t \in Seq(Byte) : t = todo
          BY <1>1
        <5>3. n \in 0 .. Len(s)
          BY <2>4, <5>1
        <5>4. LET u == SubSeq(s, n + 1, Len(s)) IN u \in Seq(Byte)
          BY <5>3, Shifted
        <5>5. QED
          BY <2>1, <5>1, <5>4
      <4>2. QED
        BY <2>2, <2>7, <2>9, <3>1, <4>1 DEF IInv, TypeInv
    <3>4. ReaderAt(start, c + n)'
      <4>1. Taken' = Taken + n
        <5>1. Len(data') = Len(data) + n
          BY <2>7, <3>1
        <5>2. Taken' = (IF part = "body" THEN HeadSize ELSE 0) + Len(data')
          BY <3>1 DEF Taken
        <5> DEFINE skip == IF part = "body" THEN HeadSize ELSE 0
                   ld == Len(data)
        <5>3. skip \in Nat /\ ld \in Nat /\ Taken' = skip + (ld + n) /\ Taken = skip + ld
          BY <1>1, <5>1, <5>2, FramingAssumption DEF Taken
        <5> HIDE DEF skip, ld
        <5>4. QED
          BY <2>4, <5>3
      <4>2. c + n = start[Len(received) + 1] + Taken'
        <5>1. /\ start \in [1 .. Len(sent) + 1 -> Nat] /\ Len(received) + 1 <= Len(sent) + 1
              /\ Len(received) \in Nat /\ Len(sent) \in Nat
              /\ c = start[Len(received) + 1] + Taken
          BY <2>5 DEF ReaderAt, StreamAt, Layout, IInv, TypeInv
        <5>2. start[Len(received) + 1] \in Nat
          BY <5>1
        <5>3. Taken \in Nat
          BY <1>1, FramingAssumption DEF Taken
        <5> DEFINE s == start[Len(received) + 1]
        <5>4. s \in Nat /\ c = s + Taken
          BY <5>1, <5>2
        <5> HIDE DEF s
        <5>5. c + n = s + (Taken + n)
          BY <2>4, <5>3, <5>4
        <5>6. QED
          BY <4>1, <5>5 DEF s
      <4>3. QED
        BY <2>2, <2>5, <2>7, <3>1, <4>2 DEF ReaderAt, Due
    <3>5. IInv'
      BY <3>2, <3>3, <3>4 DEF IInv
    <3>6. QED
      BY <2>2, <3>1, <3>5 DEF ChannelStep, Channel!vars
  <2>10. CASE ~(looping /\ Len(bytes) < count)
    <3>1. Returned(bytes)
      BY <2>8, <2>10 DEF read
    <3>2. Len(bytes) < count => closed /\ n = Len(stream)
      <4>1. SUFFICES ASSUME Len(bytes) < count
                     PROVE  closed /\ n = Len(stream)
        OBVIOUS
      <4>2. ~looping /\ Len(data) = 0 /\ n = most
        BY <1>1, <1>2, <2>4, <2>10, <4>1
      <4> DEFINE ls == Len(stream)
                 ld == Len(data)
      <4>3. /\ ls \in Nat /\ ld = 0 /\ n < count /\ n = Lesser(count - ld, ls)
            /\ count \in Nat
        BY <1>1, <2>4, <2>7, <4>1, <4>2 DEF most
      <4>4. closed \/ count <= ls
        BY <1>1, <2>2, <2>5, <4>2, WholeIsThere DEF IInv
      <4> HIDE DEF ls, ld
      <4>5. n = ls /\ ~(count <= ls)
        BY <4>3 DEF Lesser
      <4>6. QED
        BY <1>1, <4>4, <4>5 DEF ls
    <3>3. QED
      BY <2>2, <2>4, <2>5, <2>6, <3>1, <3>2, <1>1, ReturnedStep DEF bytes
  <2>11. QED
    BY <2>9, <2>10
<1>4. ASSUME Returned(data), UNCHANGED <<kind, todo, stream, closed, sent>>,
             Len(data) = count \/ (stream = <<>> /\ closed)
      PROVE  IInv' /\ ChannelStep
  <2>1. UNCHANGED <<looping, pieces, todo, stream, closed, sent>>
    BY <1>4 DEF kind
  <2>2. CASE Over
    <3>1. data = <<>>
      BY <2>2 DEF Over
    <3>2. QED
      BY <1>1, <1>4, <2>2, <3>1, OverStep
  <2>3. CASE ~Over
    <3>1. PICK start, c : StreamAt(start, c) /\ ReaderAt(start, c)
      BY <1>1, <2>3 DEF IInv
    <3>2. SubSeq(stream, 1, 0) = <<>> /\ data \o <<>> = data
      BY <1>1, SubSeqEmpty, ConcatEmptySeq
    <3>3. data = data \o SubSeq(stream, 1, 0)
      BY <3>2
    <3>4. SubSeq(stream, 0 + 1, Len(stream)) = stream
      BY <1>1, SubSeqFull
    <3>5. Takes(0)
      BY <2>1, <3>4 DEF Takes
    <3>6. 0 \in 0 .. Len(stream) /\ 0 <= count - Len(data)
      BY <1>1
    <3>7. Len(data) < count => closed /\ 0 = Len(stream)
      BY <1>1, <1>2, <1>4
    <3>8. QED
      BY <1>1, <1>4, <2>1, <3>1, <3>3, <3>5, <3>6, <3>7, ReturnedStep
  <2>4. QED
    BY <2>2, <2>3
<1>5. ASSUME Zero, UNCHANGED <<kind, todo, stream, closed, sent>>,
             Len(data) = count \/ (stream = <<>> /\ closed)
      PROVE  IInv' /\ ChannelStep
  <2>1. CASE Returned(data)
    BY <1>4, <1>5, <2>1
  <2>2. CASE part' = "stopped" /\ UNCHANGED <<count, data, received>>
    <3>1. UNCHANGED <<looping, pieces, todo, stream, closed, sent>>
      BY <1>5 DEF kind
    <3>2. TypeInv'
      BY <2>2, <3>1 DEF IInv, TypeInv
    <3>3. QED
      BY <2>2, <3>1, <3>2 DEF IInv, ChannelStep, Channel!vars
  <2>3. QED
    BY <1>5, <2>1, <2>2 DEF Zero
<1>6. CASE ReadNothing
  <2>1. /\ Zero /\ UNCHANGED <<kind, todo, stream, closed, sent>>
        /\ Len(data) = count \/ (stream = <<>> /\ closed)
    BY <1>6 DEF ReadNothing
  <2>2. QED
    BY <1>5, <2>1
<1>7. CASE ReadEnd
  BY <1>5, <1>7 DEF ReadEnd
<1>8. QED
  BY <1>3, <1>6, <1>7 DEF Reader

LEMMA NextStep ==
  ASSUME IInv, [Next]_vars
  PROVE  IInv' /\ ChannelStep
<1>1. CASE UNCHANGED vars
  <2>1. /\ UNCHANGED <<looping, pieces, todo, stream, closed, part, count, data>>
        /\ UNCHANGED <<sent, received>>
    BY <1>1 DEF vars, kind
  <2>2. ASSUME NEW start, NEW c, StreamAt(start, c), ReaderAt(start, c)
        PROVE  StreamAt(start, c)' /\ ReaderAt(start, c)'
    BY <2>1, <2>2 DEF StreamAt, Layout, Unread, ReaderAt, Taken, Due
  <2>3. IInv'
    BY <2>1, <2>2 DEF IInv, TypeInv, Over
  <2>4. QED
    BY <2>1, <2>3 DEF ChannelStep, Channel!vars
<1>2. CASE \E b \in Bodies : Send(b)
  BY <1>2, SendStep
<1>3. QED
  BY <1>1, <1>2, anetWriteStep, CloseStep, ReaderStep DEF Next, Rest

(* The bytes of any packets, through a stream of any size and in pieces of *)
(* any size, are the packets that anetWrite() was given: what the reader   *)
(* gets is a run of the abstract channel.                                  *)
THEOREM StreamIsChannel == Spec => Implements
<1>1. Init => IInv /\ Channel!Init
  BY InitStep
<1>2. IInv /\ [Next]_vars => IInv' /\ [Channel!Next]_(Channel!vars)
  BY NextStep DEF ChannelStep
<1>3. QED
  BY <1>1, <1>2, PTL DEF Spec, Implements, Channel!Spec
=============================================================================

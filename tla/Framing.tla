-------------------------------- MODULE Framing --------------------------------
(***************************************************************************)
(* Packets on a stream of bytes: anetWrite() at one end, and at the other  *)
(* a reader that first reads a head and then as many bytes as it says,     *)
(* with anetRead() as client_t::recv of the client and both recv_integer() *)
(* do, or with plain read() as read_event_handler and client_t::recv of    *)
(* the server do.  Both sockets block; the kernel writes and reads as much *)
(* of what it is asked for as it likes, but something.                     *)
(*                                                                         *)
(* For plain read() that is too little: the code depends on a kernel that  *)
(* has the whole packet in the stream and gives all it is asked for.       *)
(***************************************************************************)
EXTENDS Integers, Sequences, SequencesExt

CONSTANTS
  Bodies,      \* the bodies that are sent, sequences of bytes 0 and 1
  HeadSize,    \* sizeof(package_head_t)
  Cap,         \* bytes the stream holds
  MaxPackets   \* bound: packets sent

ASSUME FramingAssumption ==
  /\ HeadSize \in Nat \ {0} /\ Cap \in Nat \ {0} /\ MaxPackets \in Nat
  /\ \A b \in Bodies : b \in Seq({0, 1}) /\ Len(b) < 2 ^ HeadSize

VARIABLES
  looping,   \* the reader uses anetRead()
  pieces,    \* read() may give less than there is, write() take less than fits
  todo,      \* bytes anetWrite() has not written yet
  stream,    \* bytes on their way
  closed,    \* the writer has closed
  part,      \* what is being read: the "head" or the "body", or "stopped"
  count,     \* bytes asked for
  data,      \* bytes read so far
  sent,      \* history: packets written
  received   \* history: packets handed to the reader

kind == <<looping, pieces>>
vars == <<kind, todo, stream, closed, part, count, data, sent, received>>

Init ==
  /\ looping \in BOOLEAN /\ pieces \in BOOLEAN
  /\ pieces => looping
  /\ todo = <<>> /\ stream = <<>> /\ closed = FALSE
  /\ part = "head" /\ count = HeadSize /\ data = <<>>
  /\ sent = <<>> /\ received = <<>>

Lesser(m, n) == IF m < n THEN m ELSE n

(* The length as bytes, the lowest first, and back.                        *)
HeadOf(n) == [i \in 1 .. HeadSize |-> (n \div 2 ^ (i - 1)) % 2]
Length(h) == FoldSeq(LAMBDA x, y : x + 2 * y, 0, h)

(* The head of every length that can be sent stands for that length again, *)
(* which takes an induction on HeadSize to see.                            *)
ASSUME HeadAssumption ==
  /\ 2 ^ HeadSize \in Nat
  /\ \A n \in 0 .. 2 ^ HeadSize - 1 :
       HeadOf(n) \in Seq({0, 1}) /\ Length(HeadOf(n)) = n

-----------------------------------------------------------------------------
(* buffer_t::write, and the frames file_send and file_recv_command build.  *)
Frame(b) == HeadOf(Len(b)) \o b

Send(b) ==
  /\ ~closed /\ todo = <<>> /\ Len(sent) < MaxPackets
  /\ todo' = Frame(b)
  /\ sent' = Append(sent, b)
  /\ UNCHANGED <<kind, stream, closed, part, count, data, received>>

(* A mistake: what write() has not taken is forgotten.                     *)
Once_anetWrite ==
  /\ todo # <<>>
  /\ LET n == Lesser(Len(todo), Cap - Len(stream))
     IN  /\ n > 0
         /\ stream' = stream \o SubSeq(todo, 1, n)
         /\ todo' = <<>>
  /\ UNCHANGED <<kind, closed, part, count, data, sent, received>>

(* One write() of anetWrite(), which goes on until all is written.         *)
anetWrite ==
  /\ todo # <<>>
  /\ LET room == Lesser(Len(todo), Cap - Len(stream))
     IN  \E n \in IF pieces THEN 1 .. room ELSE {Len(todo)} \cap {room} :
           /\ stream' = stream \o SubSeq(todo, 1, n)
           /\ todo' = SubSeq(todo, n + 1, Len(todo))
  /\ UNCHANGED <<kind, closed, part, count, data, sent, received>>

Close ==
  /\ ~closed
  /\ closed' = TRUE
  /\ todo' = <<>>
  /\ UNCHANGED <<kind, stream, part, count, data, sent, received>>

-----------------------------------------------------------------------------
(* The call for head or body has returned with these bytes.  Of a length   *)
(* that did not arrive completely nothing is known.                        *)
Returned(bytes) ==
  /\ data' = <<>>
  /\ IF part = "head"
     THEN /\ part' = "body"
          /\ IF Len(bytes) = HeadSize
             THEN count' = Length(bytes)
             ELSE count' \in 0 .. 2 ^ HeadSize - 1
          /\ UNCHANGED received
     ELSE /\ part' = "head"
          /\ count' = HeadSize
          /\ received' = Append(received, bytes)

(* A mistake: anetRead() returns after one read().                         *)
Once_read(bytes) == Returned(bytes)

(* After one read(): anetRead() goes on until it has count bytes.          *)
read(bytes) ==
  IF looping /\ Len(bytes) < count
  THEN data' = bytes /\ UNCHANGED <<part, count, received>>
  ELSE Returned(bytes)

Reading == part # "stopped" /\ Len(received) <= MaxPackets

(* read() gives some of the bytes there are.                               *)
ReadSome ==
  /\ Reading /\ stream # <<>> /\ Len(data) < count
  /\ LET most == Lesser(count - Len(data), Len(stream))
     IN  \E n \in IF pieces THEN 1 .. most ELSE {most} :
           /\ stream' = SubSeq(stream, n + 1, Len(stream))
           /\ read(data \o SubSeq(stream, 1, n))
  /\ UNCHANGED <<kind, todo, closed, sent>>

(* read() gives 0, and anetRead() what it has.  read_event_handler takes   *)
(* it for the end of the client.                                           *)
Zero ==
  \/ Returned(data)
  \/ ~looping /\ part' = "stopped" /\ UNCHANGED <<count, data, received>>

(* A body of no bytes is not waited for.                                   *)
ReadNothing ==
  /\ Reading /\ Len(data) = count
  /\ Zero
  /\ UNCHANGED <<kind, todo, stream, closed, sent>>

(* End of stream.                                                          *)
ReadEnd ==
  /\ Reading /\ stream = <<>> /\ closed /\ Len(data) < count
  /\ Zero
  /\ UNCHANGED <<kind, todo, stream, closed, sent>>

Reader == ReadSome \/ ReadNothing \/ ReadEnd

(* Nothing to send, nothing to read; or the reader reads no more.          *)
Rest ==
  /\ ~Reading \/ (todo = <<>> /\ stream = <<>> /\ ~closed)
  /\ UNCHANGED vars

Next == (\E b \in Bodies : Send(b)) \/ anetWrite \/ Close \/ Reader \/ Rest

(* Both ends go on with what they have begun.                              *)
Spec == Init /\ [][Next]_vars /\ WF_vars(anetWrite) /\ WF_vars(Reader)

-----------------------------------------------------------------------------
Channel == INSTANCE PacketChannel WITH Packet <- Bodies

(* The reader gets the packets that were written, each whole, in order,    *)
(* whatever pieces the bytes travel in and however small the stream is;    *)
(* when the writer dies inside a packet, at most its beginning.            *)
Implements == Channel!Spec

(* And it gets them: neither end waits for the other for ever.  Only a     *)
(* packet without a body may look like the end to plain read().            *)
PacketsArrive ==
  (Len(received) < Len(sent)) ~>
    \/ Len(received) = Len(sent) \/ closed
    \/ ~looping /\ sent[Len(received) + 1] = <<>>
=============================================================================

------------------------------- MODULE Buffer -------------------------------
(***************************************************************************)
(* buffer_t: an array of _size bytes with two indices, and the frames that *)
(* write() builds in it, a length of HeadSize bytes followed by the body   *)
(* and a terminating '\0'.                                                 *)
(*                                                                         *)
(* The array stands in an address space that goes on behind it, so that an *)
(* overrun is a state and not an error of the model.                       *)
(***************************************************************************)
EXTENDS Integers

CONSTANTS
  DefaultSize,  \* DEFAULT_BUFF_SIZE
  HeadSize,     \* sizeof(package_head_t)
  Base,         \* values of a byte
  Space,        \* the addresses 0 .. Space - 1 behind _buff
  Lengths,      \* lengths of the strings that are written
  Reads         \* lengths of the packets that are received

ASSUME BufferAssumption ==
  /\ HeadSize \in Nat \ {0} /\ Base \in Nat \ {0, 1}
  /\ DefaultSize \in Nat /\ HeadSize < DefaultSize
  /\ Space \in Nat /\ DefaultSize < Space
  /\ Lengths \subseteq Nat /\ Reads \subseteq Nat

Addr  == 0 .. Space - 1
Junk  == -1                       \* an indeterminate byte
Byte  == (0 .. Base - 1) \cup {Junk}
Body  == 1                        \* a byte of a string or a file

VARIABLES
  size,       \* _size
  read_idx,   \* _read_idx
  write_idx,  \* _write_idx
  buff,       \* the bytes at _buff
  touched,    \* the end of the highest access to _buff since it was allocated
  frame       \* history: the body last written, NoFrame after a read

vars == <<size, read_idx, write_idx, buff, touched, frame>>

NoFrame == [length |-> -1, body |-> [i \in {} |-> Body]]

Init ==
  /\ size = DefaultSize
  /\ read_idx = 0 /\ write_idx = 0
  /\ buff = [i \in Addr |-> Junk]
  /\ touched = 0
  /\ frame = NoFrame

-----------------------------------------------------------------------------
(* The bytes of a length, the lowest first.                                *)
PackageHead(n) == [i \in 0 .. HeadSize - 1 |-> (n \div Base ^ i) % Base]

(* A power is a number, which takes an induction to see.                   *)
ASSUME PowerAssumption == \A i \in 0 .. HeadSize - 1 : Base ^ i \in Nat \ {0}

Top(m, n) == IF m > n THEN m ELSE n

(* A mistake: the new array is not filled.                                 *)
Skipped_Strncpy(old, old_size) == [i \in Addr |-> Junk]

(* strncpy(new, old, old_size): up to the first '\0', then '\0' to the end.*)
Strncpy(old, old_size) ==
  [i \in Addr |->
     IF i >= old_size THEN Junk
     ELSE IF \E j \in 0 .. i : old[j] = 0 THEN 0 ELSE old[i]]

(* extend(ext), as write() calls it after the head has been stored: room   *)
(* is made only when less than ext bytes are left.                         *)
Extended(ext, bytes) ==
  IF size - HeadSize < ext
  THEN [size |-> size + ext, buff |-> Strncpy(bytes, size)]
  ELSE [size |-> size, buff |-> bytes]

(* What write() asks extend() for; a mistake: the '\0' is not counted.      *)
NoNul_Missing(n, room) == n - room

Missing(n, room) == n + 1 - room

(* Both write()s: reset, the head, room for the body and the '\0' if it    *)
(* does not fit, the body, the '\0'.                                       *)
Written(n, body) ==
  LET headed == [i \in Addr |-> IF i < HeadSize THEN PackageHead(n)[i] ELSE buff[i]]
      room   == size - HeadSize
      e      == IF n + 1 > room THEN Extended(Missing(n, room), headed)
                                ELSE [size |-> size, buff |-> headed]
      end    == HeadSize + n
  IN  /\ end < Space
      /\ size' = e.size
      /\ buff' = [i \in Addr |-> IF i = end THEN 0
                                 ELSE IF i >= HeadSize /\ i < end THEN body[i - HeadSize]
                                 ELSE e.buff[i]]
      /\ read_idx' = 0 /\ write_idx' = end
      /\ touched' = Top(IF e.size = size THEN touched ELSE 0, end + 1)
      /\ frame' = [length |-> n, body |-> body]

WriteString(n) == Written(n, [i \in 0 .. n - 1 |-> Body])

(* write(size_t): the body is the number itself, here a small one.         *)
WriteInteger(v) == Written(HeadSize, PackageHead(v))

(* reset(): at the start of a request.                                     *)
Reset ==
  /\ read_idx' = 0 /\ write_idx' = 0
  /\ frame' = NoFrame
  /\ UNCHANGED <<size, buff, touched>>

(* A packet of n bytes is read() into the array.  The server terminates    *)
(* what it has read, in read_event_handler and in client_t::recv, the      *)
(* client does not.                                                        *)
Received(n) ==
  /\ n < size
  /\ read_idx' = 0 /\ write_idx' = n
  /\ frame' = NoFrame
  /\ UNCHANGED size

ServerRecv(n) ==
  /\ Received(n)
  /\ buff' = [i \in Addr |-> IF i < n THEN Body ELSE IF i = n THEN 0 ELSE buff[i]]
  /\ touched' = Top(touched, n + 1)

ClientRecv(n) ==
  /\ Received(n)
  /\ buff' = [i \in Addr |-> IF i < n THEN Body ELSE buff[i]]
  /\ touched' = Top(touched, n)

(* write_event_handler: the whole frame has been sent.                     *)
Sent ==
  /\ frame # NoFrame /\ read_idx < write_idx
  /\ read_idx' = write_idx
  /\ UNCHANGED <<size, write_idx, buff, touched, frame>>

Next ==
  \/ \E n \in Lengths : WriteString(n)
  \/ \E v \in 0 .. Base : WriteInteger(v)
  \/ Reset
  \/ \E n \in Reads : ServerRecv(n) \/ ClientRecv(n)
  \/ Sent

Spec == Init /\ [][Next]_vars

-----------------------------------------------------------------------------
(* Every variable has its type.                                            *)
TypeOK ==
  /\ size \in Nat /\ read_idx \in Nat /\ write_idx \in Nat /\ touched \in Nat
  /\ buff \in [Addr -> Byte]
  /\ frame.length \in Nat \cup {-1}

(* No index leaves its range and no operation reaches behind the array,    *)
(* whatever was in the buffer before: the '\0' has room too.               *)
InBounds == TypeOK /\ touched <= size

(* assert(_size >= _write_idx), assert(_read_idx <= _write_idx)            *)
(* (buffer.cpp:20-21, 25-26).                                              *)
Asserted == size >= write_idx /\ read_idx <= write_idx

(* A frame decodes to what was written: its head to the length of the      *)
(* body, with the body and nothing else behind it, for every order of      *)
(* writes, reads and growth.                                               *)
FrameIntact ==
  frame # NoFrame =>
    /\ write_idx = HeadSize + frame.length
    /\ \A i \in 0 .. HeadSize - 1 : buff[i] = PackageHead(frame.length)[i]
    /\ \A i \in 0 .. frame.length - 1 : buff[HeadSize + i] = frame.body[i]
    /\ buff[write_idx] = 0
=============================================================================

---------------------------- MODULE PacketChannel ----------------------------
(***************************************************************************)
(* What the length in front of a packet is for: packets go in at one end   *)
(* and come out at the other, whole and in order.  When the writer is gone *)
(* the reader may get the beginning of one more packet, and nothing after. *)
(***************************************************************************)
EXTENDS Naturals, Sequences

CONSTANT Packet

VARIABLES sent, received, closed

vars == <<sent, received, closed>>

Init == sent = <<>> /\ received = <<>> /\ closed = FALSE

Send(p) ==
  /\ ~closed
  /\ sent' = Append(sent, p)
  /\ UNCHANGED <<received, closed>>

Close == closed' = TRUE /\ UNCHANGED <<sent, received>>

Whole == \A i \in DOMAIN received : i <= Len(sent) /\ received[i] = sent[i]

Receive ==
  /\ Whole /\ Len(received) < Len(sent)
  /\ received' = Append(received, sent[Len(received) + 1])
  /\ UNCHANGED <<sent, closed>>

ReceiveCut ==
  /\ closed
  /\ LET next == IF Whole /\ Len(received) < Len(sent)
                 THEN sent[Len(received) + 1] ELSE <<>>
     IN  \E n \in 0 .. Len(next) : received' = Append(received, SubSeq(next, 1, n))
  /\ UNCHANGED <<sent, closed>>

Next == Close \/ Receive \/ ReceiveCut \/ \E p \in Packet : Send(p)

Spec == Init /\ [][Next]_vars

=============================================================================

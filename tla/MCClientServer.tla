---------------------------- MODULE MCClientServer ----------------------------
(* Two clients of the server, with socket buffers of one packet.  Where a  *)
(* packet holds one byte, a file of one byte takes a full packet and an    *)
(* empty one behind it; where it holds two, one short packet.              *)
EXTENDS ClientServer, TLC

CSProc == Handler
CSData == Peer \cup {Listener}

Clients == Permutations(Peer)

Ping       == [cmd |-> "ping", argc |-> 1, file |-> "regular", size |-> 0]
Send(size) == [cmd |-> "file_send", argc |-> 2, file |-> "regular", size |-> size]
Recv(size) == [cmd |-> "file_recv", argc |-> 2, file |-> "regular", size |-> size]

(* What can be typed at a prompt, a blank line included, with files the    *)
(* server cannot open, and one it can and never stops reading.             *)
Typed ==
  {Ping, Send(1), Recv(1), [Ping EXCEPT !.cmd = "", !.argc = 0],
   [Recv(1) EXCEPT !.file = "unopenable"],
   [Send(1) EXCEPT !.file = "unopenable"],
   [Recv(1) EXCEPT !.file = "directory"]}

Works == {Ping, Send(1), Recv(2)}

AnyFile == {"regular", "unopenable", "directory"}
Regular == {"regular"}
=============================================================================

------------------------------ MODULE MCServer ------------------------------
(* Instances of the server.  Socket buffers hold one packet, so that every *)
(* transfer of a file blocks half way.  Where replies and files are        *)
(* compared a packet holds two bytes, and files take one packet or two,    *)
(* the last one short or empty; elsewhere it holds one.                    *)
EXTENDS Server, TLC

MCProc == Handler
MCData == Peer \cup {Listener}

(* The peers are interchangeable.                                          *)
Interchangeable == Permutations(Peer)

Ping       == [cmd |-> "ping", argc |-> 1, file |-> "regular", size |-> 0]
Get        == [cmd |-> "get", argc |-> 2, file |-> "regular", size |-> 0]
Send(size) == [cmd |-> "file_send", argc |-> 2, file |-> "regular", size |-> size]
Recv(size) == [cmd |-> "file_recv", argc |-> 2, file |-> "regular", size |-> size]

(* What a user of client.cpp can ask for, with files the server can open.  *)
Conforming == {Ping, Send(1), Send(2), Recv(0), Recv(3)}

(* Among them, a command that leaves no reply where one is tabled, and one *)
(* of blanks only; client.cpp sends neither.                               *)
Errors == {Ping, Get, Send(1), Recv(1), [Ping EXCEPT !.cmd = "", !.argc = 0]}
=============================================================================

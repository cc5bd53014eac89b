----------------------------- MODULE ClientServer -----------------------------
(***************************************************************************)
(* The client program, client.cpp and the prompt of client_main.cpp, at    *)
(* work with the server of Server.tla: each Peer is a client process.  Its *)
(* commands block in write() and read(); a step is the work between two    *)
(* calls that can block.  Together they implement Service.tla.             *)
(*                                                                         *)
(* outbox is the client's _w_buffer and _buffer_list.  The program does    *)
(* not ignore SIGPIPE, tests neither fopen() nor the results of anetRead() *)
(* and anetWrite(), and reads an uninitialised length when a head does not *)
(* arrive: a read() for that many bytes gives 0 or fails.                  *)
(***************************************************************************)
EXTENDS Server

CONSTANT Local   \* what fopen() finds at the client's end

ASSUME LocalAssumption == Local \subseteq {"regular", "directory", "unopenable"}

VARIABLES
  at,       \* where the client's thread is: "off", at the "prompt", in the
            \* calls "flush", "recv", "recv_integer", "recv_file", "hung", "gone"
  cmd,      \* the command it processes
  file,     \* the opened local file of a transfer
  num,      \* _num, the packets of a file to receive
  got       \* history: the packets received for the command

client == <<at, cmd, file, num, got>>

CSInit ==
  /\ Init
  /\ at = [p \in Peer |-> "off"]
  /\ cmd = [p \in Peer |-> "none"]
  /\ file = [p \in Peer |-> "regular"]
  /\ num = [p \in Peer |-> 0]
  /\ got = [p \in Peer |-> <<>>]

Goto(p, place) == at' = [at EXCEPT ![p] = place]

(* The process ends; the kernel closes its socket.                         *)
Dies(p) == Goto(p, "gone") /\ Exit(p)

(* The server's end of the connection is gone.                             *)
Lost(p) == link[p] = "closed" \/ phase = "crashed"

-----------------------------------------------------------------------------
connect(p) ==
  /\ at[p] = "off"
  /\ Connect(p)
  /\ Goto(p, "prompt")
  /\ UNCHANGED <<cmd, file, num, got>>

(* get and set return at once, and so does what is not accepted.           *)
Sends(r) == Accepted(r) /\ r.cmd \in {"ping", "file_send", "file_recv"}

(* client_t::process, up to the first write().  file_send reads its file   *)
(* first: feof() of a null stream crashes, and a directory never ends.     *)
process(p, r) ==
  /\ at[p] = "prompt"
  /\ Sends(r)
  /\ \E f \in IF r.cmd = "ping" THEN {"regular"} ELSE Local :
       /\ cmd' = [cmd EXCEPT ![p] = r.cmd]
       /\ file' = [file EXCEPT ![p] = f]
       /\ CASE r.cmd = "file_send" /\ f = "unopenable" ->
                 Dies(p) /\ UNCHANGED got
            [] r.cmd = "file_send" /\ f = "directory" ->
                 Goto(p, "hung") /\ UNCHANGED <<vars, got>>
            [] OTHER ->
                 /\ Compose(p, r)
                 /\ Goto(p, "flush")
                 /\ got' = [got EXCEPT ![p] = <<>>]
       /\ UNCHANGED num

(* A command that is not sent.  An empty line has no argument 0; _argv[0]  *)
(* of an empty vector is undefined, and the lookup fails or crashes.       *)
reject(p, r) ==
  /\ at[p] = "prompt"
  /\ ~Sends(r)
  /\ \/ UNCHANGED <<vars, at>>
     \/ r.argc = 0 /\ Dies(p)
  /\ UNCHANGED <<cmd, file, num, got>>

(* anetWrite of one packet.                                                *)
flush(p) ==
  /\ at[p] = "flush"
  /\ Flush(p)
  /\ UNCHANGED client

(* Writing to a connection the server has closed: the packet vanishes, and *)
(* after the server's reset has arrived SIGPIPE ends the process.          *)
flush_lost(p) ==
  /\ at[p] = "flush" /\ outbox[p] # <<>> /\ Lost(p)
  /\ \/ /\ outbox' = [outbox EXCEPT ![p] = Tail(@)]
        /\ UNCHANGED <<at, loop, net, heap, stored, nreq, owed, sent>>
     \/ Dies(p)
  /\ UNCHANGED <<cmd, file, num, got>>

flushed(p) ==
  /\ at[p] = "flush" /\ outbox[p] = <<>>
  /\ Goto(p, CASE cmd[p] = "ping"      -> "recv"
               [] cmd[p] = "file_recv" -> "recv_integer"
               [] OTHER                -> "prompt")
  /\ UNCHANGED <<vars, cmd, file, num, got>>

(* The next packet of the reply.                                           *)
Arrives(p) == Receive(p) /\ got' = [got EXCEPT ![p] = Append(@, Head(outq[p]))]

(* anetRead() finds the end of the connection or an error.  A reset takes  *)
(* with it what the server's kernel had not delivered yet.                 *)
Ended(p) ==
  /\ Lost(p)
  /\ owed' = [owed EXCEPT ![p] = <<>>] /\ outq' = [outq EXCEPT ![p] = <<>>]
  /\ UNCHANGED <<loop, backlog, fdOf, link, inq, heap, stored, outbox, nreq, sent, got>>

(* recv() of a reply and flush_2_client().  A failed read is stored as     *)
(* _write_idx -1, on which readable_size() aborts.                         *)
recv_reply(p) ==
  /\ at[p] = "recv"
  /\ \/ (Arrives(p) \/ Ended(p)) /\ Goto(p, "prompt")
     \/ Lost(p) /\ Dies(p) /\ UNCHANGED got
  /\ UNCHANGED <<cmd, file, num>>

(* A mistake: the number of packets is one short.                          *)
OneShort_recv_count(p) ==
  /\ at[p] = "recv_integer"
  /\ \/ Arrives(p) /\ num' = [num EXCEPT ![p] = Head(outq[p]).val - 1]
     \/ Ended(p) /\ num' = [num EXCEPT ![p] = 0]
  /\ Goto(p, "recv_file")
  /\ UNCHANGED <<cmd, file>>

(* recv_integer(): 0 when the connection ends first.                       *)
recv_count(p) ==
  /\ at[p] = "recv_integer"
  /\ \/ Arrives(p) /\ num' = [num EXCEPT ![p] = Head(outq[p]).val]
     \/ Ended(p) /\ num' = [num EXCEPT ![p] = 0]
  /\ Goto(p, "recv_file")
  /\ UNCHANGED <<cmd, file>>

(* The loop of file_recv(): one packet, and fwrite(), which crashes on a   *)
(* null stream.  An empty packet or the end of the connection ends it.     *)
recv_part(p) ==
  /\ at[p] = "recv_file" /\ num[p] > 0
  /\ IF file[p] = "regular" THEN
       \/ /\ Arrives(p)
          /\ num' = [num EXCEPT ![p] = IF Head(outq[p]).val = 0 THEN 0 ELSE @ - 1]
          /\ UNCHANGED at
       \/ Ended(p) /\ num' = [num EXCEPT ![p] = 0] /\ UNCHANGED at
       \/ Lost(p) /\ Dies(p) /\ UNCHANGED <<num, got>>
     ELSE (outq[p] # <<>> \/ Lost(p)) /\ Dies(p) /\ UNCHANGED <<num, got>>
  /\ UNCHANGED <<cmd, file>>

(* fclose(), which crashes on a null stream as well.                       *)
received(p) ==
  /\ at[p] = "recv_file" /\ num[p] = 0
  /\ IF file[p] = "regular" THEN Goto(p, "prompt") /\ UNCHANGED vars ELSE Dies(p)
  /\ UNCHANGED <<cmd, file, num, got>>

(* End of the input at the prompt; or, at any time, a signal.              *)
quit(p) ==
  /\ at[p] = "prompt" \/ (MayDie /\ at[p] \notin {"off", "gone"})
  /\ Dies(p)
  /\ UNCHANGED <<cmd, file, num, got>>

-----------------------------------------------------------------------------
ClientStep(p) ==
  \/ flush(p) \/ flush_lost(p) \/ flushed(p)
  \/ recv_reply(p) \/ recv_count(p) \/ recv_part(p) \/ received(p)

UserStep(p) ==
  \/ connect(p) \/ quit(p)
  \/ \E r \in Request : process(p, r) \/ reject(p, r)

CSRest ==
  /\ phase \in {"wait", "crashed", "hung"}
  /\ phase = "wait" => \A fd \in Fd : Ready(fd) = AE_NONE
  /\ \A p \in Peer : at[p] \in {"prompt", "hung", "gone"} \/ phase = "hung"
  /\ UNCHANGED <<vars, client>>

CSNext ==
  \/ ServerStep /\ UNCHANGED client
  \/ \E p \in Peer : ClientStep(p) \/ UserStep(p)
  \/ CSRest

(* The server's thread is scheduled, and so is each client's; users need   *)
(* not ask, and nobody has to die.                                         *)
CSSpec ==
  /\ CSInit /\ [][CSNext]_<<vars, client>>
  /\ WF_<<vars, client>>(ServerStep /\ UNCHANGED client)
  /\ \A p \in Peer : WF_<<vars, client>>(ClientStep(p))

-----------------------------------------------------------------------------
(* What a user sees of it.  A file_send that never ends reading a local    *)
(* directory has not been asked of anybody.                                *)
Session(p) ==
  CASE at[p] = "off"                -> "away"
    [] at[p] \in {"prompt", "hung"} -> "prompt"
    [] at[p] = "gone"               -> "gone"
    [] OTHER                        -> "busy"

(* What has been sent and is not in the files yet.                         *)
Coming(p) == SubSeq(sent[p], Len(stored[p]) + 1, Len(sent[p]))

Sessions == INSTANCE Service WITH
  User    <- Peer,
  Reply   <- Replies,
  Upload  <- Contents,
  status  <- [p \in Peer |-> Session(p)],
  want    <- owed,
  sending <- [p \in Peer |-> Coming(p)],
  kept    <- stored,
  cut     <- {p \in Peer : Lost(p)}

(* Client and server implement the service: whatever other clients do,     *)
(* however they die, and even if the server does, what a command has       *)
(* received is the beginning of its own reply and of nobody else's, and it *)
(* returns without all of it only when the connection is gone; the server  *)
(* writes the parts of a sent file once each and in order, also when they  *)
(* arrive after the command has returned and more requests behind them.    *)
Implements == Sessions!Spec

(* Every command returns to the prompt or ends with its process, in the    *)
(* blocking reads and writes of both programs, also when other clients die *)
(* in the middle of theirs.                                                *)
CommandReturns == Sessions!Returns

(* Everything a client has sent of a file is written in the end, although  *)
(* file_send returns before the server has read it.                        *)
UploadsKept == Sessions!Kept
=============================================================================

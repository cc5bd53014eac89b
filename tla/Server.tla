------------------------------- MODULE Server -------------------------------
(***************************************************************************)
(* The server: server_t with its three handlers, the client_t object of    *)
(* each connection, the commands, and the loop of process_events() that    *)
(* calls them, over the event table of EventTable.tla.  Around it stand    *)
(* the kernel (descriptors, the listen queue, the two socket buffers of a  *)
(* connection) and the peers, which speak the protocol of client.cpp.      *)
(*                                                                         *)
(* A packet (an 8-byte length and its body) is the unit of transfer.  One  *)
(* thread runs everything on the server, and the accepted sockets block:   *)
(* a handler that waits inside read() or write() is a phase of its own, in *)
(* which the peers go on but nothing else on the server does.              *)
(*                                                                         *)
(* A peer connects once, so a peer names its connection and its client_t.  *)
(***************************************************************************)
EXTENDS EventTable, Sequences

CONSTANTS
  Peer,         \* the clients that may connect
  Listener,     \* the server_t, client data of the listening socket
  Size,         \* _max_client_count, the size of the event table
  Cap,          \* packets that fit in a socket buffer
  Unit,         \* package_size(): bytes of a file in one packet
  Request,      \* the requests peers make
  MaxRequests,  \* requests one peer makes
  Pipelining,   \* a peer may ask again before it has the last reply
  MayDie        \* a peer may close at any time, not only between requests

Handler == {"accept_tcp_handler", "read_event_handler", "write_event_handler"}

ASSUME ServerAssumption ==
  /\ Handler \subseteq Proc
  /\ Peer \cup {Listener} \subseteq Data
  /\ Listener \notin Peer
  /\ Size \in Nat \ {0} /\ Cap \in Nat \ {0} /\ Unit \in Nat \ {0}
  /\ MaxRequests \in Nat
  /\ Pipelining \in BOOLEAN /\ MayDie \in BOOLEAN

(* Descriptors are counted from the listening socket's.                    *)
ListenFd == 0

-----------------------------------------------------------------------------
(* Commands and packets.                                                   *)

command_table ==
  [ ping      |-> [arity |-> 1, reply |-> TRUE],
    get       |-> [arity |-> 2, reply |-> TRUE],
    set       |-> [arity |-> 3, reply |-> TRUE],
    file_send |-> [arity |-> 2, reply |-> FALSE],
    file_recv |-> [arity |-> 2, reply |-> TRUE] ]

(* file says what fopen() finds on the server under the request's name,    *)
(* size is the length of the file that travels.                            *)
ASSUME RequestAssumption ==
  \A r \in Request :
    /\ DOMAIN r = {"cmd", "argc", "file", "size"}
    /\ r.argc \in Nat /\ r.size \in Nat
    /\ r.file \in {"regular", "directory", "unopenable"}

(* process_command finds the command and its arity matches; Null is a      *)
(* buffer without a command in it.                                         *)
Accepted(r) ==
  /\ r # Null
  /\ r.cmd \in DOMAIN command_table
  /\ r.argc = command_table[r.cmd].arity

(* val is the number in an integer, the length of any other body.          *)
Packet ==
  [type : {"command", "integer", "chunk", "string"}, val : Nat, request : Request \cup {Null}]

ASSUME PacketAssumption == Null \notin Packet

Command(r) == [type |-> "command", val |-> 1, request |-> r]
Integer(n) == [type |-> "integer", val |-> n, request |-> Null]
Chunk(n)   == [type |-> "chunk", val |-> n, request |-> Null]
Pong       == [type |-> "string", val |-> 1, request |-> Null]

(* A file is cut by fread() until feof(): full packets and one short one,  *)
(* empty when the size is a multiple of Unit.                              *)
Chunks(size) ==
  [i \in 1 .. (size \div Unit) + 1 |->
     IF i <= size \div Unit THEN Chunk(Unit) ELSE Chunk(size % Unit)]

(* A mistake in client.cpp: the packets are counted after the packet with  *)
(* their number has been put in front.                                     *)
CountedLate_Packets(r) ==
  IF r.cmd = "file_send" /\ Accepted(r)
  THEN <<Command(r), Integer(Len(Chunks(r.size)) + 1)>> \o Chunks(r.size)
  ELSE <<Command(r)>>

(* What client.cpp sends for a request, and what it waits for.             *)
Packets(r) ==
  IF r.cmd = "file_send" /\ Accepted(r)
  THEN <<Command(r), Integer(Len(Chunks(r.size)))>> \o Chunks(r.size)
  ELSE <<Command(r)>>

Replies(r) ==
  IF ~Accepted(r) THEN <<>>
  ELSE CASE r.cmd = "ping"      -> <<Pong>>
         [] r.cmd = "file_recv" -> <<Integer(Len(Chunks(r.size)))>> \o Chunks(r.size)
         [] OTHER               -> <<>>

(* The packets of a sent file that hold any data.                          *)
Contents(r) ==
  IF r.cmd = "file_send" /\ Accepted(r)
  THEN SubSeq(Chunks(r.size), 1, (r.size \div Unit) + (IF r.size % Unit = 0 THEN 0 ELSE 1))
  ELSE <<>>

-----------------------------------------------------------------------------
VARIABLES
  table,     \* the event table
  phase,     \* where the server's thread is
  fired,     \* entries of _fired not dispatched yet
  cur,       \* the entry being dispatched
  rfired,    \* _rfired
  transfer,  \* file_send_command's locals: packets left, the opened file
  backlog,   \* the listen queue
  fdOf,      \* the server's descriptor of each connection, or -1
  link,      \* each connection as the server's kernel sees it
  inq,       \* packets received from the peer, not read yet
  outq,      \* packets written to the peer, not received yet
  obj,       \* the client_t of each connection
  rbuf,      \* its _r_buffer: the last command, or Null for other bytes
  wbuf,      \* its _w_buffer: the unsent reply, or Null
  list,      \* its _buffer_list
  stored,    \* history: what was written to files for the peer
  outbox,    \* the peer: packets of the current request not sent yet
  nreq,      \* the peer: requests made
  owed,      \* history: reply packets the peer has still to get
  sent       \* history: file data in the peer's requests

loop  == <<table, phase, fired, cur, rfired, transfer>>
net   == <<backlog, fdOf, link, inq, outq>>
heap  == <<obj, rbuf, wbuf, list>>
peers == <<outbox, nreq, owed, sent>>
vars  == <<loop, net, heap, stored, peers>>

Phase ==
  {"wait",        \* epoll_wait
   "next",        \* take the next entry
   "read",        \* the entry's readable test
   "recv_num",    \* file_send_command waits for the number of packets
   "recv",        \* ... and for the packets
   "write",       \* the entry's writable test
   "write_buf",   \* write_event_handler writes _w_buffer
   "write_list",  \* ... and _buffer_list
   "crashed",     \* the process is gone
   "hung"}        \* the process allocates for ever

Link ==
  {"none",        \* not connected
   "open",
   "fin",         \* the peer has closed, everything was delivered to it
   "rst",         \* the peer has reset, the error is still to be reported
   "dead",        \* no error is pending, read gives 0 and write fails
   "closed"}      \* the server has closed its descriptor

NoEntry == [fd |-> ListenFd, mask |-> AE_NONE]
NoBatch == [fd \in Fd |-> AE_NONE]
NoTransfer == [left |-> 0, file |-> "regular"]

Init ==
  /\ table = add_file_event(NewTable(Size, TRUE), ListenFd, {AE_READABLE},
                            "accept_tcp_handler", Listener, TRUE)
  /\ phase = "wait"
  /\ fired = NoBatch
  /\ cur = NoEntry
  /\ rfired = FALSE
  /\ transfer = NoTransfer
  /\ backlog = <<>>
  /\ fdOf = [p \in Peer |-> -1]
  /\ link = [p \in Peer |-> "none"]
  /\ inq = [p \in Peer |-> <<>>]
  /\ outq = [p \in Peer |-> <<>>]
  /\ obj = [p \in Peer |-> "none"]
  /\ rbuf = [p \in Peer |-> Null]
  /\ wbuf = [p \in Peer |-> Null]
  /\ list = [p \in Peer |-> <<>>]
  /\ stored = [p \in Peer |-> <<>>]
  /\ outbox = [p \in Peer |-> <<>>]
  /\ nreq = [p \in Peer |-> 0]
  /\ owed = [p \in Peer |-> <<>>]
  /\ sent = [p \in Peer |-> <<>>]

-----------------------------------------------------------------------------
(* The kernel's side.                                                      *)

Live(p) == obj[p] = "live"

FreeFds == Fd \ ({ListenFd} \cup {fdOf[p] : p \in {q \in Peer : Live(q)}})

(* A read() returns at once: data, end of stream or an error.              *)
Readable(p) == inq[p] # <<>> \/ link[p] # "open"

(* A write() returns at once: there is room, or nobody to write to.        *)
Writable(p) == Len(outq[p]) < Cap \/ link[p] # "open"

(* A mistake: poll() converts EPOLLOUT to AE_READABLE as well.             *)
Confused_Ready(fd) ==
  IF fd \notin table.watched THEN AE_NONE
  ELSE IF fd = ListenFd
  THEN IF backlog # <<>> THEN table.interest[fd] \cap {AE_READABLE} ELSE AE_NONE
  ELSE LET p == CHOOSE q \in Peer : Live(q) /\ fdOf[q] = fd
       IN  IF Readable(p) \/ (AE_WRITABLE \in table.interest[fd] /\ Writable(p))
           THEN table.interest[fd] ELSE AE_NONE

(* What epoll_wait reports and poll() converts: input and output if asked  *)
(* for, an error or a hang-up always and as writable.                      *)
Ready(fd) ==
  IF fd \notin table.watched THEN AE_NONE
  ELSE IF fd = ListenFd
  THEN IF backlog # <<>> THEN table.interest[fd] \cap {AE_READABLE} ELSE AE_NONE
  ELSE LET p == CHOOSE q \in Peer : Live(q) /\ fdOf[q] = fd
       IN  (table.interest[fd] \cap
             ({e \in {AE_READABLE} : Readable(p)} \cup {e \in {AE_WRITABLE} : Writable(p)}))
           \cup {e \in {AE_WRITABLE} : link[p] \in {"rst", "dead"}}

(* The end of a connection that read() has just reported: the pending      *)
(* error of a reset is reported once.                                      *)
AfterError(p) == IF link[p] = "rst" THEN [link EXCEPT ![p] = "dead"] ELSE link

(* write() of one packet.  A peer that has closed answers it with a reset, *)
(* which may arrive before the next call or after it.                      *)
Put(p, packet, ok) ==
  /\ Writable(p)
  /\ CASE link[p] = "open" ->
            ok /\ outq' = [outq EXCEPT ![p] = Append(@, packet)] /\ UNCHANGED link
       [] link[p] = "fin" ->
            ok /\ link' \in {link, [link EXCEPT ![p] = "dead"]} /\ UNCHANGED outq
       [] OTHER ->
            ~ok /\ link' = [link EXCEPT ![p] = "dead"] /\ UNCHANGED outq

-----------------------------------------------------------------------------
(* Mistakes: a destructor that forgets one of the events.                  *)
KeepsWrite_Destroyed(t, fd) == del_file_event(t, fd, {AE_READABLE})
KeepsRead_Destroyed(t, fd)  == del_file_event(t, fd, {AE_WRITABLE})

(* ~client_t: both events go, then the descriptor.                         *)
Destroyed(t, fd) ==
  del_event(del_file_event(del_file_event(t, fd, {AE_READABLE}),
                           fd, {AE_WRITABLE}),
            fd)

Delete(p) ==
  /\ table' = Destroyed(table, fdOf[p])
  /\ fdOf' = [fdOf EXCEPT ![p] = -1]
  /\ link' = [link EXCEPT ![p] = "closed"]
  /\ inq' = [inq EXCEPT ![p] = <<>>]
  /\ obj' = [obj EXCEPT ![p] = "freed"]
  /\ rbuf' = [rbuf EXCEPT ![p] = Null]
  /\ wbuf' = [wbuf EXCEPT ![p] = Null]
  /\ list' = [list EXCEPT ![p] = <<>>]
  /\ UNCHANGED <<backlog, outq>>

-----------------------------------------------------------------------------
(* process_events().                                                       *)

(* epoll_wait returns when something is ready, with all that is.           *)
Poll ==
  /\ phase = "wait"
  /\ fired' = [fd \in Fd |-> Ready(fd)]
  /\ fired' # NoBatch
  /\ phase' = "next"
  /\ UNCHANGED <<table, cur, rfired, transfer, net, heap, stored, peers>>

TakeEntry ==
  /\ phase = "next"
  /\ \E fd \in Fd :
       /\ fired[fd] # AE_NONE
       /\ cur' = [fd |-> fd, mask |-> fired[fd]]
       /\ fired' = [fired EXCEPT ![fd] = AE_NONE]
  /\ rfired' = FALSE
  /\ phase' = "read"
  /\ UNCHANGED <<table, transfer, net, heap, stored, peers>>

BatchDone ==
  /\ phase = "next"
  /\ fired = NoBatch
  /\ cur' = NoEntry
  /\ rfired' = FALSE
  /\ phase' = "wait"
  /\ UNCHANGED <<table, fired, transfer, net, heap, stored, peers>>

ReadDue == AE_READABLE \in table.mask[cur.fd] \cap cur.mask

WriteDue ==
  /\ AE_WRITABLE \in table.mask[cur.fd] \cap cur.mask
  /\ ~rfired \/ table.r_proc[cur.fd] # table.w_proc[cur.fd]

SkipRead ==
  /\ phase = "read" /\ ~ReadDue
  /\ phase' = "write"
  /\ UNCHANGED <<table, fired, cur, rfired, transfer, net, heap, stored, peers>>

SkipWrite ==
  /\ phase = "write" /\ ~WriteDue
  /\ phase' = "next"
  /\ UNCHANGED <<table, fired, cur, rfired, transfer, net, heap, stored, peers>>

(* _client_data of the entry, the _c of the handlers.                      *)
Client == table.data[cur.fd]

CallRead(proc) ==
  /\ phase = "read" /\ ReadDue
  /\ table.r_proc[cur.fd] = proc
  /\ rfired' = TRUE
  /\ UNCHANGED <<fired, cur>>

-----------------------------------------------------------------------------
(* accept_tcp_handler: one connection per call.  It gets the lowest free   *)
(* descriptor; without one accept() fails and the connection stays queued. *)
(* The listening socket does not block.                                    *)
(* A client_t that cannot be registered is deleted.                        *)
accept_tcp_handler ==
  /\ CallRead("accept_tcp_handler")
  /\ phase' = "write"
  /\ IF FreeFds = {} \/ backlog = <<>>
     THEN UNCHANGED <<table, net, heap>>
     ELSE LET p  == Head(backlog)
              fd == CHOOSE i \in FreeFds : \A j \in FreeFds : i <= j
          IN  \E accepted \in BOOLEAN :
                /\ backlog' = Tail(backlog)
                /\ IF AddRefused(table, fd, accepted)
                   THEN /\ table' = Destroyed(table, fd)
                        /\ obj' = [obj EXCEPT ![p] = "freed"]
                        /\ link' = [link EXCEPT ![p] = "closed"]
                        /\ inq' = [inq EXCEPT ![p] = <<>>]
                        /\ UNCHANGED fdOf
                   ELSE /\ table' = Installed(table, fd, {AE_READABLE},
                                              "read_event_handler", p)
                        /\ obj' = [obj EXCEPT ![p] = "live"]
                        /\ fdOf' = [fdOf EXCEPT ![p] = fd]
                        /\ UNCHANGED <<link, inq>>
                /\ UNCHANGED <<outq, rbuf, wbuf, list>>
  /\ UNCHANGED <<transfer, stored, peers>>

-----------------------------------------------------------------------------
(* process_command, with r in _r_buffer: the commands' effects.  A command *)
(* that is unknown or has the wrong arity changes nothing.                 *)

(* A mistake: the write event is not asked for.                            *)
Unasked_WithReply(p, r) == table

WithReply(p, r) ==
  IF command_table[r.cmd].reply
  THEN add_file_event(table, fdOf[p], {AE_WRITABLE}, "write_event_handler", p, TRUE)
  ELSE table

(* Without any argument _argv[0] of an empty vector is looked up, which is *)
(* undefined.                                                              *)
ignore_command(r) ==
  /\ ~Accepted(r)
  /\ \/ phase' = "write"
     \/ r # Null /\ r.argc = 0 /\ phase' = "crashed"
  /\ UNCHANGED <<table, wbuf, list, transfer>>

ping_command(p) ==
  /\ wbuf' = [wbuf EXCEPT ![p] = Pong]
  /\ phase' = "write"
  /\ UNCHANGED <<list, transfer>>

(* get_command and set_command are empty.                                  *)
empty_command ==
  /\ phase' = "write"
  /\ UNCHANGED <<wbuf, list, transfer>>

(* The result of fopen() is not tested: on a null stream feof() crashes,   *)
(* and on a directory fread() never reaches the end.                       *)
file_recv_command(p, r) ==
  /\ UNCHANGED transfer
  /\ CASE r.file = "regular" ->
            /\ list' = [list EXCEPT ![p] = Chunks(r.size)]
            /\ wbuf' = [wbuf EXCEPT ![p] = Integer(Len(Chunks(r.size)))]
            /\ phase' = "write"
       [] r.file = "directory"  -> phase' = "hung" /\ UNCHANGED <<wbuf, list>>
       [] r.file = "unopenable" -> phase' = "crashed" /\ UNCHANGED <<wbuf, list>>

file_send_command(r) ==
  /\ transfer' = [left |-> 0, file |-> r.file]
  /\ phase' = "recv_num"
  /\ UNCHANGED <<wbuf, list>>

process_command(p, r) ==
  /\ rbuf' = [rbuf EXCEPT ![p] = r]
  /\ UNCHANGED obj
  /\ \/ ignore_command(r)
     \/ /\ Accepted(r)
        /\ table' = WithReply(p, r)
        /\ CASE r.cmd = "ping"      -> ping_command(p)
             [] r.cmd = "file_recv" -> file_recv_command(p, r)
             [] r.cmd = "file_send" -> file_send_command(r)
             [] OTHER               -> empty_command

(***************************************************************************)
(* read_event_handler.  End of stream deletes the client.  A reset makes   *)
(* the first read() fail, which is not tested: the second read() asks for  *)
(* as many bytes as an uninitialised length says.  It gives 0, and the     *)
(* client is deleted, or it fails as well, and what _r_buffer still holds  *)
(* is processed as a command; without a command in it there is nothing to  *)
(* look up, and argv(0) of no arguments is undefined.                      *)
(***************************************************************************)
read_event_handler ==
  /\ CallRead("read_event_handler")
  /\ \/ /\ inq[Client] # <<>>
        /\ process_command(Client, Head(inq[Client]).request)
        /\ inq' = [inq EXCEPT ![Client] = Tail(@)]
        /\ UNCHANGED <<backlog, fdOf, link, outq>>
     \/ /\ inq[Client] = <<>> /\ link[Client] # "open"
        /\ Delete(Client)
        /\ phase' = "write"
        /\ UNCHANGED transfer
     \/ /\ inq[Client] = <<>> /\ link[Client] = "rst"
        /\ link' = AfterError(Client)
        /\ \/ process_command(Client, rbuf[Client])
           \/ /\ rbuf[Client] = Null
              /\ phase' = "crashed"
              /\ UNCHANGED <<table, transfer, heap>>
        /\ UNCHANGED <<backlog, fdOf, inq, outq>>
  /\ UNCHANGED <<stored, peers>>

(* Mistakes: a failed read() leaks its -1 into the number; the number is   *)
(* one short.                                                              *)
Negative_recv_integer ==
  /\ phase = "recv_num"
  /\ Readable(Client)
  /\ IF inq[Client] # <<>>
     THEN /\ transfer' = [transfer EXCEPT !.left = Head(inq[Client]).val]
          /\ inq' = [inq EXCEPT ![Client] = Tail(@)]
          /\ UNCHANGED link
     ELSE /\ transfer' = [transfer EXCEPT !.left = -1]
          /\ link' = AfterError(Client)
          /\ UNCHANGED inq
  /\ phase' = "recv"
  /\ UNCHANGED <<table, fired, cur, rfired, backlog, fdOf, outq, heap, stored, peers>>

OneShort_recv_integer ==
  /\ phase = "recv_num"
  /\ Readable(Client)
  /\ IF inq[Client] # <<>>
     THEN /\ transfer' = [transfer EXCEPT !.left = Head(inq[Client]).val - 1]
          /\ inq' = [inq EXCEPT ![Client] = Tail(@)]
          /\ UNCHANGED link
     ELSE link' = AfterError(Client) /\ UNCHANGED <<transfer, inq>>
  /\ phase' = "recv"
  /\ UNCHANGED <<table, fired, cur, rfired, backlog, fdOf, outq, heap, stored, peers>>

(* client_t::recv_integer: 0 when the connection ends first.               *)
recv_integer ==
  /\ phase = "recv_num"
  /\ Readable(Client)
  /\ IF inq[Client] # <<>>
     THEN /\ transfer' = [transfer EXCEPT !.left = Head(inq[Client]).val]
          /\ inq' = [inq EXCEPT ![Client] = Tail(@)]
          /\ UNCHANGED link
     ELSE link' = AfterError(Client) /\ UNCHANGED <<transfer, inq>>
  /\ phase' = "recv"
  /\ UNCHANGED <<table, fired, cur, rfired, backlog, fdOf, outq, heap, stored, peers>>

(* The loop of file_send_command has ended: fclose(), of a null stream if  *)
(* fopen() failed.                                                         *)
Fclose ==
  /\ transfer' = NoTransfer
  /\ phase' = IF transfer.file = "regular" THEN "write" ELSE "crashed"

(* One turn of the loop, client_t::recv and fwrite().  An empty packet     *)
(* ends it.  So does the end of the connection, unless the uninitialised   *)
(* length makes the second read() fail: then _write_idx is set to -1 and   *)
(* the assertion in readable_size() aborts.                                *)
recv ==
  /\ phase = "recv"
  /\ transfer.left > 0
  /\ Readable(Client)
  /\ rbuf' = [rbuf EXCEPT ![Client] = Null]
  /\ IF inq[Client] # <<>>
     THEN LET packet == Head(inq[Client])
          IN  /\ inq' = [inq EXCEPT ![Client] = Tail(@)]
              /\ IF packet.val = 0
                 THEN Fclose /\ UNCHANGED stored
                 ELSE IF transfer.file = "regular"
                 THEN /\ stored' = [stored EXCEPT ![Client] = Append(@, packet)]
                      /\ transfer' = [transfer EXCEPT !.left = @ - 1]
                      /\ UNCHANGED phase
                 ELSE phase' = "crashed" /\ UNCHANGED <<stored, transfer>>
              /\ UNCHANGED link
     ELSE /\ link' = AfterError(Client)
          /\ \/ Fclose
             \/ phase' = "crashed" /\ UNCHANGED transfer
          /\ UNCHANGED <<inq, stored>>
  /\ UNCHANGED <<table, fired, cur, rfired, backlog, fdOf, outq, obj, wbuf, list, peers>>

recv_done ==
  /\ phase = "recv"
  /\ transfer.left = 0
  /\ Fclose
  /\ UNCHANGED <<table, fired, cur, rfired, net, heap, stored, peers>>

-----------------------------------------------------------------------------
(* write_event_handler: nothing to write means the client is done with.    *)
write_event_handler ==
  /\ phase = "write" /\ WriteDue
  /\ IF wbuf[Client] = Null
     THEN Delete(Client) /\ phase' = "next"
     ELSE phase' = "write_buf" /\ UNCHANGED <<table, net, heap>>
  /\ UNCHANGED <<fired, cur, rfired, transfer, stored, peers>>

(* A mistake: _read_idx does not move.                                     *)
Unmoved_write_buffer ==
  /\ phase = "write_buf"
  /\ \E ok \in BOOLEAN : Put(Client, wbuf[Client], ok)
  /\ phase' = "write_list"
  /\ UNCHANGED <<table, fired, cur, rfired, transfer, backlog, fdOf, inq,
                 heap, stored, peers>>

(* anetWrite of _w_buffer; _read_idx only moves when it succeeds.          *)
write_buffer ==
  /\ phase = "write_buf"
  /\ \E ok \in BOOLEAN :
       /\ Put(Client, wbuf[Client], ok)
       /\ wbuf' = IF ok THEN [wbuf EXCEPT ![Client] = Null] ELSE wbuf
  /\ phase' = "write_list"
  /\ UNCHANGED <<table, fired, cur, rfired, transfer, backlog, fdOf, inq,
                 obj, rbuf, list, stored, peers>>

(* anetWrite of the buffers in _buffer_list, whatever becomes of them.     *)
write_list ==
  /\ phase = "write_list"
  /\ list[Client] # <<>>
  /\ \E ok \in BOOLEAN : Put(Client, Head(list[Client]), ok)
  /\ list' = [list EXCEPT ![Client] = Tail(@)]
  /\ UNCHANGED <<table, phase, fired, cur, rfired, transfer, backlog, fdOf, inq,
                 obj, rbuf, wbuf, stored, peers>>

(* A mistake: the write event is never taken back.                         *)
Forgets_write_done ==
  /\ phase = "write_list"
  /\ list[Client] = <<>>
  /\ phase' = "next"
  /\ UNCHANGED <<table, fired, cur, rfired, transfer, net, heap, stored, peers>>

write_done ==
  /\ phase = "write_list"
  /\ list[Client] = <<>>
  /\ table' = IF wbuf[Client] = Null
              THEN del_file_event(table, fdOf[Client], {AE_WRITABLE})
              ELSE table
  /\ phase' = "next"
  /\ UNCHANGED <<fired, cur, rfired, transfer, net, heap, stored, peers>>

-----------------------------------------------------------------------------
(* The peers.  client_t of client.cpp is single-threaded and blocks: it    *)
(* sends the whole request, then reads the whole reply.                    *)

Connect(p) ==
  /\ link[p] = "none"
  /\ link' = [link EXCEPT ![p] = "open"]
  /\ backlog' = Append(backlog, p)
  /\ UNCHANGED <<loop, fdOf, inq, outq, heap, stored, peers>>

(* A request becomes what the peer has to send and to wait for.            *)
Compose(p, r) ==
  /\ nreq[p] < MaxRequests
  /\ nreq' = [nreq EXCEPT ![p] = @ + 1]
  /\ outbox' = [outbox EXCEPT ![p] = Packets(r)]
  /\ owed' = [owed EXCEPT ![p] = @ \o Replies(r)]
  /\ sent' = [sent EXCEPT ![p] = @ \o Contents(r)]
  /\ UNCHANGED <<loop, net, heap, stored>>

Submit(p, r) ==
  /\ link[p] = "open"
  /\ outbox[p] = <<>>
  /\ Pipelining \/ owed[p] = <<>>
  /\ Compose(p, r)

(* The next packet is delivered, when there is room for it.                *)
Flush(p) ==
  /\ link[p] = "open"
  /\ outbox[p] # <<>>
  /\ Len(inq[p]) < Cap
  /\ inq' = [inq EXCEPT ![p] = Append(@, Head(outbox[p]))]
  /\ outbox' = [outbox EXCEPT ![p] = Tail(@)]
  /\ UNCHANGED <<loop, backlog, fdOf, link, outq, heap, stored, nreq, owed, sent>>

Receive(p) ==
  /\ outbox[p] = <<>>
  /\ outq[p] # <<>> /\ owed[p] # <<>>
  /\ outq' = [outq EXCEPT ![p] = Tail(@)]
  /\ owed' = [owed EXCEPT ![p] = Tail(@)]
  /\ UNCHANGED <<loop, backlog, fdOf, link, inq, heap, stored, outbox, nreq, sent>>

(* The peer's process ends or closes.  Unread data turns the close into a  *)
(* reset; what it had not sent yet is lost.                                *)
Exit(p) ==
  /\ link' = [link EXCEPT ![p] = IF @ # "open" THEN @
                                 ELSE IF outq[p] = <<>> THEN "fin" ELSE "rst"]
  /\ outq' = [outq EXCEPT ![p] = <<>>]
  /\ outbox' = [outbox EXCEPT ![p] = <<>>]
  /\ owed' = [owed EXCEPT ![p] = <<>>]
  /\ UNCHANGED <<loop, backlog, fdOf, inq, heap, stored, nreq, sent>>

Close(p) ==
  /\ link[p] = "open"
  /\ MayDie \/ (outbox[p] = <<>> /\ owed[p] = <<>>)
  /\ Exit(p)

-----------------------------------------------------------------------------
ServerStep ==
  \/ Poll \/ TakeEntry \/ BatchDone \/ SkipRead \/ SkipWrite
  \/ accept_tcp_handler
  \/ read_event_handler \/ recv_integer \/ recv \/ recv_done
  \/ write_event_handler \/ write_buffer \/ write_list \/ write_done

PeerStep(p) ==
  \/ Connect(p)
  \/ \E r \in Request : Submit(p, r)
  \/ Flush(p)
  \/ Receive(p)
  \/ Close(p)

(* Everybody is content: nothing is ready, no request is under way.        *)
Quiescent ==
  /\ phase = "wait"
  /\ \A fd \in Fd : Ready(fd) = AE_NONE
  /\ \A p \in Peer : link[p] = "closed" \/ (outbox[p] = <<>> /\ owed[p] = <<>>)

Rest == Quiescent /\ UNCHANGED vars

Next == ServerStep \/ (\E p \in Peer : PeerStep(p)) \/ Rest

Spec == Init /\ [][Next]_vars

-----------------------------------------------------------------------------
(* Every variable has its type.                                            *)
TypeOK ==
  /\ table \in Table
  /\ phase \in Phase
  /\ fired \in [Fd -> Mask]
  /\ cur \in [fd : Fd, mask : Mask]
  /\ rfired \in BOOLEAN
  /\ transfer \in [left : Nat, file : {"regular", "directory", "unopenable"}]
  /\ backlog \in Seq(Peer)
  /\ fdOf \in [Peer -> Fd \cup {-1}]
  /\ link \in [Peer -> Link]
  /\ obj \in [Peer -> {"none", "live", "freed"}]
  /\ rbuf \in [Peer -> Request \cup {Null}]
  /\ wbuf \in [Peer -> Packet \cup {Null}]
  /\ inq \in [Peer -> Seq(Packet)] /\ outq \in [Peer -> Seq(Packet)]
  /\ outbox \in [Peer -> Seq(Packet)] /\ list \in [Peer -> Seq(Packet)]
  /\ stored \in [Peer -> Seq(Packet)] /\ owed \in [Peer -> Seq(Packet)]
  /\ sent \in [Peer -> Seq(Packet)]
  /\ \A p \in Peer : Len(inq[p]) <= Cap /\ Len(outq[p]) <= Cap
  /\ nreq \in [Peer -> 0 .. MaxRequests]

(* The phases in which a handler waits inside a read or a write.           *)
InHandler == phase \in {"recv_num", "recv", "write_buf", "write_list"}

(* Memory safety of _client_data: whatever is registered besides the       *)
(* listening socket is a client_t that has not been deleted, under the     *)
(* descriptor it holds; every client_t that exists can still be reached by *)
(* an event; no two share a descriptor; and a handler that waits inside a  *)
(* read or a write still has its client.  Descriptors are reused as soon   *)
(* as they are closed, also within a batch.                                *)
NoDangling ==
  /\ \A fd \in Registered(table) \ {ListenFd} :
       LET p == table.data[fd]
       IN  p \in Peer /\ Live(p) /\ fdOf[p] = fd
  /\ \A p \in Peer :
       Live(p) => /\ fdOf[p] \in Registered(table)
                  /\ AE_READABLE \in table.mask[fdOf[p]]
                  /\ table.r_proc[fdOf[p]] = "read_event_handler"
                  /\ table.data[fdOf[p]] = p
  /\ InHandler => Client \in Peer /\ Live(Client)

(* A batch never goes stale.  When an entry reported as readable has its   *)
(* turn, after the handlers of other entries have deleted clients, closed  *)
(* descriptors and accepted connections, its descriptor still belongs to a *)
(* client with something to read: the first read() never blocks, and no    *)
(* event reaches a connection that has taken over the number.              *)
EventsAreFresh ==
  \A fd \in Fd \ {ListenFd} :
    LET due == AE_READABLE \in fired[fd]
               \/ (phase = "read" /\ cur.fd = fd /\ AE_READABLE \in cur.mask)
    IN  due => \E p \in Peer : Live(p) /\ fdOf[p] = fd /\ Readable(p)

(* A peer that waits for one reply at a time finds exactly the replies it  *)
(* is owed, in order, among what it has been sent and what the server has  *)
(* still to write: a count and then the packets of the file, never mixed   *)
(* with another request's or another peer's.                               *)
Unsent(p) == (IF wbuf[p] = Null THEN <<>> ELSE <<wbuf[p]>>) \o list[p]

StartsWith(s, t) == Len(t) <= Len(s) /\ SubSeq(s, 1, Len(t)) = t

ReplyCorrect ==
  \A p \in Peer : link[p] = "open" => StartsWith(owed[p], outq[p] \o Unsent(p))

(* File data reaches the file in the order it was sent, and all of it      *)
(* before the server goes back to waiting: whenever nothing of the peer's  *)
(* is on its way and no transfer runs, the files hold what was sent, even  *)
(* if the peer's next request came right behind the data.                  *)
Transferring(p) == phase \in {"recv_num", "recv"} /\ Client = p

FilesComplete ==
  \A p \in Peer :
    link[p] = "open" =>
      /\ StartsWith(sent[p], stored[p])
      /\ outbox[p] = <<>> /\ inq[p] = <<>> /\ ~Transferring(p) => stored[p] = sent[p]

(* Output is awaited exactly while a reply is waiting to be written: no    *)
(* reply is forgotten in _w_buffer, and the loop does not spin on a socket *)
(* that is merely writable.                                                *)
WriteInterest ==
  \A p \in Peer :
    Live(p) /\ ~(phase = "write_list" /\ Client = p) =>
      (AE_WRITABLE \in table.mask[fdOf[p]]) = (wbuf[p] # Null)

(* The process survives peers that keep to the protocol, whatever they do  *)
(* at the same time.                                                       *)
Survives == phase \notin {"crashed", "hung"}

(* The server never closes a connection it has accepted as long as the     *)
(* peer keeps it open.                                                     *)
NeverDropped ==
  [][\A p \in Peer : Live(p) /\ link[p] = "open" => link'[p] # "closed"]_vars

(* Accepted sockets block, so a handler stalls everybody while its peer    *)
(* does nothing.  A peer that keeps to the protocol has the next move      *)
(* whenever it does: it still has to send what the server reads, or to     *)
(* receive what the server has written.  The two never wait for each other *)
(* and the server never waits for a peer at its prompt.  Nor does it hang  *)
(* by itself, or crash.                                                    *)
StallsForItsPeer ==
  /\ Survives
  /\ (phase = "recv_num" \/ (phase = "recv" /\ transfer.left > 0)) /\ ~Readable(Client)
       => outbox[Client] # <<>>
  /\ phase \in {"write_buf", "write_list"} /\ ~Writable(Client)
       => outbox[Client] = <<>> /\ owed[Client] # <<>>

(* A connection the peer has left is cleaned up: its client_t is deleted   *)
(* and its descriptor closed.  A process that has crashed has no more to   *)
(* clean up.                                                               *)
Gone(p) == link[p] \in {"fin", "rst", "dead"}

Reclaimed ==
  \A p \in Peer : Gone(p) ~> (obj[p] = "freed" \/ phase = "crashed")

=============================================================================

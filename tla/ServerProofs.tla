---------------------------- MODULE ServerProofs ----------------------------
(***************************************************************************)
(* The server, for every set of peers, every number of descriptors, size   *)
(* of the event table, of the socket buffers and of a packet, and every    *)
(* set of requests; first with the peers of Server.tla, which may do       *)
(* whatever the protocol allows, then with the client program of           *)
(* ClientServer.tla, and that the two together implement Service.tla.      *)
(***************************************************************************)
EXTENDS ClientServer, EventTableProofs, SequenceTheorems

(* The table is sound, never resized, and its first entry is the listening *)
(* socket's for good.                                                      *)
TableOK ==
  /\ TableInv(table)
  /\ table.size = Size /\ table.api
  /\ table.mask[ListenFd] = {AE_READABLE}
  /\ table.r_proc[ListenFd] = "accept_tcp_handler"

(* A peer is in the listen queue once at most, and as long as it is there  *)
(* it has no client_t, so that accept() makes its first one.               *)
QueueOK ==
  /\ \A i, j \in 1 .. Len(backlog) : backlog[i] = backlog[j] => i = j
  /\ \A i \in 1 .. Len(backlog) : obj[backlog[i]] = "none" /\ link[backlog[i]] # "none"
  /\ \A p \in Peer : link[p] = "none" => obj[p] = "none"

(* The entry being dispatched has been taken out of the batch, and while a *)
(* handler waits it is a connection's and still registered.                *)
EntryOK ==
  /\ phase \notin {"wait", "next"} => fired[cur.fd] = AE_NONE
  /\ InHandler => cur.fd \in Registered(table) \ {ListenFd}
  /\ phase = "write_buf" => wbuf[Client] # Null

IInv == TypeOK /\ TableOK /\ NoDangling /\ QueueOK /\ EntryOK /\ EventsAreFresh

-----------------------------------------------------------------------------
(* What the peers and the commands send are packets.                       *)
LEMMA ChunksType ==
  ASSUME NEW size \in Nat
  PROVE  Chunks(size) \in Seq(Packet) /\ Len(Chunks(size)) \in Nat
<1>1. size \div Unit \in Nat /\ size % Unit \in Nat /\ Unit \in Nat
  BY ServerAssumption
<1>2. \A n \in Nat : Chunk(n) \in Packet
  BY DEF Chunk, Packet
<1>3. Chunks(size) \in [1 .. (size \div Unit) + 1 -> Packet]
  BY <1>1, <1>2 DEF Chunks
<1>4. QED
  BY <1>1, <1>3

LEMMA PacketsType ==
  ASSUME NEW r \in Request
  PROVE  /\ Packets(r) \in Seq(Packet) /\ Replies(r) \in Seq(Packet)
         /\ Contents(r) \in Seq(Packet)
<1>1. r.size \in Nat
  BY RequestAssumption
<1>2. Chunks(r.size) \in Seq(Packet) /\ Len(Chunks(r.size)) \in Nat
  BY <1>1, ChunksType
<1>3. Command(r) \in Packet /\ Pong \in Packet
  BY DEF Command, Pong, Packet
<1>4. Integer(Len(Chunks(r.size))) \in Packet
  BY <1>2 DEF Integer, Packet
<1>5. Packets(r) \in Seq(Packet)
  BY <1>2, <1>3, <1>4 DEF Packets
<1>6. Replies(r) \in Seq(Packet)
  BY <1>2, <1>3, <1>4 DEF Replies
<1>7. Contents(r) \in Seq(Packet)
  <2> DEFINE n == (r.size \div Unit) + (IF r.size % Unit = 0 THEN 0 ELSE 1)
  <2>1. n \in 0 .. Len(Chunks(r.size))
    <3>1. r.size \div Unit \in Nat
      BY <1>1, ServerAssumption
    <3>2. Len(Chunks(r.size)) = (r.size \div Unit) + 1
      BY <3>1 DEF Chunks
    <3>3. QED
      BY <3>1, <3>2
  <2> HIDE DEF n
  <2>2. SubSeq(Chunks(r.size), 1, n) \in Seq(Packet)
    BY <1>2, <2>1
  <2>3. QED
    BY <2>2 DEF Contents, n
<1>8. QED
  BY <1>5, <1>6, <1>7

-----------------------------------------------------------------------------
(* The fields in which an entry's owner is interested, after each call.     *)
LEMMA InstalledParts ==
  ASSUME NEW t, TableInv(t), NEW fd \in Fd, NEW mask \in Mask \ {AE_NONE},
         NEW proc \in Proc, NEW data \in Data
  PROVE  LET u == Installed(t, fd, mask, proc, data)
         IN  /\ u.mask = [t.mask EXCEPT ![fd] = t.mask[fd] \cup mask]
             /\ u.r_proc = [t.r_proc EXCEPT ![fd] = IF AE_READABLE \in mask THEN proc ELSE @]
             /\ u.data = [t.data EXCEPT ![fd] = data]
             /\ u.size = t.size /\ u.api = t.api
<1> DEFINE u == Installed(t, fd, mask, proc, data)
<1>1. PICK max, w, ws, is :
        u = [ size     |-> t.size,
              api      |-> t.api,
              max_fd   |-> max,
              mask     |-> [t.mask EXCEPT ![fd] = t.mask[fd] \cup mask],
              r_proc   |-> [t.r_proc EXCEPT ![fd] = IF AE_READABLE \in mask THEN proc ELSE @],
              w_proc   |-> w,
              data     |-> [t.data EXCEPT ![fd] = data],
              watched  |-> ws,
              interest |-> is ]
  BY InstalledFields
<1> HIDE DEF u
<1>2. QED
  BY <1>1 DEF u

LEMMA DeletedParts ==
  ASSUME NEW t, TableInv(t), NEW fd \in Fd, NEW mask \in Mask, fd < t.size, t.api
  PROVE  LET u == del_file_event(t, fd, mask)
         IN  /\ u.mask = [t.mask EXCEPT ![fd] = t.mask[fd] \ mask]
             /\ u.r_proc = t.r_proc /\ u.data = t.data
             /\ u.size = t.size /\ u.api = t.api
<1> DEFINE u == del_file_event(t, fd, mask)
<1>1. PICK max, ws, is :
        u = [ size     |-> t.size,
              api      |-> t.api,
              max_fd   |-> max,
              mask     |-> [t.mask EXCEPT ![fd] = t.mask[fd] \ mask],
              r_proc   |-> t.r_proc,
              w_proc   |-> t.w_proc,
              data     |-> t.data,
              watched  |-> ws,
              interest |-> is ]
  BY DeletedFields
<1> HIDE DEF u
<1>2. QED
  BY <1>1 DEF u

(* ~client_t empties the entry of its descriptor and leaves the others.    *)
LEMMA DestroyedFields ==
  ASSUME NEW t, TableInv(t), t.api, NEW fd \in Fd
  PROVE  /\ TableInv(Destroyed(t, fd))
         /\ Destroyed(t, fd).mask = [t.mask EXCEPT ![fd] = AE_NONE]
         /\ Destroyed(t, fd).r_proc = t.r_proc
         /\ Destroyed(t, fd).data = t.data
         /\ Destroyed(t, fd).size = t.size
         /\ Destroyed(t, fd).api = t.api
<1> DEFINE u == del_file_event(t, fd, {AE_READABLE})
           v == del_file_event(u, fd, {AE_WRITABLE})
<1>1. {AE_READABLE} \in Mask /\ {AE_WRITABLE} \in Mask
  BY DEF Mask
<1>2. t \in Table /\ fd \in Nat /\ t.size \in Nat
  BY TableAssumption DEF TableInv, Table, Fd
<1>3. TableInv(u) /\ TableInv(v)
  BY <1>1, DelPreserves
<1>4. CASE fd >= t.size
  <2>1. u = t /\ v = t
    BY <1>4 DEF del_file_event
  <2>2. t.mask[fd] = AE_NONE
    BY <1>4 DEF TableInv, HandlersPresent
  <2>3. t.mask = [t.mask EXCEPT ![fd] = AE_NONE]
    BY <1>2, <2>2 DEF Table
  <2>4. Destroyed(t, fd) = t
    BY <2>1, <2>2, CloseIsQuiet DEF Destroyed
  <2>5. QED
    BY <2>3, <2>4
<1>5. CASE fd < t.size
  <2>1. /\ u.mask = [t.mask EXCEPT ![fd] = t.mask[fd] \ {AE_READABLE}]
        /\ u.r_proc = t.r_proc /\ u.data = t.data
        /\ u.size = t.size /\ u.api = t.api
    BY <1>1, <1>5, DeletedParts
  <2>2. /\ v.mask = [u.mask EXCEPT ![fd] = u.mask[fd] \ {AE_WRITABLE}]
        /\ v.r_proc = u.r_proc /\ v.data = u.data
        /\ v.size = u.size /\ v.api = u.api
    BY <1>1, <1>3, <1>5, <2>1, DeletedParts
  <2>3. t.mask[fd] \in Mask
    BY <1>2 DEF Table
  <2>4. (t.mask[fd] \ {AE_READABLE}) \ {AE_WRITABLE} = AE_NONE
    BY <2>3 DEF Mask, AE_NONE
  <2>5. v.mask = [t.mask EXCEPT ![fd] = AE_NONE]
    BY <1>2, <2>1, <2>2, <2>4 DEF Table
  <2>6. v.mask[fd] = AE_NONE
    BY <1>2, <2>5 DEF Table
  <2>7. Destroyed(t, fd) = v
    BY <1>3, <2>6, CloseIsQuiet DEF Destroyed
  <2>8. QED
    BY <1>3, <2>1, <2>2, <2>5, <2>7
<1>6. fd < t.size \/ fd >= t.size
  BY <1>2
<1>7. QED
  BY <1>4, <1>5, <1>6, Zenon

(* What process_command() does to the table before it calls a command.     *)
LEMMA WithReplyFields ==
  ASSUME TypeOK, TableOK, NEW p \in Peer, fdOf[p] \in Registered(table),
         table.data[fdOf[p]] = p, NEW r \in Request
  PROVE  LET u == WithReply(p, r)
         IN  /\ TableInv(u)
             /\ u.mask = IF command_table[r.cmd].reply
                         THEN [table.mask EXCEPT ![fdOf[p]] = @ \cup {AE_WRITABLE}]
                         ELSE table.mask
             /\ u.r_proc = table.r_proc /\ u.data = table.data
             /\ u.size = table.size /\ u.api = table.api
<1> DEFINE fd == fdOf[p]
           u == WithReply(p, r)
<1>1. CASE ~command_table[r.cmd].reply
  BY <1>1 DEF WithReply, TableOK
<1>2. CASE command_table[r.cmd].reply
  <2>1. /\ fd \in Fd /\ table.mask[fd] # AE_NONE
        /\ table \in Table /\ TableInv(table)
    BY DEF Registered, TableOK, TypeOK
  <2>2. /\ {AE_WRITABLE} \in Mask \ {AE_NONE}
        /\ "write_event_handler" \in Proc /\ p \in Data
    BY ServerAssumption DEF Mask, AE_NONE, Handler
  <2>3. ~AddRefused(table, fd, TRUE)
    <3>1. ~(fd >= table.size)
      BY <2>1 DEF TableInv, HandlersPresent
    <3>2. QED
      BY <2>1, <3>1 DEF AddRefused, TableOK
  <2>4. u = Installed(table, fd, {AE_WRITABLE}, "write_event_handler", p)
    BY <1>2, <2>3 DEF WithReply, add_file_event
  <2>5. TableInv(u)
    BY <1>2, <2>1, <2>2, AddPreserves DEF WithReply
  <2>6. /\ u.mask = [table.mask EXCEPT ![fd] = table.mask[fd] \cup {AE_WRITABLE}]
        /\ u.r_proc = [table.r_proc EXCEPT ![fd] =
                          IF AE_READABLE \in {AE_WRITABLE} THEN "write_event_handler" ELSE @]
        /\ u.data = [table.data EXCEPT ![fd] = p]
        /\ u.size = table.size /\ u.api = table.api
    <3> HIDE DEF fd
    <3>1. QED
      BY <2>1, <2>2, <2>4, InstalledParts
  <2>7. u.r_proc = table.r_proc /\ u.data = table.data
    BY <2>1, <2>6 DEF Table, AE_READABLE, AE_WRITABLE
  <2>8. QED
    BY <1>2, <2>5, <2>6, <2>7
<1>3. QED
  BY <1>1, <1>2

-----------------------------------------------------------------------------
(* A client that is dispatched: the entry's data is a client_t that exists,*)
(* under the entry's descriptor.                                           *)
LEMMA Dispatched ==
  ASSUME IInv, cur.fd \in Registered(table) \ {ListenFd}
  PROVE  Client \in Peer /\ Live(Client) /\ fdOf[Client] = cur.fd
BY DEF IInv, NoDangling, Client

LEMMA ReadsClient ==
  ASSUME IInv, CallRead("read_event_handler")
  PROVE  cur.fd \in Registered(table) \ {ListenFd} /\ fired[cur.fd] = AE_NONE
BY DEF IInv, TypeOK, TableOK, EntryOK, CallRead, ReadDue, Registered, AE_NONE, ListenFd

LEMMA WritesClient ==
  ASSUME IInv, phase = "write", WriteDue
  PROVE  cur.fd \in Registered(table) \ {ListenFd} /\ fired[cur.fd] = AE_NONE
BY DEF IInv, TypeOK, TableOK, EntryOK, WriteDue, Registered, AE_NONE, AE_READABLE,
       AE_WRITABLE, ListenFd

-----------------------------------------------------------------------------
(* The entries stay as they are, but for the write events of clients.      *)
LEMMA ClientsKept ==
  ASSUME IInv, UNCHANGED <<fdOf, obj, cur>>,
         table'.r_proc = table.r_proc, table'.data = table.data,
         Registered(table') = Registered(table),
         \A fd \in Fd : AE_READABLE \in table.mask[fd] => AE_READABLE \in table'.mask[fd],
         InHandler' => Client \in Peer /\ Live(Client)
  PROVE  NoDangling'
BY DEF IInv, NoDangling, Client, Live, Registered

(* While an entry is dispatched, it is out of the batch: what its handler  *)
(* does to its own client concerns no other entry.                         *)
LEMMA FreshInHandler ==
  ASSUME IInv, phase \notin {"wait", "next"}, phase' # "read", fired' = fired,
         \A p \in Peer : Live(p) /\ Readable(p) /\ fdOf[p] # cur.fd =>
                            obj'[p] = "live" /\ fdOf'[p] = fdOf[p] /\ Readable(p)'
  PROVE  EventsAreFresh'
<1>1. fired[cur.fd] = {}
  BY DEF IInv, EntryOK, AE_NONE
<1>2. \A fd \in Fd \ {ListenFd} : AE_READABLE \in fired[fd] =>
        \E p \in Peer : Live(p) /\ fdOf[p] = fd /\ Readable(p)
  BY DEF IInv, EventsAreFresh
<1>3. QED
  BY <1>1, <1>2 DEF EventsAreFresh, Live

LEMMA FreshForPeers ==
  ASSUME IInv, UNCHANGED <<loop, obj, fdOf>>,
         \A p \in Peer : Live(p) /\ Readable(p) => Readable(p)'
  PROVE  EventsAreFresh'
BY DEF IInv, EventsAreFresh, Live, loop

-----------------------------------------------------------------------------
(* The steps.                                                              *)

LEMMA InitIInv == Init => IInv
<1> SUFFICES ASSUME Init PROVE IInv
  OBVIOUS
<1> DEFINE new == NewTable(Size, TRUE)
<1>1. /\ Size \in Nat /\ ListenFd \in Nat /\ ListenFd < Size /\ ListenFd \in Fd
      /\ {AE_READABLE} \in Mask \ {AE_NONE}
      /\ "accept_tcp_handler" \in Proc /\ Listener \in Data
  BY ServerAssumption, TableAssumption DEF Mask, AE_NONE, Handler, Fd, ListenFd
<1>2. TableInv(new)
  BY <1>1, NewTableInv
<1>3. /\ new.mask = [fd \in Fd |-> AE_NONE] /\ new.size = Size /\ new.api = TRUE
      /\ new.r_proc = [fd \in Fd |-> Null] /\ new.data = [fd \in Fd |-> Null]
      /\ new.watched = {}
  BY DEF NewTable
<1> HIDE DEF new
<1>4. ~AddRefused(new, ListenFd, TRUE)
  BY <1>1, <1>3 DEF AddRefused
<1>5. table = Installed(new, ListenFd, {AE_READABLE}, "accept_tcp_handler", Listener)
  BY <1>4 DEF Init, add_file_event, new
<1>6. TableInv(table)
  BY <1>1, <1>2, AddPreserves DEF Init, new
<1>7. /\ table.mask = [new.mask EXCEPT ![ListenFd] = new.mask[ListenFd] \cup {AE_READABLE}]
      /\ table.r_proc = [new.r_proc EXCEPT ![ListenFd] =
                           IF AE_READABLE \in {AE_READABLE} THEN "accept_tcp_handler" ELSE @]
      /\ table.size = new.size /\ table.api = new.api
  <2> DEFINE u == Installed(new, ListenFd, {AE_READABLE}, "accept_tcp_handler", Listener)
  <2>1. /\ u.mask = [new.mask EXCEPT ![ListenFd] = new.mask[ListenFd] \cup {AE_READABLE}]
        /\ u.r_proc = [new.r_proc EXCEPT ![ListenFd] =
                         IF AE_READABLE \in {AE_READABLE} THEN "accept_tcp_handler" ELSE @]
        /\ u.size = new.size /\ u.api = new.api
    <3>1. PICK mask \in Mask \ {AE_NONE} : mask = {AE_READABLE}
      BY <1>1
    <3>2. PICK proc \in Proc : proc = "accept_tcp_handler"
      BY <1>1
    <3>3. u = Installed(new, ListenFd, mask, proc, Listener)
      BY <3>1, <3>2
    <3> HIDE DEF u
    <3>4. LET v == Installed(new, ListenFd, mask, proc, Listener)
          IN  /\ v.mask = [new.mask EXCEPT ![ListenFd] = new.mask[ListenFd] \cup mask]
              /\ v.r_proc = [new.r_proc EXCEPT ![ListenFd] = IF AE_READABLE \in mask THEN proc ELSE @]
              /\ v.data = [new.data EXCEPT ![ListenFd] = Listener]
              /\ v.size = new.size /\ v.api = new.api
      BY <1>1, <1>2, InstalledParts
    <3>5. QED
      BY <1>1, <1>2, <3>1, <3>2, <3>3, <3>4
  <2>2. QED
    BY <1>5, <2>1
<1>8. TableOK
  BY <1>1, <1>3, <1>6, <1>7 DEF TableOK, AE_NONE
<1>9. Registered(table) = {ListenFd}
  <2>1. \A fd \in Fd : table.mask[fd] = IF fd = ListenFd THEN {AE_READABLE} ELSE {}
    BY <1>1, <1>3, <1>7 DEF AE_NONE
  <2>2. QED
    BY <1>1, <2>1 DEF Registered, AE_NONE
<1>10. TypeOK
  <2>1. table \in Table
    BY <1>6 DEF TableInv
  <2>2. /\ phase \in Phase /\ rfired \in BOOLEAN /\ fired \in [Fd -> Mask]
        /\ cur \in [fd : Fd, mask : Mask]
        /\ transfer \in [left : Nat, file : {"regular", "directory", "unopenable"}]
    BY <1>1 DEF Init, Phase, NoBatch, NoEntry, NoTransfer, Mask, AE_NONE
  <2>3. /\ backlog \in Seq(Peer)
        /\ fdOf \in [Peer -> Fd \cup {-1}]
        /\ link \in [Peer -> Link] /\ obj \in [Peer -> {"none", "live", "freed"}]
        /\ rbuf \in [Peer -> Request \cup {Null}] /\ wbuf \in [Peer -> Packet \cup {Null}]
    BY DEF Init, Link
  <2>4. /\ inq \in [Peer -> Seq(Packet)] /\ outq \in [Peer -> Seq(Packet)]
        /\ outbox \in [Peer -> Seq(Packet)] /\ list \in [Peer -> Seq(Packet)]
        /\ stored \in [Peer -> Seq(Packet)] /\ owed \in [Peer -> Seq(Packet)]
        /\ sent \in [Peer -> Seq(Packet)]
    BY DEF Init
  <2>5. /\ \A p \in Peer : Len(inq[p]) <= Cap /\ Len(outq[p]) <= Cap
        /\ nreq \in [Peer -> 0 .. MaxRequests]
    BY ServerAssumption DEF Init
  <2>6. QED
    BY <2>1, <2>2, <2>3, <2>4, <2>5 DEF TypeOK
<1>11. NoDangling
  BY <1>9 DEF Init, NoDangling, Live, InHandler
<1>12. QueueOK
  BY DEF Init, QueueOK
<1>13. EntryOK
  BY DEF Init, EntryOK, InHandler
<1>14. EventsAreFresh
  BY DEF Init, EventsAreFresh, NoBatch, AE_NONE
<1>15. QED
  BY <1>8, <1>10, <1>11, <1>12, <1>13, <1>14 DEF IInv

LEMMA PollStep == IInv /\ Poll => IInv'
<1> SUFFICES ASSUME IInv, Poll PROVE IInv'
  OBVIOUS
<1> USE DEF AE_NONE
<1>0. /\ fired' = [fd \in Fd |-> Ready(fd)]
      /\ phase' = "next"
      /\ UNCHANGED <<table, cur, rfired, transfer, net, heap, stored, peers>>
  BY DEF Poll
<1>1. table \in Table /\ table.watched = Registered(table) /\ table.interest = table.mask
  BY DEF IInv, TableOK, TableInv, EpollAgrees
<1>2. \A fd \in Fd : Ready(fd) \in Mask
  BY <1>1 DEF Ready, Mask, Table
<1>3. TypeOK'
  BY <1>0, <1>2 DEF IInv, TypeOK, Phase, net, heap, peers
<1>4. TableOK'
  BY <1>0 DEF IInv, TableOK
<1>5. NoDangling'
  BY <1>0 DEF IInv, NoDangling, InHandler, Live, Client, net, heap
<1>6. QueueOK'
  BY <1>0 DEF IInv, QueueOK, net, heap
<1>7. EntryOK'
  BY <1>0 DEF EntryOK, InHandler
<1>8. EventsAreFresh'
  <2> SUFFICES ASSUME NEW fd \in Fd \ {ListenFd}, AE_READABLE \in Ready(fd)
               PROVE  \E p \in Peer : Live(p) /\ fdOf[p] = fd /\ Readable(p)
    BY <1>0 DEF EventsAreFresh, Live, Readable, net, heap
  <2> DEFINE Owns(q) == Live(q) /\ fdOf[q] = fd
             p == CHOOSE q \in Peer : Owns(q)
  <2>1. fd \in Registered(table)
    BY <1>1 DEF Ready
  <2>2. \E q \in Peer : Owns(q)
    BY <2>1 DEF IInv, NoDangling
  <2>3. p \in Peer /\ Owns(p)
    BY <2>2
  <2>4. Readable(p)
    BY DEF Ready, AE_READABLE, AE_WRITABLE
  <2>5. QED
    BY <2>3, <2>4
<1>9. QED
  BY <1>3, <1>4, <1>5, <1>6, <1>7, <1>8 DEF IInv

(* Taking an entry, passing over one of its events, ending the batch.      *)
LEMMA DispatchStep == IInv /\ (TakeEntry \/ BatchDone \/ SkipRead \/ SkipWrite) => IInv'
<1> SUFFICES ASSUME IInv, TakeEntry \/ BatchDone \/ SkipRead \/ SkipWrite PROVE IInv'
  OBVIOUS
<1>0. UNCHANGED <<table, transfer, net, heap, stored, peers>>
  BY DEF TakeEntry, BatchDone, SkipRead, SkipWrite
<1>1. /\ phase' \in {"read", "wait", "write", "next"} /\ rfired' \in BOOLEAN
      /\ fired' \in [Fd -> Mask] /\ cur' \in [fd : Fd, mask : Mask]
  <2>1. NoEntry \in [fd : Fd, mask : Mask]
    BY TableAssumption DEF NoEntry, Fd, ListenFd, Mask, AE_NONE
  <2> USE DEF IInv, TypeOK
  <2>2. CASE TakeEntry
    <3>1. PICK fd \in Fd : /\ cur' = [fd |-> fd, mask |-> fired[fd]]
                           /\ fired' = [fired EXCEPT ![fd] = AE_NONE]
      BY <2>2 DEF TakeEntry
    <3>2. fired[fd] \in Mask /\ AE_NONE \in Mask
      BY DEF Mask, AE_NONE
    <3>3. QED
      BY <2>2, <3>1, <3>2 DEF TakeEntry
  <2>3. CASE BatchDone
    BY <2>1, <2>3 DEF BatchDone
  <2>4. CASE SkipRead \/ SkipWrite
    BY <2>4 DEF SkipRead, SkipWrite
  <2>5. QED
    BY <2>2, <2>3, <2>4
<1>2. TypeOK'
  BY <1>0, <1>1 DEF IInv, TypeOK, Phase, net, heap, peers
<1>3. TableOK' /\ QueueOK'
  BY <1>0 DEF IInv, TableOK, QueueOK, net, heap
<1>4. NoDangling'
  BY <1>0, <1>1 DEF IInv, NoDangling, InHandler, Live, net, heap
<1>5. EntryOK'
  BY <1>1 DEF IInv, TypeOK, EntryOK, InHandler, TakeEntry, BatchDone, SkipRead, SkipWrite
<1>6. EventsAreFresh'
  <2>1. ASSUME NEW fd \in Fd \ {ListenFd},
               AE_READABLE \in fired'[fd]
               \/ (phase' = "read" /\ cur'.fd = fd /\ AE_READABLE \in cur'.mask)
        PROVE  AE_READABLE \in fired[fd]
    BY <2>1 DEF IInv, TypeOK, TakeEntry, BatchDone, SkipRead, SkipWrite, AE_NONE
  <2>2. QED
    BY <1>0, <2>1 DEF IInv, EventsAreFresh, Live, Readable, net, heap
<1>7. QED
  BY <1>2, <1>3, <1>4, <1>5, <1>6 DEF IInv

(* What peers do touches no client_t and no event; they only make sockets  *)
(* readable.                                                               *)
LEMMA PeerKeeps ==
  ASSUME IInv, UNCHANGED <<loop, fdOf, heap, stored>>, TypeOK', QueueOK',
         \A p \in Peer : Live(p) /\ Readable(p) => Readable(p)'
  PROVE  IInv'
<1>1. TableOK'
  BY DEF IInv, TableOK, loop
<1>2. NoDangling'
  BY DEF IInv, NoDangling, InHandler, Live, Client, loop, heap
<1>3. EntryOK'
  BY DEF IInv, EntryOK, InHandler, Client, loop, heap
<1>4. EventsAreFresh'
  BY FreshForPeers DEF loop, heap
<1>5. QED
  BY <1>1, <1>2, <1>3, <1>4 DEF IInv

LEMMA ConnectStep ==
  ASSUME IInv, NEW p \in Peer, Connect(p)
  PROVE  IInv'
<1>0. /\ link[p] = "none" /\ link' = [link EXCEPT ![p] = "open"]
      /\ backlog' = Append(backlog, p)
      /\ UNCHANGED <<loop, fdOf, inq, outq, heap, stored, peers>>
      /\ backlog \in Seq(Peer) /\ link \in [Peer -> Link]
  BY DEF Connect, IInv, TypeOK
<1>1. TypeOK'
  <2>1. backlog' \in Seq(Peer) /\ link' \in [Peer -> Link]
    BY <1>0 DEF Link
  <2>2. QED
    BY <1>0, <2>1 DEF IInv, TypeOK, loop, heap, peers
<1>2. QueueOK'
  <2>1. obj[p] = "none" /\ \A i \in 1 .. Len(backlog) : backlog[i] # p
    BY <1>0 DEF IInv, QueueOK
  <2>2. /\ Len(backlog) \in Nat /\ Len(backlog') = Len(backlog) + 1
        /\ backlog'[Len(backlog) + 1] = p
        /\ \A i \in 1 .. Len(backlog) : backlog'[i] = backlog[i]
    BY <1>0
  <2>3. \A i \in 1 .. Len(backlog') : i \in 1 .. Len(backlog) \/ i = Len(backlog) + 1
    BY <2>2
  <2>4. \A i \in 1 .. Len(backlog) : backlog[i] \in Peer
    BY <1>0
  <2>5. \A i, j \in 1 .. Len(backlog') : backlog'[i] = backlog'[j] => i = j
    BY <2>1, <2>2, <2>3 DEF IInv, QueueOK
  <2>6. \A i \in 1 .. Len(backlog') : obj'[backlog'[i]] = "none" /\ link'[backlog'[i]] # "none"
    BY <1>0, <2>1, <2>2, <2>3, <2>4 DEF IInv, QueueOK, heap
  <2>7. \A q \in Peer : link'[q] = "none" => obj'[q] = "none"
    BY <1>0 DEF IInv, QueueOK, heap
  <2>8. QED
    BY <2>5, <2>6, <2>7 DEF QueueOK
<1>3. \A q \in Peer : Live(q) /\ Readable(q) => Readable(q)'
  <2>1. \A q \in Peer : Live(q) => q # p
    BY <1>0 DEF IInv, QueueOK, Live
  <2>2. QED
    BY <1>0, <2>1 DEF Readable
<1>4. QED
  BY <1>0, <1>1, <1>2, <1>3, PeerKeeps

LEMMA ComposeStep ==
  ASSUME IInv, NEW p \in Peer, NEW r \in Request, Compose(p, r)
  PROVE  IInv'
<1>0. /\ nreq[p] < MaxRequests /\ nreq' = [nreq EXCEPT ![p] = @ + 1]
      /\ outbox' = [outbox EXCEPT ![p] = Packets(r)]
      /\ owed' = [owed EXCEPT ![p] = @ \o Replies(r)]
      /\ sent' = [sent EXCEPT ![p] = @ \o Contents(r)]
      /\ UNCHANGED <<loop, net, heap, stored>>
  BY DEF Compose
<1>1. TypeOK'
  <2>1. /\ Packets(r) \in Seq(Packet) /\ Replies(r) \in Seq(Packet)
        /\ Contents(r) \in Seq(Packet)
    BY PacketsType
  <2>2. /\ outbox' \in [Peer -> Seq(Packet)] /\ owed' \in [Peer -> Seq(Packet)]
        /\ sent' \in [Peer -> Seq(Packet)]
    BY <1>0, <2>1 DEF IInv, TypeOK
  <2>3. nreq' \in [Peer -> 0 .. MaxRequests]
    BY <1>0, ServerAssumption DEF IInv, TypeOK
  <2>4. UNCHANGED <<loop, backlog, fdOf, link, inq, outq, obj, rbuf, wbuf, list, stored>>
    BY <1>0 DEF net, heap
  <2>5. QED
    BY <2>2, <2>3, <2>4 DEF IInv, TypeOK, loop
<1>2. QueueOK'
  BY <1>0 DEF IInv, QueueOK, net, heap
<1>3. \A q \in Peer : Readable(q)' = Readable(q)
  BY <1>0 DEF Readable, net
<1>4. QED
  BY <1>0, <1>1, <1>2, <1>3, PeerKeeps DEF net

LEMMA FlushStep ==
  ASSUME IInv, NEW p \in Peer, Flush(p)
  PROVE  IInv'
<1>0. /\ outbox[p] # <<>> /\ Len(inq[p]) < Cap
      /\ inq' = [inq EXCEPT ![p] = Append(@, Head(outbox[p]))]
      /\ outbox' = [outbox EXCEPT ![p] = Tail(@)]
      /\ UNCHANGED <<loop, backlog, fdOf, link, outq, heap, stored, nreq, owed, sent>>
      /\ inq \in [Peer -> Seq(Packet)] /\ outbox \in [Peer -> Seq(Packet)]
  BY DEF Flush, IInv, TypeOK
<1>1. TypeOK'
  <2>1. Head(outbox[p]) \in Packet /\ Tail(outbox[p]) \in Seq(Packet)
    BY <1>0
  <2>2. inq' \in [Peer -> Seq(Packet)] /\ outbox' \in [Peer -> Seq(Packet)]
    BY <1>0, <2>1
  <2>3. \A q \in Peer : Len(inq'[q]) <= Cap
    BY <1>0, <2>1, ServerAssumption DEF IInv, TypeOK
  <2>4. QED
    BY <1>0, <2>2, <2>3 DEF IInv, TypeOK, loop, heap
<1>2. QueueOK'
  BY <1>0 DEF IInv, QueueOK, heap
<1>3. \A q \in Peer : Readable(q) => Readable(q)'
  <2>1. Append(inq[p], Head(outbox[p])) # <<>>
    <3>1. inq[p] \in Seq(Packet) /\ Head(outbox[p]) \in Packet
      BY <1>0
    <3>2. QED
      BY <3>1, AppendProperties, Zenon
  <2>2. QED
    BY <1>0, <2>1 DEF Readable
<1>4. QED
  BY <1>0, <1>1, <1>2, <1>3, PeerKeeps

LEMMA ReceiveStep ==
  ASSUME IInv, NEW p \in Peer, Receive(p)
  PROVE  IInv'
<1>0. /\ outq[p] # <<>> /\ owed[p] # <<>>
      /\ outq' = [outq EXCEPT ![p] = Tail(@)]
      /\ owed' = [owed EXCEPT ![p] = Tail(@)]
      /\ UNCHANGED <<loop, backlog, fdOf, link, inq, heap, stored, outbox, nreq, sent>>
      /\ outq \in [Peer -> Seq(Packet)] /\ owed \in [Peer -> Seq(Packet)]
  BY DEF Receive, IInv, TypeOK
<1>1. TypeOK'
  <2>1. outq' \in [Peer -> Seq(Packet)] /\ owed' \in [Peer -> Seq(Packet)]
    BY <1>0
  <2>2. \A q \in Peer : Len(outq'[q]) <= Cap
    BY <1>0, ServerAssumption DEF IInv, TypeOK
  <2>3. QED
    BY <1>0, <2>1, <2>2 DEF IInv, TypeOK, loop, heap
<1>2. QueueOK'
  BY <1>0 DEF IInv, QueueOK, heap
<1>3. \A q \in Peer : Readable(q)' = Readable(q)
  BY <1>0 DEF Readable
<1>4. QED
  BY <1>0, <1>1, <1>2, <1>3, PeerKeeps

LEMMA ExitStep ==
  ASSUME IInv, NEW p \in Peer, Exit(p)
  PROVE  IInv'
<1>0. /\ link' = [link EXCEPT ![p] = IF @ # "open" THEN @
                                     ELSE IF outq[p] = <<>> THEN "fin" ELSE "rst"]
      /\ outq' = [outq EXCEPT ![p] = <<>>]
      /\ outbox' = [outbox EXCEPT ![p] = <<>>]
      /\ owed' = [owed EXCEPT ![p] = <<>>]
      /\ UNCHANGED <<loop, backlog, fdOf, inq, heap, stored, nreq, sent>>
  BY DEF Exit
<1>1. TypeOK'
  <2>1. link' \in [Peer -> Link]
    BY <1>0 DEF IInv, TypeOK, Link
  <2>2. /\ outq' \in [Peer -> Seq(Packet)] /\ outbox' \in [Peer -> Seq(Packet)]
        /\ owed' \in [Peer -> Seq(Packet)]
    BY <1>0 DEF IInv, TypeOK
  <2>3. \A q \in Peer : Len(outq'[q]) <= Cap
    BY <1>0, ServerAssumption DEF IInv, TypeOK
  <2>4. UNCHANGED <<loop, backlog, fdOf, inq, obj, rbuf, wbuf, list, stored, nreq, sent>>
    BY <1>0 DEF heap
  <2>5. QED
    BY <2>1, <2>2, <2>3, <2>4 DEF IInv, TypeOK, loop
<1>2. QueueOK'
  <2>1. \A q \in Peer : link'[q] = "none" <=> link[q] = "none"
    BY <1>0 DEF IInv, TypeOK
  <2>2. \A i \in 1 .. Len(backlog) : backlog[i] \in Peer
    BY DEF IInv, TypeOK
  <2>3. QED
    BY <1>0, <2>1, <2>2 DEF IInv, QueueOK, heap
<1>3. \A q \in Peer : Readable(q) => Readable(q)'
  BY <1>0 DEF Readable, IInv, TypeOK
<1>4. QED
  BY <1>0, <1>1, <1>2, <1>3, PeerKeeps

(* ~client_t, called for the entry that is dispatched.  No other client is *)
(* registered under its descriptor, and its entry is out of the batch.     *)
LEMMA DeleteStep ==
  ASSUME IInv, cur.fd \in Registered(table) \ {ListenFd}, phase \notin {"wait", "next"},
         Delete(Client), phase' \in {"write", "next"}, rfired' \in BOOLEAN,
         UNCHANGED <<fired, cur, transfer, stored, peers>>
  PROVE  IInv'
<1> DEFINE p == Client
           fd == cur.fd
<1>1. /\ p \in Peer /\ obj[p] = "live" /\ fdOf[p] = fd /\ fd \in Fd \ {ListenFd}
      /\ table \in Table /\ TableInv(table) /\ table.api
  BY Dispatched DEF Live, IInv, TypeOK, TableOK
<1> HIDE DEF p
<1>2. /\ table' = Destroyed(table, fd)
      /\ fdOf' = [fdOf EXCEPT ![p] = -1]
      /\ link' = [link EXCEPT ![p] = "closed"]
      /\ inq' = [inq EXCEPT ![p] = <<>>]
      /\ obj' = [obj EXCEPT ![p] = "freed"]
      /\ rbuf' = [rbuf EXCEPT ![p] = Null]
      /\ wbuf' = [wbuf EXCEPT ![p] = Null]
      /\ list' = [list EXCEPT ![p] = <<>>]
      /\ UNCHANGED <<backlog, outq>>
  BY <1>1 DEF Delete, p
<1>3. /\ TableInv(table')
      /\ table'.mask = [table.mask EXCEPT ![fd] = AE_NONE]
      /\ table'.r_proc = table.r_proc /\ table'.data = table.data
      /\ table'.size = table.size /\ table'.api = table.api
  BY <1>1, <1>2, DestroyedFields
<1>4. TypeOK'
  <2>1. table' \in Table
    BY <1>3 DEF TableInv
  <2>2. /\ fdOf' \in [Peer -> Fd \cup {-1}] /\ link' \in [Peer -> Link]
        /\ obj' \in [Peer -> {"none", "live", "freed"}]
        /\ rbuf' \in [Peer -> Request \cup {Null}] /\ wbuf' \in [Peer -> Packet \cup {Null}]
    BY <1>2 DEF IInv, TypeOK, Link
  <2>3. inq' \in [Peer -> Seq(Packet)] /\ list' \in [Peer -> Seq(Packet)]
    <3>1. inq \in [Peer -> Seq(Packet)] /\ list \in [Peer -> Seq(Packet)]
      BY DEF IInv, TypeOK
    <3>2. inq' = [inq EXCEPT ![p] = <<>>] /\ list' = [list EXCEPT ![p] = <<>>]
      BY <1>2
    <3>3. <<>> \in Seq(Packet)
      OBVIOUS
    <3>4. QED
      BY <3>1, <3>2, <3>3
  <2>4. \A q \in Peer : Len(inq'[q]) <= Cap
    BY <1>2, ServerAssumption DEF IInv, TypeOK
  <2>5. phase' \in Phase
    BY DEF Phase
  <2>6. UNCHANGED <<stored, outbox, owed, nreq, sent>>
    BY DEF peers
  <2>7. QED
    BY <1>2, <2>1, <2>2, <2>3, <2>4, <2>5, <2>6 DEF IInv, TypeOK
<1>5. TableOK'
  BY <1>1, <1>3 DEF IInv, TableOK, Table
<1>6. Registered(table') = Registered(table) \ {fd}
  BY <1>1, <1>3 DEF Registered, AE_NONE, Table
<1>7. NoDangling'
  <2>1. \A i \in Registered(table) \ {ListenFd} :
          table.data[i] \in Peer /\ Live(table.data[i]) /\ fdOf[table.data[i]] = i
    BY DEF IInv, NoDangling
  <2>2. ASSUME NEW i \in Registered(table') \ {ListenFd}
        PROVE  LET q == table'.data[i]
               IN  q \in Peer /\ obj'[q] = "live" /\ fdOf'[q] = i
    <3>1. obj \in [Peer -> {"none", "live", "freed"}] /\ fdOf \in [Peer -> Fd \cup {-1}]
      BY DEF IInv, TypeOK
    <3>2. PICK q \in Peer : q = table'.data[i] /\ Live(q) /\ fdOf[q] = i /\ i # fd
      BY <1>3, <1>6, <2>1
    <3>3. q # p
      BY <1>1, <3>2
    <3>4. QED
      BY <1>2, <3>1, <3>2, <3>3 DEF Live
  <2>3. ASSUME NEW q \in Peer, obj'[q] = "live"
        PROVE  /\ fdOf'[q] \in Registered(table')
               /\ AE_READABLE \in table'.mask[fdOf'[q]]
               /\ table'.r_proc[fdOf'[q]] = "read_event_handler"
               /\ table'.data[fdOf'[q]] = q
    <3>1. q # p /\ obj[q] = "live" /\ fdOf'[q] = fdOf[q]
      BY <1>2, <2>3 DEF IInv, TypeOK
    <3>2. /\ fdOf[q] \in Registered(table) /\ AE_READABLE \in table.mask[fdOf[q]]
          /\ table.r_proc[fdOf[q]] = "read_event_handler" /\ table.data[fdOf[q]] = q
      BY <3>1 DEF IInv, NoDangling, Live
    <3>3. fdOf[q] # fd
      BY <3>1, <3>2 DEF p, Client
    <3>4. table'.mask[fdOf[q]] = table.mask[fdOf[q]]
      BY <1>1, <1>3, <3>3 DEF Table
    <3>5. QED
      BY <1>3, <1>6, <3>1, <3>2, <3>3, <3>4
  <2>4. QED
    BY <2>2, <2>3 DEF NoDangling, Live, InHandler
<1>8. QueueOK'
  <2>1. \A i \in 1 .. Len(backlog) : backlog[i] \in Peer
    BY DEF IInv, TypeOK
  <2>2. \A i \in 1 .. Len(backlog) : backlog[i] # p
    BY <1>1 DEF IInv, QueueOK
  <2>3. QED
    BY <1>1, <1>2, <2>1, <2>2 DEF IInv, TypeOK, QueueOK
<1>9. EntryOK'
  BY DEF IInv, EntryOK, InHandler
<1>10. EventsAreFresh'
  <2>1. ASSUME NEW q \in Peer, Live(q), Readable(q), fdOf[q] # fd
        PROVE  obj'[q] = "live" /\ fdOf'[q] = fdOf[q] /\ Readable(q)'
    BY <1>1, <1>2, <2>1 DEF Live, Readable
  <2>2. QED
    BY <2>1, FreshInHandler
<1>11. QED
  BY <1>4, <1>5, <1>7, <1>8, <1>9, <1>10 DEF IInv

(* One connection is accepted, or refused by the table or the kernel.      *)
Accepts(p, fd, accepted) ==
  /\ phase = "read" /\ phase' = "write" /\ rfired' = TRUE
  /\ UNCHANGED <<fired, cur, transfer, stored, peers>>
  /\ backlog # <<>> /\ p = Head(backlog) /\ backlog' = Tail(backlog)
  /\ UNCHANGED <<outq, rbuf, wbuf, list>>
  /\ \/ /\ AddRefused(table, fd, accepted)
        /\ table' = Destroyed(table, fd)
        /\ obj' = [obj EXCEPT ![p] = "freed"]
        /\ link' = [link EXCEPT ![p] = "closed"]
        /\ inq' = [inq EXCEPT ![p] = <<>>]
        /\ UNCHANGED fdOf
     \/ /\ ~AddRefused(table, fd, accepted)
        /\ table' = Installed(table, fd, {AE_READABLE}, "read_event_handler", p)
        /\ obj' = [obj EXCEPT ![p] = "live"]
        /\ fdOf' = [fdOf EXCEPT ![p] = fd]
        /\ UNCHANGED <<link, inq>>

(* What that leads to.                                                     *)
AcceptedAt(p, fd) ==
  /\ p \in Peer /\ obj[p] = "none" /\ link[p] # "none"
  /\ Len(backlog) \in Nat /\ Len(backlog) # 0
  /\ Len(Tail(backlog)) = Len(backlog) - 1
  /\ Tail(backlog) \in Seq(Peer)
  /\ \A i \in 1 .. Len(backlog') : backlog'[i] = backlog[i + 1]
  /\ \A i \in 1 .. Len(backlog) : backlog[i] \in Peer
  /\ p = backlog[1]
  /\ fd \in Fd \ {ListenFd}
  /\ \A q \in Peer : Live(q) => fdOf[q] # fd
  /\ TableInv(table')
  /\ \A i \in Fd \ {fd} : /\ table'.mask[i] = table.mask[i]
                         /\ table'.r_proc[i] = table.r_proc[i]
                         /\ table'.data[i] = table.data[i]
  /\ table'.size = table.size /\ table'.api = table.api
  /\ \/ obj'[p] = "freed" /\ table'.mask[fd] = AE_NONE
     \/ /\ obj'[p] = "live" /\ fdOf'[p] = fd
        /\ table'.mask[fd] = {AE_READABLE}
        /\ table'.r_proc[fd] = "read_event_handler"
        /\ table'.data[fd] = p
  /\ \A q \in Peer \ {p} : /\ obj'[q] = obj[q] /\ fdOf'[q] = fdOf[q]
                          /\ link'[q] = link[q] /\ inq'[q] = inq[q]

(* A free descriptor has an empty entry, so the new client_t gets one to   *)
(* itself; when it cannot be registered, deleting it leaves the table as   *)
(* it was.                                                                 *)
LEMMA AcceptEffect ==
  ASSUME IInv, NEW p, NEW fd \in FreeFds, NEW accepted \in BOOLEAN, Accepts(p, fd, accepted)
  PROVE  AcceptedAt(p, fd)
<1> USE DEF Accepts, AcceptedAt
<1>1. /\ p \in Peer /\ obj[p] = "none" /\ link[p] # "none"
      /\ Len(backlog) \in Nat /\ Len(backlog) # 0
      /\ Len(Tail(backlog)) = Len(backlog) - 1
      /\ Tail(backlog) \in Seq(Peer)
      /\ \A i \in 1 .. Len(backlog') : backlog'[i] = backlog[i + 1]
      /\ \A i \in 1 .. Len(backlog) : backlog[i] \in Peer
      /\ p = backlog[1]
  <2>1. backlog \in Seq(Peer) /\ backlog # <<>>
    BY DEF IInv, TypeOK
  <2>2. /\ Len(backlog) \in Nat /\ Len(backlog) # 0
        /\ Len(Tail(backlog)) = Len(backlog) - 1
        /\ Tail(backlog) \in Seq(Peer)
        /\ \A i \in 1 .. Len(backlog') : backlog'[i] = backlog[i + 1]
        /\ \A i \in 1 .. Len(backlog) : backlog[i] \in Peer
        /\ p = backlog[1]
    BY <2>1
  <2>3. QED
    BY <2>2 DEF IInv, QueueOK
<1>2. /\ table \in Table /\ TableInv(table) /\ table.api
      /\ fd \in Fd \ {ListenFd}
      /\ \A q \in Peer : Live(q) => fdOf[q] # fd
  BY DEF IInv, TypeOK, TableOK, FreeFds
<1>3. table.mask[fd] = AE_NONE
  BY <1>2 DEF IInv, NoDangling, Registered
<1>4. /\ TableInv(table')
      /\ \A i \in Fd \ {fd} : /\ table'.mask[i] = table.mask[i]
                             /\ table'.r_proc[i] = table.r_proc[i]
                             /\ table'.data[i] = table.data[i]
      /\ table'.size = table.size /\ table'.api = table.api
      /\ \/ obj'[p] = "freed" /\ table'.mask[fd] = AE_NONE
         \/ /\ obj'[p] = "live" /\ fdOf'[p] = fd
            /\ table'.mask[fd] = {AE_READABLE}
            /\ table'.r_proc[fd] = "read_event_handler"
            /\ table'.data[fd] = p
  <2>1. CASE AddRefused(table, fd, accepted)
    <3>1. table' = Destroyed(table, fd)
      BY <2>1
    <3>2. /\ TableInv(table')
          /\ table'.mask = [table.mask EXCEPT ![fd] = AE_NONE]
          /\ table'.r_proc = table.r_proc /\ table'.data = table.data
          /\ table'.size = table.size /\ table'.api = table.api
      BY <1>2, <3>1, DestroyedFields
    <3>3. table.mask \in [Fd -> Mask]
      BY <1>2 DEF Table
    <3>4. obj'[p] = "freed"
      BY <1>1, <2>1 DEF IInv, TypeOK
    <3>5. QED
      BY <1>2, <3>2, <3>3, <3>4
  <2>2. CASE ~AddRefused(table, fd, accepted)
    <3>1. PICK proc \in Proc : proc = "read_event_handler"
      BY ServerAssumption DEF Handler
    <3>2. PICK mask \in Mask \ {AE_NONE} : mask = {AE_READABLE}
      BY DEF Mask, AE_NONE
    <3>3. TableInv(table) /\ fd \in Fd /\ p \in Data
      BY <1>1, <1>2, ServerAssumption
    <3>4. table' = Installed(table, fd, mask, proc, p)
      BY <2>2, <3>1, <3>2
    <3>5. TableInv(table')
      BY <2>2, <3>3, <3>4, AddPreserves DEF add_file_event
    <3>6. LET u == Installed(table, fd, mask, proc, p)
          IN  /\ u.mask = [table.mask EXCEPT ![fd] = table.mask[fd] \cup mask]
              /\ u.r_proc = [table.r_proc EXCEPT ![fd] = IF AE_READABLE \in mask THEN proc ELSE @]
              /\ u.data = [table.data EXCEPT ![fd] = p]
              /\ u.size = table.size /\ u.api = table.api
      BY <3>3, InstalledParts
    <3>7. /\ table'.mask = [table.mask EXCEPT ![fd] = {AE_READABLE}]
          /\ table'.r_proc = [table.r_proc EXCEPT ![fd] = "read_event_handler"]
          /\ table'.data = [table.data EXCEPT ![fd] = p]
          /\ table'.size = table.size /\ table'.api = table.api
      BY <1>3, <3>1, <3>2, <3>4, <3>6 DEF AE_NONE
    <3>8. /\ table.mask \in [Fd -> Mask] /\ table.r_proc \in [Fd -> Proc \cup {Null}]
          /\ table.data \in [Fd -> Data \cup {Null}]
      BY <1>2 DEF Table
    <3>9. obj'[p] = "live" /\ fdOf'[p] = fd
      BY <1>1, <2>2 DEF IInv, TypeOK
    <3>10. QED
      BY <3>3, <3>5, <3>7, <3>8, <3>9
  <2>3. QED
    BY <2>1, <2>2
<1>5. \A q \in Peer \ {p} : /\ obj'[q] = obj[q] /\ fdOf'[q] = fdOf[q]
                           /\ link'[q] = link[q] /\ inq'[q] = inq[q]
  BY DEF IInv, TypeOK
<1>6. QED
  BY <1>1, <1>2, <1>4, <1>5

LEMMA AcceptOne ==
  ASSUME IInv, NEW p, NEW fd \in FreeFds, NEW accepted \in BOOLEAN, Accepts(p, fd, accepted)
  PROVE  IInv'
<1>1. AcceptedAt(p, fd)
  BY AcceptEffect
<1> USE DEF Accepts, AcceptedAt
<1>2. /\ fdOf' \in [Peer -> Fd \cup {-1}] /\ link' \in [Peer -> Link]
      /\ obj' \in [Peer -> {"none", "live", "freed"}]
      /\ inq' \in [Peer -> Seq(Packet)] /\ Len(inq'[p]) <= Cap
      /\ link'[p] # "none"
  <2>1. /\ fdOf \in [Peer -> Fd \cup {-1}] /\ link \in [Peer -> Link]
        /\ obj \in [Peer -> {"none", "live", "freed"}]
        /\ inq \in [Peer -> Seq(Packet)] /\ Len(inq[p]) <= Cap
        /\ Cap \in Nat /\ fd \in Fd /\ p \in Peer
    BY <1>1, ServerAssumption DEF IInv, TypeOK
  <2> "closed" \in Link /\ <<>> \in Seq(Packet) /\ Len(<<>>) = 0
    BY DEF Link
  <2>2. CASE /\ obj' = [obj EXCEPT ![p] = "freed"] /\ link' = [link EXCEPT ![p] = "closed"]
             /\ inq' = [inq EXCEPT ![p] = <<>>] /\ UNCHANGED fdOf
    BY <2>1, <2>2
  <2>3. CASE /\ obj' = [obj EXCEPT ![p] = "live"] /\ fdOf' = [fdOf EXCEPT ![p] = fd]
             /\ UNCHANGED <<link, inq>>
    BY <1>1, <2>1, <2>3
  <2>4. QED
    BY <2>2, <2>3
<1>3. TypeOK'
  <2>1. table' \in Table
    BY <1>1 DEF TableInv
  <2>2. \A q \in Peer : Len(inq'[q]) <= Cap
    BY <1>1, <1>2 DEF IInv, TypeOK
  <2>3. phase' \in Phase /\ backlog' \in Seq(Peer)
    BY <1>1 DEF Phase
  <2>4. UNCHANGED <<fired, cur, transfer, outq, rbuf, wbuf, list, stored, outbox, owed, nreq, sent>>
    BY DEF peers
  <2>5. TypeOK /\ rfired' \in BOOLEAN
    BY DEF IInv
  <2>6. QED
    BY <1>2, <2>1, <2>2, <2>3, <2>4, <2>5 DEF TypeOK
<1>4. TableOK'
  BY <1>1, TableAssumption DEF IInv, TableOK, Fd, ListenFd
<1>5. NoDangling'
  <2>1. \A i \in Registered(table) \ {ListenFd} :
          table.data[i] \in Peer /\ Live(table.data[i]) /\ fdOf[table.data[i]] = i
    BY DEF IInv, NoDangling
  <2>2. ASSUME NEW q \in Peer \ {p}, obj'[q] = "live"
        PROVE  /\ fdOf'[q] \in Registered(table')
               /\ AE_READABLE \in table'.mask[fdOf'[q]]
               /\ table'.r_proc[fdOf'[q]] = "read_event_handler"
               /\ table'.data[fdOf'[q]] = q
    <3>1. Live(q) /\ fdOf'[q] = fdOf[q]
      BY <1>1, <2>2 DEF Live
    <3>2. /\ fdOf[q] \in Registered(table) /\ AE_READABLE \in table.mask[fdOf[q]]
          /\ table.r_proc[fdOf[q]] = "read_event_handler" /\ table.data[fdOf[q]] = q
      BY <3>1 DEF IInv, NoDangling
    <3>3. fdOf[q] \in Fd \ {fd}
      BY <1>1, <3>1, <3>2 DEF Registered
    <3>4. QED
      BY <1>1, <3>1, <3>2, <3>3 DEF Registered
  <2>3. ASSUME NEW i \in Registered(table') \ {ListenFd}, i # fd
        PROVE  LET q == table'.data[i]
               IN  q \in Peer /\ obj'[q] = "live" /\ fdOf'[q] = i
    <3>1. i \in Registered(table)
      BY <1>1, <2>3 DEF Registered
    <3>2. PICK q \in Peer : q = table'.data[i] /\ Live(q) /\ fdOf[q] = i
      BY <1>1, <2>1, <2>3, <3>1 DEF Registered
    <3>3. q # p
      BY <1>1, <3>2 DEF Live
    <3>4. QED
      BY <1>1, <3>2, <3>3 DEF Live
  <2>4. CASE obj'[p] = "freed" /\ table'.mask[fd] = AE_NONE
    BY <2>2, <2>3, <2>4 DEF NoDangling, Live, InHandler, Registered
  <2>5. CASE /\ obj'[p] = "live" /\ fdOf'[p] = fd
             /\ table'.mask[fd] = {AE_READABLE}
             /\ table'.r_proc[fd] = "read_event_handler"
             /\ table'.data[fd] = p
    <3>1. fd \in Registered(table')
      BY <1>1, <2>5 DEF Registered, AE_NONE
    <3>2. QED
      BY <1>1, <2>2, <2>3, <2>5, <3>1 DEF NoDangling, Live, InHandler
  <2>6. QED
    BY <1>1, <2>4, <2>5
<1>6. QueueOK'
  <2>1. \A i \in 1 .. Len(backlog') : i + 1 \in 1 .. Len(backlog) /\ i + 1 # 1
    BY <1>1
  <2>2. \A i \in 1 .. Len(backlog') : backlog'[i] \in Peer \ {p}
    BY <1>1, <2>1 DEF IInv, QueueOK
  <2>3. \A i, j \in 1 .. Len(backlog') : backlog'[i] = backlog'[j] => i = j
    BY <1>1, <2>1 DEF IInv, QueueOK
  <2>4. \A i \in 1 .. Len(backlog') : obj'[backlog'[i]] = "none" /\ link'[backlog'[i]] # "none"
    BY <1>1, <2>1, <2>2 DEF IInv, QueueOK
  <2>5. \A q \in Peer : link'[q] = "none" => obj'[q] = "none"
    BY <1>1, <1>2 DEF IInv, QueueOK
  <2>6. QED
    BY <2>3, <2>4, <2>5 DEF QueueOK
<1>7. EntryOK'
  BY DEF IInv, EntryOK, InHandler
<1>8. EventsAreFresh'
  <2>1. ASSUME NEW q \in Peer, Live(q), Readable(q)
        PROVE  obj'[q] = "live" /\ fdOf'[q] = fdOf[q] /\ Readable(q)'
    <3>1. q # p
      BY <1>1, <2>1 DEF Live
    <3>2. QED
      BY <1>1, <2>1, <3>1 DEF Live, Readable
  <2>2. QED
    BY <2>1, FreshInHandler
<1>9. QED
  BY <1>3, <1>4, <1>5, <1>6, <1>7, <1>8 DEF IInv

(* The handler accepts one connection or does nothing.                     *)
LEMMA AcceptCases ==
  ASSUME accept_tcp_handler
  PROVE  \/ /\ phase = "read" /\ phase' = "write" /\ rfired' = TRUE
            /\ UNCHANGED <<fired, cur, transfer, stored, peers, table, net, heap>>
         \/ \E p : \E fd \in FreeFds : \E accepted \in BOOLEAN : Accepts(p, fd, accepted)
<1>0. /\ phase = "read" /\ phase' = "write" /\ rfired' = TRUE
      /\ UNCHANGED <<fired, cur, transfer, stored, peers>>
  BY DEF accept_tcp_handler, CallRead
<1>1. CASE FreeFds = {} \/ backlog = <<>>
  BY <1>0, <1>1 DEF accept_tcp_handler
<1>2. CASE ~(FreeFds = {} \/ backlog = <<>>)
  <2> DEFINE p  == Head(backlog)
             fd == CHOOSE i \in FreeFds : \A j \in FreeFds : i <= j
  <2>1. fd \in FreeFds
    <3>1. FreeFds \in SUBSET Nat /\ FreeFds # {}
      BY <1>2, TableAssumption DEF FreeFds, Fd
    <3>2. \E i \in FreeFds : \A j \in FreeFds : i <= j
      BY <3>1, LeastNatural
    <3>3. QED
      BY <3>2
  <2>2. PICK accepted \in BOOLEAN :
          /\ backlog' = Tail(backlog)
          /\ IF AddRefused(table, fd, accepted)
             THEN /\ table' = Destroyed(table, fd)
                  /\ obj' = [obj EXCEPT ![p] = "freed"]
                  /\ link' = [link EXCEPT ![p] = "closed"]
                  /\ inq' = [inq EXCEPT ![p] = <<>>]
                  /\ UNCHANGED fdOf
             ELSE /\ table' = Installed(table, fd, {AE_READABLE}, "read_event_handler", p)
                  /\ obj' = [obj EXCEPT ![p] = "live"]
                  /\ fdOf' = [fdOf EXCEPT ![p] = fd]
                  /\ UNCHANGED <<link, inq>>
          /\ UNCHANGED <<outq, rbuf, wbuf, list>>
    BY <1>2 DEF accept_tcp_handler
  <2> HIDE DEF fd
  <2>3. Accepts(p, fd, accepted)
    BY <1>0, <1>2, <2>2 DEF Accepts
  <2>4. QED
    BY <2>1, <2>3
<1>3. QED
  BY <1>1, <1>2

LEMMA AcceptStep == IInv /\ accept_tcp_handler => IInv'
<1> SUFFICES ASSUME IInv, accept_tcp_handler PROVE IInv'
  OBVIOUS
<1>1. CASE /\ phase = "read" /\ phase' = "write" /\ rfired' = TRUE
           /\ UNCHANGED <<fired, cur, transfer, stored, peers, table, net, heap>>
  <2>1. TypeOK'
    BY <1>1 DEF IInv, TypeOK, Phase, net, heap, peers
  <2>2. TableOK' /\ QueueOK'
    BY <1>1 DEF IInv, TableOK, QueueOK, net, heap
  <2>3. NoDangling'
    BY <1>1 DEF IInv, NoDangling, InHandler, Live, net, heap
  <2>4. EntryOK'
    BY <1>1 DEF IInv, EntryOK, InHandler
  <2>5. EventsAreFresh'
    BY <1>1, FreshInHandler DEF Live, Readable, net, heap
  <2>6. QED
    BY <2>1, <2>2, <2>3, <2>4, <2>5 DEF IInv
<1>2. QED
  BY <1>1, AcceptCases, AcceptOne

(* A step of a handler of the client cur.fd belongs to, which leaves the   *)
(* clients, their handlers and the other connections alone.                *)
LEMMA HandlerKeeps ==
  ASSUME IInv, cur.fd \in Registered(table) \ {ListenFd}, phase \notin {"wait", "next"},
         phase' # "read", phase' = "write_buf" => wbuf'[Client] # Null,
         UNCHANGED <<fired, cur, backlog, fdOf, obj>>,
         TypeOK', TableInv(table'), table'.size = table.size, table'.api = table.api,
         table'.r_proc = table.r_proc, table'.data = table.data,
         Registered(table') = Registered(table),
         \A fd \in Fd : AE_READABLE \in table.mask[fd] => AE_READABLE \in table'.mask[fd],
         table'.mask[ListenFd] = table.mask[ListenFd],
         \A q \in Peer : link'[q] = "none" <=> link[q] = "none",
         \A q \in Peer \ {Client} : Readable(q) => Readable(q)'
  PROVE  IInv'
<1>1. TableOK'
  BY DEF IInv, TableOK
<1>2. Client \in Peer /\ Live(Client) /\ fdOf[Client] = cur.fd
  BY Dispatched
<1>3. NoDangling'
  BY <1>2, ClientsKept
<1>4. QueueOK'
  <2>1. \A i \in 1 .. Len(backlog) : backlog[i] \in Peer
    BY DEF IInv, TypeOK
  <2>2. QED
    BY <2>1 DEF IInv, QueueOK
<1>5. EntryOK'
  BY DEF IInv, EntryOK, InHandler, Client
<1>6. EventsAreFresh'
  <2>1. \A q \in Peer : Live(q) /\ Readable(q) /\ fdOf[q] # cur.fd =>
                          obj'[q] = "live" /\ fdOf'[q] = fdOf[q] /\ Readable(q)'
    BY <1>2 DEF Live
  <2>2. QED
    BY <2>1, FreshInHandler
<1>7. QED
  BY <1>1, <1>3, <1>4, <1>5, <1>6 DEF IInv

(* The same when the table stays as it is.                                 *)
LEMMA TransferKeeps ==
  ASSUME IInv, cur.fd \in Registered(table) \ {ListenFd}, phase \notin {"wait", "next"},
         phase' # "read", phase' = "write_buf" => wbuf'[Client] # Null,
         UNCHANGED <<table, fired, cur, backlog, fdOf, obj>>, TypeOK',
         \A q \in Peer : link'[q] = "none" <=> link[q] = "none",
         \A q \in Peer \ {Client} : Readable(q) => Readable(q)'
  PROVE  IInv'
<1>1. TableInv(table)
  BY DEF IInv, TableOK
<1>2. QED
  BY <1>1, HandlerKeeps

(* What a connection's end does to the state of its link.                  *)
LEMMA AfterErrorType ==
  ASSUME TypeOK, NEW p \in Peer, link' = AfterError(p)
  PROVE  /\ link' \in [Peer -> Link]
         /\ \A q \in Peer : link'[q] = "none" <=> link[q] = "none"
         /\ \A q \in Peer \ {p} : link'[q] = link[q]
BY DEF TypeOK, AfterError, Link

(* What a write() does to the socket.                                      *)
LEMMA PutType ==
  ASSUME TypeOK, NEW p \in Peer, NEW packet \in Packet, NEW ok \in BOOLEAN,
         link[p] # "none", Put(p, packet, ok)
  PROVE  /\ link' \in [Peer -> Link] /\ outq' \in [Peer -> Seq(Packet)]
         /\ \A q \in Peer : Len(outq'[q]) <= Cap
         /\ \A q \in Peer : link'[q] = "none" <=> link[q] = "none"
         /\ \A q \in Peer \ {p} : link'[q] = link[q]
<1>1. /\ link \in [Peer -> Link] /\ outq \in [Peer -> Seq(Packet)]
      /\ \A q \in Peer : Len(outq[q]) \in Nat /\ Len(outq[q]) <= Cap
      /\ Cap \in Nat
  BY ServerAssumption DEF TypeOK
<1>2. CASE link[p] = "open"
  <2>1. /\ outq' = [outq EXCEPT ![p] = Append(@, packet)] /\ link' = link
        /\ Len(outq[p]) < Cap
    BY <1>2 DEF Put, Writable
  <2>2. /\ Append(outq[p], packet) \in Seq(Packet)
        /\ Len(Append(outq[p], packet)) = Len(outq[p]) + 1
    BY <1>1
  <2>3. QED
    BY <1>1, <2>1, <2>2
<1>3. CASE link[p] # "open"
  <2>1. outq' = outq /\ link' \in {link, [link EXCEPT ![p] = "dead"]}
    BY <1>3 DEF Put
  <2>2. "dead" \in Link
    BY DEF Link
  <2>3. QED
    BY <1>1, <2>1, <2>2
<1>4. QED
  BY <1>2, <1>3

(* What process_command() does, whatever the buffer holds.                 *)
LEMMA CommandEffect ==
  ASSUME IInv, cur.fd \in Registered(table) \ {ListenFd},
         NEW r \in Request \cup {Null}, process_command(Client, r)
  PROVE  /\ obj' = obj /\ rbuf' = [rbuf EXCEPT ![Client] = r]
         /\ wbuf' \in [Peer -> Packet \cup {Null}] /\ list' \in [Peer -> Seq(Packet)]
         /\ transfer' \in [left : Nat, file : {"regular", "directory", "unopenable"}]
         /\ phase' \in {"write", "recv_num", "crashed", "hung"}
         /\ TableInv(table')
         /\ \/ table'.mask = table.mask
            \/ table'.mask = [table.mask EXCEPT ![cur.fd] = @ \cup {AE_WRITABLE}]
         /\ table'.r_proc = table.r_proc /\ table'.data = table.data
         /\ table'.size = table.size /\ table'.api = table.api
<1> DEFINE p == Client
           T == [left : Nat, file : {"regular", "directory", "unopenable"}]
<1>0. p \in Peer /\ Live(p) /\ fdOf[p] = cur.fd
  BY Dispatched
<1>1. /\ wbuf \in [Peer -> Packet \cup {Null}] /\ list \in [Peer -> Seq(Packet)]
      /\ transfer \in T /\ TableInv(table) /\ TypeOK /\ TableOK
      /\ fdOf[p] \in Registered(table) /\ table.data[fdOf[p]] = p
  BY <1>0 DEF IInv, TypeOK, TableOK, NoDangling
<1>2. obj' = obj /\ rbuf' = [rbuf EXCEPT ![p] = r]
  BY DEF process_command
<1>3. CASE ignore_command(r)
  BY <1>1, <1>2, <1>3 DEF ignore_command
<1>4. CASE /\ Accepted(r)
           /\ table' = WithReply(p, r)
           /\ CASE r.cmd = "ping"      -> ping_command(p)
                [] r.cmd = "file_recv" -> file_recv_command(p, r)
                [] r.cmd = "file_send" -> file_send_command(r)
                [] OTHER               -> empty_command
  <2>1. /\ r \in Request
        /\ r.size \in Nat /\ r.file \in {"regular", "directory", "unopenable"}
    BY <1>4, RequestAssumption DEF Accepted
  <2>2. /\ TableInv(table')
        /\ \/ table'.mask = table.mask
           \/ table'.mask = [table.mask EXCEPT ![cur.fd] = @ \cup {AE_WRITABLE}]
        /\ table'.r_proc = table.r_proc /\ table'.data = table.data
        /\ table'.size = table.size /\ table'.api = table.api
    <3> DEFINE u == WithReply(p, r)
    <3> HIDE DEF p
    <3>1. /\ TableInv(u)
          /\ u.mask = IF command_table[r.cmd].reply
                      THEN [table.mask EXCEPT ![fdOf[p]] = @ \cup {AE_WRITABLE}]
                      ELSE table.mask
          /\ u.r_proc = table.r_proc /\ u.data = table.data
          /\ u.size = table.size /\ u.api = table.api
      BY <1>0, <1>1, <2>1, WithReplyFields
    <3> HIDE DEF u
    <3>2. table' = u
      BY <1>4 DEF u
    <3>3. QED
      BY <1>0, <3>1, <3>2
  <2>3. /\ wbuf' \in [Peer -> Packet \cup {Null}] /\ list' \in [Peer -> Seq(Packet)]
        /\ transfer' \in T /\ phase' \in {"write", "recv_num", "crashed", "hung"}
    <3> HIDE DEF p
    <3>1. CASE ping_command(p)
      <4>1. Pong \in Packet
        BY DEF Pong, Packet
      <4>2. QED
        BY <1>1, <3>1, <4>1 DEF ping_command
    <3>2. CASE file_recv_command(p, r)
      <4>1. Chunks(r.size) \in Seq(Packet) /\ Integer(Len(Chunks(r.size))) \in Packet
        BY <2>1, ChunksType DEF Integer, Packet
      <4>2. QED
        BY <1>1, <2>1, <3>2, <4>1 DEF file_recv_command
    <3>3. CASE file_send_command(r) \/ empty_command
      BY <1>1, <2>1, <3>3 DEF file_send_command, empty_command
    <3>4. QED
      BY <1>4, <3>1, <3>2, <3>3
  <2>4. QED
    BY <1>2, <2>2, <2>3
<1>5. QED
  BY <1>3, <1>4 DEF process_command

(* A packet is taken from the client's socket, or its end is noticed.      *)
LEMMA TakesPacket ==
  ASSUME IInv, cur.fd \in Registered(table) \ {ListenFd},
         \/ inq[Client] # <<>> /\ inq' = [inq EXCEPT ![Client] = Tail(@)] /\ UNCHANGED link
         \/ link' = AfterError(Client) /\ UNCHANGED inq
         \/ UNCHANGED <<inq, link>>
  PROVE  /\ link' \in [Peer -> Link]
         /\ \A q \in Peer : link'[q] = "none" <=> link[q] = "none"
         /\ inq' \in [Peer -> Seq(Packet)]
         /\ \A q \in Peer : Len(inq'[q]) <= Cap
         /\ \A q \in Peer \ {Client} : Readable(q) => Readable(q)'
<1> DEFINE p == Client
<1>0. p \in Peer /\ TypeOK
  BY Dispatched DEF IInv
<1> HIDE DEF p
<1>2. /\ link' \in [Peer -> Link]
      /\ \A q \in Peer : link'[q] = "none" <=> link[q] = "none"
      /\ \A q \in Peer \ {p} : link'[q] = link[q]
  <2>1. CASE link' = link
    BY <1>0, <2>1 DEF TypeOK
  <2>2. CASE link' = AfterError(p)
    BY <1>0, <2>2, AfterErrorType
  <2>3. QED
    BY <2>1, <2>2 DEF p
<1>3. /\ inq' \in [Peer -> Seq(Packet)]
      /\ \A q \in Peer : Len(inq'[q]) <= Cap
      /\ \A q \in Peer \ {p} : inq'[q] = inq[q]
  <2>1. /\ inq \in [Peer -> Seq(Packet)] /\ Cap \in Nat
        /\ \A q \in Peer : Len(inq[q]) <= Cap
    BY <1>0, ServerAssumption DEF TypeOK
  <2>2. CASE inq' = inq
    BY <2>1, <2>2
  <2>3. CASE inq[p] # <<>> /\ inq' = [inq EXCEPT ![p] = Tail(@)]
    <3>1. Tail(inq[p]) \in Seq(Packet) /\ Len(Tail(inq[p])) <= Cap
      BY <1>0, <2>1, <2>3
    <3>2. QED
      BY <2>1, <2>3, <3>1
  <2>4. QED
    BY <2>2, <2>3 DEF p
<1>4. \A q \in Peer \ {p} : Readable(q) => Readable(q)'
  BY <1>2, <1>3 DEF Readable
<1>5. QED
  BY <1>2, <1>3, <1>4 DEF p

(* read_event_handler has processed a command.                             *)
LEMMA CommandStep ==
  ASSUME IInv, cur.fd \in Registered(table) \ {ListenFd}, phase = "read",
         NEW r \in Request \cup {Null}, process_command(Client, r), rfired' \in BOOLEAN,
         UNCHANGED <<fired, cur, backlog, fdOf, outq, stored, peers>>,
         \/ inq[Client] # <<>> /\ inq' = [inq EXCEPT ![Client] = Tail(@)] /\ UNCHANGED link
         \/ link' = AfterError(Client) /\ UNCHANGED inq
  PROVE  IInv'
<1> DEFINE p == Client
<1>0. p \in Peer /\ TypeOK
  BY Dispatched DEF IInv
<1>1. /\ obj' = obj /\ rbuf' = [rbuf EXCEPT ![p] = r]
      /\ wbuf' \in [Peer -> Packet \cup {Null}] /\ list' \in [Peer -> Seq(Packet)]
      /\ transfer' \in [left : Nat, file : {"regular", "directory", "unopenable"}]
      /\ phase' \in {"write", "recv_num", "crashed", "hung"}
      /\ TableInv(table')
      /\ \/ table'.mask = table.mask
         \/ table'.mask = [table.mask EXCEPT ![cur.fd] = @ \cup {AE_WRITABLE}]
      /\ table'.r_proc = table.r_proc /\ table'.data = table.data
      /\ table'.size = table.size /\ table'.api = table.api
  BY CommandEffect
<1> HIDE DEF p
<1>2. /\ link' \in [Peer -> Link]
      /\ \A q \in Peer : link'[q] = "none" <=> link[q] = "none"
      /\ inq' \in [Peer -> Seq(Packet)]
      /\ \A q \in Peer : Len(inq'[q]) <= Cap
      /\ \A q \in Peer \ {p} : Readable(q) => Readable(q)'
  BY TakesPacket DEF p
<1>3. TypeOK'
  <2>1. table' \in Table /\ phase' \in Phase
    BY <1>1 DEF TableInv, Phase
  <2>2. rbuf' \in [Peer -> Request \cup {Null}]
    BY <1>0, <1>1 DEF TypeOK
  <2>3. UNCHANGED <<outbox, owed, nreq, sent>>
    BY DEF peers
  <2>4. QED
    BY <1>0, <1>1, <1>2, <2>1, <2>2, <2>3 DEF TypeOK
<1>4. /\ Registered(table') = Registered(table)
      /\ \A fd \in Fd : AE_READABLE \in table.mask[fd] => AE_READABLE \in table'.mask[fd]
      /\ table'.mask[ListenFd] = table.mask[ListenFd]
  <2>1. table.mask \in [Fd -> Mask] /\ cur.fd \in Fd \ {ListenFd} /\ ListenFd \in Fd
    BY <1>0, TableAssumption DEF TypeOK, Table, Fd, ListenFd
  <2>2. table.mask[cur.fd] # AE_NONE
    BY DEF Registered
  <2>3. CASE table'.mask = table.mask
    BY <2>3 DEF Registered
  <2>4. CASE table'.mask = [table.mask EXCEPT ![cur.fd] = @ \cup {AE_WRITABLE}]
    BY <2>1, <2>2, <2>4 DEF Registered, AE_NONE
  <2>5. QED
    BY <1>1, <2>3, <2>4
<1>5. QED
  BY <1>1, <1>2, <1>3, <1>4, HandlerKeeps DEF p

LEMMA ReadStep == IInv /\ read_event_handler => IInv'
<1> SUFFICES ASSUME IInv, read_event_handler PROVE IInv'
  OBVIOUS
<1>1. /\ CallRead("read_event_handler") /\ phase = "read" /\ rfired' = TRUE
      /\ UNCHANGED <<fired, cur, stored, peers>>
  BY DEF read_event_handler, CallRead
<1>2. cur.fd \in Registered(table) \ {ListenFd}
  BY <1>1, ReadsClient
<1>3. /\ Client \in Peer /\ inq \in [Peer -> Seq(Packet)]
      /\ rbuf[Client] \in Request \cup {Null}
  BY <1>2, Dispatched DEF IInv, TypeOK
<1>4. CASE /\ inq[Client] # <<>>
           /\ process_command(Client, Head(inq[Client]).request)
           /\ inq' = [inq EXCEPT ![Client] = Tail(@)]
           /\ UNCHANGED <<backlog, fdOf, link, outq>>
  <2>1. Head(inq[Client]) \in Packet
    BY <1>3, <1>4
  <2>2. Head(inq[Client]).request \in Request \cup {Null}
    BY <2>1 DEF Packet
  <2>3. QED
    BY <1>1, <1>2, <1>4, <2>2, CommandStep
<1>5. CASE Delete(Client) /\ phase' = "write" /\ UNCHANGED transfer
  BY <1>1, <1>2, <1>5, DeleteStep
<1>6. CASE /\ link' = AfterError(Client)
           /\ process_command(Client, rbuf[Client])
           /\ UNCHANGED <<backlog, fdOf, inq, outq>>
  BY <1>1, <1>2, <1>3, <1>6, CommandStep
<1>7. CASE /\ link' = AfterError(Client) /\ phase' = "crashed"
           /\ UNCHANGED <<table, transfer, heap>>
           /\ UNCHANGED <<backlog, fdOf, inq, outq>>
  <2>1. TypeOK
    BY DEF IInv
  <2>2. /\ link' \in [Peer -> Link]
        /\ \A q \in Peer : link'[q] = "none" <=> link[q] = "none"
        /\ \A q \in Peer \ {Client} : link'[q] = link[q]
    BY <1>3, <1>7, <2>1, AfterErrorType
  <2>3. TypeOK'
    BY <1>1, <1>7, <2>1, <2>2 DEF TypeOK, Phase, heap, peers
  <2>4. \A q \in Peer \ {Client} : Readable(q) => Readable(q)'
    BY <1>7, <2>2 DEF Readable
  <2>5. QED
    BY <1>1, <1>2, <1>7, <2>2, <2>3, <2>4, TransferKeeps DEF heap
<1>8. QED
  BY <1>4, <1>5, <1>6, <1>7 DEF read_event_handler

LEMMA RecvIntegerStep == IInv /\ recv_integer => IInv'
<1> SUFFICES ASSUME IInv, recv_integer PROVE IInv'
  OBVIOUS
<1>1. /\ phase = "recv_num" /\ phase' = "recv"
      /\ UNCHANGED <<table, fired, cur, rfired, backlog, fdOf, outq, heap, stored, peers>>
  BY DEF recv_integer
<1>2. cur.fd \in Registered(table) \ {ListenFd}
  BY <1>1 DEF IInv, EntryOK, InHandler
<1>3. Client \in Peer /\ TypeOK
  BY <1>2, Dispatched DEF IInv
<1>4. /\ link' \in [Peer -> Link]
      /\ \A q \in Peer : link'[q] = "none" <=> link[q] = "none"
      /\ inq' \in [Peer -> Seq(Packet)]
      /\ \A q \in Peer : Len(inq'[q]) <= Cap
      /\ \A q \in Peer \ {Client} : Readable(q) => Readable(q)'
  BY <1>2, TakesPacket DEF recv_integer
<1>5. transfer' \in [left : Nat, file : {"regular", "directory", "unopenable"}]
  <2>1. CASE transfer' = transfer
    BY <1>3, <2>1 DEF TypeOK
  <2>2. CASE /\ inq[Client] # <<>>
             /\ transfer' = [transfer EXCEPT !.left = Head(inq[Client]).val]
    <3>1. Head(inq[Client]) \in Packet
      BY <1>3, <2>2 DEF TypeOK
    <3>2. Head(inq[Client]).val \in Nat
      BY <3>1 DEF Packet
    <3>3. QED
      BY <1>3, <2>2, <3>2 DEF TypeOK
  <2>3. QED
    BY <2>1, <2>2 DEF recv_integer
<1>6. TypeOK'
  BY <1>1, <1>3, <1>4, <1>5 DEF TypeOK, Phase, heap, peers
<1>7. QED
  BY <1>1, <1>2, <1>4, <1>6, TransferKeeps DEF heap

LEMMA FcloseType ==
  ASSUME Fclose
  PROVE  /\ transfer' \in [left : Nat, file : {"regular", "directory", "unopenable"}]
         /\ phase' \in {"write", "crashed"}
BY DEF Fclose, NoTransfer

LEMMA RecvStep == IInv /\ recv => IInv'
<1> SUFFICES ASSUME IInv, recv PROVE IInv'
  OBVIOUS
<1> DEFINE T == [left : Nat, file : {"regular", "directory", "unopenable"}]
<1>1. /\ phase = "recv" /\ transfer.left > 0
      /\ rbuf' = [rbuf EXCEPT ![Client] = Null]
      /\ UNCHANGED <<table, fired, cur, rfired, backlog, fdOf, outq, obj, wbuf, list, peers>>
  BY DEF recv
<1>2. cur.fd \in Registered(table) \ {ListenFd}
  BY <1>1 DEF IInv, EntryOK, InHandler
<1>3. /\ Client \in Peer /\ TypeOK
      /\ transfer \in T /\ stored \in [Peer -> Seq(Packet)]
  BY <1>2, Dispatched DEF IInv, TypeOK
<1>4. /\ link' \in [Peer -> Link]
      /\ \A q \in Peer : link'[q] = "none" <=> link[q] = "none"
      /\ inq' \in [Peer -> Seq(Packet)]
      /\ \A q \in Peer : Len(inq'[q]) <= Cap
      /\ \A q \in Peer \ {Client} : Readable(q) => Readable(q)'
  BY <1>2, TakesPacket DEF recv
<1>5. /\ transfer' \in T /\ stored' \in [Peer -> Seq(Packet)]
      /\ phase' \in {"recv", "write", "crashed"}
  <2>1. CASE Fclose /\ UNCHANGED stored
    BY <1>3, <2>1, FcloseType
  <2>2. CASE phase' = "crashed" /\ UNCHANGED <<stored, transfer>>
    BY <1>3, <2>2
  <2>3. CASE /\ inq[Client] # <<>>
             /\ stored' = [stored EXCEPT ![Client] = Append(@, Head(inq[Client]))]
             /\ transfer' = [transfer EXCEPT !.left = @ - 1]
             /\ UNCHANGED phase
    <3>1. Head(inq[Client]) \in Packet
      BY <1>3, <2>3 DEF TypeOK
    <3>2. Append(stored[Client], Head(inq[Client])) \in Seq(Packet)
      BY <1>3, <3>1
    <3>3. transfer.left - 1 \in Nat
      BY <1>1, <1>3
    <3>4. QED
      BY <1>1, <1>3, <2>3, <3>2, <3>3
  <2>4. QED
    BY <2>1, <2>2, <2>3 DEF recv
<1>6. TypeOK'
  <2>1. rbuf' \in [Peer -> Request \cup {Null}]
    BY <1>1, <1>3 DEF TypeOK
  <2>2. QED
    BY <1>1, <1>3, <1>4, <1>5, <2>1 DEF TypeOK, Phase, peers
<1>7. QED
  BY <1>1, <1>2, <1>4, <1>5, <1>6, TransferKeeps

LEMMA RecvDoneStep == IInv /\ recv_done => IInv'
<1> SUFFICES ASSUME IInv, recv_done PROVE IInv'
  OBVIOUS
<1>1. /\ phase = "recv" /\ Fclose
      /\ UNCHANGED <<table, fired, cur, rfired, net, heap, stored, peers>>
  BY DEF recv_done
<1>2. cur.fd \in Registered(table) \ {ListenFd}
  BY <1>1 DEF IInv, EntryOK, InHandler
<1>3. /\ transfer' \in [left : Nat, file : {"regular", "directory", "unopenable"}]
      /\ phase' \in {"write", "crashed"}
  BY <1>1, FcloseType
<1>4. TypeOK'
  BY <1>1, <1>3 DEF IInv, TypeOK, Phase, net, heap, peers
<1>5. \A q \in Peer : Readable(q) => Readable(q)'
  BY <1>1 DEF Readable, net
<1>6. QED
  BY <1>1, <1>2, <1>3, <1>4, <1>5, TransferKeeps DEF net, heap

LEMMA WriteStep == IInv /\ write_event_handler => IInv'
<1> SUFFICES ASSUME IInv, write_event_handler PROVE IInv'
  OBVIOUS
<1>1. /\ phase = "write" /\ WriteDue
      /\ UNCHANGED <<fired, cur, rfired, transfer, stored, peers>>
  BY DEF write_event_handler
<1>2. cur.fd \in Registered(table) \ {ListenFd}
  BY <1>1, WritesClient
<1>3. CASE Delete(Client) /\ phase' = "next"
  <2>1. rfired' \in BOOLEAN
    BY <1>1 DEF IInv, TypeOK
  <2>2. QED
    BY <1>1, <1>2, <1>3, <2>1, DeleteStep
<1>4. CASE wbuf[Client] # Null /\ phase' = "write_buf" /\ UNCHANGED <<table, net, heap>>
  <2>1. TypeOK'
    BY <1>1, <1>4 DEF IInv, TypeOK, Phase, net, heap, peers
  <2>2. \A q \in Peer : Readable(q) => Readable(q)'
    BY <1>4 DEF Readable, net
  <2>3. QED
    BY <1>1, <1>2, <1>4, <2>1, <2>2, TransferKeeps DEF net, heap
<1>5. QED
  BY <1>3, <1>4 DEF write_event_handler

(* A handler has written a packet.                                         *)
LEMMA PutStep ==
  ASSUME IInv, phase \in {"write_buf", "write_list"}, phase' = "write_list",
         NEW packet \in Packet, NEW ok \in BOOLEAN, Put(Client, packet, ok),
         wbuf' \in [Peer -> Packet \cup {Null}], list' \in [Peer -> Seq(Packet)],
         UNCHANGED <<table, fired, cur, rfired, transfer, backlog, fdOf, inq,
                     obj, rbuf, stored, peers>>
  PROVE  IInv'
<1>1. cur.fd \in Registered(table) \ {ListenFd}
  BY DEF IInv, EntryOK, InHandler
<1>2. Client \in Peer /\ Live(Client) /\ TypeOK
  BY <1>1, Dispatched DEF IInv
<1>3. link[Client] # "none"
  BY <1>2 DEF IInv, QueueOK, Live
<1>4. /\ link' \in [Peer -> Link] /\ outq' \in [Peer -> Seq(Packet)]
      /\ \A q \in Peer : Len(outq'[q]) <= Cap
      /\ \A q \in Peer : link'[q] = "none" <=> link[q] = "none"
      /\ \A q \in Peer \ {Client} : link'[q] = link[q]
  BY <1>2, <1>3, PutType
<1>5. TypeOK'
  BY <1>2, <1>4 DEF TypeOK, Phase, peers
<1>6. \A q \in Peer \ {Client} : Readable(q) => Readable(q)'
  BY <1>4 DEF Readable
<1>7. QED
  BY <1>1, <1>4, <1>5, <1>6, TransferKeeps

LEMMA WriteBufferStep == IInv /\ write_buffer => IInv'
<1> SUFFICES ASSUME IInv, write_buffer PROVE IInv'
  OBVIOUS
<1>1. PICK ok \in BOOLEAN :
        /\ Put(Client, wbuf[Client], ok)
        /\ wbuf' = IF ok THEN [wbuf EXCEPT ![Client] = Null] ELSE wbuf
  BY DEF write_buffer
<1>2. cur.fd \in Registered(table) \ {ListenFd}
  BY DEF IInv, EntryOK, InHandler, write_buffer
<1>3. Client \in Peer
  BY <1>2, Dispatched
<1>4. wbuf[Client] \in Packet
  BY <1>3 DEF IInv, TypeOK, EntryOK, write_buffer
<1>5. wbuf' \in [Peer -> Packet \cup {Null}] /\ list' \in [Peer -> Seq(Packet)]
  BY <1>1 DEF IInv, TypeOK, write_buffer
<1>6. QED
  BY <1>1, <1>4, <1>5, PutStep DEF write_buffer

LEMMA WriteListStep == IInv /\ write_list => IInv'
<1> SUFFICES ASSUME IInv, write_list PROVE IInv'
  OBVIOUS
<1>1. PICK ok \in BOOLEAN : Put(Client, Head(list[Client]), ok)
  BY DEF write_list
<1>2. cur.fd \in Registered(table) \ {ListenFd}
  BY DEF IInv, EntryOK, InHandler, write_list
<1>3. Client \in Peer /\ list \in [Peer -> Seq(Packet)] /\ list[Client] # <<>>
  BY <1>2, Dispatched DEF IInv, TypeOK, write_list
<1>4. Head(list[Client]) \in Packet /\ Tail(list[Client]) \in Seq(Packet)
  BY <1>3
<1>5. list' \in [Peer -> Seq(Packet)] /\ wbuf' \in [Peer -> Packet \cup {Null}]
  BY <1>3, <1>4 DEF IInv, TypeOK, write_list
<1>6. QED
  BY <1>1, <1>4, <1>5, PutStep DEF write_list

LEMMA WriteDoneStep == IInv /\ write_done => IInv'
<1> SUFFICES ASSUME IInv, write_done PROVE IInv'
  OBVIOUS
<1>1. /\ phase = "write_list" /\ phase' = "next"
      /\ table' = IF wbuf[Client] = Null
                  THEN del_file_event(table, fdOf[Client], {AE_WRITABLE})
                  ELSE table
      /\ UNCHANGED <<fired, cur, rfired, transfer, net, heap, stored, peers>>
  BY DEF write_done
<1>2. cur.fd \in Registered(table) \ {ListenFd}
  BY <1>1 DEF IInv, EntryOK, InHandler
<1>3. Client \in Peer /\ Live(Client) /\ fdOf[Client] = cur.fd
  BY <1>2, Dispatched
<1>4. /\ table \in Table /\ TableInv(table) /\ table.api
      /\ cur.fd \in Fd /\ ListenFd \in Fd /\ table.mask \in [Fd -> Mask]
      /\ AE_READABLE \in table.mask[cur.fd]
  BY <1>3, TableAssumption DEF IInv, TypeOK, TableOK, Table, NoDangling, Fd, ListenFd
<1>5. /\ TableInv(table')
      /\ table'.r_proc = table.r_proc /\ table'.data = table.data
      /\ table'.size = table.size /\ table'.api = table.api
      /\ \/ table'.mask = table.mask
         \/ table'.mask = [table.mask EXCEPT ![cur.fd] = @ \ {AE_WRITABLE}]
  <2>1. CASE table' = table
    BY <1>4, <2>1
  <2>2. CASE table' = del_file_event(table, cur.fd, {AE_WRITABLE})
    <3>1. PICK mask \in Mask : mask = {AE_WRITABLE}
      BY DEF Mask
    <3>2. cur.fd < table.size
      BY <1>4, TableAssumption
         DEF TableInv, HandlersPresent, Table, Fd, AE_NONE
    <3>3. TableInv(table')
      BY <1>4, <2>2, <3>1, DelPreserves
    <3>4. LET u == del_file_event(table, cur.fd, mask)
          IN  /\ u.mask = [table.mask EXCEPT ![cur.fd] = table.mask[cur.fd] \ mask]
              /\ u.r_proc = table.r_proc /\ u.data = table.data
              /\ u.size = table.size /\ u.api = table.api
      BY <1>4, <3>2, DeletedParts
    <3>5. QED
      BY <2>2, <3>1, <3>3, <3>4
  <2>3. QED
    BY <1>1, <1>3, <2>1, <2>2
<1>6. /\ Registered(table') = Registered(table)
      /\ \A fd \in Fd : AE_READABLE \in table.mask[fd] => AE_READABLE \in table'.mask[fd]
      /\ table'.mask[ListenFd] = table.mask[ListenFd]
  BY <1>2, <1>4, <1>5 DEF Registered, AE_NONE, AE_READABLE, AE_WRITABLE
<1>7. TypeOK'
  <2>1. table' \in Table
    BY <1>5 DEF TableInv
  <2>2. QED
    BY <1>1, <2>1 DEF IInv, TypeOK, Phase, net, heap, peers
<1>8. \A q \in Peer : Readable(q) => Readable(q)'
  BY <1>1 DEF Readable, net
<1>9. QED
  BY <1>1, <1>2, <1>5, <1>6, <1>7, <1>8, HandlerKeeps DEF net, heap

LEMMA NextIInv == IInv /\ [Next]_vars => IInv'
<1> SUFFICES ASSUME IInv, [Next]_vars PROVE IInv'
  OBVIOUS
<1>1. CASE ServerStep
  BY <1>1, PollStep, DispatchStep, AcceptStep, ReadStep, RecvIntegerStep, RecvStep,
     RecvDoneStep, WriteStep, WriteBufferStep, WriteListStep, WriteDoneStep
     DEF ServerStep
<1>2. ASSUME NEW p \in Peer, PeerStep(p)
      PROVE  IInv'
  BY <1>2, ConnectStep, ComposeStep, FlushStep, ReceiveStep, ExitStep
     DEF PeerStep, Submit, Close
<1>3. CASE UNCHANGED vars
  <2>1. UNCHANGED <<table, phase, fired, cur, rfired, transfer, backlog, fdOf, link, inq,
                    outq, obj, rbuf, wbuf, list, stored, outbox, nreq, owed, sent>>
    BY <1>3 DEF vars, loop, net, heap, peers
  <2>2. TypeOK' /\ TableOK' /\ QueueOK'
    BY <2>1 DEF IInv, TypeOK, TableOK, QueueOK
  <2>3. NoDangling' /\ EntryOK'
    BY <2>1 DEF IInv, NoDangling, EntryOK, InHandler, Live, Client
  <2>4. EventsAreFresh'
    BY <2>1 DEF IInv, EventsAreFresh, Live, Readable
  <2>5. QED
    BY <2>2, <2>3, <2>4 DEF IInv
<1>4. QED
  BY <1>1, <1>2, <1>3 DEF Next, Rest

-----------------------------------------------------------------------------
(* The theorems.                                                           *)

LEMMA Invariant == Spec => []IInv
<1>1. Init => IInv
  BY InitIInv
<1>2. IInv /\ [Next]_vars => IInv'
  BY NextIInv
<1>3. QED
  BY <1>1, <1>2, PTL DEF Spec

(* Every variable of the server, the kernel and the peers keeps its type;  *)
(* no socket buffer holds more than it can, and a transfer never counts    *)
(* below zero.                                                             *)
THEOREM TypeCorrect == Spec => []TypeOK
<1>1. IInv => TypeOK
  BY DEF IInv
<1>2. QED
  BY <1>1, Invariant, PTL

(* Memory safety of _client_data: what is registered is a client_t that    *)
(* has not been deleted, every client_t can be reached by an event, and a  *)
(* handler that waits in a read or a write keeps its client, however many  *)
(* clients come, go and take over each other's descriptors.                *)
THEOREM ClientDataIsLive == Spec => []NoDangling
<1>1. IInv => NoDangling
  BY DEF IInv
<1>2. QED
  BY <1>1, Invariant, PTL

(* A batch of epoll_wait's results never goes stale: a readable entry that *)
(* has still to be dispatched belongs to a client with something to read.  *)
THEOREM BatchStaysFresh == Spec => []EventsAreFresh
<1>1. IInv => EventsAreFresh
  BY DEF IInv
<1>2. QED
  BY <1>1, Invariant, PTL

-----------------------------------------------------------------------------
(* Replies wait for the write event, and only they do.  Two things outside *)
(* the table and the buffers decide whether this holds: get and set ask    *)
(* for the write event and reply nothing, and file_recv asks for it before *)
(* it opens the file, so it never replies if the process hangs or crashes  *)
(* then.                                                                   *)
Replying == \A r \in Request : Accepted(r) => r.cmd \notin {"get", "set"}
Openable == \A r \in Request : Accepted(r) /\ r.cmd = "file_recv" => r.file = "regular"

InterestOK ==
  /\ Survives \/ Openable => WriteInterest
  /\ phase \in {"write_buf", "write_list"} => AE_WRITABLE \in table.mask[cur.fd]
  /\ \A p \in Peer : obj[p] = "none" => wbuf[p] = Null

LEMMA InitInterest == Init => InterestOK
BY DEF Init, InterestOK, WriteInterest, Live

(* Steps in which no table, client or unsent reply changes.                *)
LEMMA InterestKept ==
  ASSUME InterestOK, UNCHANGED <<table, obj, fdOf, wbuf>>,
         \/ UNCHANGED <<phase, cur>>
         \/ /\ phase \notin {"write_list", "crashed", "hung"}
            /\ phase' \notin {"write_buf", "write_list"}
  PROVE  InterestOK'
BY DEF InterestOK, WriteInterest, Survives, Live, Client

(* A client is deleted, or one that has no buffers in use is made.         *)
LEMMA InterestOfOthers ==
  ASSUME IInv, InterestOK, NEW p \in Peer, NEW fd \in Fd \ {ListenFd},
         phase \in {"read", "write"}, phase' \in {"write", "next"},
         \A q \in Peer \ {p} : Live(q) => fdOf[q] # fd,
         table'.mask = [table.mask EXCEPT ![fd] = table'.mask[fd]],
         \A q \in Peer \ {p} : /\ obj'[q] = obj[q] /\ fdOf'[q] = fdOf[q]
                               /\ wbuf'[q] = wbuf[q],
         obj'[p] # "none",
         obj'[p] = "live" => /\ fdOf'[p] = fd /\ wbuf'[p] = Null
                             /\ table'.mask[fd] = {AE_READABLE}
  PROVE  InterestOK'
<1>1. table.mask \in [Fd -> Mask] /\ AE_READABLE # AE_WRITABLE
  BY DEF IInv, TypeOK, Table, AE_READABLE, AE_WRITABLE
<1>2. Survives /\ Survives'
  BY DEF Survives
<1>3. \A q \in Peer \ {p} : Live(q) => table'.mask[fdOf[q]] = table.mask[fdOf[q]]
  BY <1>1 DEF IInv, NoDangling, Registered
<1>4. WriteInterest'
  BY <1>1, <1>2, <1>3 DEF InterestOK, WriteInterest, Live
<1>5. QED
  BY <1>4 DEF InterestOK

(* The packet a command leaves in _w_buffer is a reply for which the write *)
(* event has just been asked.                                              *)
LEMMA CommandInterest ==
  ASSUME IInv, InterestOK, Replying, cur.fd \in Registered(table) \ {ListenFd},
         phase = "read", cur' = cur, fdOf' = fdOf,
         NEW r \in Request \cup {Null}, process_command(Client, r)
  PROVE  InterestOK'
<1> DEFINE p == Client
           fd == cur.fd
           Waits == [table.mask EXCEPT ![fd] = @ \cup {AE_WRITABLE}]
<1>1. p \in Peer /\ Live(p) /\ fdOf[p] = fd /\ fd \in Fd
  BY Dispatched DEF Registered
<1>2. /\ TypeOK /\ TableOK
      /\ table.mask \in [Fd -> Mask] /\ wbuf \in [Peer -> Packet \cup {Null}]
      /\ fdOf[p] \in Registered(table) /\ table.data[fdOf[p]] = p
  BY <1>1 DEF IInv, TypeOK, NoDangling, Table
<1>3. /\ obj' = obj
      /\ phase' \in {"write", "recv_num", "crashed", "hung"}
  BY CommandEffect
<1>4. WriteInterest
  BY DEF InterestOK, Survives
<1>5. \A q \in Peer : Live(q) => (AE_WRITABLE \in table.mask[fdOf[q]]) = (wbuf[q] # Null)
  BY <1>4 DEF WriteInterest
<1>6. \A q \in Peer : Live(q) => fdOf[q] \in Fd /\ (q # p => fdOf[q] # fd)
  BY DEF IInv, NoDangling, Registered, Client
<1>7. \A q \in Peer : obj[q] = "none" => wbuf[q] = Null /\ q # p
  BY <1>1 DEF InterestOK, Live
<1>8. CASE table'.mask = table.mask /\ wbuf' = wbuf
  <2>1. WriteInterest'
    BY <1>3, <1>5, <1>8 DEF WriteInterest, Live
  <2>2. QED
    BY <1>3, <1>7, <1>8, <2>1 DEF InterestOK
<1>9. CASE /\ table'.mask = Waits
           /\ \E packet \in Packet : wbuf' = [wbuf EXCEPT ![p] = packet]
  <2>1. PICK packet \in Packet : wbuf' = [wbuf EXCEPT ![p] = packet]
    BY <1>9
  <2>2. packet # Null
    BY PacketAssumption
  <2>3. \A q \in Peer \ {p} : wbuf'[q] = wbuf[q]
    BY <1>2, <2>1
  <2>4. wbuf'[p] # Null
    BY <1>1, <1>2, <2>1, <2>2
  <2>5. \A i \in Fd : table'.mask[i] = IF i = fd THEN table.mask[i] \cup {AE_WRITABLE}
                                       ELSE table.mask[i]
    BY <1>2, <1>9
  <2>6. \A q \in Peer : Live(q) => (AE_WRITABLE \in table'.mask[fdOf[q]]) = (wbuf'[q] # Null)
    <3> HIDE DEF p, fd
    <3>1. AE_WRITABLE \in table'.mask[fdOf[p]]
      BY <1>1, <2>5
    <3>2. ASSUME NEW q \in Peer \ {p}, Live(q)
          PROVE  table'.mask[fdOf[q]] = table.mask[fdOf[q]] /\ wbuf'[q] = wbuf[q]
      BY <1>6, <2>3, <2>5, <3>2
    <3>3. QED
      BY <1>5, <2>4, <3>1, <3>2
  <2>7. QED
    BY <1>3, <1>7, <2>3, <2>6 DEF InterestOK, WriteInterest, Live
<1>10. CASE phase' \in {"crashed", "hung"} /\ wbuf' = wbuf /\ ~Openable
  BY <1>3, <1>7, <1>10 DEF InterestOK, Survives
<1>11. CASE ignore_command(r)
  BY <1>8, <1>11 DEF ignore_command
<1>12. CASE /\ Accepted(r)
            /\ table' = WithReply(p, r)
            /\ CASE r.cmd = "ping"      -> ping_command(p)
                 [] r.cmd = "file_recv" -> file_recv_command(p, r)
                 [] r.cmd = "file_send" -> file_send_command(r)
                 [] OTHER               -> empty_command
  <2>1. /\ r \in Request /\ r.cmd \in {"ping", "file_send", "file_recv"}
        /\ r.size \in Nat /\ r.file \in {"regular", "directory", "unopenable"}
    <3>1. r \in Request /\ r.cmd \in DOMAIN command_table
      BY <1>12 DEF Accepted
    <3>2. r.cmd \in {"ping", "get", "set", "file_send", "file_recv"}
      BY <3>1 DEF command_table
    <3>3. QED
      BY <1>12, <3>1, <3>2, RequestAssumption DEF Replying
  <2>2. table'.mask = IF command_table[r.cmd].reply THEN Waits ELSE table.mask
    <3> DEFINE u == WithReply(p, r)
    <3> HIDE DEF p
    <3>1. u.mask = IF command_table[r.cmd].reply
                   THEN [table.mask EXCEPT ![fdOf[p]] = @ \cup {AE_WRITABLE}]
                   ELSE table.mask
      BY <1>1, <1>2, <2>1, WithReplyFields
    <3> HIDE DEF u
    <3>2. table' = u
      BY <1>12 DEF u
    <3>3. QED
      BY <1>1, <3>1, <3>2
  <2> HIDE DEF p, fd, Waits
  <2>3. CASE r.cmd = "ping"
    <3>1. wbuf' = [wbuf EXCEPT ![p] = Pong]
      BY <1>12, <2>3 DEF ping_command
    <3>2. Pong \in Packet
      BY DEF Pong, Packet
    <3>3. table'.mask = Waits
      BY <2>2, <2>3 DEF command_table
    <3>4. QED
      BY <1>9, <3>1, <3>2, <3>3
  <2>4. CASE r.cmd = "file_send"
    <3>1. wbuf' = wbuf
      BY <1>12, <2>4 DEF file_send_command
    <3>2. table'.mask = table.mask
      BY <2>2, <2>4 DEF command_table
    <3>3. QED
      BY <1>8, <3>1, <3>2
  <2>5. CASE r.cmd = "file_recv"
    <3>1. file_recv_command(p, r)
      BY <1>12, <2>5
    <3>2. CASE r.file = "regular"
      <4>1. wbuf' = [wbuf EXCEPT ![p] = Integer(Len(Chunks(r.size)))]
        BY <3>1, <3>2 DEF file_recv_command
      <4>2. Integer(Len(Chunks(r.size))) \in Packet
        BY <2>1, ChunksType DEF Integer, Packet
      <4>3. table'.mask = Waits
        BY <2>2, <2>5 DEF command_table
      <4>4. QED
        BY <1>9, <4>1, <4>2, <4>3
    <3>3. CASE r.file # "regular"
      <4>1. phase' \in {"crashed", "hung"} /\ wbuf' = wbuf
        BY <2>1, <3>1, <3>3 DEF file_recv_command
      <4>2. ~Openable
        BY <1>12, <2>1, <2>5, <3>3 DEF Openable
      <4>3. QED
        BY <1>10, <4>1, <4>2
    <3>4. QED
      BY <3>2, <3>3
  <2>6. QED
    BY <2>1, <2>3, <2>4, <2>5
<1>13. QED
  BY <1>11, <1>12 DEF process_command

(* A connection is deleted, in the handler of its own entry.               *)
LEMMA DeleteInterest ==
  ASSUME IInv, InterestOK, phase = "read", cur.fd \in Registered(table) \ {ListenFd},
         Delete(Client), phase' = "write"
  PROVE  InterestOK'
<1> DEFINE p == Client
           fd == cur.fd
<1>1. p \in Peer /\ Live(p) /\ fdOf[p] = fd /\ fd \in Fd \ {ListenFd}
  BY Dispatched DEF Registered
<1>2. TableInv(table) /\ table.api /\ table.mask \in [Fd -> Mask]
  BY DEF IInv, TableOK, TypeOK, Table
<1>3. /\ table' = Destroyed(table, fd)
      /\ fdOf' = [fdOf EXCEPT ![p] = -1]
      /\ obj' = [obj EXCEPT ![p] = "freed"]
      /\ wbuf' = [wbuf EXCEPT ![p] = Null]
  BY <1>1 DEF Delete
<1> HIDE DEF p, fd
<1>4. table'.mask = [table.mask EXCEPT ![fd] = AE_NONE]
  BY <1>1, <1>2, <1>3, DestroyedFields
<1>5. table'.mask = [table.mask EXCEPT ![fd] = table'.mask[fd]]
  BY <1>1, <1>2, <1>4
<1>6. \A q \in Peer \ {p} : Live(q) => fdOf[q] # fd
  BY DEF IInv, NoDangling, p, fd, Client
<1>7. \A q \in Peer \ {p} : obj'[q] = obj[q] /\ fdOf'[q] = fdOf[q] /\ wbuf'[q] = wbuf[q]
  BY <1>1, <1>3 DEF IInv, TypeOK
<1>8. obj'[p] = "freed"
  BY <1>1, <1>3 DEF IInv, TypeOK
<1>9. QED
  BY <1>1, <1>5, <1>6, <1>7, <1>8, InterestOfOthers

(* write_event_handler takes its event back.                               *)
LEMMA WriteEventGone ==
  ASSUME IInv, cur.fd \in Registered(table) \ {ListenFd}, cur.fd \in Fd
  PROVE  del_file_event(table, cur.fd, {AE_WRITABLE}).mask
           = [table.mask EXCEPT ![cur.fd] = @ \ {AE_WRITABLE}]
<1>1. PICK mask \in Mask : mask = {AE_WRITABLE}
  BY DEF Mask
<1>2. /\ TableInv(table) /\ table.api /\ table.mask[cur.fd] # AE_NONE
      /\ table \in Table
  BY DEF IInv, TypeOK, TableOK, Registered
<1>3. cur.fd < table.size
  BY <1>2, TableAssumption DEF TableInv, HandlersPresent, Table, Fd, AE_NONE
<1>4. LET u == del_file_event(table, cur.fd, mask)
      IN  /\ u.mask = [table.mask EXCEPT ![cur.fd] = table.mask[cur.fd] \ mask]
          /\ u.r_proc = table.r_proc /\ u.data = table.data
          /\ u.size = table.size /\ u.api = table.api
  BY <1>2, <1>3, DeletedParts
<1>5. QED
  BY <1>1, <1>4

LEMMA AcceptInterest ==
  ASSUME IInv, InterestOK, accept_tcp_handler
  PROVE  InterestOK'
<1>1. CASE /\ phase = "read" /\ phase' = "write" /\ rfired' = TRUE
           /\ UNCHANGED <<fired, cur, transfer, stored, peers, table, net, heap>>
  BY <1>1, InterestKept DEF net, heap
<1>2. ASSUME NEW p, NEW fd \in FreeFds, NEW accepted \in BOOLEAN, Accepts(p, fd, accepted)
      PROVE  InterestOK'
  <2>1. AcceptedAt(p, fd)
    BY <1>2, AcceptEffect
  <2>2. /\ p \in Peer /\ obj[p] = "none" /\ fd \in Fd \ {ListenFd}
        /\ \A q \in Peer : Live(q) => fdOf[q] # fd
        /\ TableInv(table')
        /\ \A i \in Fd \ {fd} : table'.mask[i] = table.mask[i]
        /\ \/ obj'[p] = "freed"
           \/ obj'[p] = "live" /\ fdOf'[p] = fd /\ table'.mask[fd] = {AE_READABLE}
        /\ \A q \in Peer \ {p} : obj'[q] = obj[q] /\ fdOf'[q] = fdOf[q]
    BY <2>1 DEF AcceptedAt
  <2>3. wbuf' = wbuf /\ wbuf[p] = Null /\ phase = "read" /\ phase' = "write"
    BY <1>2, <2>2 DEF Accepts, InterestOK
  <2>4. table.mask \in [Fd -> Mask] /\ table'.mask \in [Fd -> Mask]
    BY <2>2 DEF IInv, TypeOK, TableInv, Table
  <2>5. table'.mask = [table.mask EXCEPT ![fd] = table'.mask[fd]]
    BY <2>2, <2>4
  <2>6. QED
    BY <2>2, <2>3, <2>5, InterestOfOthers
<1>3. QED
  BY <1>1, <1>2, AcceptCases

LEMMA ReadInterest ==
  ASSUME IInv, InterestOK, Replying, read_event_handler
  PROVE  InterestOK'
<1>1. /\ phase = "read" /\ cur' = cur
      /\ cur.fd \in Registered(table) \ {ListenFd}
  BY ReadsClient DEF read_event_handler, CallRead
<1>2. Client \in Peer /\ TypeOK
  BY <1>1, Dispatched DEF IInv
<1>3. CASE inq[Client] # <<>> /\ process_command(Client, Head(inq[Client]).request) /\ fdOf' = fdOf
  <2>1. Head(inq[Client]) \in Packet
    BY <1>2, <1>3 DEF TypeOK
  <2>2. Head(inq[Client]).request \in Request \cup {Null}
    BY <2>1 DEF Packet
  <2>3. QED
    BY <1>1, <1>3, <2>2, CommandInterest
<1>4. CASE Delete(Client) /\ phase' = "write"
  BY <1>1, <1>4, DeleteInterest
<1>5. CASE process_command(Client, rbuf[Client]) /\ fdOf' = fdOf
  <2>1. rbuf[Client] \in Request \cup {Null}
    BY <1>2 DEF TypeOK
  <2>2. QED
    BY <1>1, <1>5, <2>1, CommandInterest
<1>6. CASE phase' = "crashed" /\ UNCHANGED <<table, heap, fdOf>>
  BY <1>1, <1>6, InterestKept DEF heap
<1>7. QED
  BY <1>3, <1>4, <1>5, <1>6 DEF read_event_handler

(* A writable client has a reply to write, so that it is not deleted here. *)
LEMMA WriteKeeps ==
  ASSUME IInv, InterestOK, phase = "write", WriteDue
  PROVE  /\ Client \in Peer /\ Live(Client) /\ fdOf[Client] = cur.fd
         /\ wbuf[Client] # Null /\ AE_WRITABLE \in table.mask[cur.fd]
<1>1. Client \in Peer /\ Live(Client) /\ fdOf[Client] = cur.fd
  BY WritesClient, Dispatched
<1>2. WriteInterest /\ AE_WRITABLE \in table.mask[cur.fd]
  BY DEF InterestOK, Survives, WriteDue
<1>3. QED
  BY <1>1, <1>2 DEF WriteInterest

LEMMA WriteInterestStep ==
  ASSUME IInv, InterestOK,
         write_event_handler \/ write_buffer \/ write_list \/ write_done
  PROVE  InterestOK'
<1>1. phase \in {"write", "write_buf", "write_list"} /\ cur' = cur
  BY DEF write_event_handler, write_buffer, write_list, write_done
<1>2. /\ WriteInterest
      /\ phase # "write" => AE_WRITABLE \in table.mask[cur.fd]
      /\ \A q \in Peer : obj[q] = "none" => wbuf[q] = Null
  BY <1>1 DEF InterestOK, Survives
<1>3. CASE write_event_handler
  <2>1. wbuf[Client] # Null /\ AE_WRITABLE \in table.mask[cur.fd]
    BY <1>3, WriteKeeps DEF write_event_handler
  <2>2. phase = "write" /\ phase' = "write_buf" /\ UNCHANGED <<table, net, heap>>
    BY <1>3, <2>1 DEF write_event_handler
  <2>3. UNCHANGED <<table, obj, fdOf, wbuf>>
    BY <2>2 DEF net, heap
  <2>4. QED
    BY <1>1, <1>2, <2>1, <2>2, <2>3 DEF InterestOK, WriteInterest, Live
<1>4. CASE write_buffer \/ write_list \/ write_done
  <2>1. /\ cur.fd \in Registered(table) \ {ListenFd}
        /\ phase \in {"write_buf", "write_list"}
    BY <1>4 DEF IInv, EntryOK, InHandler, write_buffer, write_list, write_done
  <2>2. /\ Client \in Peer /\ Live(Client) /\ fdOf[Client] = cur.fd /\ cur.fd \in Fd
        /\ AE_WRITABLE \in table.mask[cur.fd]
    BY <1>2, <2>1, Dispatched DEF Registered
  <2>3. /\ wbuf \in [Peer -> Packet \cup {Null}]
        /\ \A q \in Peer : Live(q) => fdOf[q] \in Fd /\ (q # Client => fdOf[q] # cur.fd)
    BY DEF IInv, TypeOK, NoDangling, Registered, Client
  <2>4. CASE write_buffer
    <3>1. /\ phase' = "write_list" /\ UNCHANGED <<table, obj, fdOf>>
          /\ wbuf' = wbuf \/ wbuf' = [wbuf EXCEPT ![Client] = Null]
      BY <2>4 DEF write_buffer
    <3>2. \A q \in Peer : q # Client => wbuf'[q] = wbuf[q]
      BY <2>3, <3>1
    <3>3. \A q \in Peer : obj[q] = "none" => wbuf'[q] = Null
      BY <1>2, <2>2, <3>2 DEF Live
    <3>4. QED
      BY <1>1, <1>2, <2>1, <2>2, <3>1, <3>2, <3>3
         DEF InterestOK, WriteInterest, Live, Client
  <2>5. CASE write_list
    <3>1. UNCHANGED <<table, phase, cur, obj, fdOf, wbuf>>
      BY <2>5 DEF write_list
    <3>2. QED
      BY <3>1, InterestKept
  <2>6. CASE write_done
    <3>1. /\ phase = "write_list" /\ phase' = "next"
          /\ table' = IF wbuf[Client] = Null
                      THEN del_file_event(table, cur.fd, {AE_WRITABLE})
                      ELSE table
          /\ UNCHANGED <<obj, fdOf, wbuf>>
      BY <2>2, <2>6 DEF write_done, net, heap
    <3>2. \A q \in Peer : Live(q) /\ q # Client =>
            (AE_WRITABLE \in table.mask[fdOf[q]]) = (wbuf[q] # Null)
      BY <1>2 DEF WriteInterest
    <3>3. table.mask \in [Fd -> Mask]
      BY DEF IInv, TypeOK, Table
    <3>4. \A i \in Fd : i # cur.fd => table'.mask[i] = table.mask[i]
      <4>1. CASE table' = del_file_event(table, cur.fd, {AE_WRITABLE})
        BY <2>1, <2>2, <3>3, <4>1, WriteEventGone
      <4>2. QED
        BY <3>1, <4>1
    <3>5. (AE_WRITABLE \in table'.mask[cur.fd]) = (wbuf[Client] # Null)
      <4>1. CASE wbuf[Client] = Null
        <5>1. table'.mask = [table.mask EXCEPT ![cur.fd] = @ \ {AE_WRITABLE}]
          BY <2>1, <2>2, <3>1, <4>1, WriteEventGone
        <5>2. QED
          BY <2>2, <3>3, <4>1, <5>1
      <4>2. CASE wbuf[Client] # Null
        BY <2>2, <3>1, <4>2
      <4>3. QED
        BY <4>1, <4>2
    <3>6. WriteInterest'
      BY <2>2, <2>3, <3>1, <3>2, <3>4, <3>5 DEF WriteInterest, Live
    <3>7. QED
      BY <1>2, <3>1, <3>6 DEF InterestOK
  <2>7. QED
    BY <1>4, <2>4, <2>5, <2>6
<1>5. QED
  BY <1>3, <1>4

LEMMA NextInterest ==
  ASSUME IInv, InterestOK, Replying, [Next]_vars
  PROVE  InterestOK'
<1>1. CASE ServerStep
  <2>1. CASE Poll \/ TakeEntry \/ BatchDone \/ SkipRead \/ SkipWrite
    BY <2>1, InterestKept DEF Poll, TakeEntry, BatchDone, SkipRead, SkipWrite, net, heap
  <2>2. CASE recv_integer \/ recv \/ recv_done
    <3>1. /\ phase = "recv_num" \/ phase = "recv"
          /\ UNCHANGED <<table, obj, fdOf, wbuf>>
      BY <2>2 DEF recv_integer, recv, recv_done, net, heap
    <3>2. phase' \in {"recv", "write", "crashed"}
      BY <2>2, FcloseType DEF recv_integer, recv, recv_done
    <3>3. QED
      BY <3>1, <3>2, InterestKept
  <2>3. QED
    BY <1>1, <2>1, <2>2, AcceptInterest, ReadInterest, WriteInterestStep DEF ServerStep
<1>2. ASSUME NEW p \in Peer, PeerStep(p)
      PROVE  InterestOK'
  <2>1. UNCHANGED <<table, phase, cur, obj, fdOf, wbuf>>
    BY <1>2 DEF PeerStep, Connect, Submit, Compose, Flush, Receive, Close, Exit,
                loop, net, heap
  <2>2. QED
    BY <2>1, InterestKept
<1>3. CASE UNCHANGED vars
  BY <1>3, InterestKept DEF vars, loop, net, heap
<1>4. QED
  BY <1>1, <1>2, <1>3 DEF Next, Rest

LEMMA Interest ==
  ASSUME Replying
  PROVE  Spec => [](IInv /\ InterestOK)
<1>1. Init => IInv /\ InterestOK
  BY InitIInv, InitInterest
<1>2. IInv /\ InterestOK /\ [Next]_vars => (IInv /\ InterestOK)'
  BY NextIInv, NextInterest
<1>3. QED
  BY <1>1, <1>2, PTL DEF Spec

(* Output is awaited exactly while a reply is waiting to be written: no    *)
(* reply is forgotten in a _w_buffer and the loop does not spin on a       *)
(* writable socket, with any pipelining and with peers that die, as long   *)
(* as nobody asks for get or set, which never reply, or for a file the     *)
(* server cannot open.                                                     *)
THEOREM OutputIsAwaited ==
  ASSUME Replying, Openable
  PROVE  Spec => []WriteInterest
<1>1. IInv /\ InterestOK => WriteInterest
  BY DEF InterestOK
<1>2. QED
  BY <1>1, Interest, PTL

(* A write event finds a reply to write, so that write_event_handler never *)
(* takes a client for done, and only a connection whose peer has gone is   *)
(* closed.                                                                 *)
LEMMA ClosesTheGone ==
  ASSUME IInv, InterestOK, [Next]_vars
  PROVE  \A p \in Peer : Live(p) /\ link[p] = "open" => link'[p] # "closed"
<1>0. link \in [Peer -> Link]
  BY DEF IInv, TypeOK
<1>1. CASE ServerStep
  <2>1. CASE link' = link
    BY <2>1
  <2>2. CASE accept_tcp_handler
    <3>1. ASSUME NEW q, NEW fd \in FreeFds, NEW accepted \in BOOLEAN, Accepts(q, fd, accepted)
          PROVE  \A p \in Peer : Live(p) /\ link[p] = "open" => link'[p] # "closed"
      BY <3>1, AcceptEffect DEF AcceptedAt, Live
    <3>2. QED
      BY <2>1, <2>2, <3>1, AcceptCases DEF net
  <2>3. CASE link' = AfterError(Client)
    BY <1>0, <2>3 DEF AfterError
  <2>4. CASE read_event_handler
    BY <1>0, <2>1, <2>3, <2>4 DEF read_event_handler, Delete
  <2>5. CASE write_event_handler
    BY <2>1, <2>5, WriteKeeps DEF write_event_handler, net
  <2>6. CASE write_buffer \/ write_list
    <3>1. link' \in {link, [link EXCEPT ![Client] = "dead"]}
      BY <2>6 DEF write_buffer, write_list, Put
    <3>2. QED
      BY <1>0, <3>1
  <2>7. CASE Poll \/ TakeEntry \/ BatchDone \/ SkipRead \/ SkipWrite \/ recv_done \/ write_done
    BY <2>1, <2>7 DEF Poll, TakeEntry, BatchDone, SkipRead, SkipWrite, recv_done, write_done, net
  <2>8. CASE recv_integer \/ recv
    BY <2>1, <2>3, <2>8 DEF recv_integer, recv
  <2>9. QED
    BY <1>1, <2>2, <2>4, <2>5, <2>6, <2>7, <2>8 DEF ServerStep
<1>2. ASSUME NEW q \in Peer, PeerStep(q)
      PROVE  \A p \in Peer : Live(p) /\ link[p] = "open" => link'[p] # "closed"
  BY <1>0, <1>2 DEF PeerStep, Connect, Submit, Compose, Flush, Receive, Close, Exit, net
<1>3. CASE UNCHANGED vars
  BY <1>3 DEF vars, net
<1>4. QED
  BY <1>1, <1>2, <1>3 DEF Next, Rest

(* The server never closes a connection it has accepted as long as the     *)
(* peer keeps it open, if nobody asks for get or set: the write event one  *)
(* of those asks for finds nothing to write, and closes the connection.    *)
THEOREM ConnectionsAreKept ==
  ASSUME Replying
  PROVE  Spec => NeverDropped
<1>1. IInv /\ InterestOK /\ [Next]_vars =>
        [\A p \in Peer : Live(p) /\ link[p] = "open" => link'[p] # "closed"]_vars
  BY ClosesTheGone
<1>2. QED
  BY <1>1, Interest, PTL DEF Spec, NeverDropped

-----------------------------------------------------------------------------
(* What a peer and the server have to say to each other.  Unread is what   *)
(* the peer has sent or is about to send and the server has not read,      *)
(* Replied what the server has written or is about to write and the peer   *)
(* has not received.                                                       *)
Unread(p)  == inq[p] \o outbox[p]
Replied(p) == outq[p] \o Unsent(p)

(* A file of n packets follows behind the first k packets of q, and then a *)
(* command; the same with its number of packets in front; and what follows *)
(* the command that is the k-th packet.                                    *)
FileAt(q, k, n) ==
  /\ k + n <= Len(q)
  /\ \A i \in k + 1 .. k + n : q[i].type = "chunk" /\ (i < k + n => q[i].val # 0)
  /\ k + n < Len(q) => q[k + n + 1].type = "command"

CountAt(q, k) ==
  k < Len(q) /\ q[k + 1].type = "integer" /\ FileAt(q, k + 1, q[k + 1].val)

Uploads(r) == Accepted(r) /\ r.cmd = "file_send"

CommandAt(q, k) ==
  /\ q[k].request \in Request
  /\ IF Uploads(q[k].request) THEN CountAt(q, k)
     ELSE k < Len(q) => q[k + 1].type = "command"

Requests(q) == \A k \in 1 .. Len(q) : q[k].type = "command" => CommandAt(q, k)

(* What is due next begins with what the server is waiting for.            *)
Follows(p, q) ==
  /\ Requests(q)
  /\ ~Transferring(p) /\ q # <<>> => q[1].type = "command"
  /\ Transferring(p) /\ phase = "recv_num" => CountAt(q, 0)
  /\ Transferring(p) /\ phase = "recv" => FileAt(q, 0, transfer.left)

Grammar(p) == Follows(p, Unread(p))

(* A peer that may die takes what it has not sent with it.                 *)
Engaged(p) == link[p] = "open" \/ (link[p] = "fin" /\ ~MayDie)

GrammarOK == Survives => \A p \in Peer : Engaged(p) => Grammar(p)

(* The packets of a file and of a request.                                 *)
LEMMA ChunksShape ==
  ASSUME NEW size \in Nat
  PROVE  LET c == Chunks(size)
             d == size \div Unit
         IN  /\ c \in Seq(Packet) /\ Len(c) = d + 1 /\ d \in Nat
             /\ \A i \in 1 .. d + 1 : c[i].type = "chunk"
             /\ \A i \in 1 .. d : c[i].val # 0
             /\ c[d + 1].val # 0 <=> size % Unit # 0
<1>1. size \div Unit \in Nat /\ size % Unit \in Nat /\ Unit \in Nat \ {0}
  BY ServerAssumption
<1>2. Chunks(size) \in Seq(Packet)
  BY ChunksType
<1>3. PICK d \in Nat : d = size \div Unit
  BY <1>1
<1>4. PICK u \in Nat : u = size % Unit
  BY <1>1
<1>5. Chunks(size) = [i \in 1 .. d + 1 |-> IF i <= d THEN Chunk(Unit) ELSE Chunk(u)]
  BY <1>3, <1>4 DEF Chunks
<1>6. Len(Chunks(size)) = d + 1
  BY <1>2, <1>5
<1>7. QED
  BY <1>1, <1>2, <1>3, <1>4, <1>5, <1>6 DEF Chunk

LEMMA PacketsShape ==
  ASSUME NEW r \in Request
  PROVE  LET s == Packets(r)
             c == Chunks(r.size)
         IN  /\ s \in Seq(Packet) /\ Len(s) \in Nat \ {0}
             /\ s[1] = Command(r)
             /\ ~Uploads(r) => Len(s) = 1
             /\ Uploads(r) => /\ Len(s) = Len(c) + 2
                              /\ s[2] = Integer(Len(c))
                              /\ \A i \in 1 .. Len(c) : s[2 + i] = c[i]
<1>1. r.size \in Nat
  BY RequestAssumption
<1>2. PICK c \in Seq(Packet) : c = Chunks(r.size)
  BY <1>1, ChunksShape
<1>3. Packets(r) \in Seq(Packet)
  BY PacketsType
<1>4. CASE ~Uploads(r)
  BY <1>3, <1>4 DEF Packets, Uploads
<1>5. CASE Uploads(r)
  <2> DEFINE a == Command(r)
             b == Integer(Len(c))
  <2>1. Packets(r) = <<a, b>> \o c
    BY <1>2, <1>5 DEF Packets, Uploads
  <2>2. a \in Packet /\ b \in Packet
    BY <1>2 DEF Command, Integer, Packet
  <2> HIDE DEF a, b
  <2>3. /\ Len(<<a, b>> \o c) = Len(c) + 2
        /\ (<<a, b>> \o c)[1] = a /\ (<<a, b>> \o c)[2] = b
        /\ \A i \in 1 .. Len(c) : (<<a, b>> \o c)[2 + i] = c[i]
    BY <1>2, <2>2
  <2>4. QED
    BY <1>2, <1>3, <1>5, <2>1, <2>3 DEF a, b
<1>6. QED
  BY <1>4, <1>5
(* A packet that is not a command, or one that is whole, is taken; and a   *)
(* request is appended.                                                    *)
LEMMA TakenPacket ==
  ASSUME NEW q \in Seq(Packet), q # <<>>, NEW t, t = Tail(q)
  PROVE  /\ t \in Seq(Packet)
         /\ \A k, n \in Nat : FileAt(q, k + 1, n) => FileAt(t, k, n)
         /\ \A k \in Nat : CountAt(q, k + 1) => CountAt(t, k)
         /\ Requests(q) => Requests(t)
<1>1. /\ t \in Seq(Packet) /\ Len(t) = Len(q) - 1 /\ Len(q) \in Nat /\ Len(t) \in Nat
      /\ \A i \in 1 .. Len(t) : t[i] = q[i + 1]
  OBVIOUS
<1>2. \A i \in 1 .. Len(t) : t[i].val \in Nat
  <2>1. \A x \in Packet : x.val \in Nat
    BY DEF Packet
  <2>2. \A i \in 1 .. Len(t) : t[i] \in Packet
    BY <1>1
  <2>3. QED
    BY <2>1, <2>2
<1>3. ASSUME NEW k \in Nat, NEW n \in Nat, FileAt(q, k + 1, n)
      PROVE  FileAt(t, k, n)
  <2>1. k + n <= Len(t)
    BY <1>1, <1>3 DEF FileAt
  <2>2. ASSUME NEW i \in k + 1 .. k + n
        PROVE  t[i].type = "chunk" /\ (i < k + n => t[i].val # 0)
    <3>1. i + 1 \in (k + 1) + 1 .. (k + 1) + n /\ t[i] = q[i + 1]
      BY <1>1, <2>1
    <3>2. QED
      BY <1>3, <3>1 DEF FileAt
  <2>3. k + n < Len(t) => t[k + n + 1].type = "command"
    <3>1. SUFFICES ASSUME k + n < Len(t) PROVE t[k + n + 1].type = "command"
      OBVIOUS
    <3>2. t[k + n + 1] = q[(k + 1) + n + 1] /\ (k + 1) + n < Len(q)
      BY <1>1, <3>1
    <3>3. QED
      BY <1>3, <3>2 DEF FileAt
  <2>4. QED
    BY <2>1, <2>2, <2>3 DEF FileAt
<1>4. ASSUME NEW k \in Nat, CountAt(q, k + 1)
      PROVE  CountAt(t, k)
  <2>1. k < Len(t) /\ t[k + 1] = q[(k + 1) + 1]
    BY <1>1, <1>4 DEF CountAt
  <2>2. t[k + 1].val \in Nat /\ k + 1 \in Nat
    <3>1. k + 1 \in 1 .. Len(t)
      BY <1>1, <2>1
    <3>2. t[k + 1].val \in Nat
      BY <1>2, <3>1
    <3>3. k + 1 \in Nat
      OBVIOUS
    <3>4. QED
      BY <3>2, <3>3
  <2>3. FileAt(q, (k + 1) + 1, t[k + 1].val)
    BY <1>4, <2>1 DEF CountAt
  <2>4. FileAt(t, k + 1, t[k + 1].val)
    BY <1>3, <2>2, <2>3
  <2>5. QED
    BY <1>4, <2>1, <2>4 DEF CountAt
<1>5. ASSUME Requests(q), NEW k \in 1 .. Len(t), t[k].type = "command"
      PROVE  CommandAt(t, k)
  <2>1. k \in Nat /\ k + 1 \in 1 .. Len(q) /\ t[k] = q[k + 1]
    BY <1>1
  <2>2. CommandAt(q, k + 1)
    BY <1>5, <2>1 DEF Requests
  <2>3. CASE Uploads(t[k].request)
    BY <1>4, <2>1, <2>2, <2>3 DEF CommandAt
  <2>4. CASE ~Uploads(t[k].request)
    <3>1. k < Len(t) => t[k + 1] = q[(k + 1) + 1] /\ k + 1 < Len(q)
      BY <1>1
    <3>2. QED
      BY <2>1, <2>2, <2>4, <3>1 DEF CommandAt
  <2>5. QED
    BY <2>3, <2>4
<1>6. QED
  BY <1>1, <1>3, <1>4, <1>5 DEF Requests

LEMMA ChunksFormat ==
  ASSUME NEW size \in Nat
  PROVE  \E c \in Seq(Packet) :
           /\ c = Chunks(size) /\ Len(c) \in Nat \ {0}
           /\ \A i \in 1 .. Len(c) : c[i].type = "chunk" /\ (i < Len(c) => c[i].val # 0)
<1> DEFINE c == Chunks(size)
           d == size \div Unit
<1>1. /\ c \in Seq(Packet) /\ Len(c) = d + 1 /\ d \in Nat
      /\ \A i \in 1 .. d + 1 : c[i].type = "chunk"
      /\ \A i \in 1 .. d : c[i].val # 0
  BY ChunksShape
<1> HIDE DEF c, d
<1>2. \A i \in 1 .. Len(c) : c[i].type = "chunk" /\ (i < Len(c) => c[i].val # 0)
  BY <1>1
<1>3. QED
  BY <1>1, <1>2 DEF c

LEMMA AppendedRequest ==
  ASSUME NEW q \in Seq(Packet), NEW r \in Request, NEW t, t = q \o Packets(r)
  PROVE  /\ t \in Seq(Packet) /\ t # <<>>
         /\ q # <<>> => t[1] = q[1]
         /\ q = <<>> => t[1].type = "command"
         /\ \A k, n \in Nat : FileAt(q, k, n) => FileAt(t, k, n)
         /\ \A k \in Nat : CountAt(q, k) => CountAt(t, k)
         /\ Requests(q) => Requests(t)
<1>1. PICK s \in Seq(Packet) :
        /\ s = Packets(r) /\ Len(s) \in Nat \ {0}
        /\ s[1] = Command(r)
        /\ ~Uploads(r) => Len(s) = 1
        /\ Uploads(r) => /\ Len(s) = Len(Chunks(r.size)) + 2
                         /\ s[2] = Integer(Len(Chunks(r.size)))
                         /\ \A i \in 1 .. Len(Chunks(r.size)) : s[2 + i] = Chunks(r.size)[i]
  BY PacketsShape
<1>2. /\ t \in Seq(Packet) /\ Len(t) = Len(q) + Len(s) /\ Len(q) \in Nat /\ Len(t) \in Nat
      /\ \A i \in 1 .. Len(q) : t[i] = q[i]
      /\ \A i \in 1 .. Len(s) : t[Len(q) + i] = s[i]
  BY <1>1
<1>3. s[1].type = "command" /\ s[1].request = r
  BY <1>1 DEF Command
<1>4. t[Len(q) + 1] = s[1]
  BY <1>1, <1>2
<1>5. ASSUME NEW k \in Nat, NEW n \in Nat, FileAt(q, k, n)
      PROVE  FileAt(t, k, n)
  <2>1. k + n <= Len(q) /\ k + n <= Len(t)
    BY <1>2, <1>5 DEF FileAt
  <2>2. ASSUME NEW i \in k + 1 .. k + n
        PROVE  t[i].type = "chunk" /\ (i < k + n => t[i].val # 0)
    <3>1. t[i] = q[i]
      BY <1>2, <2>1
    <3>2. QED
      BY <1>5, <3>1 DEF FileAt
  <2>3. k + n < Len(t) => t[k + n + 1].type = "command"
    <3>1. CASE k + n < Len(q)
      <4>1. t[k + n + 1] = q[k + n + 1]
        BY <1>2, <3>1
      <4>2. QED
        BY <1>5, <3>1, <4>1 DEF FileAt
    <3>2. CASE k + n = Len(q)
      BY <1>3, <1>4, <3>2
    <3>3. QED
      BY <1>2, <2>1, <3>1, <3>2
  <2>4. QED
    BY <2>1, <2>2, <2>3 DEF FileAt
<1>6. \A i \in 1 .. Len(t) : t[i].val \in Nat
  <2>1. \A x \in Packet : x.val \in Nat
    BY DEF Packet
  <2>2. \A i \in 1 .. Len(t) : t[i] \in Packet
    BY <1>2
  <2>3. QED
    BY <2>1, <2>2
<1>7. ASSUME NEW k \in Nat, CountAt(q, k)
      PROVE  CountAt(t, k)
  <2>1. k < Len(t) /\ t[k + 1] = q[k + 1]
    BY <1>2, <1>7 DEF CountAt
  <2>2. t[k + 1].val \in Nat /\ k + 1 \in Nat
    BY <1>6, <1>2, <2>1
  <2>3. FileAt(t, k + 1, t[k + 1].val)
    BY <1>5, <1>7, <2>1, <2>2 DEF CountAt
  <2>4. QED
    BY <1>7, <2>1, <2>3 DEF CountAt
<1>8. CommandAt(t, Len(q) + 1)
  <2>1. t[Len(q) + 1].request = r
    BY <1>3, <1>4
  <2>2. CASE ~Uploads(r)
    <3>1. Len(t) = Len(q) + 1
      BY <1>1, <1>2, <2>2
    <3>2. ~(Len(q) + 1 < Len(t))
      BY <1>2, <3>1
    <3>3. QED
      BY <2>1, <2>2, <3>2 DEF CommandAt
  <2>3. CASE Uploads(r)
    <3>1. r.size \in Nat
      BY RequestAssumption
    <3>2. PICK c \in Seq(Packet) :
            /\ c = Chunks(r.size) /\ Len(c) \in Nat \ {0}
            /\ \A i \in 1 .. Len(c) : c[i].type = "chunk" /\ (i < Len(c) => c[i].val # 0)
      BY <3>1, ChunksFormat
    <3>3. /\ Len(t) = Len(q) + Len(c) + 2
          /\ t[(Len(q) + 1) + 1] = Integer(Len(c))
          /\ \A i \in 1 .. Len(c) : t[Len(q) + 2 + i] = c[i]
      <4>1. /\ Len(s) = Len(c) + 2 /\ s[2] = Integer(Len(c))
            /\ \A i \in 1 .. Len(c) : s[2 + i] = c[i]
        BY <1>1, <2>3, <3>2
      <4>2. \A i \in 1 .. Len(c) : t[Len(q) + (2 + i)] = s[2 + i]
        BY <1>2, <3>2, <4>1
      <4>3. t[Len(q) + 2] = s[2]
        BY <1>2, <3>2, <4>1
      <4>4. QED
        BY <1>2, <3>2, <4>1, <4>2, <4>3
    <3>4. \A i \in (Len(q) + 2) + 1 .. (Len(q) + 2) + Len(c) :
             t[i].type = "chunk" /\ (i < (Len(q) + 2) + Len(c) => t[i].val # 0)
      <4>1. SUFFICES ASSUME NEW i \in (Len(q) + 2) + 1 .. (Len(q) + 2) + Len(c)
                     PROVE  t[i].type = "chunk" /\ (i < (Len(q) + 2) + Len(c) => t[i].val # 0)
        OBVIOUS
      <4> DEFINE j == i - (Len(q) + 2)
      <4>2. j \in 1 .. Len(c) /\ i = Len(q) + 2 + j
        BY <1>2, <3>2
      <4> HIDE DEF j
      <4>3. t[i] = c[j] /\ (i < (Len(q) + 2) + Len(c) => j < Len(c))
        BY <1>2, <3>2, <3>3, <4>2
      <4>4. QED
        BY <3>2, <4>2, <4>3
    <3>5. FileAt(t, (Len(q) + 1) + 1, Len(c))
      <4>1. (Len(q) + 1) + 1 = Len(q) + 2 /\ ~((Len(q) + 2) + Len(c) < Len(t))
        BY <1>2, <3>2, <3>3
      <4>2. QED
        BY <1>2, <3>2, <3>3, <3>4, <4>1 DEF FileAt
    <3>6. Integer(Len(c)).type = "integer" /\ Integer(Len(c)).val = Len(c)
      BY DEF Integer
    <3>7. CountAt(t, Len(q) + 1)
      BY <1>2, <3>2, <3>3, <3>5, <3>6 DEF CountAt
    <3>8. QED
      BY <2>1, <2>3, <3>7 DEF CommandAt
  <2>4. QED
    BY <2>2, <2>3
<1>9. ASSUME Requests(q), NEW k \in 1 .. Len(t), t[k].type = "command"
      PROVE  CommandAt(t, k)
  <2>1. CASE k <= Len(q)
    <3>1. k \in Nat /\ k \in 1 .. Len(q) /\ t[k] = q[k]
      BY <1>2, <2>1
    <3>2. CommandAt(q, k)
      BY <1>9, <3>1 DEF Requests
    <3>3. CASE Uploads(t[k].request)
      BY <1>7, <3>1, <3>2, <3>3 DEF CommandAt
    <3>4. CASE ~Uploads(t[k].request)
      <4>1. k < Len(q) => t[k + 1] = q[k + 1]
        BY <1>2, <3>1
      <4>2. k = Len(q) => t[k + 1].type = "command"
        BY <1>3, <1>4
      <4>3. QED
        BY <1>2, <3>1, <3>2, <3>4, <4>1, <4>2 DEF CommandAt
    <3>5. QED
      BY <3>3, <3>4
  <2>2. CASE k = Len(q) + 1
    BY <1>8, <2>2
  <2>3. CASE k > Len(q) + 1
    <3> DEFINE j == k - Len(q)
    <3>1. j \in 2 .. Len(s) /\ k = Len(q) + j
      <4>1. k \in Nat /\ k <= Len(q) + Len(s)
        BY <1>1, <1>2
      <4>2. Len(q) \in Nat /\ Len(s) \in Nat
        BY <1>1, <1>2
      <4>3. QED
        BY <2>3, <4>1, <4>2
    <3> HIDE DEF j
    <3>2. t[k] = s[j] /\ Uploads(r)
      BY <1>1, <1>2, <3>1
    <3>3. s[j].type # "command"
      <4>1. r.size \in Nat
        BY RequestAssumption
      <4>2. PICK c \in Seq(Packet) :
              /\ c = Chunks(r.size) /\ Len(c) \in Nat
              /\ \A i \in 1 .. Len(c) : c[i].type = "chunk"
        BY <4>1, ChunksFormat
      <4>3. CASE j = 2
        BY <1>1, <3>2, <4>3 DEF Integer
      <4>4. CASE j > 2
        <5>1. j - 2 \in 1 .. Len(c) /\ 2 + (j - 2) = j
          <6>1. Len(s) = Len(c) + 2
            BY <1>1, <3>2, <4>2
          <6>2. QED
            BY <3>1, <4>2, <4>4, <6>1
        <5>2. s[j] = c[j - 2]
          <6>1. s[2 + (j - 2)] = c[j - 2]
            BY <1>1, <3>2, <4>2, <5>1
          <6>2. QED
            BY <5>1, <6>1
        <5>3. QED
          BY <4>2, <5>1, <5>2
      <4>5. QED
        BY <3>1, <4>3, <4>4
    <3>4. QED
      BY <1>9, <3>2, <3>3
  <2>4. QED
    BY <1>2, <2>1, <2>2, <2>3
<1>10. t # <<>> /\ (q # <<>> => t[1] = q[1]) /\ (q = <<>> => t[1].type = "command")
  <2>1. t # <<>>
    BY <1>1, <1>2
  <2>2. q # <<>> => 1 \in 1 .. Len(q)
    BY <1>2
  <2>3. q = <<>> => Len(q) + 1 = 1
    OBVIOUS
  <2>4. QED
    BY <1>2, <1>3, <1>4, <2>1, <2>2, <2>3
<1>11. QED
  BY <1>2, <1>5, <1>7, <1>9, <1>10 DEF Requests

(* What a step leaves alone of a peer.                                     *)
Untouched(p) ==
  /\ inq'[p] = inq[p] /\ outbox'[p] = outbox[p] /\ outq'[p] = outq[p]
  /\ wbuf'[p] = wbuf[p] /\ list'[p] = list[p] /\ owed'[p] = owed[p]
  /\ stored'[p] = stored[p] /\ sent'[p] = sent[p]

(* A peer that has not connected is unknown.                               *)
Unknown(p) ==
  /\ inq[p] = <<>> /\ outbox[p] = <<>> /\ outq[p] = <<>> /\ wbuf[p] = Null
  /\ list[p] = <<>> /\ owed[p] = <<>> /\ stored[p] = <<>> /\ sent[p] = <<>>

NewcomersOK == \A p \in Peer : link[p] = "none" => Unknown(p)

LEMMA QueueTypes ==
  ASSUME TypeOK, NEW p \in Peer
  PROVE  /\ inq[p] \in Seq(Packet) /\ outbox[p] \in Seq(Packet) /\ outq[p] \in Seq(Packet)
         /\ list[p] \in Seq(Packet) /\ owed[p] \in Seq(Packet) /\ stored[p] \in Seq(Packet)
         /\ wbuf[p] \in Packet \cup {Null} /\ link[p] \in Link
         /\ Unread(p) \in Seq(Packet) /\ Unsent(p) \in Seq(Packet) /\ Replied(p) \in Seq(Packet)
<1>1. /\ inq[p] \in Seq(Packet) /\ outbox[p] \in Seq(Packet) /\ outq[p] \in Seq(Packet)
      /\ list[p] \in Seq(Packet) /\ owed[p] \in Seq(Packet) /\ stored[p] \in Seq(Packet)
      /\ wbuf[p] \in Packet \cup {Null} /\ link[p] \in Link
  BY DEF TypeOK
<1>2. Unsent(p) \in Seq(Packet)
  BY <1>1 DEF Unsent
<1>3. QED
  BY <1>1, <1>2 DEF Unread, Replied

(* Only one client's buffers are written by a command or a deletion.       *)
LEMMA CommandKeeps ==
  ASSUME TypeOK, NEW p \in Peer, NEW c \in Peer, p # c,
         NEW r \in Request \cup {Null}, process_command(c, r)
  PROVE  wbuf'[p] = wbuf[p] /\ list'[p] = list[p]
<1>1. CASE ignore_command(r)
  BY <1>1 DEF ignore_command
<1>2. CASE ping_command(c)
  BY <1>2 DEF ping_command, TypeOK
<1>3. CASE file_recv_command(c, r) /\ r \in Request
  <2>1. r.file \in {"regular", "directory", "unopenable"}
    BY <1>3, RequestAssumption
  <2>2. QED
    BY <1>3, <2>1 DEF file_recv_command, TypeOK
<1>4. CASE file_send_command(r) \/ empty_command
  BY <1>4 DEF file_send_command, empty_command
<1>5. QED
  BY <1>1, <1>2, <1>3, <1>4 DEF process_command, Accepted

LEMMA DeleteKeeps ==
  ASSUME TypeOK, NEW p \in Peer, NEW c, Delete(c), UNCHANGED <<stored, peers>>
  PROVE  (Untouched(p) /\ link'[p] = link[p]) \/ link'[p] = "closed"
BY DEF Delete, TypeOK, Untouched, peers

(* Steps of the server that do nothing for a client but delete it.         *)
LEMMA IdleSteps ==
  ASSUME IInv, NEW p \in Peer,
         \/ Poll \/ TakeEntry \/ BatchDone \/ SkipRead \/ SkipWrite
         \/ accept_tcp_handler \/ write_event_handler \/ write_done
  PROVE  /\ (Untouched(p) /\ link'[p] = link[p]) \/ link'[p] = "closed"
         /\ phase \notin {"recv_num", "recv", "crashed", "hung"}
         /\ phase' \notin {"recv_num", "recv", "write_list"}
         /\ UNCHANGED <<transfer, stored, peers>>
<1> DEFINE Kept == (Untouched(p) /\ link'[p] = link[p]) \/ link'[p] = "closed"
<1>1. CASE Poll \/ TakeEntry \/ BatchDone \/ SkipRead \/ SkipWrite \/ write_done
  BY <1>1 DEF Poll, TakeEntry, BatchDone, SkipRead, SkipWrite, write_done, Untouched,
              net, heap, peers
<1>2. CASE write_event_handler
  <2>1. /\ phase = "write" /\ phase' \in {"next", "write_buf"}
        /\ UNCHANGED <<transfer, stored, peers>>
    BY <1>2 DEF write_event_handler
  <2>2. CASE UNCHANGED <<table, net, heap>>
    BY <2>1, <2>2 DEF Untouched, net, heap, peers
  <2>3. CASE Delete(Client)
    BY <2>1, <2>3, DeleteKeeps DEF IInv
  <2>4. QED
    BY <1>2, <2>1, <2>2, <2>3 DEF write_event_handler
<1>3. CASE accept_tcp_handler
  <2>1. CASE /\ phase = "read" /\ phase' = "write"
             /\ UNCHANGED <<transfer, stored, peers, net, heap>>
    BY <2>1 DEF Untouched, net, heap, peers
  <2>2. ASSUME NEW c, NEW fd \in FreeFds, NEW accepted \in BOOLEAN, Accepts(c, fd, accepted)
        PROVE  /\ Kept
               /\ phase = "read" /\ phase' = "write"
               /\ UNCHANGED <<transfer, stored, peers>>
    <3>1. /\ phase = "read" /\ phase' = "write"
          /\ UNCHANGED <<transfer, stored, peers, outq, wbuf, list>>
      BY <2>2 DEF Accepts
    <3>2. link \in [Peer -> Link] /\ inq \in [Peer -> Seq(Packet)]
      BY DEF IInv, TypeOK
    <3>3. \/ UNCHANGED <<link, inq>>
          \/ /\ link' = [link EXCEPT ![c] = "closed"]
             /\ inq' = [inq EXCEPT ![c] = <<>>]
      BY <2>2 DEF Accepts
    <3>4. Kept
      BY <3>1, <3>2, <3>3 DEF Untouched, peers
    <3>5. QED
      BY <3>1, <3>4
  <2>3. QED
    BY <1>3, <2>1, <2>2, AcceptCases
<1>4. QED
  BY <1>1, <1>2, <1>3

(* A handler that talks to a client does not concern the others.           *)
LEMMA Bystander ==
  ASSUME IInv, NEW p \in Peer, p # Client,
         \/ read_event_handler \/ recv_integer \/ recv \/ recv_done
         \/ write_buffer \/ write_list
  PROVE  /\ Untouched(p) /\ link'[p] = link[p]
         /\ phase' \in {"recv_num", "recv", "write_list"} => Client' # p
<1>0. Client \in Peer /\ TypeOK
  BY ReadsClient, Dispatched DEF IInv, EntryOK, InHandler, read_event_handler, recv_integer,
     recv, recv_done, write_buffer, write_list
<1>1. CASE recv_integer \/ recv \/ recv_done
  <2>1. UNCHANGED <<table, cur, outq, wbuf, list, peers>> /\ Client' = Client
    BY <1>1 DEF recv_integer, recv, recv_done, net, heap, Client
  <2>2. /\ inq' = [inq EXCEPT ![Client] = Tail(@)] \/ UNCHANGED inq
        /\ link' = AfterError(Client) \/ UNCHANGED link
        /\ \/ UNCHANGED stored
           \/ \E x : stored' = [stored EXCEPT ![Client] = Append(@, x)]
    BY <1>1 DEF recv_integer, recv, recv_done, net
  <2>3. QED
    BY <1>0, <2>1, <2>2 DEF Untouched, AfterError, TypeOK, peers
<1>2. CASE write_buffer \/ write_list
  <2>1. UNCHANGED <<table, cur, inq, stored, peers>> /\ Client' = Client
    BY <1>2 DEF write_buffer, write_list, Client
  <2>2. /\ UNCHANGED wbuf \/ wbuf' = [wbuf EXCEPT ![Client] = Null]
        /\ UNCHANGED list \/ list' = [list EXCEPT ![Client] = Tail(@)]
        /\ \E x : \E ok \in BOOLEAN : Put(Client, x, ok)
    BY <1>2 DEF write_buffer, write_list
  <2>3. link'[p] = link[p] /\ outq'[p] = outq[p]
    BY <1>0, <2>2 DEF Put, TypeOK
  <2>4. QED
    BY <1>0, <2>1, <2>2, <2>3 DEF Untouched, TypeOK, peers
<1>3. CASE read_event_handler
  <2>1. /\ phase = "read" /\ UNCHANGED <<cur, stored, peers>>
        /\ cur.fd \in Registered(table) \ {ListenFd}
    BY <1>3, ReadsClient DEF read_event_handler, CallRead
  <2>2. ASSUME NEW r \in Request \cup {Null}, process_command(Client, r),
               UNCHANGED outq,
               inq' = [inq EXCEPT ![Client] = Tail(@)] \/ UNCHANGED inq,
               link' = AfterError(Client) \/ UNCHANGED link
        PROVE  /\ Untouched(p) /\ link'[p] = link[p]
               /\ Client' # p /\ phase' # "write_list"
    <3>1. /\ table'.data = table.data
          /\ phase' \in {"write", "recv_num", "crashed", "hung"}
      BY <2>1, <2>2, CommandEffect
    <3>2. wbuf'[p] = wbuf[p] /\ list'[p] = list[p]
      BY <1>0, <2>2, CommandKeeps
    <3>3. QED
      BY <1>0, <2>1, <2>2, <3>1, <3>2 DEF Untouched, AfterError, TypeOK, peers, Client
  <2>3. CASE /\ inq[Client] # <<>>
             /\ process_command(Client, Head(inq[Client]).request)
             /\ inq' = [inq EXCEPT ![Client] = Tail(@)]
             /\ UNCHANGED <<backlog, fdOf, link, outq>>
    <3>1. Head(inq[Client]) \in Packet
      BY <1>0, <2>3 DEF TypeOK
    <3>2. Head(inq[Client]).request \in Request \cup {Null}
      BY <3>1 DEF Packet
    <3>3. QED
      BY <2>2, <2>3, <3>2
  <2>4. CASE Delete(Client) /\ phase' = "write"
    <3>1. Untouched(p) /\ link'[p] = link[p]
      BY <1>0, <2>1, <2>4 DEF Delete, Untouched, TypeOK, peers
    <3>2. QED
      BY <2>4, <3>1
  <2>5. CASE /\ link' = AfterError(Client)
             /\ process_command(Client, rbuf[Client])
             /\ UNCHANGED <<backlog, fdOf, inq, outq>>
    <3>1. rbuf[Client] \in Request \cup {Null}
      BY <1>0 DEF TypeOK
    <3>2. QED
      BY <2>2, <2>5, <3>1
  <2>6. CASE /\ link' = AfterError(Client) /\ phase' = "crashed"
             /\ UNCHANGED <<table, transfer, heap>>
             /\ UNCHANGED <<backlog, fdOf, inq, outq>>
    BY <1>0, <2>1, <2>6 DEF Untouched, AfterError, TypeOK, heap, peers
  <2>7. QED
    BY <1>3, <2>3, <2>4, <2>5, <2>6 DEF read_event_handler
<1>4. QED
  BY <1>1, <1>2, <1>3

(* Who has left has nothing more to say and waits for nothing.             *)
LeaversOK == \A p \in Peer : link[p] = "fin" => outbox[p] = <<>> /\ owed[p] = <<>>

TalkOK == NewcomersOK /\ LeaversOK /\ GrammarOK

LEMMA PacketsAgree ==
  ASSUME NEW a \in Seq(Packet), NEW b \in Seq(Packet), Len(a) = Len(b),
         \A i \in 1 .. Len(a) : a[i] = b[i]
  PROVE  a = b
OBVIOUS

LEMMA ConcatAt ==
  ASSUME NEW a \in Seq(Packet), NEW b \in Seq(Packet)
  PROVE  /\ a \o b \in Seq(Packet) /\ Len(a \o b) = Len(a) + Len(b)
         /\ \A i \in 1 .. Len(a) : (a \o b)[i] = a[i]
         /\ \A i \in 1 .. Len(b) : (a \o b)[Len(a) + i] = b[i]
OBVIOUS

LEMMA HeadMoved ==
  ASSUME NEW s \in Seq(Packet), NEW t \in Seq(Packet), t # <<>>
  PROVE  Append(s, Head(t)) \o Tail(t) = s \o t
<1> DEFINE u == Append(s, Head(t))
           v == Tail(t)
<1>1. /\ Head(t) \in Packet /\ Len(t) \in Nat \ {0} /\ Len(s) \in Nat
      /\ v \in Seq(Packet) /\ Len(v) = Len(t) - 1
      /\ \A i \in 1 .. Len(v) : v[i] = t[i + 1]
      /\ Head(t) = t[1]
  OBVIOUS
<1>2. /\ u \in Seq(Packet) /\ Len(u) = Len(s) + 1
      /\ \A i \in 1 .. Len(s) : u[i] = s[i]
      /\ u[Len(s) + 1] = t[1]
  BY <1>1
<1> HIDE DEF u, v
<1>3. /\ u \o v \in Seq(Packet) /\ Len(u \o v) = Len(s) + Len(t)
      /\ \A i \in 1 .. Len(s) + 1 : (u \o v)[i] = u[i]
      /\ \A i \in 1 .. Len(v) : (u \o v)[Len(s) + 1 + i] = v[i]
  <2>1. /\ u \o v \in Seq(Packet) /\ Len(u \o v) = Len(u) + Len(v)
        /\ \A i \in 1 .. Len(u) : (u \o v)[i] = u[i]
        /\ \A i \in 1 .. Len(v) : (u \o v)[Len(u) + i] = v[i]
    BY <1>1, <1>2, ConcatAt
  <2>2. QED
    BY <1>1, <1>2, <2>1
<1>4. /\ s \o t \in Seq(Packet) /\ Len(s \o t) = Len(s) + Len(t)
      /\ \A i \in 1 .. Len(s) : (s \o t)[i] = s[i]
      /\ \A i \in 1 .. Len(t) : (s \o t)[Len(s) + i] = t[i]
  OBVIOUS
<1>5. ASSUME NEW i \in 1 .. Len(s) + Len(t)
      PROVE  (u \o v)[i] = (s \o t)[i]
  <2>1. CASE i <= Len(s)
    BY <1>1, <1>2, <1>3, <1>4, <2>1
  <2>2. CASE i = Len(s) + 1
    BY <1>1, <1>2, <1>3, <1>4, <2>2
  <2>3. CASE i > Len(s) + 1
    <3> DEFINE j == i - (Len(s) + 1)
    <3>1. j \in 1 .. Len(v)
      BY <1>1, <2>3
    <3>2. i = Len(s) + 1 + j /\ i = Len(s) + (j + 1) /\ j + 1 \in 1 .. Len(t)
      BY <1>1, <3>1
    <3> HIDE DEF j
    <3>3. (u \o v)[i] = v[j] /\ (s \o t)[i] = t[j + 1]
      BY <1>3, <1>4, <3>1, <3>2
    <3>4. QED
      BY <1>1, <3>1, <3>3
  <2>4. i <= Len(s) \/ i = Len(s) + 1 \/ i > Len(s) + 1
    BY <1>1
  <2>5. QED
    BY <2>1, <2>2, <2>3, <2>4
<1>6. QED
  BY <1>1, <1>3, <1>4, <1>5, PacketsAgree DEF u, v

LEMMA UnreadTaken ==
  ASSUME TypeOK, NEW p \in Peer, inq[p] # <<>>, inq'[p] = Tail(inq[p]), outbox'[p] = outbox[p]
  PROVE  /\ Unread(p) \in Seq(Packet) /\ Unread(p) # <<>>
         /\ Unread(p)[1] = Head(inq[p]) /\ Unread(p)' = Tail(Unread(p))
<1>1. PICK s \in Seq(Packet) : s = inq[p]
  BY QueueTypes
<1>2. PICK t \in Seq(Packet) : t = outbox[p]
  BY QueueTypes
<1>3. /\ s \o t \in Seq(Packet) /\ s \o t # <<>>
      /\ (s \o t)[1] = Head(s) /\ Tail(s) \o t = Tail(s \o t)
  BY <1>1
<1>4. QED
  BY <1>1, <1>2, <1>3 DEF Unread

LEMMA UnreadSent ==
  ASSUME TypeOK, NEW p \in Peer, outbox[p] # <<>>,
         inq'[p] = Append(inq[p], Head(outbox[p])), outbox'[p] = Tail(outbox[p])
  PROVE  Unread(p)' = Unread(p)
<1>1. PICK s \in Seq(Packet) : s = inq[p]
  BY QueueTypes
<1>2. PICK t \in Seq(Packet) : t = outbox[p]
  BY QueueTypes
<1>3. t # <<>>
  BY <1>2
<1>4. Append(s, Head(t)) \o Tail(t) = s \o t
  BY <1>3, HeadMoved
<1>5. QED
  BY <1>1, <1>2, <1>4 DEF Unread

LEMMA UnreadGrown ==
  ASSUME TypeOK, NEW p \in Peer, NEW r \in Request, outbox[p] = <<>>,
         inq'[p] = inq[p], outbox'[p] = Packets(r)
  PROVE  Unread(p)' = Unread(p) \o Packets(r)
<1>1. PICK s \in Seq(Packet) : s = inq[p]
  BY QueueTypes
<1>2. s \o <<>> = s
  OBVIOUS
<1>3. QED
  BY <1>1, <1>2 DEF Unread

(* Nothing changes for a peer as long as its packets and its transfer stay. *)
LEMMA StillFollows ==
  ASSUME NEW p \in Peer, NEW q, Follows(p, q),
         Transferring(p)' <=> Transferring(p),
         Transferring(p) => phase' = phase /\ transfer' = transfer
  PROVE  Follows(p, q)'
BY DEF Follows

LEMMA GrammarKept ==
  ASSUME NEW p \in Peer, Grammar(p), Unread(p)' = Unread(p),
         Transferring(p)' <=> Transferring(p),
         Transferring(p) => phase' = phase /\ transfer' = transfer
  PROVE  Grammar(p)'
<1>1. PICK q : q = Unread(p)
  OBVIOUS
<1>2. Follows(p, q)'
  BY <1>1, StillFollows DEF Grammar
<1>3. QED
  BY <1>1, <1>2 DEF Grammar

(* What the handlers do with the first packet of q, when it is there.      *)
LEMMA CommandTaken ==
  ASSUME IInv, read_event_handler, NEW p \in Peer, p = Client, Survives', inq[p] # <<>>,
         NEW q \in Seq(Packet), q # <<>>, q[1] = Head(inq[p]), Follows(p, q)
  PROVE  /\ Follows(p, Tail(q))'
         /\ q[1].type = "command" /\ q[1].request \in Request
         /\ process_command(p, q[1].request)
         /\ inq'[p] = Tail(inq[p]) /\ UNCHANGED <<cur, link, outq, stored, peers>>
<1> DEFINE r == q[1].request
<1>1. /\ phase = "read" /\ UNCHANGED <<cur, stored, peers>> /\ TypeOK
      /\ cur.fd \in Registered(table) \ {ListenFd}
  BY ReadsClient DEF read_event_handler, CallRead, IInv
<1>2. /\ process_command(p, r)
      /\ inq' = [inq EXCEPT ![p] = Tail(@)] /\ link' = link /\ outq' = outq
  BY DEF read_event_handler
<1>3. Requests(q) /\ q[1].type = "command"
  BY <1>1 DEF Follows, Transferring
<1>4. CommandAt(q, 1) /\ r \in Request
  <2>1. 1 \in 1 .. Len(q)
    OBVIOUS
  <2>2. QED
    BY <1>3, <2>1 DEF Requests, CommandAt
<1>5. /\ Requests(Tail(q)) /\ Tail(q) \in Seq(Packet)
      /\ CountAt(q, 1) => CountAt(Tail(q), 0)
  <2>1. /\ Requests(Tail(q)) /\ Tail(q) \in Seq(Packet)
        /\ CountAt(q, 0 + 1) => CountAt(Tail(q), 0)
    BY <1>3, TakenPacket
  <2>2. 0 + 1 = 1
    OBVIOUS
  <2>3. QED
    BY <2>1, <2>2
<1>6. Client' = p
  <2>1. table'.data = table.data
    BY <1>1, <1>2, <1>4, CommandEffect
  <2>2. QED
    BY <1>1, <2>1 DEF Client
<1>7. ASSUME Uploads(r) PROVE Follows(p, Tail(q))'
  <2>1. phase' = "recv_num"
    BY <1>2, <1>7 DEF process_command, ignore_command, Uploads, file_send_command
  <2>2. CountAt(Tail(q), 0)
    BY <1>4, <1>5, <1>7 DEF CommandAt
  <2>3. QED
    BY <1>5, <1>6, <2>1, <2>2 DEF Follows, Transferring
<1>8. ASSUME ~Uploads(r) PROVE Follows(p, Tail(q))'
  <2>1. phase' = "write"
    <3>1. CASE ignore_command(r)
      BY <3>1 DEF ignore_command, Survives
    <3>2. CASE Accepted(r) /\ (ping_command(p) \/ file_recv_command(p, r) \/ empty_command)
      BY <1>4, <3>2, RequestAssumption
         DEF Survives, ping_command, file_recv_command, empty_command
    <3>3. QED
      BY <1>2, <1>8, <3>1, <3>2 DEF process_command, Uploads
  <2>2. Tail(q) # <<>> => Tail(q)[1].type = "command"
    <3>1. 1 < Len(q) => q[2].type = "command"
      BY <1>4, <1>8 DEF CommandAt
    <3>2. Tail(q) # <<>> => 1 < Len(q) /\ Tail(q)[1] = q[2]
      OBVIOUS
    <3>3. QED
      BY <3>1, <3>2
  <2>3. QED
    BY <1>5, <2>1, <2>2 DEF Follows, Transferring
<1>9. inq'[p] = Tail(inq[p])
  BY <1>1, <1>2 DEF TypeOK
<1>10. QED
  BY <1>1, <1>2, <1>3, <1>4, <1>7, <1>8, <1>9

LEMMA CountTaken ==
  ASSUME IInv, recv_integer, NEW p \in Peer, p = Client, inq[p] # <<>>,
         NEW q \in Seq(Packet), q # <<>>, q[1] = Head(inq[p]), Follows(p, q)
  PROVE  /\ Follows(p, Tail(q))' /\ q[1].type = "integer"
         /\ inq'[p] = Tail(inq[p]) /\ UNCHANGED <<cur, link, outq, stored, peers>>
<1> DEFINE n == q[1].val
<1>1. /\ phase = "recv_num" /\ phase' = "recv" /\ Client' = p /\ TypeOK
      /\ UNCHANGED <<cur, link, outq, stored, peers>>
  BY DEF recv_integer, Client, IInv
<1>2. /\ inq' = [inq EXCEPT ![p] = Tail(@)] /\ transfer' = [transfer EXCEPT !.left = n]
  BY DEF recv_integer
<1>3. Requests(q) /\ CountAt(q, 0)
  BY <1>1 DEF Follows, Transferring
<1>4. n \in Nat /\ transfer'.left = n
  <2>1. q[1] \in Packet
    OBVIOUS
  <2>2. QED
    BY <1>1, <1>2, <2>1 DEF TypeOK, Packet
<1>5. q[0 + 1].type = "integer" /\ FileAt(q, 0 + 1, q[0 + 1].val)
  BY <1>3 DEF CountAt
<1>6. q[1].type = "integer" /\ FileAt(q, 0 + 1, n)
  BY <1>5
<1>7. Requests(Tail(q)) /\ FileAt(Tail(q), 0, n)
  BY <1>3, <1>4, <1>6, TakenPacket
<1>8. inq'[p] = Tail(inq[p])
  BY <1>1, <1>2 DEF TypeOK
<1>9. QED
  BY <1>1, <1>4, <1>6, <1>7, <1>8 DEF Follows, Transferring

LEMMA PartTaken ==
  ASSUME IInv, recv, NEW p \in Peer, p = Client, Survives', inq[p] # <<>>,
         NEW q \in Seq(Packet), q # <<>>, q[1] = Head(inq[p]), Follows(p, q)
  PROVE  /\ Follows(p, Tail(q))' /\ q[1].type = "chunk"
         /\ inq'[p] = Tail(inq[p]) /\ UNCHANGED <<cur, link, outq, peers>>
         /\ stored' = IF q[1].val = 0 THEN stored
                      ELSE [stored EXCEPT ![p] = Append(@, q[1])]
<1> DEFINE n == transfer.left
<1>1. /\ phase = "recv" /\ Client' = p /\ UNCHANGED <<cur, link, outq, peers>>
      /\ n \in Nat /\ n > 0 /\ TypeOK
  BY DEF recv, Client, IInv, TypeOK
<1>2. Requests(q) /\ FileAt(q, 0, n)
  BY <1>1 DEF Follows, Transferring
<1>3. inq' = [inq EXCEPT ![p] = Tail(@)]
  BY DEF recv
<1>4. /\ q[1].type = "chunk" /\ (1 < n => q[1].val # 0) /\ n <= Len(q)
      /\ \A i \in 1 .. n : q[i].type = "chunk" /\ (i < n => q[i].val # 0)
      /\ n < Len(q) => q[n + 1].type = "command"
  <2>1. /\ 0 + n <= Len(q)
        /\ \A i \in 0 + 1 .. 0 + n : q[i].type = "chunk" /\ (i < 0 + n => q[i].val # 0)
        /\ 0 + n < Len(q) => q[0 + n + 1].type = "command"
    BY <1>2 DEF FileAt
  <2> HIDE DEF n
  <2>2. QED
    BY <1>1, <2>1
<1>5. Requests(Tail(q)) /\ Tail(q) \in Seq(Packet)
  BY <1>2, TakenPacket
<1>6. ASSUME q[1].val = 0 PROVE Follows(p, Tail(q))' /\ stored' = stored
  <2>1. phase' = "write" /\ stored' = stored
    BY <1>6 DEF recv, Fclose, Survives
  <2>2. n = 1
    BY <1>1, <1>4, <1>6
  <2>3. Tail(q) # <<>> => 1 < Len(q) /\ Tail(q)[1] = q[2]
    OBVIOUS
  <2>4. QED
    BY <1>4, <1>5, <2>1, <2>2, <2>3 DEF Follows, Transferring
<1>7. ASSUME q[1].val # 0
      PROVE  Follows(p, Tail(q))' /\ stored' = [stored EXCEPT ![p] = Append(@, q[1])]
  <2>1. /\ phase' = "recv" /\ transfer' = [transfer EXCEPT !.left = n - 1]
        /\ stored' = [stored EXCEPT ![p] = Append(@, q[1])]
    BY <1>1, <1>7 DEF recv, Survives
  <2>2. transfer'.left = n - 1
    BY <1>1, <2>1 DEF TypeOK
  <2>3. FileAt(q, 0 + 1, n - 1)
    <3> HIDE DEF n
    <3>1. (0 + 1) + (n - 1) = n
      BY <1>1
    <3>2. \A i \in (0 + 1) + 1 .. n : i \in 1 .. n
      BY <1>1
    <3>3. QED
      BY <1>1, <1>4, <3>1, <3>2 DEF FileAt
  <2>4. FileAt(Tail(q), 0, n - 1)
    <3>1. n - 1 \in Nat
      BY <1>1
    <3>2. QED
      BY <2>3, <3>1, TakenPacket
  <2>5. QED
    BY <1>1, <1>5, <2>1, <2>2, <2>4 DEF Follows, Transferring
<1>8. inq'[p] = Tail(inq[p])
  BY <1>1, <1>3 DEF TypeOK
<1>9. QED
  BY <1>1, <1>4, <1>6, <1>7, <1>8

LEMMA EndTaken ==
  ASSUME recv_done, NEW p \in Peer, p = Client, Survives', NEW q \in Seq(Packet), Follows(p, q)
  PROVE  Follows(p, q)'
<1>1. phase = "recv" /\ phase' = "write" /\ transfer.left = 0
  BY DEF recv_done, Fclose, Survives
<1>2. Requests(q) /\ FileAt(q, 0, 0)
  BY <1>1 DEF Follows, Transferring
<1>3. q # <<>> => q[1].type = "command"
  <2>1. 0 + 0 < Len(q) => q[0 + 0 + 1].type = "command"
    BY <1>2 DEF FileAt
  <2>2. QED
    BY <2>1
<1>4. QED
  BY <1>1, <1>2, <1>3 DEF Follows, Transferring

(* The same for a client that is still there.                              *)
TalkOf(p) ==
  /\ link[p] = "fin" => outbox[p] = <<>> /\ owed[p] = <<>>
  /\ Survives /\ Engaged(p) => Grammar(p)

LEMMA ClientTalks ==
  ASSUME TalkOK, NEW p \in Peer
  PROVE  TalkOf(p)
BY DEF TalkOK, LeaversOK, GrammarOK, TalkOf

LEMMA CommandGrammar ==
  ASSUME IInv, NEW p \in Peer, TalkOf(p), read_event_handler, p = Client,
         Survives', Engaged(p)'
  PROVE  /\ Grammar(p)'
         /\ inq[p] # <<>> /\ Head(inq[p]).type = "command"
         /\ Head(inq[p]).request \in Request
         /\ process_command(p, Head(inq[p]).request)
         /\ inq'[p] = Tail(inq[p]) /\ UNCHANGED <<cur, link, outq, peers>>
<1>1. TypeOK /\ phase = "read" /\ UNCHANGED peers
  BY DEF IInv, read_event_handler, CallRead
<1>2. inq[p] # <<>> /\ link' = link
  <2>1. link[p] # "rst"
    BY <1>1 DEF Engaged, AfterError, read_event_handler, Delete, TypeOK
  <2>2. ~Delete(p)
    BY <1>1 DEF Engaged, Delete, TypeOK
  <2>3. QED
    BY <2>1, <2>2 DEF read_event_handler
<1>3. Grammar(p)
  BY <1>1, <1>2 DEF Survives, Engaged, TalkOf
<1>4. PICK q : q = Unread(p)
  OBVIOUS
<1>5. inq' = [inq EXCEPT ![p] = Tail(@)]
  BY <1>2 DEF read_event_handler
<1>6. /\ q \in Seq(Packet) /\ q # <<>> /\ q[1] = Head(inq[p]) /\ Unread(p)' = Tail(q)
  <2>1. inq'[p] = Tail(inq[p]) /\ outbox'[p] = outbox[p]
    BY <1>1, <1>5 DEF TypeOK, peers
  <2>2. QED
    BY <1>1, <1>2, <1>4, <2>1, UnreadTaken
<1>7. /\ Follows(p, Tail(q))' /\ q[1].type = "command" /\ q[1].request \in Request
      /\ process_command(p, q[1].request)
      /\ inq'[p] = Tail(inq[p]) /\ UNCHANGED <<cur, link, outq, stored, peers>>
  BY <1>2, <1>3, <1>4, <1>6, CommandTaken DEF Grammar
<1>8. QED
  BY <1>2, <1>6, <1>7 DEF Grammar

LEMMA DataGrammar ==
  ASSUME IInv, NEW p \in Peer, TalkOf(p), recv_integer \/ recv, p = Client,
         Survives', Engaged(p)'
  PROVE  /\ Grammar(p)'
         /\ inq[p] # <<>> /\ Head(inq[p]).type # "command"
<1>1. /\ TypeOK
      /\ phase = "recv" => transfer.left > 0 /\ transfer.left \in Nat
  BY DEF recv_integer, recv, IInv, TypeOK
<1>2. Engaged(p) /\ Grammar(p) /\ UNCHANGED peers /\ phase \in {"recv_num", "recv"}
  <2>1. Engaged(p) /\ UNCHANGED peers /\ phase \in {"recv_num", "recv"}
    BY <1>1 DEF Engaged, recv_integer, recv, AfterError, TypeOK
  <2>2. QED
    BY <2>1 DEF TalkOf, Survives
<1>3. PICK q : q = Unread(p)
  OBVIOUS
<1>4. inq[p] # <<>>
  <2>1. SUFFICES ASSUME inq[p] = <<>> PROVE FALSE
    OBVIOUS
  <2>2. link[p] = "fin"
    BY <1>2, <2>1 DEF recv_integer, recv, Readable, Engaged
  <2>3. q = <<>>
    BY <1>3, <2>1, <2>2 DEF TalkOf, Unread
  <2>4. CASE phase = "recv_num"
    BY <1>2, <1>3, <2>3, <2>4 DEF Grammar, Follows, Transferring, CountAt
  <2>5. CASE phase = "recv"
    BY <1>1, <1>2, <1>3, <2>3, <2>5 DEF Grammar, Follows, Transferring, FileAt
  <2>6. QED
    BY <1>2, <2>4, <2>5
<1>5. inq' = [inq EXCEPT ![p] = Tail(@)]
  BY <1>4 DEF recv_integer, recv
<1>6. /\ q \in Seq(Packet) /\ q # <<>> /\ q[1] = Head(inq[p]) /\ Unread(p)' = Tail(q)
  <2>1. inq'[p] = Tail(inq[p]) /\ outbox'[p] = outbox[p]
    BY <1>1, <1>2, <1>5 DEF TypeOK, peers
  <2>2. QED
    BY <1>1, <1>3, <1>4, <2>1, UnreadTaken
<1>7. Follows(p, Tail(q))' /\ q[1].type # "command"
  BY <1>2, <1>3, <1>4, <1>6, CountTaken, PartTaken DEF Grammar
<1>8. QED
  BY <1>4, <1>6, <1>7 DEF Grammar

LEMMA EndGrammar ==
  ASSUME IInv, NEW p \in Peer, TalkOf(p), recv_done, p = Client, Survives', Engaged(p)'
  PROVE  Grammar(p)'
<1>1. phase = "recv" /\ UNCHANGED <<net, peers>> /\ TypeOK
  BY DEF recv_done, IInv
<1>2. Grammar(p)
  BY <1>1 DEF TalkOf, Engaged, Survives, net
<1>3. PICK q : q = Unread(p)
  OBVIOUS
<1>4. q \in Seq(Packet) /\ Unread(p)' = q
  BY <1>1, <1>3, QueueTypes DEF Unread, net, peers
<1>5. Follows(p, q)'
  BY <1>2, <1>3, <1>4, EndTaken DEF Grammar
<1>6. QED
  BY <1>4, <1>5 DEF Grammar

LEMMA InitTalk == Init => TalkOK
<1> SUFFICES ASSUME Init PROVE TalkOK
  OBVIOUS
<1>1. NewcomersOK /\ LeaversOK
  BY DEF Init, NewcomersOK, LeaversOK, Unknown
<1>2. \A p \in Peer : ~Engaged(p)
  BY DEF Init, Engaged
<1>3. QED
  BY <1>1, <1>2 DEF TalkOK, GrammarOK

(* The server only ends connections, and leaves the peers their side.      *)
LEMMA LinkSteps ==
  ASSUME IInv, ServerStep, NEW p \in Peer
  PROVE  /\ UNCHANGED peers
         /\ link'[p] = link[p] \/ (link'[p] \in {"dead", "closed"} /\ link[p] # "none")
         /\ link'[p] = "none" => Untouched(p)
<1>1. link[p] = "none" => obj[p] = "none"
  BY DEF IInv, QueueOK
<1>2. CASE \/ Poll \/ TakeEntry \/ BatchDone \/ SkipRead \/ SkipWrite
           \/ accept_tcp_handler \/ write_event_handler \/ write_done
  <2>1. /\ (Untouched(p) /\ link'[p] = link[p]) \/ link'[p] = "closed"
        /\ UNCHANGED peers
    BY <1>2, IdleSteps
  <2>2. link'[p] = "none" <=> link[p] = "none"
    <3>1. CASE accept_tcp_handler
      <4>1. CASE UNCHANGED net
        BY <4>1 DEF net
      <4>2. ASSUME NEW c, NEW fd \in FreeFds, NEW accepted \in BOOLEAN, Accepts(c, fd, accepted)
            PROVE  link'[p] = "none" <=> link[p] = "none"
        <5>1. AcceptedAt(c, fd)
          BY <4>2, AcceptEffect
        <5>2. QED
          BY <4>2, <5>1 DEF Accepts, AcceptedAt, IInv, TypeOK
      <4>3. QED
        BY <3>1, <4>1, <4>2, AcceptCases
    <3>2. CASE write_event_handler
      <4>1. Client \in Peer /\ Live(Client)
        BY <3>2, WritesClient, Dispatched DEF write_event_handler
      <4>2. link' = link \/ link' = [link EXCEPT ![Client] = "closed"]
        BY <3>2 DEF write_event_handler, Delete, net
      <4>3. link \in [Peer -> Link]
        BY DEF IInv, TypeOK
      <4>4. p = Client => link[p] # "none"
        BY <1>1, <4>1 DEF Live
      <4>5. QED
        BY <4>2, <4>3, <4>4
    <3>3. CASE \/ Poll \/ TakeEntry \/ BatchDone \/ SkipRead \/ SkipWrite \/ write_done
      BY <3>3 DEF Poll, TakeEntry, BatchDone, SkipRead, SkipWrite, write_done, net
    <3>4. QED
      BY <1>2, <3>1, <3>2, <3>3
  <2>3. QED
    BY <2>1, <2>2
<1>3. CASE \/ read_event_handler \/ recv_integer \/ recv \/ recv_done
           \/ write_buffer \/ write_list
  <2>1. UNCHANGED peers
    BY <1>3 DEF read_event_handler, recv_integer, recv, recv_done, write_buffer, write_list
  <2>2. CASE p # Client
    BY <1>3, <2>1, <2>2, Bystander
  <2>3. CASE p = Client
    <3>1. Live(p) /\ link[p] # "none"
      BY <1>1, <1>3, <2>3, ReadsClient, Dispatched
         DEF Live, IInv, EntryOK, InHandler, read_event_handler, recv_integer,
             recv, recv_done, write_buffer, write_list
    <3>2. link'[p] \in {link[p], "dead", "closed"}
      <4>1. link \in [Peer -> Link]
        BY DEF IInv, TypeOK
      <4>2. CASE read_event_handler
        BY <2>3, <4>1, <4>2 DEF read_event_handler, Delete, AfterError
      <4>3. CASE recv_integer \/ recv \/ recv_done
        BY <2>3, <4>1, <4>3 DEF recv_integer, recv, recv_done, AfterError, net
      <4>4. CASE write_buffer \/ write_list
        BY <2>3, <4>1, <4>4 DEF write_buffer, write_list, Put
      <4>5. QED
        BY <1>3, <4>2, <4>3, <4>4
    <3>3. QED
      BY <2>1, <3>1, <3>2
  <2>4. QED
    BY <2>2, <2>3
<1>4. QED
  BY <1>2, <1>3 DEF ServerStep

LEMMA ServerGrammar ==
  ASSUME IInv, NEW p \in Peer, TalkOf(p), ServerStep, Survives', Engaged(p)'
  PROVE  Grammar(p)'
<1>1. CASE \/ Poll \/ TakeEntry \/ BatchDone \/ SkipRead \/ SkipWrite
           \/ accept_tcp_handler \/ write_event_handler \/ write_done
  <2>1. /\ (Untouched(p) /\ link'[p] = link[p]) \/ link'[p] = "closed"
        /\ phase \notin {"recv_num", "recv", "crashed", "hung"}
        /\ phase' \notin {"recv_num", "recv", "write_list"}
    BY <1>1, IdleSteps
  <2>2. Untouched(p) /\ Engaged(p)
    BY <2>1 DEF Engaged
  <2>3. Grammar(p)
    BY <2>1, <2>2 DEF TalkOf, Survives
  <2>4. Unread(p)' = Unread(p) /\ ~Transferring(p) /\ ~Transferring(p)'
    BY <2>1, <2>2 DEF Unread, Untouched, Transferring
  <2>5. QED
    BY <2>3, <2>4, GrammarKept
<1>2. CASE p # Client /\ \/ read_event_handler \/ recv_integer \/ recv \/ recv_done
                         \/ write_buffer \/ write_list
  <2>1. /\ Untouched(p) /\ link'[p] = link[p]
        /\ phase' \in {"recv_num", "recv", "write_list"} => Client' # p
    BY <1>2, Bystander
  <2>2. Engaged(p) /\ Survives
    BY <1>2, <2>1
       DEF Engaged, Survives, read_event_handler, recv_integer, recv, recv_done,
           write_buffer, write_list, CallRead
  <2>3. Unread(p)' = Unread(p) /\ ~Transferring(p) /\ ~Transferring(p)'
    BY <1>2, <2>1 DEF Unread, Untouched, Transferring
  <2>4. Grammar(p)
    BY <2>2 DEF TalkOf
  <2>5. QED
    BY <2>3, <2>4, GrammarKept
<1>3. CASE p = Client /\ \/ read_event_handler \/ recv_integer \/ recv \/ recv_done
  BY <1>3, CommandGrammar, DataGrammar, EndGrammar
<1>4. CASE p = Client /\ (write_buffer \/ write_list)
  <2>1. /\ phase \in {"write_buf", "write_list"} /\ phase' = "write_list"
        /\ UNCHANGED <<inq, peers>>
    BY <1>4 DEF write_buffer, write_list
  <2>2. link'[p] = link[p]
    <3>1. \/ link'[p] = link[p]
          \/ link'[p] \in {"dead", "closed"} /\ link[p] # "none"
      BY <1>4, LinkSteps DEF ServerStep
    <3>2. QED
      BY <3>1 DEF Engaged
  <2>3. Engaged(p) /\ Survives
    BY <2>1, <2>2 DEF Engaged, Survives
  <2>4. Unread(p)' = Unread(p) /\ ~Transferring(p) /\ ~Transferring(p)'
    BY <2>1 DEF Unread, Transferring, peers
  <2>5. Grammar(p)
    BY <2>3 DEF TalkOf
  <2>6. QED
    BY <2>4, <2>5, GrammarKept
<1>5. QED
  BY <1>1, <1>2, <1>3, <1>4 DEF ServerStep

LEMMA ServerTalk ==
  ASSUME IInv, TalkOK, ServerStep
  PROVE  TalkOK'
<1>1. NewcomersOK'
  <2>1. ASSUME NEW p \in Peer, link'[p] = "none"
        PROVE  Unknown(p)'
    <3>1. link[p] = "none" /\ Untouched(p)
      BY <2>1, LinkSteps
    <3>2. QED
      BY <3>1 DEF TalkOK, NewcomersOK, Unknown, Untouched
  <2>2. QED
    BY <2>1 DEF NewcomersOK
<1>2. LeaversOK'
  <2>1. ASSUME NEW p \in Peer, link'[p] = "fin"
        PROVE  outbox'[p] = <<>> /\ owed'[p] = <<>>
    <3>1. link[p] = "fin" /\ UNCHANGED peers
      BY <2>1, LinkSteps
    <3>2. QED
      BY <3>1 DEF TalkOK, LeaversOK, peers
  <2>2. QED
    BY <2>1 DEF LeaversOK
<1>3. ASSUME Survives', NEW p \in Peer, Engaged(p)'
      PROVE  Grammar(p)'
  BY <1>3, ServerGrammar, ClientTalks
<1>4. QED
  BY <1>1, <1>2, <1>3 DEF TalkOK, GrammarOK

(* What the steps of a peer do to its own queues.                          *)
LEMMA PeerSteps ==
  ASSUME IInv, TalkOK, NEW p \in Peer, PeerStep(p)
  PROVE  /\ UNCHANGED <<loop, heap, stored>>
         /\ \A q \in Peer \ {p} : Untouched(q) /\ link'[q] = link[q]
         /\ \/ Connect(p) /\ Unknown(p) /\ Unknown(p)' /\ ~Transferring(p)
            \/ /\ link[p] = "open" /\ link' = link /\ outbox[p] = <<>>
               /\ \E r \in Request : /\ inq'[p] = inq[p] /\ outq'[p] = outq[p]
                                     /\ outbox'[p] = Packets(r)
                                     /\ owed'[p] = owed[p] \o Replies(r)
                                     /\ sent'[p] = sent[p] \o Contents(r)
                                     /\ Pipelining \/ owed[p] = <<>>
            \/ /\ link[p] = "open" /\ link' = link /\ outbox[p] # <<>>
               /\ inq'[p] = Append(inq[p], Head(outbox[p]))
               /\ outbox'[p] = Tail(outbox[p])
               /\ outq'[p] = outq[p] /\ owed'[p] = owed[p] /\ sent'[p] = sent[p]
            \/ /\ link' = link /\ inq'[p] = inq[p] /\ outbox'[p] = outbox[p]
               /\ outbox[p] = <<>> /\ outq[p] # <<>> /\ owed[p] # <<>>
               /\ outq'[p] = Tail(outq[p]) /\ owed'[p] = Tail(owed[p]) /\ sent'[p] = sent[p]
            \/ /\ link[p] = "open"
               /\ link'[p] = IF outq[p] = <<>> THEN "fin" ELSE "rst"
               /\ MayDie \/ (outbox[p] = <<>> /\ owed[p] = <<>>)
               /\ inq'[p] = inq[p] /\ outq'[p] = <<>> /\ outbox'[p] = <<>> /\ owed'[p] = <<>>
               /\ sent'[p] = sent[p]
<1>1. /\ link \in [Peer -> Link] /\ inq \in [Peer -> Seq(Packet)]
      /\ outq \in [Peer -> Seq(Packet)] /\ outbox \in [Peer -> Seq(Packet)]
      /\ owed \in [Peer -> Seq(Packet)] /\ sent \in [Peer -> Seq(Packet)]
  BY DEF IInv, TypeOK
<1>2. CASE Connect(p)
  <2>1. link[p] = "none" /\ Unknown(p)
    BY <1>2 DEF Connect, TalkOK, NewcomersOK
  <2>2. ~Transferring(p)
    BY <2>1 DEF Transferring, IInv, NoDangling, InHandler, QueueOK, Live
  <2>3. QED
    BY <1>1, <1>2, <2>1, <2>2 DEF Connect, Unknown, Untouched, heap, peers, loop
<1>3. CASE \E r \in Request : Submit(p, r)
  BY <1>1, <1>3 DEF Submit, Compose, Untouched, net, heap, loop
<1>4. CASE Flush(p)
  BY <1>1, <1>4 DEF Flush, Untouched, heap, loop
<1>5. CASE Receive(p)
  BY <1>1, <1>5 DEF Receive, Untouched, heap, loop
<1>6. CASE Close(p)
  BY <1>1, <1>6 DEF Close, Exit, Untouched, heap, loop
<1>7. QED
  BY <1>2, <1>3, <1>4, <1>5, <1>6 DEF PeerStep

(* One request more.                                                       *)
LEMMA FollowsGrown ==
  ASSUME TypeOK, NEW p \in Peer, NEW q \in Seq(Packet), Follows(p, q),
         NEW r \in Request, NEW t, t = q \o Packets(r)
  PROVE  Follows(p, t)
<1>1. Requests(q) /\ transfer.left \in Nat
  BY DEF Follows, TypeOK
<1>2. /\ t # <<>>
      /\ q # <<>> => t[1] = q[1]
      /\ q = <<>> => t[1].type = "command"
      /\ \A k, n \in Nat : FileAt(q, k, n) => FileAt(t, k, n)
      /\ \A k \in Nat : CountAt(q, k) => CountAt(t, k)
      /\ Requests(t)
  BY <1>1, AppendedRequest
<1>3. QED
  BY <1>1, <1>2 DEF Follows

LEMMA PeerTalk ==
  ASSUME IInv, TalkOK, NEW p \in Peer, PeerStep(p)
  PROVE  TalkOK'
<1>1. /\ UNCHANGED <<loop, heap, stored>>
      /\ \A q \in Peer \ {p} : Untouched(q) /\ link'[q] = link[q]
  BY PeerSteps
<1>2. NewcomersOK' /\ LeaversOK'
  <2>1. ASSUME NEW q \in Peer \ {p}
        PROVE  /\ link'[q] = "none" => Unknown(q)'
               /\ link'[q] = "fin" => outbox'[q] = <<>> /\ owed'[q] = <<>>
    BY <1>1, <2>1 DEF TalkOK, NewcomersOK, LeaversOK, Unknown, Untouched
  <2>2. /\ link'[p] = "none" => Unknown(p)'
        /\ link'[p] = "fin" => outbox'[p] = <<>> /\ owed'[p] = <<>>
    <3>1. link \in [Peer -> Link]
      BY DEF IInv, TypeOK
    <3>2. CASE Connect(p)
      BY <3>1, <3>2 DEF Connect
    <3>3. CASE link[p] = "open" /\ link' = link
      BY <3>3
    <3>4. CASE \E r \in Request : Submit(p, r)
      BY <3>3, <3>4 DEF Submit, Compose, net
    <3>5. CASE Flush(p)
      BY <3>3, <3>5 DEF Flush
    <3>6. CASE Receive(p)
      BY <3>6 DEF Receive, TalkOK, NewcomersOK, LeaversOK, Unknown
    <3>7. CASE Close(p)
      BY <3>1, <3>7 DEF Close, Exit, IInv, TypeOK
    <3>8. QED
      BY <3>2, <3>4, <3>5, <3>6, <3>7 DEF PeerStep
  <2>3. QED
    BY <2>1, <2>2 DEF NewcomersOK, LeaversOK
<1>3. ASSUME Survives', NEW q \in Peer, Engaged(q)'
      PROVE  Grammar(q)'
  <2>1. /\ Survives /\ phase' = phase /\ transfer' = transfer
        /\ Transferring(q)' <=> Transferring(q)
    BY <1>1, <1>3 DEF Survives, Transferring, Client, loop
  <2>2. Engaged(q) => Grammar(q)
    BY <2>1 DEF TalkOK, GrammarOK
  <2>3. CASE q # p
    <3>1. Untouched(q) /\ Engaged(q)
      BY <1>1, <1>3, <2>3 DEF Engaged
    <3>2. Unread(q)' = Unread(q)
      BY <3>1 DEF Unread, Untouched
    <3>3. QED
      BY <2>1, <2>2, <3>1, <3>2, GrammarKept
  <2>4. CASE q = p /\ Connect(p) /\ Unknown(p)' /\ ~Transferring(p)
    <3>1. Unread(p)' = <<>>
      BY <2>4 DEF Unknown, Unread
    <3>2. Requests(<<>>)
      BY DEF Requests
    <3>3. QED
      BY <2>1, <2>4, <3>1, <3>2 DEF Grammar, Follows
  <2>5. ASSUME q = p, link[p] = "open", outbox[p] = <<>>, inq'[p] = inq[p],
               NEW r \in Request, outbox'[p] = Packets(r)
        PROVE  Grammar(q)'
    <3> DEFINE u == Unread(p)
    <3>1. TypeOK /\ u \in Seq(Packet) /\ Grammar(p)
      BY <2>2, <2>5, QueueTypes DEF IInv, Engaged
    <3>2. Unread(p)' = u \o Packets(r)
      BY <2>5, <3>1, UnreadGrown
    <3> HIDE DEF u
    <3>3. PICK t : t = u \o Packets(r)
      OBVIOUS
    <3>4. Follows(p, t)
      BY <3>1, <3>3, FollowsGrown DEF Grammar, u
    <3>5. Follows(p, t)'
      BY <2>1, <2>5, <3>4, StillFollows
    <3>6. QED
      BY <2>5, <3>2, <3>3, <3>5 DEF Grammar
  <2>6. CASE /\ q = p /\ link[p] = "open" /\ outbox[p] # <<>>
             /\ inq'[p] = Append(inq[p], Head(outbox[p])) /\ outbox'[p] = Tail(outbox[p])
    <3>1. Unread(p)' = Unread(p)
      BY <2>6, UnreadSent DEF IInv
    <3>2. QED
      BY <2>1, <2>2, <2>6, <3>1, GrammarKept DEF Engaged
  <2>7. CASE q = p /\ link' = link /\ inq'[p] = inq[p] /\ outbox'[p] = outbox[p]
    <3>1. Unread(p)' = Unread(p) /\ Engaged(p)
      BY <1>3, <2>7 DEF Unread, Engaged
    <3>2. QED
      BY <2>1, <2>2, <2>7, <3>1, GrammarKept
  <2>8. CASE /\ q = p /\ link[p] = "open"
             /\ link'[p] = IF outq[p] = <<>> THEN "fin" ELSE "rst"
             /\ MayDie \/ (outbox[p] = <<>> /\ owed[p] = <<>>)
             /\ inq'[p] = inq[p] /\ outbox'[p] = <<>>
    <3>1. ~MayDie
      BY <1>3, <2>8 DEF Engaged
    <3>2. Unread(p)' = Unread(p) /\ Engaged(p)
      BY <2>8, <3>1 DEF Unread, Engaged
    <3>3. QED
      BY <2>1, <2>2, <2>8, <3>2, GrammarKept
  <2>9. QED
    BY <2>3, <2>4, <2>5, <2>6, <2>7, <2>8, PeerSteps
<1>4. QED
  BY <1>2, <1>3 DEF TalkOK, GrammarOK

LEMMA NextTalk == IInv /\ TalkOK /\ [Next]_vars => TalkOK'
<1> SUFFICES ASSUME IInv, TalkOK, [Next]_vars PROVE TalkOK'
  OBVIOUS
<1>1. CASE ServerStep
  BY <1>1, ServerTalk
<1>2. CASE \E p \in Peer : PeerStep(p)
  BY <1>2, PeerTalk
<1>3. CASE UNCHANGED vars
  <2>1. UNCHANGED <<table, phase, cur, transfer, link, inq, outq, wbuf, list, stored,
                    outbox, owed, sent>>
    BY <1>3 DEF vars, loop, net, heap, peers
  <2>2. NewcomersOK' /\ LeaversOK'
    BY <2>1 DEF TalkOK, NewcomersOK, LeaversOK, Unknown
  <2>3. ASSUME Survives', NEW p \in Peer, Engaged(p)'
        PROVE  Grammar(p)'
    <3>1. Grammar(p)
      BY <2>1, <2>3 DEF TalkOK, GrammarOK, Survives, Engaged
    <3>2. Unread(p)' = Unread(p) /\ (Transferring(p)' <=> Transferring(p))
      BY <2>1 DEF Unread, Transferring, Client
    <3>3. QED
      BY <2>1, <3>1, <3>2, GrammarKept
  <2>4. QED
    BY <2>2, <2>3 DEF TalkOK, GrammarOK
<1>4. QED
  BY <1>1, <1>2, <1>3 DEF Next, Rest

(* What has not been read is well-formed, whatever the peers do.           *)
LEMMA Talk == Spec => [](IInv /\ TalkOK)
<1>1. Init => IInv /\ TalkOK
  BY InitIInv, InitTalk
<1>2. IInv /\ TalkOK /\ [Next]_vars => IInv' /\ TalkOK'
  BY NextIInv, NextTalk
<1>3. QED
  BY <1>1, <1>2, PTL DEF Spec

-----------------------------------------------------------------------------
(* Replies, when a peer asks again only after the last reply.  No request  *)
(* that has a reply stands before the end of what is unread, and its reply *)
(* is what the peer waits for; else the peer waits for what is on its way. *)
Quiet(q) ==
  \A k \in 1 .. Len(q) - 1 : q[k].type = "command" => Replies(q[k].request) = <<>>

Awaited(q) ==
  IF q # <<>> /\ q[Len(q)].type = "command" THEN Replies(q[Len(q)].request) ELSE <<>>

Conversation(p) ==
  /\ Quiet(Unread(p))
  /\ \/ Unread(p) = <<>> /\ owed[p] = Replied(p)
     \/ Replied(p) = <<>> /\ owed[p] = Awaited(Unread(p))
  /\ phase = "write_list" /\ Client = p => wbuf[p] = Null

InOrder(p) == link[p] = "open" => StartsWith(owed[p], Replied(p))

OrderOK ==
  /\ \A p \in Peer : InOrder(p)
  /\ Survives => \A p \in Peer : Engaged(p) => Conversation(p)

LEMMA QuietTaken ==
  ASSUME NEW q \in Seq(Packet), q # <<>>, Quiet(q),
         q[1].type = "command" => Replies(q[1].request) = <<>>
  PROVE  Quiet(Tail(q)) /\ Awaited(Tail(q)) = Awaited(q)
<1>0. PICK t : t = Tail(q)
  OBVIOUS
<1>1. /\ t \in Seq(Packet) /\ Len(t) = Len(q) - 1 /\ Len(q) \in Nat \ {0} /\ Len(t) \in Nat
      /\ \A i \in 1 .. Len(t) : t[i] = q[i + 1]
      /\ t = <<>> => Len(t) = 0
  BY <1>0
<1>2. Quiet(t)
  <2>1. ASSUME NEW k \in 1 .. Len(t) - 1, t[k].type = "command"
        PROVE  Replies(t[k].request) = <<>>
    <3>1. t[k] = q[k + 1] /\ k + 1 \in 1 .. Len(q) - 1
      BY <1>1
    <3>2. QED
      BY <2>1, <3>1 DEF Quiet
  <2>2. QED
    BY <2>1 DEF Quiet
<1>3. CASE t = <<>>
  <2>1. Len(q) = 1
    BY <1>1, <1>3
  <2>2. QED
    BY <1>0, <1>1, <1>2, <1>3, <2>1 DEF Awaited
<1>4. CASE t # <<>>
  <2>1. t[Len(t)] = q[Len(q)]
    BY <1>1, <1>4
  <2>2. QED
    BY <1>0, <1>1, <1>2, <1>4, <2>1 DEF Awaited
<1>5. QED
  BY <1>0, <1>3, <1>4

LEMMA QuietGrown ==
  ASSUME NEW q \in Seq(Packet), NEW r \in Request, Quiet(q), Awaited(q) = <<>>
  PROVE  LET t == q \o Packets(r)
         IN  Quiet(t) /\ Awaited(t) = Replies(r) /\ t # <<>>
<1>1. PICK s \in Seq(Packet) :
        /\ s = Packets(r) /\ Len(s) \in Nat \ {0}
        /\ s[1] = Command(r)
        /\ ~Uploads(r) => Len(s) = 1
        /\ Uploads(r) => /\ Len(s) = Len(Chunks(r.size)) + 2
                         /\ s[2] = Integer(Len(Chunks(r.size)))
                         /\ \A i \in 1 .. Len(Chunks(r.size)) : s[2 + i] = Chunks(r.size)[i]
  BY PacketsShape
<1>2. s[1].type = "command" /\ s[1].request = r
  BY <1>1 DEF Command
<1>3. Uploads(r) => /\ Len(s) > 1 /\ Replies(r) = <<>>
                    /\ \A i \in 2 .. Len(s) : s[i].type # "command"
  <2>1. SUFFICES ASSUME Uploads(r)
                 PROVE  /\ Len(s) > 1 /\ Replies(r) = <<>>
                        /\ \A i \in 2 .. Len(s) : s[i].type # "command"
    OBVIOUS
  <2>2. Replies(r) = <<>>
    BY <2>1 DEF Uploads, Replies
  <2>3. r.size \in Nat
    BY RequestAssumption
  <2>4. PICK c \in Seq(Packet) :
          /\ c = Chunks(r.size) /\ Len(c) \in Nat \ {0}
          /\ \A i \in 1 .. Len(c) : c[i].type = "chunk" /\ (i < Len(c) => c[i].val # 0)
    BY <2>3, ChunksFormat
  <2>5. /\ Len(s) = Len(c) + 2 /\ s[2] = Integer(Len(c))
        /\ \A i \in 1 .. Len(c) : s[2 + i] = c[i]
    BY <1>1, <2>1, <2>4
  <2>6. s[2].type # "command"
    BY <2>5 DEF Integer
  <2>7. ASSUME NEW i \in 2 .. Len(s), i # 2
        PROVE  s[i].type # "command"
    <3>1. i - 2 \in 1 .. Len(c) /\ i = 2 + (i - 2)
      BY <2>4, <2>5, <2>7
    <3>2. s[i] = c[i - 2]
      BY <2>5, <3>1
    <3>3. QED
      BY <2>4, <3>1, <3>2
  <2>8. QED
    BY <2>2, <2>4, <2>5, <2>6, <2>7
<1>4. PICK t \in Seq(Packet) :
        /\ t = q \o s /\ Len(t) = Len(q) + Len(s) /\ Len(q) \in Nat
        /\ \A i \in 1 .. Len(q) : t[i] = q[i]
        /\ \A i \in 1 .. Len(s) : t[Len(q) + i] = s[i]
  <2>1. /\ q \o s \in Seq(Packet) /\ Len(q \o s) = Len(q) + Len(s)
        /\ \A i \in 1 .. Len(q) : (q \o s)[i] = q[i]
        /\ \A i \in 1 .. Len(s) : (q \o s)[Len(q) + i] = s[i]
    BY ConcatAt
  <2>2. Len(q) \in Nat
    OBVIOUS
  <2>3. QED
    BY <2>1, <2>2
<1>5. ASSUME NEW k \in 1 .. Len(t) - 1, t[k].type = "command"
      PROVE  Replies(t[k].request) = <<>>
  <2>1. CASE k < Len(q)
    <3>1. k \in 1 .. Len(q) - 1 /\ t[k] = q[k]
      BY <1>4, <2>1
    <3>2. QED
      BY <1>5, <3>1 DEF Quiet
  <2>2. CASE k = Len(q)
    <3>1. q # <<>> /\ t[k] = q[Len(q)]
      BY <1>4, <2>2
    <3>2. QED
      BY <1>5, <3>1 DEF Awaited
  <2>3. CASE k > Len(q)
    <3>1. k - Len(q) \in 1 .. Len(s) - 1 /\ k = Len(q) + (k - Len(q))
      BY <1>1, <1>4, <2>3
    <3>2. t[k] = s[k - Len(q)]
      BY <1>1, <1>4, <3>1
    <3>3. Uploads(r)
      <4>1. Len(s) # 1
        <5>1. Len(q) \in Nat
          BY <1>4
        <5>2. k \in Int
          BY <1>4
        <5>3. ASSUME Len(s) = 1 PROVE FALSE
          BY <3>1, <5>1, <5>2, <5>3
        <5>4. QED
          BY <5>3
      <4>2. QED
        BY <1>1, <4>1
    <3>4. k - Len(q) = 1
      <4>1. k - Len(q) \notin 2 .. Len(s)
        BY <1>3, <1>5, <3>2, <3>3
      <4>2. QED
        BY <1>1, <1>4, <3>1, <4>1
    <3>5. QED
      BY <1>2, <1>3, <3>2, <3>3, <3>4
  <2>4. QED
    BY <1>4, <2>1, <2>2, <2>3
<1>6. t # <<>> /\ t[Len(t)] = s[Len(s)]
  BY <1>1, <1>4
<1>7. Awaited(t) = Replies(r)
  <2>1. CASE Uploads(r)
    <3>1. Len(s) \in 2 .. Len(s)
      BY <1>1, <1>3, <2>1
    <3>2. QED
      BY <1>3, <1>6, <2>1, <3>1 DEF Awaited
  <2>2. CASE ~Uploads(r)
    BY <1>1, <1>2, <1>6, <2>2 DEF Awaited
  <2>3. QED
    BY <2>1, <2>2
<1>8. QED
  BY <1>1, <1>4, <1>5, <1>6, <1>7 DEF Quiet

LEMMA OrderTaken ==
  ASSUME NEW s \in Seq(Packet), NEW t \in Seq(Packet), s # <<>>, t # <<>>, StartsWith(s, t)
  PROVE  StartsWith(Tail(s), Tail(t))
<1> DEFINE a == Tail(s)
           b == Tail(t)
<1>1. /\ a \in Seq(Packet) /\ Len(a) = Len(s) - 1 /\ Len(s) \in Nat \ {0}
      /\ \A i \in 1 .. Len(a) : a[i] = s[i + 1]
      /\ b \in Seq(Packet) /\ Len(b) = Len(t) - 1 /\ Len(t) \in Nat \ {0}
      /\ \A i \in 1 .. Len(b) : b[i] = t[i + 1]
  OBVIOUS
<1>2. Len(t) <= Len(s) /\ \A i \in 1 .. Len(t) : t[i] = s[i]
  <2>1. Len(t) <= Len(s) /\ SubSeq(s, 1, Len(t)) = t
    BY DEF StartsWith
  <2>2. \A i \in 1 .. Len(t) : SubSeq(s, 1, Len(t))[i] = s[i]
    BY <1>1, <2>1
  <2>3. QED
    BY <2>1, <2>2
<1> HIDE DEF a, b
<1>3. PICK c \in Seq(Packet) : /\ c = SubSeq(a, 1, Len(b)) /\ Len(c) = Len(b)
                               /\ \A i \in 1 .. Len(b) : c[i] = a[i]
  <2>1. Len(b) \in 0 .. Len(a) /\ Len(b) \in Nat
    BY <1>1, <1>2
  <2>2. PICK n \in Nat : n = Len(b)
    BY <2>1
  <2>3. /\ SubSeq(a, 1, n) \in Seq(Packet) /\ Len(SubSeq(a, 1, n)) = n
        /\ \A i \in 1 .. n : SubSeq(a, 1, n)[i] = a[i]
    BY <1>1, <2>1, <2>2
  <2>4. QED
    BY <2>2, <2>3
<1>4. ASSUME NEW i \in 1 .. Len(c) PROVE c[i] = b[i]
  <2>1. /\ i \in 1 .. Len(a) /\ i \in 1 .. Len(b)
        /\ i + 1 \in 1 .. Len(t)
    BY <1>1, <1>2, <1>3
  <2>2. QED
    BY <1>1, <1>2, <1>3, <2>1
<1>5. c = b
  BY <1>1, <1>3, <1>4, PacketsAgree
<1>6. QED
  BY <1>1, <1>2, <1>3, <1>5 DEF StartsWith, a, b

LEMMA RepliesShape ==
  ASSUME NEW r \in Request
  PROVE  /\ Replies(r) \in Seq(Packet)
         /\ Replies(r) # <<>> => Accepted(r) /\ r.cmd \in {"ping", "file_recv"}
         /\ Accepted(r) /\ r.cmd = "ping" => Replies(r) # <<>> /\ Replies(r) = <<Pong>>
         /\ Accepted(r) /\ r.cmd = "file_recv" =>
              /\ Replies(r) # <<>>
              /\ Replies(r) = <<Integer(Len(Chunks(r.size)))>> \o Chunks(r.size)
<1>1. Replies(r) \in Seq(Packet)
  BY PacketsType
<1>2. PICK c \in Seq(Packet) : c = Chunks(r.size)
  BY RequestAssumption, ChunksShape
<1>3. PICK n \in Packet : n = Integer(Len(c))
  <2>1. Integer(Len(c)) \in Packet
    BY <1>2 DEF Integer, Packet
  <2>2. QED
    BY <2>1
<1>4. <<n>> \o c # <<>>
  BY <1>2, <1>3
<1>5. QED
  BY <1>1, <1>2, <1>3, <1>4 DEF Replies

LEMMA EmptyEnds ==
  ASSUME NEW s \in Seq(Packet)
  PROVE  <<>> \o s = s /\ s \o <<>> = s
OBVIOUS

(* Nothing replied: nothing written, and nothing left to write.            *)
LEMMA Silent ==
  ASSUME TypeOK, NEW p \in Peer
  PROVE  Replied(p) = <<>> <=> outq[p] = <<>> /\ wbuf[p] = Null /\ list[p] = <<>>
<1>1. PICK s \in Seq(Packet) : s = outq[p]
  BY QueueTypes
<1>2. PICK t \in Seq(Packet) : t = list[p]
  BY QueueTypes
<1>3. PICK w \in Packet \cup {Null} : w = wbuf[p]
  BY QueueTypes
<1>4. CASE w = Null
  <2>1. s \o (<<>> \o t) = <<>> <=> s = <<>> /\ t = <<>>
    BY EmptyEnds
  <2>2. QED
    BY <1>1, <1>2, <1>3, <1>4, <2>1 DEF Replied, Unsent
<1>5. CASE w # Null
  <2>1. w \in Packet
    BY <1>5
  <2>2. s \o (<<w>> \o t) # <<>>
    BY <2>1
  <2>3. QED
    BY <1>1, <1>2, <1>3, <1>5, <2>2 DEF Replied, Unsent
<1>6. QED
  BY <1>4, <1>5

LEMMA ConversationKept ==
  ASSUME NEW p \in Peer, Conversation(p), Unread(p)' = Unread(p),
         Replied(p)' = Replied(p), owed'[p] = owed[p],
         phase' = "write_list" /\ Client' = p => wbuf'[p] = Null
  PROVE  Conversation(p)'
<1>1. Quiet(Unread(p))'
  BY DEF Conversation
<1>2. QED
  BY <1>1 DEF Conversation

(* A command that has been read is replied to when it has a reply.         *)
LEMMA CommandConversation ==
  ASSUME IInv, NEW p \in Peer, TalkOf(p), p = Client, Conversation(p), read_event_handler,
         Survives', Engaged(p)'
  PROVE  Conversation(p)'
<1> DEFINE q == Unread(p)
           r == Head(inq[p]).request
<1>1. /\ inq[p] # <<>> /\ Head(inq[p]).type = "command" /\ r \in Request
      /\ process_command(p, r)
      /\ inq'[p] = Tail(inq[p]) /\ UNCHANGED <<cur, link, outq, peers>>
  BY CommandGrammar
<1>2. TypeOK /\ outbox'[p] = outbox[p] /\ owed'[p] = owed[p] /\ outq'[p] = outq[p]
  BY <1>1 DEF IInv, peers
<1>3. /\ q \in Seq(Packet) /\ q # <<>> /\ q[1] = Head(inq[p]) /\ Unread(p)' = Tail(q)
  BY <1>1, <1>2, UnreadTaken
<1>4. Quiet(q) /\ Replied(p) = <<>> /\ owed[p] = Awaited(q)
  BY <1>3 DEF Conversation
<1> HIDE DEF q
<1>5. outq[p] = <<>> /\ wbuf[p] = Null /\ list[p] = <<>>
  BY <1>2, <1>4, Silent
<1>6. phase' # "write_list"
  <2>1. r \in Request => r.file \in {"regular", "directory", "unopenable"}
    BY RequestAssumption
  <2>2. QED
    BY <1>1, <2>1 DEF process_command, ignore_command, ping_command, file_recv_command,
                      file_send_command, empty_command
<1>7. CASE Replies(r) = <<>>
  <2>1. wbuf'[p] = wbuf[p] /\ list'[p] = list[p]
    <3>1. ~(Accepted(r) /\ r.cmd \in {"ping", "file_recv"})
      BY <1>1, <1>7, RepliesShape
    <3>2. QED
      BY <1>1, <3>1 DEF process_command, ignore_command, file_send_command, empty_command
  <2>2. Replied(p)' = <<>>
    BY <1>2, <1>4, <2>1 DEF Replied, Unsent
  <2>3. Quiet(Tail(q)) /\ Awaited(Tail(q)) = Awaited(q)
    BY <1>1, <1>3, <1>4, <1>7, QuietTaken
  <2>4. QED
    BY <1>2, <1>3, <1>4, <1>6, <2>2, <2>3 DEF Conversation
<1>8. CASE Replies(r) # <<>>
  <2>1. Len(q) = 1
    <3>1. 1 \notin 1 .. Len(q) - 1
      BY <1>1, <1>3, <1>4, <1>8 DEF Quiet
    <3>2. PICK n \in Nat \ {0} : n = Len(q)
      BY <1>3
    <3>3. 1 \notin 1 .. n - 1 => n = 1
      OBVIOUS
    <3>4. QED
      BY <3>1, <3>2, <3>3
  <2>2. Tail(q) = <<>> /\ Awaited(q) = Replies(r)
    BY <1>1, <1>3, <2>1 DEF Awaited
  <2>3. Accepted(r) /\ r.cmd \in {"ping", "file_recv"}
    BY <1>1, <1>8, RepliesShape
  <2>4. Replied(p)' = Replies(r)
    <3>1. CASE r.cmd = "ping"
      <4>1. wbuf'[p] = Pong /\ list'[p] = <<>>
        BY <1>1, <1>2, <1>5, <2>3, <3>1 DEF process_command, ignore_command, ping_command, TypeOK
      <4>2. Pong # Null /\ Pong \in Packet
        BY PacketAssumption DEF Pong, Packet
      <4>3. PICK w \in Packet : w = Pong
        BY <4>2
      <4>4. <<>> \o (<<w>> \o <<>>) = <<w>>
        BY EmptyEnds
      <4>5. QED
        BY <1>1, <1>2, <1>5, <2>3, <3>1, <4>1, <4>2, <4>3, <4>4, RepliesShape
           DEF Replied, Unsent
    <3>2. CASE r.cmd = "file_recv"
      <4>1. PICK c \in Seq(Packet) : c = Chunks(r.size)
        BY <1>1, RequestAssumption, ChunksShape
      <4>2. PICK n \in Packet : n = Integer(Len(c)) /\ n # Null
        <5>1. Integer(Len(c)) \in Packet
          BY <4>1 DEF Integer, Packet
        <5>2. QED
          BY <5>1, PacketAssumption
      <4>3. file_recv_command(p, r)
        BY <1>1, <2>3, <3>2 DEF process_command, ignore_command
      <4>4. r.file = "regular"
        BY <1>1, <4>3, RequestAssumption DEF file_recv_command, Survives
      <4>5. wbuf'[p] = n /\ list'[p] = c
        BY <1>2, <4>1, <4>2, <4>3, <4>4 DEF file_recv_command, TypeOK
      <4>6. <<>> \o (<<n>> \o c) = <<n>> \o c
        BY <4>1, <4>2, EmptyEnds
      <4>7. QED
        BY <1>1, <1>2, <1>5, <2>3, <3>2, <4>1, <4>2, <4>5, <4>6, RepliesShape
           DEF Replied, Unsent
    <3>3. QED
      BY <2>3, <3>1, <3>2
  <2>5. Quiet(<<>>)
    BY DEF Quiet
  <2>6. QED
    BY <1>2, <1>3, <1>4, <1>6, <2>2, <2>4, <2>5 DEF Conversation
<1>9. QED
  BY <1>7, <1>8

(* What file_send_command reads has no reply.                              *)
LEMMA DataConversation ==
  ASSUME IInv, NEW p \in Peer, TalkOf(p), p = Client, Conversation(p), recv_integer \/ recv,
         Survives', Engaged(p)'
  PROVE  Conversation(p)'
<1> DEFINE q == Unread(p)
<1>1. inq[p] # <<>> /\ Head(inq[p]).type # "command"
  BY DataGrammar
<1>2. /\ TypeOK /\ UNCHANGED <<outq, wbuf, list, peers>>
      /\ phase' # "write_list" /\ inq' = [inq EXCEPT ![p] = Tail(@)]
  BY <1>1 DEF IInv, recv_integer, recv, Fclose, heap
<1>3. inq'[p] = Tail(inq[p]) /\ outbox'[p] = outbox[p] /\ owed'[p] = owed[p]
  BY <1>2 DEF TypeOK, peers
<1>4. q \in Seq(Packet) /\ q # <<>> /\ q[1] = Head(inq[p]) /\ Unread(p)' = Tail(q)
  BY <1>1, <1>2, <1>3, UnreadTaken
<1>5. Quiet(q) /\ Replied(p) = <<>> /\ owed[p] = Awaited(q)
  BY <1>4 DEF Conversation
<1> HIDE DEF q
<1>6. Quiet(Tail(q)) /\ Awaited(Tail(q)) = Awaited(q)
  BY <1>1, <1>4, <1>5, QuietTaken
<1>7. Replied(p)' = <<>>
  BY <1>2, <1>5 DEF Replied, Unsent
<1>8. QED
  BY <1>2, <1>3, <1>4, <1>5, <1>6, <1>7 DEF Conversation

LEMMA BufferMoved ==
  ASSUME NEW s \in Seq(Packet), NEW l \in Seq(Packet), NEW w \in Packet
  PROVE  Append(s, w) \o (<<>> \o l) = s \o (<<w>> \o l)
<1>1. PICK t \in Seq(Packet) : t = <<w>> \o l /\ t # <<>> /\ Head(t) = w /\ Tail(t) = l
  <2>1. /\ <<w>> \o l \in Seq(Packet) /\ <<w>> \o l # <<>> /\ Head(<<w>> \o l) = w
        /\ Len(Tail(<<w>> \o l)) = Len(l) /\ Tail(<<w>> \o l) \in Seq(Packet)
        /\ \A i \in 1 .. Len(l) : Tail(<<w>> \o l)[i] = l[i]
    OBVIOUS
  <2>2. Tail(<<w>> \o l) = l
    <3>1. PICK u \in Seq(Packet) : u = Tail(<<w>> \o l)
      BY <2>1
    <3>2. u = l
      BY <2>1, <3>1, PacketsAgree
    <3>3. QED
      BY <3>1, <3>2
  <2>3. QED
    BY <2>1, <2>2
<1>2. Append(s, Head(t)) \o Tail(t) = s \o t
  BY <1>1, HeadMoved
<1>3. <<>> \o l = l
  BY EmptyEnds
<1>4. QED
  BY <1>1, <1>2, <1>3

LEMMA ListMoved ==
  ASSUME NEW s \in Seq(Packet), NEW l \in Seq(Packet), l # <<>>
  PROVE  Append(s, Head(l)) \o (<<>> \o Tail(l)) = s \o (<<>> \o l)
<1>1. PICK t \in Seq(Packet) : t = Tail(l)
  <2>1. Tail(l) \in Seq(Packet)
    OBVIOUS
  <2>2. QED
    BY <2>1
<1>2. <<>> \o t = t /\ <<>> \o l = l
  BY EmptyEnds
<1>3. QED
  BY <1>1, <1>2, HeadMoved

(* Who is written to is still there, and is written what is due.           *)
LEMMA WriteConversation ==
  ASSUME IInv, NEW p \in Peer, TalkOf(p), p = Client, Conversation(p),
         write_buffer \/ write_list, Engaged(p)'
  PROVE  Conversation(p)'
<1>1. /\ phase' = "write_list" /\ Client' = p /\ UNCHANGED <<inq, peers>>
      /\ TypeOK /\ owed'[p] = owed[p] /\ Unread(p)' = Unread(p)
  BY DEF write_buffer, write_list, Client, IInv, Unread, peers
<1>2. Replied(p) # <<>>
  BY <1>1, Silent DEF write_buffer, write_list, IInv, EntryOK
<1>3. owed[p] # <<>>
  BY <1>2 DEF Conversation
<1>4. link[p] = "open"
  <2>1. link[p] # "fin"
    BY <1>3 DEF TalkOf
  <2>2. \E x : \E ok \in BOOLEAN : Put(p, x, ok)
    BY DEF write_buffer, write_list
  <2>3. QED
    BY <1>1, <2>1, <2>2 DEF Put, Engaged, TypeOK
<1>5. PICK s \in Seq(Packet) : s = outq[p]
  BY <1>1, QueueTypes
<1>6. PICK l \in Seq(Packet) : l = list[p]
  BY <1>1, QueueTypes
<1>7. wbuf'[p] = Null /\ Replied(p)' = Replied(p)
  <2>1. CASE write_buffer
    <3>1. wbuf[p] \in Packet
      BY <1>1, <2>1 DEF write_buffer, IInv, EntryOK, TypeOK
    <3>2. PICK w \in Packet : w = wbuf[p]
      BY <3>1
    <3>3. w # Null
      BY PacketAssumption, <3>2
    <3>4. /\ outq'[p] = Append(s, w) /\ wbuf'[p] = Null /\ list'[p] = l
      BY <1>1, <1>4, <1>5, <1>6, <2>1, <3>2 DEF write_buffer, Put, TypeOK
    <3>5. Append(s, w) \o (<<>> \o l) = s \o (<<w>> \o l)
      BY BufferMoved
    <3>6. QED
      BY <1>5, <1>6, <3>2, <3>3, <3>4, <3>5 DEF Replied, Unsent
  <2>2. CASE write_list
    <3>1. wbuf[p] = Null
      BY <2>2 DEF Conversation, write_list
    <3>2. l # <<>>
      BY <1>6, <2>2 DEF write_list
    <3>3. /\ outq'[p] = Append(s, Head(l)) /\ wbuf'[p] = Null /\ list'[p] = Tail(l)
      BY <1>1, <1>4, <1>5, <1>6, <2>2, <3>1 DEF write_list, Put, TypeOK
    <3>4. Append(s, Head(l)) \o (<<>> \o Tail(l)) = s \o (<<>> \o l)
      BY <3>2, ListMoved
    <3>5. QED
      BY <1>5, <1>6, <3>1, <3>3, <3>4 DEF Replied, Unsent
  <2>3. QED
    BY <2>1, <2>2
<1>8. QED
  BY <1>1, <1>7, ConversationKept

(* A command that crashes the server writes nothing.                       *)
LEMMA CrashKeeps ==
  ASSUME IInv, ServerStep, ~Survives', NEW p \in Peer, link'[p] = "open"
  PROVE  Replied(p)' = Replied(p)
<1>1. CASE \/ Poll \/ TakeEntry \/ BatchDone \/ SkipRead \/ SkipWrite
           \/ accept_tcp_handler \/ write_event_handler \/ write_done
  <2>1. Untouched(p)
    BY <1>1, IdleSteps
  <2>2. QED
    BY <2>1 DEF Untouched, Replied, Unsent
<1>2. CASE recv_integer \/ recv \/ recv_done \/ write_buffer \/ write_list
  <2>1. ~(recv_integer \/ write_buffer \/ write_list)
    BY DEF recv_integer, write_buffer, write_list, Survives
  <2>2. UNCHANGED <<outq, wbuf, list>>
    BY <1>2, <2>1 DEF recv, recv_done, net, heap
  <2>3. QED
    BY <2>2 DEF Replied, Unsent
<1>3. CASE read_event_handler
  <2>1. UNCHANGED <<wbuf, list, outq>>
    <3>1. ASSUME NEW c, NEW r \in Request \cup {Null}, process_command(c, r)
          PROVE  UNCHANGED <<wbuf, list>>
      <4>1. CASE ignore_command(r)
        BY <4>1 DEF ignore_command
      <4>2. CASE Accepted(r) /\ (ping_command(c) \/ file_send_command(r) \/ empty_command)
        BY <4>2 DEF Survives, ping_command, file_send_command, empty_command
      <4>3. CASE Accepted(r) /\ file_recv_command(c, r)
        <5>1. r.file \in {"regular", "directory", "unopenable"}
          BY <4>3, RequestAssumption DEF Accepted
        <5>2. QED
          BY <4>3, <5>1 DEF Survives, file_recv_command
      <4>4. QED
        BY <3>1, <4>1, <4>2, <4>3 DEF process_command
    <3>2. Client \in Peer /\ TypeOK
      BY <1>3, ReadsClient, Dispatched DEF read_event_handler, IInv
    <3>3. rbuf[Client] \in Request \cup {Null}
      BY <3>2 DEF TypeOK
    <3>4. inq[Client] # <<>> => Head(inq[Client]).request \in Request \cup {Null}
      <4>1. inq[Client] # <<>> => Head(inq[Client]) \in Packet
        BY <3>2 DEF TypeOK
      <4>2. QED
        BY <4>1 DEF Packet
    <3>5. ~(phase' = "write")
      BY DEF Survives
    <3>6. QED
      BY <1>3, <3>1, <3>3, <3>4, <3>5 DEF read_event_handler, heap
  <2>2. QED
    BY <2>1 DEF Replied, Unsent
<1>4. QED
  BY <1>1, <1>2, <1>3 DEF ServerStep

LEMMA ServerConversation ==
  ASSUME IInv, NEW p \in Peer, TalkOf(p), Survives /\ Engaged(p) => Conversation(p),
         ServerStep, Survives', Engaged(p)'
  PROVE  Conversation(p)'
<1>0. UNCHANGED peers
  BY DEF ServerStep, Poll, TakeEntry, BatchDone, SkipRead, SkipWrite,
     accept_tcp_handler, read_event_handler, recv_integer, recv, recv_done,
     write_event_handler, write_buffer, write_list, write_done
<1>1. link'[p] = link[p] /\ Engaged(p) /\ owed'[p] = owed[p]
  BY <1>0, LinkSteps DEF Engaged, peers
<1>2. CASE \/ Poll \/ TakeEntry \/ BatchDone \/ SkipRead \/ SkipWrite
           \/ accept_tcp_handler \/ write_event_handler \/ write_done
  <2>1. /\ Untouched(p)
        /\ phase \notin {"recv_num", "recv", "crashed", "hung"}
        /\ phase' \notin {"recv_num", "recv", "write_list"}
    BY <1>2, IdleSteps DEF Engaged
  <2>2. Conversation(p)
    BY <1>1, <2>1 DEF Survives
  <2>3. Unread(p)' = Unread(p) /\ Replied(p)' = Replied(p)
    BY <2>1 DEF Untouched, Unread, Replied, Unsent
  <2>4. QED
    BY <1>1, <2>1, <2>2, <2>3, ConversationKept
<1>3. CASE \/ read_event_handler \/ recv_integer \/ recv \/ recv_done
           \/ write_buffer \/ write_list
  <2>1. Conversation(p)
    BY <1>1, <1>3 DEF Survives, read_event_handler, recv_integer, recv, recv_done,
       write_buffer, write_list, CallRead
  <2>2. CASE p # Client
    <3>1. Untouched(p) /\ (phase' = "write_list" => Client' # p)
      BY <1>3, <2>2, Bystander
    <3>2. Unread(p)' = Unread(p) /\ Replied(p)' = Replied(p)
      BY <3>1 DEF Untouched, Unread, Replied, Unsent
    <3>3. QED
      BY <1>1, <2>1, <3>1, <3>2, ConversationKept
  <2>3. CASE p = Client /\ recv_done
    <3>1. UNCHANGED <<net, heap>> /\ phase' = "write"
      BY <2>3 DEF recv_done, Fclose, Survives
    <3>2. Unread(p)' = Unread(p) /\ Replied(p)' = Replied(p)
      BY <1>0, <3>1 DEF net, heap, peers, Unread, Replied, Unsent
    <3>3. QED
      BY <1>1, <2>1, <3>1, <3>2, ConversationKept
  <2>4. CASE p = Client /\ (read_event_handler \/ recv_integer \/ recv)
    BY <2>1, <2>4, CommandConversation, DataConversation
  <2>5. CASE p = Client /\ (write_buffer \/ write_list)
    BY <2>1, <2>5, WriteConversation
  <2>6. QED
    BY <1>3, <2>2, <2>3, <2>4, <2>5
<1>4. QED
  BY <1>2, <1>3 DEF ServerStep

LEMMA ServerOrder ==
  ASSUME IInv, IInv', TalkOK, OrderOK, ServerStep
  PROVE  OrderOK'
<1>1. UNCHANGED peers
  BY DEF ServerStep, Poll, TakeEntry, BatchDone, SkipRead, SkipWrite,
     accept_tcp_handler, read_event_handler, recv_integer, recv, recv_done,
     write_event_handler, write_buffer, write_list, write_done
<1>2. ASSUME Survives', NEW p \in Peer, Engaged(p)'
      PROVE  Conversation(p)'
  BY <1>2, ServerConversation, ClientTalks DEF OrderOK
<1>3. ASSUME NEW p \in Peer
      PROVE  InOrder(p)'
  <2>1. SUFFICES ASSUME link'[p] = "open"
                 PROVE  StartsWith(owed[p], Replied(p))'
    BY DEF InOrder
  <2>2. link[p] = "open" /\ owed'[p] = owed[p]
    BY <1>1, <2>1, LinkSteps DEF peers
  <2>3. CASE Survives'
    <3>1. Conversation(p)' /\ TypeOK'
      BY <1>2, <2>1, <2>3 DEF Engaged, IInv
    <3>2. PICK s \in Seq(Packet) : s = owed'[p]
      BY <3>1 DEF TypeOK
    <3>3. StartsWith(s, s) /\ StartsWith(s, <<>>)
      BY DEF StartsWith
    <3>4. QED
      BY <3>1, <3>2, <3>3 DEF Conversation
  <2>4. CASE ~Survives'
    BY <2>1, <2>2, <2>4, CrashKeeps DEF OrderOK, InOrder
  <2>5. QED
    BY <2>3, <2>4
<1>4. QED
  BY <1>2, <1>3 DEF OrderOK

(* One request more, of a peer that waits for nothing.                     *)
LEMMA ConversationGrown ==
  ASSUME TypeOK, NEW p \in Peer, Conversation(p), UNCHANGED <<loop, heap>>,
         outbox[p] = <<>>, owed[p] = <<>>, inq'[p] = inq[p], outq'[p] = outq[p],
         NEW r \in Request, outbox'[p] = Packets(r), owed'[p] = owed[p] \o Replies(r)
  PROVE  Conversation(p)'
<1>1. PICK u \in Seq(Packet) : u = Unread(p)
  BY QueueTypes
<1>2. Replied(p)' = Replied(p) /\ (phase' = "write_list" /\ Client' = p => wbuf'[p] = Null)
  BY DEF Conversation, Replied, Unsent, loop, heap, Client
<1>3. Awaited(<<>>) = <<>>
  BY DEF Awaited
<1>4. Quiet(u) /\ Awaited(u) = <<>> /\ Replied(p) = <<>>
  BY <1>1, <1>3 DEF Conversation
<1>5. owed'[p] = Replies(r)
  <2>1. PICK e \in Seq(Packet) : e = Replies(r)
    BY RepliesShape
  <2>2. QED
    BY <2>1, EmptyEnds
<1>6. Unread(p)' = u \o Packets(r)
  BY <1>1, UnreadGrown
<1>7. PICK t : t = u \o Packets(r) /\ Quiet(t) /\ Awaited(t) = Replies(r)
  BY <1>4, QuietGrown
<1>8. QED
  BY <1>2, <1>4, <1>5, <1>6, <1>7 DEF Conversation

(* One packet less to wait for.                                            *)
LEMMA ConversationReceived ==
  ASSUME TypeOK, NEW p \in Peer, Conversation(p), UNCHANGED <<loop, heap>>,
         inq'[p] = inq[p], outbox'[p] = outbox[p], outq[p] # <<>>, owed[p] # <<>>,
         outq'[p] = Tail(outq[p]), owed'[p] = Tail(owed[p])
  PROVE  Conversation(p)'
<1>1. PICK o \in Seq(Packet) : o = outq[p]
  BY QueueTypes
<1>2. PICK n \in Seq(Packet) : n = Unsent(p)
  BY QueueTypes
<1>3. /\ Unread(p)' = Unread(p) /\ Unsent(p)' = Unsent(p)
      /\ phase' = "write_list" /\ Client' = p => wbuf'[p] = Null
  BY DEF Conversation, Unread, Unsent, loop, heap, Client
<1>4. o \o n # <<>> /\ Tail(o) \o n = Tail(o \o n)
  BY <1>1
<1>5. Unread(p) = <<>> /\ owed[p] = o \o n /\ Quiet(<<>>)
  BY <1>1, <1>2, <1>4 DEF Conversation, Replied
<1>6. owed'[p] = Replied(p)'
  BY <1>1, <1>2, <1>3, <1>4, <1>5 DEF Replied
<1>7. QED
  BY <1>3, <1>5, <1>6 DEF Conversation

LEMMA PeerOrder ==
  ASSUME ~Pipelining, IInv, TalkOK, OrderOK, NEW p \in Peer, PeerStep(p)
  PROVE  OrderOK'
<1>1. /\ UNCHANGED <<loop, heap, stored>> /\ TypeOK
      /\ \A q \in Peer \ {p} : Untouched(q) /\ link'[q] = link[q]
  BY PeerSteps DEF IInv
<1>2. /\ wbuf' = wbuf /\ list' = list /\ phase' = phase /\ Client' = Client
      /\ Survives' <=> Survives
      /\ Unsent(p)' = Unsent(p)
  BY <1>1 DEF heap, loop, Client, Survives, Unsent
<1>4. PICK o \in Seq(Packet) : o = outq[p]
  BY <1>1, QueueTypes
<1>5. PICK n \in Seq(Packet) : n = Unsent(p)
  BY <1>1, QueueTypes
<1>6. PICK w \in Seq(Packet) : w = owed[p]
  BY <1>1, QueueTypes
<1>7. ASSUME NEW q \in Peer \ {p}
      PROVE  /\ InOrder(q)'
             /\ Survives' /\ Engaged(q)' => Conversation(q)'
  <2>1. Untouched(q) /\ link'[q] = link[q]
    BY <1>1
  <2>2. Unread(q)' = Unread(q) /\ Replied(q)' = Replied(q) /\ owed'[q] = owed[q]
    BY <2>1 DEF Untouched, Unread, Replied, Unsent
  <2>3. InOrder(q)'
    BY <2>1, <2>2 DEF InOrder, OrderOK
  <2>4. ASSUME Survives', Engaged(q)' PROVE Conversation(q)'
    <3>1. Conversation(q)
      BY <1>2, <2>1, <2>4 DEF OrderOK, Engaged
    <3>2. phase' = "write_list" /\ Client' = q => wbuf'[q] = Null
      BY <1>2, <3>1 DEF Conversation
    <3>3. QED
      BY <2>2, <3>1, <3>2, ConversationKept
  <2>5. QED
    BY <2>3, <2>4
<1> DEFINE Now   == InOrder(p) /\ (Survives /\ Engaged(p) => Conversation(p))
           After == InOrder(p)' /\ (Survives' /\ Engaged(p)' => Conversation(p)')
<1>8. Now
  BY DEF OrderOK
<1>9. ASSUME Unknown(p)' PROVE After
  <2>1. /\ Unread(p)' = <<>> /\ Replied(p)' = <<>> /\ owed'[p] = <<>> /\ wbuf'[p] = Null
    BY <1>9 DEF Unknown, Unread, Replied, Unsent
  <2>2. StartsWith(<<>>, <<>>) /\ Quiet(<<>>)
    BY DEF StartsWith, Quiet
  <2>3. QED
    BY <2>1, <2>2 DEF InOrder, Conversation
<1>10. ASSUME link[p] = "open", link' = link, outbox[p] = <<>>,
              NEW r \in Request, inq'[p] = inq[p], outq'[p] = outq[p],
              outbox'[p] = Packets(r), owed'[p] = owed[p] \o Replies(r), owed[p] = <<>>
       PROVE  After
  <2>1. Replied(p) = <<>> /\ Replied(p)' = <<>>
    <3>1. PICK s \in Seq(Packet) : s = Replied(p)
      BY <1>1, QueueTypes
    <3>2. StartsWith(<<>>, s)
      BY <1>8, <1>10, <3>1 DEF InOrder
    <3>3. s = <<>>
      BY <3>2 DEF StartsWith
    <3>4. QED
      BY <1>2, <1>10, <3>1, <3>3 DEF Replied
  <2>2. PICK e \in Seq(Packet) : e = Replies(r) /\ owed'[p] = e
    BY <1>10, RepliesShape, EmptyEnds
  <2>3. InOrder(p)'
    BY <2>1, <2>2 DEF InOrder, StartsWith
  <2>4. ASSUME Survives', Engaged(p)' PROVE Conversation(p)'
    <3>1. Conversation(p)
      BY <1>2, <1>8, <1>10, <2>4 DEF Engaged
    <3>2. QED
      BY <1>1, <1>10, <3>1, ConversationGrown
  <2>5. QED
    BY <2>3, <2>4
<1>11. ASSUME link[p] = "open", link' = link, outbox[p] # <<>>,
              inq'[p] = Append(inq[p], Head(outbox[p])), outbox'[p] = Tail(outbox[p]),
              outq'[p] = outq[p], owed'[p] = owed[p]
       PROVE  After
  <2>1. Unread(p)' = Unread(p)
    BY <1>1, <1>11, UnreadSent
  <2>2. Replied(p)' = Replied(p)
    BY <1>2, <1>11 DEF Replied
  <2>3. InOrder(p)'
    BY <1>8, <1>11, <2>2 DEF InOrder
  <2>4. ASSUME Survives', Engaged(p)' PROVE Conversation(p)'
    <3>1. Conversation(p)
      BY <1>2, <1>8, <1>11, <2>4 DEF Engaged
    <3>2. phase' = "write_list" /\ Client' = p => wbuf'[p] = Null
      BY <1>2, <3>1 DEF Conversation
    <3>3. QED
      BY <1>11, <2>1, <2>2, <3>1, <3>2, ConversationKept
  <2>5. QED
    BY <2>3, <2>4
<1>12. ASSUME link' = link, inq'[p] = inq[p], outbox'[p] = outbox[p],
              outq[p] # <<>>, owed[p] # <<>>,
              outq'[p] = Tail(outq[p]), owed'[p] = Tail(owed[p])
       PROVE  After
  <2>1. Unread(p)' = Unread(p)
    BY <1>12 DEF Unread
  <2>2. PICK s \in Seq(Packet) : s = o \o n /\ s # <<>> /\ Tail(o) \o n = Tail(s)
    <3>1. o # <<>>
      BY <1>4, <1>12
    <3>2. o \o n \in Seq(Packet) /\ o \o n # <<>> /\ Tail(o) \o n = Tail(o \o n)
      BY <3>1
    <3>3. QED
      BY <3>2
  <2>3. Replied(p) = s /\ Replied(p)' = Tail(s)
    BY <1>2, <1>4, <1>5, <1>12, <2>2 DEF Replied
  <2>4. InOrder(p)'
    <3>1. SUFFICES ASSUME link[p] = "open" PROVE StartsWith(Tail(w), Tail(s))
      BY <1>6, <1>12, <2>3 DEF InOrder
    <3>2. StartsWith(w, s)
      BY <1>6, <1>8, <2>3, <3>1 DEF InOrder
    <3>3. QED
      BY <1>6, <1>12, <2>2, <3>2, OrderTaken
  <2>5. ASSUME Survives', Engaged(p)' PROVE Conversation(p)'
    <3>1. Conversation(p)
      BY <1>2, <1>8, <1>12, <2>5 DEF Engaged
    <3>2. QED
      BY <1>1, <1>12, <3>1, ConversationReceived
  <2>6. QED
    BY <2>4, <2>5
<1>13. ASSUME link[p] = "open", link'[p] = IF outq[p] = <<>> THEN "fin" ELSE "rst",
              MayDie \/ (outbox[p] = <<>> /\ owed[p] = <<>>),
              inq'[p] = inq[p], outq'[p] = <<>>, outbox'[p] = <<>>, owed'[p] = <<>>
       PROVE  After
  <2>1. InOrder(p)'
    BY <1>13 DEF InOrder
  <2>2. ASSUME Survives', Engaged(p)' PROVE Conversation(p)'
    <3>1. Conversation(p)
      BY <1>2, <1>8, <1>13, <2>2 DEF Engaged
    <3>2. outq[p] = <<>> /\ outbox[p] = <<>> /\ owed[p] = <<>>
      BY <1>13, <2>2 DEF Engaged
    <3>3. Unread(p)' = Unread(p) /\ Replied(p)' = Replied(p)
      BY <1>2, <1>13, <3>2 DEF Unread, Replied
    <3>4. phase' = "write_list" /\ Client' = p => wbuf'[p] = Null
      BY <1>2, <3>1 DEF Conversation
    <3>5. QED
      BY <1>13, <3>1, <3>2, <3>3, <3>4, ConversationKept
  <2>3. QED
    BY <2>1, <2>2
<1> HIDE DEF After
<1>14. After
  <2>1. CASE Connect(p) /\ Unknown(p)'
    BY <1>9, <2>1
  <2>2. CASE /\ link[p] = "open" /\ link' = link /\ outbox[p] = <<>>
             /\ \E r \in Request : /\ inq'[p] = inq[p] /\ outq'[p] = outq[p]
                                   /\ outbox'[p] = Packets(r)
                                   /\ owed'[p] = owed[p] \o Replies(r)
                                   /\ Pipelining \/ owed[p] = <<>>
    BY <1>10, <2>2
  <2>3. QED
    BY <1>11, <1>12, <1>13, <2>1, <2>2, PeerSteps
<1>15. QED
  BY <1>7, <1>14 DEF OrderOK, After

LEMMA NextOrder ==
  ASSUME ~Pipelining, IInv, IInv', TalkOK, OrderOK, [Next]_vars
  PROVE  OrderOK'
<1>1. CASE ServerStep
  BY <1>1, ServerOrder
<1>2. CASE \E p \in Peer : PeerStep(p)
  BY <1>2, PeerOrder
<1>3. CASE UNCHANGED vars
  <2>1. UNCHANGED <<table, phase, cur, link, inq, outq, wbuf, list, outbox, owed>>
    BY <1>3 DEF vars, loop, net, heap, peers
  <2>2. \A p \in Peer : Unread(p)' = Unread(p) /\ Replied(p)' = Replied(p)
    BY <2>1 DEF Unread, Replied, Unsent
  <2>3. \A p \in Peer : InOrder(p)'
    BY <2>1, <2>2 DEF OrderOK, InOrder
  <2>4. ASSUME Survives', NEW p \in Peer, Engaged(p)'
        PROVE  Conversation(p)'
    <3>1. Conversation(p)
      BY <2>1, <2>4 DEF OrderOK, Survives, Engaged
    <3>2. phase' = "write_list" /\ Client' = p => wbuf'[p] = Null
      BY <2>1, <3>1 DEF Conversation, Client
    <3>3. QED
      BY <2>1, <2>2, <3>1, <3>2, ConversationKept
  <2>5. QED
    BY <2>3, <2>4 DEF OrderOK
<1>4. QED
  BY <1>1, <1>2, <1>3 DEF Next, Rest

LEMMA Order == ASSUME ~Pipelining PROVE Spec => [](IInv /\ TalkOK /\ OrderOK)
<1>1. Init => IInv /\ TalkOK /\ OrderOK
  <2>1. Init => \A p \in Peer : link[p] = "none"
    BY DEF Init
  <2>2. QED
    BY <2>1, InitIInv, InitTalk DEF OrderOK, InOrder, Engaged
<1>2. IInv /\ TalkOK /\ OrderOK /\ [Next]_vars => IInv' /\ TalkOK' /\ OrderOK'
  BY NextIInv, NextTalk, NextOrder
<1>3. QED
  BY <1>1, <1>2, PTL DEF Spec

(* A peer that asks again only when it has the last reply gets the replies *)
(* it is owed, in order and unmixed, for any number of peers and requests, *)
(* whatever becomes of other connections and even from a server that has   *)
(* crashed since: what is left of the reply is left in order.              *)
THEOREM RepliesInOrder == ASSUME ~Pipelining PROVE Spec => []ReplyCorrect
<1>1. OrderOK => ReplyCorrect
  BY DEF OrderOK, InOrder, ReplyCorrect, Replied
<1>2. QED
  BY <1>1, Order, PTL

-----------------------------------------------------------------------------
(* The server among peers that ask for files it can open and leave only    *)
(* between requests, as a user at the prompt of client.cpp does.           *)
Polite ==
  \A r \in Request :
    /\ r.argc # 0
    /\ Accepted(r) /\ r.cmd \in {"file_send", "file_recv"} => r.file = "regular"

StayOK ==
  /\ Survives
  /\ phase \in {"recv_num", "recv"} => transfer.file = "regular"
  /\ \A p \in Peer : /\ link[p] \in {"none", "open", "fin", "closed"}
                     /\ link[p] = "closed" => obj[p] = "freed"

(* A client that is served is there, or has left between requests.         *)
LEMMA Served ==
  ASSUME ~MayDie, IInv, StayOK, NEW p \in Peer, Live(p)
  PROVE  Engaged(p)
BY DEF IInv, QueueOK, StayOK, Engaged, Live

(* There is more to come as long as file_send_command reads.               *)
LEMMA MoreToCome ==
  ASSUME IInv, TalkOK, NEW p \in Peer, p = Client, Engaged(p),
         phase = "recv_num" \/ (phase = "recv" /\ transfer.left > 0)
  PROVE  Unread(p) # <<>> /\ (Readable(p) => inq[p] # <<>>)
<1>1. Grammar(p) /\ Transferring(p) /\ TypeOK /\ transfer.left \in Nat
  BY DEF TalkOK, GrammarOK, Survives, Transferring, IInv, TypeOK
<1>2. Unread(p) # <<>>
  BY <1>1 DEF Grammar, Follows, CountAt, FileAt
<1>3. ASSUME Readable(p), inq[p] = <<>> PROVE FALSE
  <2>1. link[p] = "fin"
    BY <1>3 DEF Readable, Engaged
  <2>2. Unread(p) = <<>>
    BY <1>3, <2>1 DEF TalkOK, LeaversOK, Unread
  <2>3. QED
    BY <1>2, <2>2
<1>4. QED
  BY <1>2, <1>3

(* A client that is replied to waits for the reply.                        *)
LEMMA WaitsForReply ==
  ASSUME IInv, TalkOK, OrderOK, Survives, NEW p \in Peer, Engaged(p), Replied(p) # <<>>
  PROVE  link[p] = "open" /\ outbox[p] = <<>> /\ owed[p] # <<>>
<1>1. Conversation(p) /\ inq[p] \in Seq(Packet) /\ outbox[p] \in Seq(Packet)
  BY QueueTypes DEF OrderOK, IInv
<1>2. Unread(p) = <<>> /\ owed[p] # <<>>
  BY <1>1 DEF Conversation
<1>3. outbox[p] = <<>>
  BY <1>1, <1>2 DEF Unread
<1>4. QED
  BY <1>2, <1>3 DEF Engaged, TalkOK, LeaversOK

LEMMA CommandStays ==
  ASSUME Polite, TypeOK, NEW c, NEW r \in Request \cup {Null}, process_command(c, r),
         phase = "read"
  PROVE  Survives' /\ (phase' \in {"recv_num", "recv"} => transfer'.file = "regular")
<1>1. CASE ignore_command(r)
  BY <1>1 DEF Polite, ignore_command, Survives
<1>2. CASE Accepted(r) /\ (ping_command(c) \/ empty_command)
  BY <1>2 DEF ping_command, empty_command, Survives
<1>3. CASE /\ Accepted(r) /\ r.cmd \in {"file_recv", "file_send"}
           /\ file_recv_command(c, r) \/ file_send_command(r)
  <2>1. r.file = "regular"
    BY <1>3 DEF Polite, Accepted
  <2>2. QED
    BY <1>3, <2>1 DEF file_recv_command, file_send_command, Survives
<1>4. QED
  BY <1>1, <1>2, <1>3 DEF process_command

LEMMA ServerStays ==
  ASSUME ~MayDie, Polite, IInv, TalkOK, OrderOK, StayOK, ServerStep
  PROVE  StayOK'
<1> DEFINE c == Client
           LinksOK == \A p \in Peer : /\ link[p] \in {"none", "open", "fin", "closed"}
                                      /\ link[p] = "closed" => obj[p] = "freed"
<1>0. /\ link \in [Peer -> Link] /\ obj \in [Peer -> {"none", "live", "freed"}]
      /\ TypeOK /\ LinksOK
  BY DEF IInv, TypeOK, StayOK
<1>1. \A q \in Peer : Delete(q) => LinksOK'
  BY <1>0 DEF Delete
<1>2. UNCHANGED <<link, obj>> => LinksOK'
  BY <1>0
<1>3. c \in Peer => link[c] # "rst" /\ (AfterError(c) = link)
  BY <1>0 DEF AfterError
<1>4. CASE \/ Poll \/ TakeEntry \/ BatchDone \/ SkipRead \/ SkipWrite \/ write_done
  BY <1>2, <1>4 DEF Poll, TakeEntry, BatchDone, SkipRead, SkipWrite, write_done, net, heap,
     StayOK, Survives
<1>5. CASE write_event_handler
  <2>1. c \in Peer
    BY <1>5, WritesClient, Dispatched DEF write_event_handler
  <2>2. phase' \in {"next", "write_buf"} /\ LinksOK'
    BY <1>1, <1>2, <1>5, <2>1 DEF write_event_handler, net, heap
  <2>3. QED
    BY <2>2 DEF StayOK, Survives
<1>6. CASE accept_tcp_handler
  <2>1. phase' = "write"
    BY <1>6 DEF accept_tcp_handler
  <2>2. ASSUME NEW p, NEW fd \in FreeFds, NEW accepted \in BOOLEAN, Accepts(p, fd, accepted)
        PROVE  LinksOK'
    <3>1. p \in Peer /\ obj[p] = "none"
      BY <2>2, AcceptEffect DEF AcceptedAt
    <3>2. QED
      BY <1>0, <2>2, <3>1 DEF Accepts
  <2>3. LinksOK'
    BY <1>2, <1>6, <2>2, AcceptCases DEF net, heap
  <2>4. QED
    BY <2>1, <2>3 DEF StayOK, Survives
<1>7. CASE read_event_handler
  <2>1. /\ c \in Peer /\ phase = "read"
    BY <1>7, ReadsClient, Dispatched DEF read_event_handler, CallRead
  <2>2. CASE Delete(c) /\ phase' = "write"
    BY <1>1, <2>1, <2>2 DEF StayOK, Survives
  <2>3. CASE /\ inq[c] # <<>> /\ process_command(c, Head(inq[c]).request)
             /\ UNCHANGED <<backlog, fdOf, link, outq>>
    <3>1. Head(inq[c]) \in Packet
      BY <1>0, <2>1, <2>3 DEF TypeOK
    <3>2. PICK r \in Request \cup {Null} : process_command(c, r)
      BY <2>3, <3>1 DEF Packet
    <3>3. Survives' /\ (phase' \in {"recv_num", "recv"} => transfer'.file = "regular")
      BY <1>0, <2>1, <3>2, CommandStays
    <3>4. LinksOK'
      BY <1>2, <2>3, <3>2 DEF process_command
    <3>5. QED
      BY <3>3, <3>4 DEF StayOK
  <2>4. QED
    BY <1>3, <1>7, <2>1, <2>2, <2>3 DEF read_event_handler
<1>8. CASE recv_integer \/ recv \/ recv_done
  <2>1. c \in Peer /\ Engaged(c) /\ transfer.file = "regular"
    BY <1>8, Served DEF recv_integer, recv, recv_done, IInv, NoDangling, InHandler, StayOK
  <2>2. UNCHANGED <<link, obj>>
    BY <1>3, <1>8, <2>1 DEF recv_integer, recv, recv_done, net, heap
  <2>3. CASE recv_integer
    BY <1>0, <1>2, <2>1, <2>2, <2>3 DEF recv_integer, StayOK, Survives, TypeOK
  <2>4. CASE recv
    <3>1. inq[c] # <<>>
      BY <2>1, <2>4, MoreToCome DEF recv
    <3>2. \/ phase' = "write"
          \/ phase' = "recv" /\ transfer' = [transfer EXCEPT !.left = @ - 1]
      BY <2>1, <2>4, <3>1 DEF recv, Fclose
    <3>3. QED
      BY <1>0, <1>2, <2>1, <2>2, <3>2 DEF StayOK, Survives, TypeOK
  <2>5. CASE recv_done
    BY <1>2, <2>1, <2>2, <2>5 DEF recv_done, Fclose, StayOK, Survives
  <2>6. QED
    BY <1>8, <2>3, <2>4, <2>5
<1>9. CASE write_buffer \/ write_list
  <2>1. c \in Peer /\ Engaged(c) /\ phase' = "write_list" /\ obj' = obj
    BY <1>9, Served DEF write_buffer, write_list, IInv, NoDangling, InHandler
  <2>2. Replied(c) # <<>>
    BY <1>0, <1>9, <2>1, Silent DEF write_buffer, write_list, IInv, EntryOK
  <2>3. link[c] = "open"
    BY <2>1, <2>2, WaitsForReply DEF StayOK
  <2>4. link' = link
    BY <1>9, <2>3 DEF write_buffer, write_list, Put
  <2>5. QED
    BY <1>2, <2>1, <2>4 DEF StayOK, Survives
<1>10. QED
  BY <1>4, <1>5, <1>6, <1>7, <1>8, <1>9 DEF ServerStep

LEMMA PeerStays ==
  ASSUME ~MayDie, IInv, TalkOK, OrderOK, StayOK, NEW p \in Peer, PeerStep(p)
  PROVE  StayOK'
<1>1. UNCHANGED <<phase, transfer, obj>>
  BY PeerSteps DEF loop, heap
<1>2. /\ link \in [Peer -> Link]
      /\ \A q \in Peer : /\ link[q] \in {"none", "open", "fin", "closed"}
                         /\ link[q] = "closed" => obj[q] = "freed"
  BY DEF IInv, TypeOK, StayOK
<1>3. CASE link' = link
  BY <1>1, <1>2, <1>3 DEF StayOK, Survives
<1>4. CASE Connect(p)
  BY <1>1, <1>2, <1>4 DEF Connect, StayOK, Survives
<1>5. CASE Close(p)
  <2>1. link[p] = "open" /\ owed[p] = <<>>
    BY <1>5 DEF Close
  <2>2. outq[p] = <<>>
    <3>1. Replied(p) = <<>>
      BY <2>1, WaitsForReply DEF Engaged, StayOK
    <3>2. QED
      BY <3>1, Silent DEF IInv
  <2>3. link' = [link EXCEPT ![p] = "fin"]
    BY <1>5, <2>1, <2>2 DEF Close, Exit
  <2>4. QED
    BY <1>1, <1>2, <2>3 DEF StayOK, Survives
<1>6. QED
  BY <1>3, <1>4, <1>5 DEF PeerStep, Submit, Compose, Flush, Receive, net

LEMMA Stays ==
  ASSUME ~Pipelining, ~MayDie, Polite
  PROVE  Spec => [](IInv /\ TalkOK /\ OrderOK /\ StayOK)
<1>1. Init => StayOK
  BY DEF Init, StayOK, Survives
<1>2. IInv /\ TalkOK /\ OrderOK /\ StayOK /\ [Next]_vars => StayOK'
  <2> SUFFICES ASSUME IInv, TalkOK, OrderOK, StayOK, [Next]_vars PROVE StayOK'
    OBVIOUS
  <2>1. CASE UNCHANGED vars
    BY <2>1 DEF vars, loop, net, heap, StayOK, Survives
  <2>2. QED
    BY <2>1, ServerStays, PeerStays DEF Next, Rest
<1>3. QED
  BY <1>1, <1>2, Order, PTL DEF Spec

(* Among polite peers that ask again only when they have the last reply,   *)
(* the server neither crashes nor hangs, and whenever a handler is blocked *)
(* in a read or a write, it is the peer's turn: it still has packets to    *)
(* send that the server reads, or a reply to receive that it waits for.    *)
THEOREM WaitsForPeersOnly ==
  ASSUME ~Pipelining, ~MayDie, Polite
  PROVE  Spec => []StallsForItsPeer
<1>1. IInv /\ TalkOK /\ OrderOK /\ StayOK => StallsForItsPeer
  <2> SUFFICES ASSUME IInv, TalkOK, OrderOK, StayOK PROVE StallsForItsPeer
    OBVIOUS
  <2>1. Survives /\ TypeOK
    BY DEF StayOK, IInv
  <2>2. ASSUME phase = "recv_num" \/ (phase = "recv" /\ transfer.left > 0), ~Readable(Client)
        PROVE  outbox[Client] # <<>>
    <3>1. Client \in Peer /\ Engaged(Client)
      BY <2>2, Served DEF IInv, NoDangling, InHandler
    <3>2. PICK p \in Peer : p = Client
      BY <3>1
    <3>3. Unread(p) # <<>> /\ inq[p] = <<>>
      BY <2>2, <3>1, <3>2, MoreToCome DEF Readable
    <3>4. QED
      BY <3>2, <3>3 DEF Unread
  <2>3. ASSUME phase \in {"write_buf", "write_list"}, ~Writable(Client)
        PROVE  outbox[Client] = <<>> /\ owed[Client] # <<>>
    <3>1. Client \in Peer /\ Engaged(Client)
      BY <2>3, Served DEF IInv, NoDangling, InHandler
    <3>2. PICK p \in Peer : p = Client
      BY <3>1
    <3>3. outq[p] # <<>>
      BY <2>3, <3>2, ServerAssumption DEF Writable
    <3>4. Replied(p) # <<>>
      BY <2>1, <3>3, Silent
    <3>5. QED
      BY <2>1, <3>1, <3>2, <3>4, WaitsForReply
  <2>4. QED
    BY <2>1, <2>2, <2>3 DEF StallsForItsPeer
<1>2. QED
  BY <1>1, Stays, PTL

-----------------------------------------------------------------------------
(* Files.  What has been stored, st, is the beginning of what was sent,    *)
(* se, and the rest is the file data in what is unread, q, in order.       *)
FileData(x) == x.type = "chunk" /\ x.val # 0

Carries(st, se, q, n, f) ==
  /\ Len(se) = Len(st) + n
  /\ \A i \in 1 .. Len(st) : se[i] = st[i]
  /\ \A i \in 1 .. n : se[Len(st) + i] = q[f[i]] /\ FileData(q[f[i]])
  /\ \A i, j \in 1 .. n : i < j => f[i] < f[j]
  /\ \A k \in 1 .. Len(q) : FileData(q[k]) => \E i \in 1 .. n : f[i] = k

Inflight(st, se, q) == \E n \in Nat : \E f \in [1 .. n -> 1 .. Len(q)] : Carries(st, se, q, n, f)

LEMMA NothingInflight ==
  /\ Inflight(<<>>, <<>>, <<>>)
  /\ \A st, se \in Seq(Packet) : Inflight(st, se, <<>>) => st = se
<1>1. Inflight(<<>>, <<>>, <<>>)
  <2>1. PICK f : f = [i \in 1 .. 0 |-> 1]
    OBVIOUS
  <2>2. f \in [1 .. 0 -> 1 .. Len(<<>>)]
    BY <2>1
  <2>3. Carries(<<>>, <<>>, <<>>, 0, f)
    BY DEF Carries
  <2>4. QED
    BY <2>2, <2>3 DEF Inflight
<1>2. ASSUME NEW st \in Seq(Packet), NEW se \in Seq(Packet), Inflight(st, se, <<>>)
      PROVE  st = se
  <2>1. PICK n \in Nat : \E f \in [1 .. n -> 1 .. Len(<<>>)] : Carries(st, se, <<>>, n, f)
    BY <1>2 DEF Inflight
  <2>2. PICK f \in [1 .. n -> 1 .. Len(<<>>)] : Carries(st, se, <<>>, n, f)
    BY <2>1
  <2>3. n = 0
    <3>1. n # 0 => f[1] \in 1 .. Len(<<>>)
      BY <2>2
    <3>2. QED
      BY <2>1, <3>1
  <2>4. Len(st) = Len(se) /\ \A i \in 1 .. Len(st) : st[i] = se[i]
    BY <2>2, <2>3 DEF Carries
  <2>5. QED
    BY <2>4, PacketsAgree
<1>3. QED
  BY <1>1, <1>2

LEMMA StoredFirst ==
  ASSUME NEW st \in Seq(Packet), NEW se \in Seq(Packet), NEW q, Inflight(st, se, q)
  PROVE  StartsWith(se, st)
<1>1. PICK n \in Nat : Len(se) = Len(st) + n /\ \A i \in 1 .. Len(st) : se[i] = st[i]
  BY DEF Inflight, Carries
<1>2. PICK m \in Nat : m = Len(st)
  OBVIOUS
<1>3. m \in 0 .. Len(se) /\ Len(se) \in Nat
  BY <1>1, <1>2
<1>4. PICK t \in Seq(Packet) : t = SubSeq(se, 1, m) /\ Len(t) = m /\ \A i \in 1 .. m : t[i] = se[i]
  <2>1. /\ SubSeq(se, 1, m) \in Seq(Packet) /\ Len(SubSeq(se, 1, m)) = m
        /\ \A i \in 1 .. m : SubSeq(se, 1, m)[i] = se[i]
    BY <1>3
  <2>2. QED
    BY <2>1
<1>5. t = st
  BY <1>1, <1>2, <1>4, PacketsAgree
<1>6. QED
  BY <1>2, <1>3, <1>4, <1>5 DEF StartsWith

(* Another packet is taken; file data is taken and stored.                 *)
LEMMA OtherTaken ==
  ASSUME NEW st \in Seq(Packet), NEW se \in Seq(Packet), NEW q \in Seq(Packet),
         q # <<>>, ~FileData(q[1]), Inflight(st, se, q)
  PROVE  Inflight(st, se, Tail(q))
<1>1. PICK n \in Nat : \E f \in [1 .. n -> 1 .. Len(q)] : Carries(st, se, q, n, f)
  BY DEF Inflight
<1>2. PICK f \in [1 .. n -> 1 .. Len(q)] : Carries(st, se, q, n, f)
  BY <1>1
<1>3. PICK t : t = Tail(q)
  OBVIOUS
<1>4. /\ Len(t) = Len(q) - 1 /\ Len(t) \in Nat /\ Len(q) \in Nat
      /\ \A i \in 1 .. Len(t) : t[i] = q[i + 1]
  BY <1>3
<1>5. PICK g : g = [i \in 1 .. n |-> f[i] - 1]
  OBVIOUS
<1>6. \A i \in 1 .. n : /\ f[i] \in 2 .. Len(q) /\ g[i] = f[i] - 1
                        /\ g[i] \in 1 .. Len(t) /\ t[g[i]] = q[f[i]]
  <2>1. ASSUME NEW i \in 1 .. n
        PROVE  /\ f[i] \in 2 .. Len(q) /\ g[i] = f[i] - 1
               /\ g[i] \in 1 .. Len(t) /\ t[g[i]] = q[f[i]]
    <3>1. f[i] \in 1 .. Len(q) /\ FileData(q[f[i]])
      BY <1>2 DEF Carries
    <3>2. f[i] # 1
      BY <3>1
    <3>3. PICK k \in 2 .. Len(q) : k = f[i]
      BY <1>4, <3>1, <3>2
    <3>4. k - 1 \in 1 .. Len(t) /\ (k - 1) + 1 = k
      BY <1>4
    <3>5. t[k - 1] = q[k]
      BY <1>4, <3>4
    <3>6. QED
      BY <1>5, <3>3, <3>4, <3>5
  <2>2. QED
    BY <2>1
<1>7. g \in [1 .. n -> 1 .. Len(t)]
  BY <1>5, <1>6
<1>8. Carries(st, se, t, n, g)
  <2>1. /\ Len(se) = Len(st) + n
        /\ \A i \in 1 .. Len(st) : se[i] = st[i]
    BY <1>2 DEF Carries
  <2>2. \A i \in 1 .. n : se[Len(st) + i] = t[g[i]] /\ FileData(t[g[i]])
    BY <1>2, <1>6 DEF Carries
  <2>3. ASSUME NEW i \in 1 .. n, NEW j \in 1 .. n, i < j
        PROVE  g[i] < g[j]
    <3>1. f[i] < f[j]
      BY <1>2, <2>3 DEF Carries
    <3>2. QED
      BY <1>6, <3>1
  <2>4. ASSUME NEW k \in 1 .. Len(t), FileData(t[k])
        PROVE  \E i \in 1 .. n : g[i] = k
    <3>1. k + 1 \in 1 .. Len(q) /\ t[k] = q[k + 1]
      BY <1>4
    <3>2. PICK i \in 1 .. n : f[i] = k + 1
      BY <1>2, <2>4, <3>1 DEF Carries
    <3>3. g[i] = (k + 1) - 1
      BY <1>6, <3>2
    <3>4. k \in Nat
      BY <1>4
    <3>5. QED
      BY <3>3, <3>4
  <2>5. QED
    BY <2>1, <2>2, <2>3, <2>4 DEF Carries
<1>9. QED
  BY <1>3, <1>7, <1>8 DEF Inflight

LEMMA DataTaken ==
  ASSUME NEW st \in Seq(Packet), NEW se \in Seq(Packet), NEW q \in Seq(Packet),
         q # <<>>, FileData(q[1]), Inflight(st, se, q)
  PROVE  Inflight(Append(st, q[1]), se, Tail(q))
<1>1. PICK n \in Nat : \E f \in [1 .. n -> 1 .. Len(q)] : Carries(st, se, q, n, f)
  BY DEF Inflight
<1>2. PICK f \in [1 .. n -> 1 .. Len(q)] : Carries(st, se, q, n, f)
  BY <1>1
<1>3. PICK t : t = Tail(q)
  OBVIOUS
<1>4. /\ Len(t) = Len(q) - 1 /\ Len(t) \in Nat /\ Len(q) \in Nat \ {0}
      /\ \A i \in 1 .. Len(t) : t[i] = q[i + 1]
      /\ Len(st) \in Nat /\ q[1] \in Packet
  BY <1>3
<1>5. n \in Nat \ {0} /\ f[1] = 1
  <2>1. 1 \in 1 .. Len(q)
    BY <1>4
  <2>2. PICK i \in 1 .. n : f[i] = 1
    BY <1>2, <2>1 DEF Carries
  <2>3. 1 \in 1 .. n /\ f[1] \in 1 .. Len(q)
    BY <1>2, <2>2
  <2>4. ~(1 < i)
    <3>1. 1 < i => f[1] < f[i]
      BY <1>2, <2>3 DEF Carries
    <3>2. QED
      BY <2>2, <2>3, <3>1
  <2>5. QED
    BY <2>2, <2>3, <2>4
<1>6. PICK g : g = [i \in 1 .. n - 1 |-> f[i + 1] - 1]
  OBVIOUS
<1>7. \A i \in 1 .. n - 1 : /\ i + 1 \in 1 .. n
                            /\ f[i + 1] \in 2 .. Len(q) /\ g[i] = f[i + 1] - 1
                            /\ g[i] \in 1 .. Len(t) /\ t[g[i]] = q[f[i + 1]]
  <2>1. ASSUME NEW i \in 1 .. n - 1
        PROVE  /\ i + 1 \in 1 .. n
               /\ f[i + 1] \in 2 .. Len(q) /\ g[i] = f[i + 1] - 1
               /\ g[i] \in 1 .. Len(t) /\ t[g[i]] = q[f[i + 1]]
    <3>1. i + 1 \in 1 .. n /\ 1 \in 1 .. n /\ 1 < i + 1
      BY <1>5
    <3>2. f[1] < f[i + 1] /\ f[i + 1] \in 1 .. Len(q)
      BY <1>2, <3>1 DEF Carries
    <3>3. PICK k \in 2 .. Len(q) : k = f[i + 1]
      BY <1>4, <1>5, <3>2
    <3>4. k - 1 \in 1 .. Len(t) /\ (k - 1) + 1 = k
      BY <1>4
    <3>5. t[k - 1] = q[k]
      BY <1>4, <3>4
    <3>6. QED
      BY <1>6, <3>1, <3>3, <3>4, <3>5
  <2>2. QED
    BY <2>1
<1>8. g \in [1 .. n - 1 -> 1 .. Len(t)] /\ n - 1 \in Nat
  BY <1>5, <1>6, <1>7
<1>9. PICK u \in Seq(Packet) :
        /\ u = Append(st, q[1]) /\ Len(u) = Len(st) + 1 /\ u[Len(st) + 1] = q[1]
        /\ \A i \in 1 .. Len(st) : u[i] = st[i]
  <2>1. PICK x \in Packet : x = q[1]
    BY <1>4
  <2>2. /\ Append(st, x) \in Seq(Packet) /\ Len(Append(st, x)) = Len(st) + 1
        /\ Append(st, x)[Len(st) + 1] = x
        /\ \A i \in 1 .. Len(st) : Append(st, x)[i] = st[i]
    OBVIOUS
  <2>3. QED
    BY <2>1, <2>2
<1>10. Carries(u, se, t, n - 1, g)
  <2>1. /\ Len(se) = Len(st) + n
        /\ \A i \in 1 .. Len(st) : se[i] = st[i]
        /\ \A i \in 1 .. n : se[Len(st) + i] = q[f[i]] /\ FileData(q[f[i]])
    BY <1>2 DEF Carries
  <2>2. Len(se) = Len(u) + (n - 1)
    BY <1>4, <1>5, <1>9, <2>1
  <2>3. ASSUME NEW i \in 1 .. Len(u)
        PROVE  se[i] = u[i]
    <3>1. CASE i \in 1 .. Len(st)
      BY <1>9, <2>1, <3>1
    <3>2. CASE i = Len(st) + 1
      <4>1. 1 \in 1 .. n
        BY <1>5
      <4>2. QED
        BY <1>5, <1>9, <2>1, <3>2, <4>1
    <3>3. QED
      BY <1>4, <1>9, <3>1, <3>2
  <2>4. ASSUME NEW i \in 1 .. n - 1
        PROVE  se[Len(u) + i] = t[g[i]] /\ FileData(t[g[i]])
    <3>1. se[Len(st) + (i + 1)] = q[f[i + 1]] /\ FileData(q[f[i + 1]])
      BY <1>7, <2>1
    <3>2. Len(u) + i = Len(st) + (i + 1)
      BY <1>4, <1>9
    <3>3. QED
      BY <1>7, <3>1, <3>2
  <2>5. ASSUME NEW i \in 1 .. n - 1, NEW j \in 1 .. n - 1, i < j
        PROVE  g[i] < g[j]
    <3>1. f[i + 1] < f[j + 1]
      BY <1>2, <1>7, <2>5 DEF Carries
    <3>2. QED
      BY <1>7, <3>1
  <2>6. ASSUME NEW k \in 1 .. Len(t), FileData(t[k])
        PROVE  \E i \in 1 .. n - 1 : g[i] = k
    <3>1. k + 1 \in 1 .. Len(q) /\ t[k] = q[k + 1]
      BY <1>4
    <3>2. PICK i \in 1 .. n : f[i] = k + 1
      BY <1>2, <2>6, <3>1 DEF Carries
    <3>3. i # 1
      BY <1>5, <3>2
    <3>4. i - 1 \in 1 .. n - 1 /\ (i - 1) + 1 = i
      BY <1>5, <3>3
    <3>5. g[i - 1] = f[i] - 1
      BY <1>7, <3>4
    <3>6. QED
      BY <3>2, <3>4, <3>5
  <2>7. QED
    BY <2>2, <2>3, <2>4, <2>5, <2>6 DEF Carries
<1>11. QED
  BY <1>3, <1>8, <1>9, <1>10 DEF Inflight

(* The file data in the packets s of a request are the m packets of e,     *)
(* behind the first two.                                                   *)
HasData(s, e, m) ==
  /\ Len(e) = m
  /\ m > 0 => m + 2 <= Len(s)
  /\ \A i \in 1 .. m : e[i] = s[2 + i] /\ FileData(s[2 + i])
  /\ \A k \in 1 .. Len(s) : FileData(s[k]) => k \in 3 .. 2 + m

LEMMA ContentsShape ==
  ASSUME NEW r \in Request
  PROVE  /\ Packets(r) \in Seq(Packet) /\ Contents(r) \in Seq(Packet)
         /\ \E m \in Nat : HasData(Packets(r), Contents(r), m)
<1>0. Packets(r) \in Seq(Packet) /\ Contents(r) \in Seq(Packet)
  BY PacketsType
<1>1. PICK s \in Seq(Packet) :
        /\ s = Packets(r) /\ Len(s) \in Nat \ {0}
        /\ s[1] = Command(r)
        /\ ~Uploads(r) => Len(s) = 1
        /\ Uploads(r) => /\ Len(s) = Len(Chunks(r.size)) + 2
                         /\ s[2] = Integer(Len(Chunks(r.size)))
                         /\ \A i \in 1 .. Len(Chunks(r.size)) : s[2 + i] = Chunks(r.size)[i]
  BY PacketsShape
<1>2. ~FileData(s[1])
  BY <1>1 DEF Command, FileData
<1>3. CASE ~Uploads(r)
  <2>1. Contents(r) = <<>> /\ Len(s) = 1
    BY <1>1, <1>3 DEF Contents, Uploads
  <2>2. Len(Contents(r)) = 0
    BY <2>1
  <2>3. \A k \in 1 .. Len(s) : ~FileData(s[k])
    BY <1>2, <2>1
  <2>4. HasData(s, Contents(r), 0)
    BY <2>2, <2>3 DEF HasData
  <2>5. QED
    BY <1>0, <1>1, <2>4
<1>4. CASE Uploads(r)
  <2>1. r.size \in Nat /\ Unit \in Nat \ {0}
    BY RequestAssumption, ServerAssumption
  <2>2. PICK d \in Nat : d = r.size \div Unit
    BY <2>1
  <2>3. PICK c \in Seq(Packet) :
          /\ c = Chunks(r.size) /\ Len(c) = d + 1
          /\ \A i \in 1 .. d + 1 : c[i].type = "chunk"
          /\ \A i \in 1 .. d : c[i].val # 0
          /\ c[d + 1].val # 0 <=> r.size % Unit # 0
    BY <2>1, <2>2, ChunksShape
  <2>4. PICK m \in Nat : m = d + (IF r.size % Unit = 0 THEN 0 ELSE 1)
    BY <2>2
  <2>5. /\ m \in d .. d + 1
        /\ m = d + 1 <=> r.size % Unit # 0
    BY <2>4
  <2>6. PICK e \in Seq(Packet) :
          e = Contents(r) /\ Len(e) = m /\ \A i \in 1 .. m : e[i] = c[i]
    <3>1. Contents(r) = SubSeq(c, 1, m)
      BY <1>4, <2>2, <2>3, <2>4 DEF Contents, Uploads
    <3>2. m \in 0 .. Len(c)
      BY <2>3, <2>5
    <3>3. /\ SubSeq(c, 1, m) \in Seq(Packet) /\ Len(SubSeq(c, 1, m)) = m
          /\ \A i \in 1 .. m : SubSeq(c, 1, m)[i] = c[i]
      BY <3>2
    <3>4. QED
      BY <3>1, <3>3
  <2>7. /\ Len(s) = d + 3 /\ s[2] = Integer(d + 1)
        /\ \A i \in 1 .. d + 1 : s[2 + i] = c[i]
    <3>1. /\ Len(s) = Len(c) + 2 /\ s[2] = Integer(Len(c))
          /\ \A i \in 1 .. Len(c) : s[2 + i] = c[i]
      BY <1>1, <1>4, <2>3
    <3>2. Len(s) = (d + 1) + 2 /\ s[2] = Integer(d + 1)
      BY <2>3, <3>1
    <3>3. (d + 1) + 2 = d + 3
      BY <2>2
    <3>4. QED
      BY <2>3, <3>1, <3>2, <3>3
  <2>8. \A i \in 1 .. d + 1 : c[i].val # 0 <=> i \in 1 .. m
    <3>1. ASSUME NEW i \in 1 .. d + 1
          PROVE  c[i].val # 0 <=> i \in 1 .. m
      <4>1. CASE i \in 1 .. d
        BY <2>3, <2>5, <4>1
      <4>2. CASE i = d + 1
        BY <2>3, <2>5, <4>2
      <4>3. QED
        BY <4>1, <4>2
    <3>2. QED
      BY <3>1
  <2>9. ASSUME NEW i \in 1 .. m
        PROVE  e[i] = s[2 + i] /\ FileData(s[2 + i])
    <3>1. i \in 1 .. d + 1
      BY <2>5
    <3>2. QED
      BY <2>3, <2>6, <2>7, <2>8, <3>1 DEF FileData
  <2>10. ASSUME NEW k \in 1 .. Len(s), FileData(s[k])
         PROVE  k \in 3 .. 2 + m
    <3>1. k # 1 /\ k # 2
      BY <1>2, <2>7, <2>10 DEF FileData, Integer
    <3>2. k - 2 \in 1 .. d + 1 /\ k = 2 + (k - 2)
      BY <2>7, <3>1
    <3>3. s[k] = c[k - 2]
      BY <2>7, <3>2
    <3>4. k - 2 \in 1 .. m
      BY <2>8, <2>10, <3>2, <3>3 DEF FileData
    <3>5. QED
      BY <3>4
  <2>11. m + 2 <= Len(s)
    BY <2>5, <2>7
  <2>12. HasData(s, e, m)
    BY <2>6, <2>9, <2>10, <2>11 DEF HasData
  <2>13. QED
    BY <1>0, <1>1, <2>6, <2>12
<1>5. QED
  BY <1>3, <1>4

LEMMA DataGrown ==
  ASSUME NEW st \in Seq(Packet), NEW se \in Seq(Packet), NEW q \in Seq(Packet),
         NEW r \in Request, Inflight(st, se, q)
  PROVE  Inflight(st, se \o Contents(r), q \o Packets(r))
<1>1. PICK n \in Nat : \E f \in [1 .. n -> 1 .. Len(q)] : Carries(st, se, q, n, f)
  BY DEF Inflight
<1>2. PICK f \in [1 .. n -> 1 .. Len(q)] : Carries(st, se, q, n, f)
  BY <1>1
<1>3. PICK m \in Nat : HasData(Packets(r), Contents(r), m)
  BY ContentsShape
<1>4. PICK e \in Seq(Packet) : e = Contents(r)
  BY ContentsShape
<1>5. PICK s \in Seq(Packet) :
        /\ s = Packets(r) /\ Len(e) = m
        /\ m > 0 => m + 2 <= Len(s)
        /\ \A i \in 1 .. m : e[i] = s[2 + i] /\ FileData(s[2 + i])
        /\ \A k \in 1 .. Len(s) : FileData(s[k]) => k \in 3 .. 2 + m
  <2>1. PICK s \in Seq(Packet) : s = Packets(r)
    BY ContentsShape
  <2>2. HasData(s, e, m)
    BY <1>3, <1>4, <2>1
  <2>3. QED
    BY <2>1, <2>2 DEF HasData
<1>6. PICK z \in Seq(Packet) :
        /\ z = se \o e /\ Len(z) = Len(se) + m
        /\ \A i \in 1 .. Len(se) : z[i] = se[i]
        /\ \A i \in 1 .. m : z[Len(se) + i] = e[i]
  <2>1. /\ se \o e \in Seq(Packet) /\ Len(se \o e) = Len(se) + Len(e)
        /\ \A i \in 1 .. Len(se) : (se \o e)[i] = se[i]
        /\ \A i \in 1 .. Len(e) : (se \o e)[Len(se) + i] = e[i]
    BY ConcatAt
  <2>2. QED
    BY <1>5, <2>1
<1>7. PICK t \in Seq(Packet) :
        /\ t = q \o s /\ Len(t) = Len(q) + Len(s)
        /\ \A i \in 1 .. Len(q) : t[i] = q[i]
        /\ \A i \in 1 .. Len(s) : t[Len(q) + i] = s[i]
  <2>1. /\ q \o s \in Seq(Packet) /\ Len(q \o s) = Len(q) + Len(s)
        /\ \A i \in 1 .. Len(q) : (q \o s)[i] = q[i]
        /\ \A i \in 1 .. Len(s) : (q \o s)[Len(q) + i] = s[i]
    BY ConcatAt
  <2>2. QED
    BY <2>1
<1>8. PICK lq \in Nat, ls \in Nat, lst \in Nat :
        lq = Len(q) /\ ls = Len(s) /\ lst = Len(st)
  OBVIOUS
<1>9. PICK g : g = [i \in 1 .. n + m |-> IF i <= n THEN f[i] ELSE lq + 2 + (i - n)]
  OBVIOUS
<1>10. \A i \in 1 .. n : /\ i \in 1 .. n + m
                         /\ g[i] = f[i] /\ g[i] \in 1 .. lq
                         /\ t[g[i]] = q[f[i]] /\ FileData(q[f[i]])
  <2>1. ASSUME NEW i \in 1 .. n
        PROVE  /\ i \in 1 .. n + m
               /\ g[i] = f[i] /\ g[i] \in 1 .. lq
               /\ t[g[i]] = q[f[i]] /\ FileData(q[f[i]])
    <3>1. i \in 1 .. n + m /\ i <= n
      BY <1>1, <1>3
    <3>2. g[i] = f[i] /\ f[i] \in 1 .. Len(q)
      BY <1>2, <1>9, <3>1
    <3>3. FileData(q[f[i]])
      BY <1>2 DEF Carries
    <3>4. QED
      BY <1>7, <1>8, <3>1, <3>2, <3>3
  <2>2. QED
    BY <2>1
<1>11. \A i \in 1 .. m : /\ n + i \in 1 .. n + m
                         /\ g[n + i] = lq + 2 + i /\ g[n + i] \in lq + 1 .. lq + ls
                         /\ t[g[n + i]] = e[i] /\ FileData(e[i])
  <2>1. ASSUME NEW i \in 1 .. m
        PROVE  /\ n + i \in 1 .. n + m
               /\ g[n + i] = lq + 2 + i /\ g[n + i] \in lq + 1 .. lq + ls
               /\ t[g[n + i]] = e[i] /\ FileData(e[i])
    <3>1. /\ n + i \in 1 .. n + m /\ ~(n + i <= n) /\ (n + i) - n = i
          /\ m > 0
      BY <1>1, <1>3
    <3>2. g[n + i] = lq + 2 + i
      BY <1>9, <3>1
    <3>3. 2 + i \in 1 .. ls /\ lq + 2 + i \in lq + 1 .. lq + ls /\ lq + 2 + i = lq + (2 + i)
      <4>1. m + 2 <= ls
        BY <1>5, <1>8, <3>1
      <4>2. QED
        BY <1>3, <1>8, <4>1
    <3>4. t[lq + (2 + i)] = s[2 + i]
      BY <1>7, <1>8, <3>3
    <3>5. QED
      BY <1>5, <3>1, <3>2, <3>3, <3>4
  <2>2. QED
    BY <2>1
<1>12. \A i \in 1 .. n + m : i \in 1 .. n \/ (i > n /\ i - n \in 1 .. m /\ i = n + (i - n))
  BY <1>1, <1>3
<1>13. g \in [1 .. n + m -> 1 .. Len(t)]
  <2>1. ASSUME NEW i \in 1 .. n + m PROVE g[i] \in 1 .. Len(t)
    <3>1. Len(t) = lq + ls
      BY <1>7, <1>8
    <3>2. CASE i \in 1 .. n
      BY <1>8, <1>10, <3>1, <3>2
    <3>3. CASE i \notin 1 .. n
      <4>1. PICK j \in 1 .. m : i = n + j
        BY <1>12, <3>3
      <4>2. g[i] \in lq + 1 .. lq + ls
        BY <1>11, <4>1
      <4>3. QED
        BY <1>8, <3>1, <4>2
    <3>4. QED
      BY <3>2, <3>3
  <2>2. QED
    BY <1>9, <2>1
<1>14. Carries(st, z, t, n + m, g)
  <2>1. /\ Len(se) = lst + n
        /\ \A i \in 1 .. lst : se[i] = st[i]
        /\ \A i \in 1 .. n : se[lst + i] = q[f[i]]
        /\ \A i, j \in 1 .. n : i < j => f[i] < f[j]
        /\ \A k \in 1 .. Len(q) : FileData(q[k]) => \E i \in 1 .. n : f[i] = k
    BY <1>2, <1>8 DEF Carries
  <2>2. Len(z) = Len(st) + (n + m)
    BY <1>1, <1>3, <1>6, <1>8, <2>1
  <2>3. ASSUME NEW i \in 1 .. Len(st) PROVE z[i] = st[i]
    <3>1. i \in 1 .. Len(se)
      BY <1>1, <1>8, <2>1
    <3>2. QED
      BY <1>6, <1>8, <2>1, <3>1
  <2>4. ASSUME NEW i \in 1 .. n + m
        PROVE  z[Len(st) + i] = t[g[i]] /\ FileData(t[g[i]])
    <3>1. CASE i \in 1 .. n
      <4>1. lst + i \in 1 .. Len(se)
        BY <1>8, <2>1, <3>1
      <4>2. QED
        BY <1>6, <1>8, <1>10, <2>1, <3>1, <4>1
    <3>2. CASE i \notin 1 .. n
      <4>1. PICK j \in 1 .. m : i = n + j
        BY <1>12, <3>2
      <4>2. lst + i = Len(se) + j
        BY <1>1, <1>3, <1>8, <2>1, <4>1
      <4>3. z[lst + i] = e[j]
        BY <1>6, <4>1, <4>2
      <4>4. QED
        BY <1>8, <1>11, <4>1, <4>3
    <3>3. QED
      BY <3>1, <3>2
  <2>5. ASSUME NEW i \in 1 .. n + m, NEW j \in 1 .. n + m, i < j
        PROVE  g[i] < g[j]
    <3>1. CASE j \in 1 .. n
      <4>1. i \in 1 .. n
        BY <1>1, <1>3, <2>5, <3>1
      <4>2. QED
        BY <1>10, <2>1, <2>5, <3>1, <4>1
    <3>2. CASE j \notin 1 .. n /\ i \in 1 .. n
      <4>1. PICK b \in 1 .. m : j = n + b
        BY <1>12, <3>2
      <4>2. g[j] = lq + 2 + b /\ g[i] \in 1 .. lq
        BY <1>10, <1>11, <3>2, <4>1
      <4>3. QED
        BY <1>3, <1>8, <4>2
    <3>3. CASE j \notin 1 .. n /\ i \notin 1 .. n
      <4>1. PICK a \in 1 .. m : i = n + a
        BY <1>12, <3>3
      <4>2. PICK b \in 1 .. m : j = n + b
        BY <1>12, <3>3
      <4>3. g[i] = lq + 2 + a /\ g[j] = lq + 2 + b
        BY <1>11, <4>1, <4>2
      <4>4. a < b
        BY <1>1, <1>3, <2>5, <4>1, <4>2
      <4>5. QED
        BY <1>3, <1>8, <4>3, <4>4
    <3>4. QED
      BY <3>1, <3>2, <3>3
  <2>6. ASSUME NEW k \in 1 .. Len(t), FileData(t[k])
        PROVE  \E i \in 1 .. n + m : g[i] = k
    <3>1. CASE k \in 1 .. lq
      <4>1. t[k] = q[k] /\ k \in 1 .. Len(q)
        BY <1>7, <1>8, <3>1
      <4>2. PICK i \in 1 .. n : f[i] = k
        BY <2>1, <2>6, <4>1
      <4>3. QED
        BY <1>10, <4>2
    <3>2. CASE k \notin 1 .. lq
      <4>1. k - lq \in 1 .. ls /\ k = lq + (k - lq)
        BY <1>7, <1>8, <3>2
      <4>2. t[k] = s[k - lq]
        BY <1>7, <1>8, <4>1
      <4>3. k - lq \in 3 .. 2 + m
        BY <1>5, <1>8, <2>6, <4>1, <4>2
      <4>4. PICK j \in 1 .. m : k = lq + 2 + j
        <5>1. (k - lq) - 2 \in 1 .. m /\ k = lq + 2 + ((k - lq) - 2)
          BY <1>3, <4>1, <4>3
        <5>2. QED
          BY <5>1
      <4>5. QED
        BY <1>11, <4>4
    <3>3. QED
      BY <3>1, <3>2
  <2>7. QED
    BY <2>2, <2>3, <2>4, <2>5, <2>6 DEF Carries
<1>15. n + m \in Nat
  BY <1>1, <1>3
<1>16. Inflight(st, z, t)
  BY <1>13, <1>14, <1>15 DEF Inflight
<1>17. QED
  BY <1>4, <1>5, <1>6, <1>7, <1>16

(* Peers send the server files it can open for them.                       *)
Savable == \A r \in Request : Uploads(r) => r.file = "regular"

FilesOK ==
  /\ phase \in {"recv_num", "recv"} => transfer.file = "regular"
  /\ \A p \in Peer : link[p] = "open" => Inflight(stored[p], sent[p], Unread(p))

LEMMA ServerFiles ==
  ASSUME Savable, IInv, TalkOK, FilesOK, ServerStep
  PROVE  FilesOK'
<1>1. phase' \in {"recv_num", "recv"} => transfer'.file = "regular"
  <2>1. TypeOK
    BY DEF IInv
  <2>2. CASE \/ Poll \/ TakeEntry \/ BatchDone \/ SkipRead \/ SkipWrite
             \/ accept_tcp_handler \/ write_event_handler \/ write_done
    BY <2>2 DEF Poll, TakeEntry, BatchDone, SkipRead, SkipWrite, accept_tcp_handler,
                write_event_handler, write_done
  <2>3. CASE write_buffer \/ write_list \/ recv_done
    BY <2>3 DEF write_buffer, write_list, recv_done, Fclose
  <2>4. CASE recv_integer \/ recv
    <3>1. transfer.file = "regular"
      BY <2>4 DEF FilesOK, recv_integer, recv
    <3>2. \/ transfer' = transfer
          \/ \E n : transfer' = [transfer EXCEPT !.left = n]
          \/ phase' = "write"
      BY <2>4, <3>1 DEF recv_integer, recv, Fclose
    <3>3. QED
      BY <2>1, <3>1, <3>2 DEF TypeOK
  <2>5. CASE read_event_handler
    <3>1. \/ phase' \in {"write", "crashed"}
          \/ \E r \in Request \cup {Null} : process_command(Client, r)
      <4>1. Client \in Peer
        BY <2>5, ReadsClient, Dispatched DEF read_event_handler
      <4>2. rbuf[Client] \in Request \cup {Null}
        BY <2>1, <4>1 DEF TypeOK
      <4>3. inq[Client] # <<>> => Head(inq[Client]).request \in Request \cup {Null}
        <5>1. inq[Client] # <<>> => Head(inq[Client]) \in Packet
          BY <2>1, <4>1 DEF TypeOK
        <5>2. QED
          BY <5>1 DEF Packet
      <4>4. QED
        BY <2>5, <4>2, <4>3 DEF read_event_handler
    <3>2. ASSUME NEW r \in Request \cup {Null}, process_command(Client, r),
                 phase' \in {"recv_num", "recv"}
          PROVE  transfer'.file = "regular"
      <4>1. Accepted(r) /\ r \in Request
        BY <3>2 DEF process_command, ignore_command, Accepted
      <4>2. r.file \in {"regular", "directory", "unopenable"}
        BY <4>1, RequestAssumption
      <4>3. r.cmd = "file_send" /\ file_send_command(r)
        BY <3>2, <4>1, <4>2 DEF process_command, ignore_command, ping_command,
                                file_recv_command, empty_command
      <4>4. QED
        BY <4>1, <4>3 DEF file_send_command, Savable, Uploads
    <3>3. QED
      BY <3>1, <3>2
  <2>6. QED
    BY <2>2, <2>3, <2>4, <2>5 DEF ServerStep
<1>2. ASSUME NEW p \in Peer, link'[p] = "open"
      PROVE  Inflight(stored[p], sent[p], Unread(p))'
  <2> DEFINE q == Unread(p)
  <2>1. /\ link[p] = "open" /\ UNCHANGED peers /\ TypeOK
        /\ sent'[p] = sent[p] /\ outbox'[p] = outbox[p]
    BY <1>2, LinkSteps DEF IInv, peers
  <2>2. Inflight(stored[p], sent[p], q) /\ (Survives => Grammar(p))
    BY <2>1 DEF FilesOK, TalkOK, GrammarOK, Engaged
  <2>3. stored[p] \in Seq(Packet) /\ sent[p] \in Seq(Packet) /\ q \in Seq(Packet)
    BY <2>1, QueueTypes DEF TypeOK
  <2>4. CASE stored'[p] = stored[p] /\ inq'[p] = inq[p]
    BY <2>1, <2>2, <2>4 DEF Unread
  <2>5. CASE \/ Poll \/ TakeEntry \/ BatchDone \/ SkipRead \/ SkipWrite
             \/ accept_tcp_handler \/ write_event_handler \/ write_done
    BY <1>2, <2>4, <2>5, IdleSteps DEF Untouched
  <2>6. CASE write_buffer \/ write_list \/ recv_done
    BY <2>4, <2>6 DEF write_buffer, write_list, recv_done, net
  <2>7. CASE p # Client /\ (read_event_handler \/ recv_integer \/ recv)
    BY <2>4, <2>7, Bystander DEF Untouched
  <2>8. ASSUME p = Client, read_event_handler \/ recv_integer \/ recv
        PROVE  Inflight(stored[p], sent[p], Unread(p))'
    <3>1. Survives /\ inq[p] # <<>> /\ inq' = [inq EXCEPT ![p] = Tail(@)]
      BY <1>2, <2>1, <2>8 DEF Survives, read_event_handler, CallRead, recv_integer, recv,
         Readable, Delete, TypeOK
    <3>2. inq'[p] = Tail(inq[p])
      BY <2>1, <3>1 DEF TypeOK
    <3>3. q # <<>> /\ q[1] = Head(inq[p]) /\ Unread(p)' = Tail(q) /\ q \in Seq(Packet)
      BY <2>1, <3>1, <3>2, UnreadTaken
    <3>4. /\ phase = "read" => q[1].type = "command"
          /\ phase = "recv_num" => q[1].type = "integer"
          /\ phase = "recv" /\ transfer.left > 0 => q[1].type = "chunk"
      <4>1. Grammar(p) /\ transfer.left \in Nat
        BY <2>1, <2>2, <3>1 DEF TypeOK
      <4>2. phase = "read" => q[1].type = "command"
        BY <3>3, <4>1 DEF Grammar, Follows, Transferring
      <4>3. phase = "recv_num" => q[0 + 1].type = "integer"
        BY <2>8, <4>1 DEF Grammar, Follows, Transferring, CountAt
      <4>4. phase = "recv" /\ transfer.left > 0 => q[1].type = "chunk"
        <5>1. SUFFICES ASSUME phase = "recv", transfer.left > 0 PROVE q[1].type = "chunk"
          OBVIOUS
        <5>2. \A i \in 0 + 1 .. 0 + transfer.left : q[i].type = "chunk"
          BY <2>8, <4>1, <5>1 DEF Grammar, Follows, Transferring, FileAt
        <5>3. 1 \in 0 + 1 .. 0 + transfer.left
          BY <4>1, <5>1
        <5>4. QED
          BY <5>2, <5>3
      <4>5. QED
        BY <4>2, <4>3, <4>4
    <3> HIDE DEF q
    <3>5. CASE read_event_handler \/ recv_integer
      <4>1. stored'[p] = stored[p] /\ phase \in {"read", "recv_num"}
        BY <3>5 DEF read_event_handler, recv_integer, CallRead
      <4>2. ~FileData(q[1])
        BY <3>4, <4>1 DEF FileData
      <4>3. QED
        BY <2>1, <2>2, <2>3, <3>3, <4>1, <4>2, OtherTaken
    <3>6. CASE recv
      <4>1. /\ phase = "recv" /\ transfer.left > 0 /\ transfer.file = "regular"
        BY <3>6 DEF recv, FilesOK
      <4>2. CASE Head(inq[p]).val = 0
        <5>1. stored' = stored /\ ~FileData(q[1])
          BY <2>8, <3>1, <3>3, <3>6, <4>2 DEF recv, FileData
        <5>2. QED
          BY <2>1, <2>2, <2>3, <3>3, <5>1, OtherTaken
      <4>3. CASE Head(inq[p]).val # 0
        <5>1. stored' = [stored EXCEPT ![p] = Append(@, q[1])]
          BY <2>8, <3>1, <3>3, <3>6, <4>1, <4>3 DEF recv
        <5>2. FileData(q[1])
          BY <3>3, <3>4, <4>1, <4>3 DEF FileData
        <5>3. stored'[p] = Append(stored[p], q[1])
          BY <2>1, <5>1 DEF TypeOK
        <5>4. QED
          BY <2>1, <2>2, <2>3, <3>3, <5>2, <5>3, DataTaken
      <4>4. QED
        BY <4>2, <4>3
    <3>7. QED
      BY <2>8, <3>5, <3>6
  <2>9. QED
    BY <2>5, <2>6, <2>7, <2>8 DEF ServerStep
<1>3. QED
  BY <1>1, <1>2 DEF FilesOK

LEMMA PeerFiles ==
  ASSUME IInv, TalkOK, FilesOK, NEW p \in Peer, PeerStep(p)
  PROVE  FilesOK'
<1>1. /\ UNCHANGED <<loop, heap, stored>> /\ TypeOK
      /\ \A q \in Peer \ {p} : Untouched(q) /\ link'[q] = link[q]
  BY PeerSteps DEF IInv
<1>2. phase' = phase /\ transfer' = transfer
  BY <1>1 DEF loop
<1>3. ASSUME NEW q \in Peer \ {p}, link'[q] = "open"
      PROVE  Inflight(stored[q], sent[q], Unread(q))'
  <2>1. Untouched(q) /\ link[q] = "open"
    BY <1>1, <1>3
  <2>2. stored'[q] = stored[q] /\ sent'[q] = sent[q] /\ Unread(q)' = Unread(q)
    BY <2>1 DEF Untouched, Unread
  <2>3. QED
    BY <2>1, <2>2 DEF FilesOK
<1>4. ASSUME link'[p] = "open"
      PROVE  Inflight(stored[p], sent[p], Unread(p))'
  <2>1. /\ stored[p] \in Seq(Packet) /\ sent[p] \in Seq(Packet) /\ Unread(p) \in Seq(Packet)
        /\ stored'[p] = stored[p]
    BY <1>1, QueueTypes DEF TypeOK
  <2>2. link[p] = "open" => Inflight(stored[p], sent[p], Unread(p))
    BY DEF FilesOK
  <2>3. CASE Unknown(p)'
    BY <2>3, NothingInflight DEF Unknown, Unread
  <2>4. ASSUME link[p] = "open", outbox[p] = <<>>, NEW r \in Request, inq'[p] = inq[p],
               outbox'[p] = Packets(r), sent'[p] = sent[p] \o Contents(r)
        PROVE  Inflight(stored[p], sent[p], Unread(p))'
    <3>1. Unread(p)' = Unread(p) \o Packets(r)
      BY <1>1, <2>4, UnreadGrown
    <3>2. QED
      BY <2>1, <2>2, <2>4, <3>1, DataGrown
  <2>5. CASE /\ link[p] = "open" /\ outbox[p] # <<>> /\ sent'[p] = sent[p]
             /\ inq'[p] = Append(inq[p], Head(outbox[p])) /\ outbox'[p] = Tail(outbox[p])
    <3>1. Unread(p)' = Unread(p)
      BY <1>1, <2>5, UnreadSent
    <3>2. QED
      BY <2>1, <2>2, <2>5, <3>1
  <2>6. CASE /\ link' = link /\ inq'[p] = inq[p] /\ outbox'[p] = outbox[p] /\ sent'[p] = sent[p]
    <3>1. Unread(p)' = Unread(p)
      BY <2>6 DEF Unread
    <3>2. QED
      BY <1>4, <2>1, <2>2, <2>6, <3>1
  <2>7. CASE /\ link[p] = "open" /\ link' = link /\ outbox[p] = <<>>
             /\ \E r \in Request : /\ inq'[p] = inq[p] /\ outq'[p] = outq[p]
                                   /\ outbox'[p] = Packets(r)
                                   /\ owed'[p] = owed[p] \o Replies(r)
                                   /\ sent'[p] = sent[p] \o Contents(r)
                                   /\ Pipelining \/ owed[p] = <<>>
    BY <2>4, <2>7
  <2>8. CASE link'[p] = IF outq[p] = <<>> THEN "fin" ELSE "rst"
    BY <1>4, <2>8
  <2>9. QED
    BY <2>3, <2>5, <2>6, <2>7, <2>8, PeerSteps
<1>5. QED
  BY <1>2, <1>3, <1>4 DEF FilesOK

LEMMA Files == ASSUME Savable PROVE Spec => [](IInv /\ TalkOK /\ FilesOK)
<1>1. Init => FilesOK
  BY DEF Init, FilesOK
<1>2. IInv /\ TalkOK /\ FilesOK /\ [Next]_vars => FilesOK'
  <2> SUFFICES ASSUME IInv, TalkOK, FilesOK, [Next]_vars PROVE FilesOK'
    OBVIOUS
  <2>1. CASE UNCHANGED vars
    <3>1. UNCHANGED <<phase, transfer, link, inq, outbox, stored, sent>>
      BY <2>1 DEF vars, loop, net, peers
    <3>2. \A p \in Peer : Unread(p)' = Unread(p)
      BY <3>1 DEF Unread
    <3>3. QED
      BY <3>1, <3>2 DEF FilesOK
  <2>2. QED
    BY <2>1, ServerFiles, PeerFiles DEF Next, Rest
<1>3. QED
  BY <1>1, <1>2, Talk, PTL DEF Spec

(* A file that is sent is stored packet by packet and in full, for any     *)
(* number of peers and any length of file, also when peers send the next   *)
(* request right behind it or die in the middle.                           *)
THEOREM FilesArrive == ASSUME Savable PROVE Spec => []FilesComplete
<1>1. IInv /\ TalkOK /\ FilesOK => FilesComplete
  <2> SUFFICES ASSUME IInv, FilesOK, NEW p \in Peer, link[p] = "open"
               PROVE  /\ StartsWith(sent[p], stored[p])
                      /\ outbox[p] = <<>> /\ inq[p] = <<>> => stored[p] = sent[p]
    BY DEF FilesComplete
  <2>1. stored[p] \in Seq(Packet) /\ sent[p] \in Seq(Packet)
    BY DEF IInv, TypeOK
  <2>2. Inflight(stored[p], sent[p], Unread(p))
    BY DEF FilesOK
  <2>3. StartsWith(sent[p], stored[p])
    BY <2>1, <2>2, StoredFirst
  <2>4. ASSUME outbox[p] = <<>>, inq[p] = <<>> PROVE stored[p] = sent[p]
    <3>1. Unread(p) = <<>>
      BY <2>4 DEF Unread
    <3>2. QED
      BY <2>1, <2>2, <3>1, NothingInflight
  <2>5. QED
    BY <2>3, <2>4
<1>2. QED
  BY <1>1, Files, PTL

-----------------------------------------------------------------------------
(* A peer and what stands between it and the server.  What the server can  *)
(* still read of it, q, is what has arrived and, of a peer that has gone,  *)
(* a part z of its request that never will.                                *)
Tells(p, q) == Follows(p, q) /\ Inflight(stored[p], sent[p], q)

Reaches(p) == link[p] \notin {"none", "closed"} /\ (link[p] = "open" \/ inq[p] # <<>>)

(* z is what is still to come.                                             *)
Comes(p, z) == (link[p] = "open" => z = outbox[p]) /\ Tells(p, inq[p] \o z)

(* The state of one connection and of the peer behind it: what the peer    *)
(* has still to get is what it was asked for, begins with what is on its   *)
(* way, and what is written in its files begins what it has sent.          *)
PeerOK(p) ==
  /\ link[p] = "none" => Unknown(p)
  /\ link[p] = "closed" => obj[p] = "freed"
  /\ StartsWith(owed[p], outq[p])
  /\ StartsWith(sent[p], stored[p])
  /\ Survives /\ link[p] = "open" => Conversation(p)
  /\ Survives /\ Reaches(p) => \E z \in Seq(Packet) : Comes(p, z)

WorldOK == IInv /\ \A p \in Peer : PeerOK(p)

LEMMA InitWorld == Init => WorldOK
<1> SUFFICES ASSUME Init PROVE WorldOK
  OBVIOUS
<1>1. ASSUME NEW p \in Peer PROVE PeerOK(p)
  <2>1. link[p] = "none" /\ Unknown(p)
    BY <1>1 DEF Init, Unknown
  <2>2. StartsWith(<<>>, <<>>)
    BY DEF StartsWith
  <2>3. QED
    BY <2>1, <2>2 DEF PeerOK, Unknown, Reaches
<1>2. QED
  BY <1>1, InitIInv DEF WorldOK

(* Who has not moved is as it was.                                         *)
LEMMA StandsStill ==
  ASSUME NEW p \in Peer, PeerOK(p), Untouched(p), link'[p] = link[p], obj'[p] = obj[p],
         Survives' => Survives,
         Survives' => (Transferring(p)' <=> Transferring(p)),
         Transferring(p) => phase' = phase /\ transfer' = transfer,
         phase' = "write_list" /\ Client' = p => phase = "write_list" /\ Client = p
  PROVE  PeerOK(p)'
<1>1. /\ Unread(p)' = Unread(p) /\ Replied(p)' = Replied(p) /\ owed'[p] = owed[p]
      /\ stored'[p] = stored[p] /\ sent'[p] = sent[p] /\ outq'[p] = outq[p]
      /\ wbuf'[p] = wbuf[p] /\ list'[p] = list[p] /\ inq'[p] = inq[p] /\ outbox'[p] = outbox[p]
  BY DEF Untouched, Unread, Replied, Unsent
<1>2. (link[p] = "none" => Unknown(p))'
  BY <1>1 DEF PeerOK, Unknown
<1>3. Survives' /\ link'[p] = "open" => Conversation(p)'
  <2>1. SUFFICES ASSUME Survives', link'[p] = "open" PROVE Conversation(p)'
    OBVIOUS
  <2>2. Conversation(p)
    BY <2>1 DEF PeerOK
  <2>3. phase' = "write_list" /\ Client' = p => wbuf'[p] = Null
    BY <1>1, <2>2 DEF Conversation
  <2>4. QED
    BY <1>1, <2>2, <2>3, ConversationKept
<1>4. ASSUME Survives', Reaches(p)' PROVE \E z \in Seq(Packet) : Comes(p, z)'
  <2>1. Reaches(p)
    BY <1>1, <1>4 DEF Reaches
  <2>2. PICK z \in Seq(Packet) : Comes(p, z)
    BY <1>4, <2>1 DEF PeerOK
  <2>3. PICK q : q = inq[p] \o z
    OBVIOUS
  <2>4. Follows(p, q)'
    BY <1>4, <2>2, <2>3, StillFollows DEF Comes, Tells
  <2>5. Comes(p, z)'
    BY <1>1, <2>2, <2>3, <2>4 DEF Comes, Tells
  <2>6. QED
    BY <2>5
<1>5. QED
  BY <1>1, <1>2, <1>3, <1>4 DEF PeerOK

(* A step of one peer does not concern the others.                         *)
LEMMA OthersStand ==
  ASSUME WorldOK, IInv', UNCHANGED <<loop, heap, stored>>, NEW p \in Peer,
         \A q \in Peer \ {p} : Untouched(q) /\ link'[q] = link[q],
         PeerOK(p)'
  PROVE  WorldOK'
<1>1. /\ phase' = phase /\ transfer' = transfer /\ Client' = Client /\ obj' = obj
      /\ Survives' <=> Survives
      /\ \A q \in Peer : Transferring(q)' <=> Transferring(q)
  BY DEF loop, heap, Client, Survives, Transferring
<1>2. ASSUME NEW q \in Peer \ {p} PROVE PeerOK(q)'
  BY <1>1, <1>2, StandsStill DEF WorldOK
<1>3. QED
  BY <1>2 DEF WorldOK

(* What the server does to a connection: it may find it dead, or close it  *)
(* with its client_t; a connection that is closed stays so.                *)
LEMMA ServerLinks ==
  ASSUME IInv, ServerStep, NEW p \in Peer, link[p] = "closed" => obj[p] = "freed"
  PROVE  /\ link[p] = "closed" => link'[p] = "closed"
         /\ link'[p] = "closed" => obj'[p] = "freed"
         /\ link[p] = "open" => link'[p] \in {"open", "closed"}
<1> DEFINE Good == /\ link[p] = "closed" => link'[p] = "closed"
                   /\ link'[p] = "closed" => obj'[p] = "freed"
                   /\ link[p] = "open" => link'[p] \in {"open", "closed"}
<1>0. link \in [Peer -> Link] /\ obj \in [Peer -> {"none", "live", "freed"}]
  BY DEF IInv, TypeOK
<1>1. CASE link' = link /\ obj' = obj
  BY <1>1
<1>2. CASE accept_tcp_handler
  <2>1. CASE UNCHANGED <<net, heap>>
    BY <1>1, <2>1 DEF net, heap
  <2>2. ASSUME NEW c, NEW fd \in FreeFds, NEW accepted \in BOOLEAN, Accepts(c, fd, accepted)
        PROVE  Good
    <3>1. c \in Peer /\ obj[c] = "none"
      BY <2>2, AcceptEffect DEF AcceptedAt
    <3>2. \/ obj' = [obj EXCEPT ![c] = "freed"] /\ link' = [link EXCEPT ![c] = "closed"]
          \/ obj' = [obj EXCEPT ![c] = "live"] /\ UNCHANGED link
      BY <2>2 DEF Accepts
    <3>3. QED
      BY <1>0, <3>1, <3>2
  <2>3. QED
    BY <1>2, <2>1, <2>2, AcceptCases
<1>3. CASE \/ Poll \/ TakeEntry \/ BatchDone \/ SkipRead \/ SkipWrite \/ recv_done \/ write_done
  BY <1>1, <1>3 DEF Poll, TakeEntry, BatchDone, SkipRead, SkipWrite, recv_done, write_done,
                    net, heap
<1>4. CASE write_event_handler /\ UNCHANGED <<net, heap>>
  BY <1>1, <1>4 DEF net, heap
<1>5. ASSUME Client \in Peer, Live(Client),
             \/ Delete(Client)
             \/ obj' = obj /\ link' = link
             \/ obj' = obj /\ link[Client] # "open" /\ link' = [link EXCEPT ![Client] = "dead"]
      PROVE  Good
  BY <1>0, <1>5 DEF Delete, Live
<1>6. CASE write_event_handler
  <2>1. Client \in Peer /\ Live(Client)
    BY <1>6, WritesClient, Dispatched DEF write_event_handler
  <2>2. QED
    BY <1>4, <1>5, <1>6, <2>1 DEF write_event_handler
<1>7. \/ AfterError(Client) = link
      \/ link[Client] # "open" /\ AfterError(Client) = [link EXCEPT ![Client] = "dead"]
  BY DEF AfterError
<1>8. CASE read_event_handler
  <2>1. Client \in Peer /\ Live(Client)
    BY <1>8, ReadsClient, Dispatched DEF read_event_handler
  <2>2. \/ Delete(Client)
        \/ obj' = obj /\ link' \in {link, AfterError(Client)}
    BY <1>8 DEF read_event_handler, process_command, heap
  <2>3. QED
    BY <1>5, <1>7, <2>1, <2>2
<1>9. CASE recv_integer \/ recv \/ write_buffer \/ write_list
  <2>1. Client \in Peer /\ Live(Client)
    BY <1>9, Dispatched DEF IInv, EntryOK, InHandler, recv_integer, recv, write_buffer, write_list
  <2>2. obj' = obj
    BY <1>9 DEF recv_integer, recv, write_buffer, write_list, heap
  <2>3. \/ link' = link \/ link' = AfterError(Client)
        \/ link[Client] # "open" /\ link' = [link EXCEPT ![Client] = "dead"]
    BY <1>9 DEF recv_integer, recv, write_buffer, write_list, Put
  <2>4. QED
    BY <1>5, <1>7, <2>1, <2>2, <2>3
<1>10. QED
  BY <1>2, <1>3, <1>6, <1>8, <1>9 DEF ServerStep

LEMMA ConcatTaken ==
  ASSUME NEW s \in Seq(Packet), s # <<>>, NEW z \in Seq(Packet), NEW q, q = s \o z
  PROVE  q \in Seq(Packet) /\ q # <<>> /\ q[1] = Head(s) /\ Tail(s) \o z = Tail(q)
OBVIOUS

(* What the server reads of a peer it takes from the front of what comes.  *)
LEMMA ServerComes ==
  ASSUME IInv, ServerStep, NEW p \in Peer, Survives', Reaches(p), link'[p] # "closed",
         NEW z \in Seq(Packet), Comes(p, z)
  PROVE  Comes(p, z)' /\ StartsWith(sent[p], stored[p])'
<1>0. PICK q : q = inq[p] \o z
  OBVIOUS
<1>1. /\ UNCHANGED peers /\ TypeOK /\ sent'[p] = sent[p] /\ outbox'[p] = outbox[p]
      /\ inq[p] \in Seq(Packet) /\ stored[p] \in Seq(Packet) /\ sent[p] \in Seq(Packet)
      /\ q \in Seq(Packet)
  <2>1. UNCHANGED peers /\ TypeOK
    BY LinkSteps DEF IInv
  <2>2. inq[p] \in Seq(Packet) /\ stored[p] \in Seq(Packet) /\ sent[p] \in Seq(Packet)
    BY <2>1 DEF TypeOK
  <2>3. QED
    BY <1>0, <2>1, <2>2 DEF peers
<1>2. (link'[p] = "open" => z = outbox'[p]) /\ Follows(p, q) /\ Inflight(stored[p], sent[p], q)
  <2>1. link'[p] = "open" => link[p] = "open"
    BY LinkSteps
  <2>2. QED
    BY <1>0, <1>1, <2>1 DEF Comes, Tells
<1>3. SUFFICES Tells(p, inq[p] \o z)'
  <2>1. stored'[p] \in Seq(Packet) /\ sent'[p] \in Seq(Packet)
    BY <1>1, NextIInv DEF Next, IInv, TypeOK
  <2>2. Tells(p, inq[p] \o z)' => StartsWith(sent[p], stored[p])'
    BY <2>1, StoredFirst DEF Tells
  <2>3. QED
    BY <1>2, <2>2 DEF Comes
<1>4. ASSUME inq'[p] = inq[p], stored'[p] = stored[p], ~Transferring(p), ~Transferring(p)'
      PROVE  Tells(p, inq[p] \o z)'
  <2>1. Follows(p, q)'
    BY <1>2, <1>4, StillFollows
  <2>2. QED
    BY <1>0, <1>1, <1>2, <1>4, <2>1 DEF Tells
<1>5. CASE \/ Poll \/ TakeEntry \/ BatchDone \/ SkipRead \/ SkipWrite
           \/ accept_tcp_handler \/ write_event_handler \/ write_done
  <2>1. Untouched(p) /\ ~Transferring(p) /\ ~Transferring(p)'
    BY <1>5, IdleSteps DEF Transferring
  <2>2. QED
    BY <1>4, <2>1 DEF Untouched
<1>6. CASE p # Client /\ \/ read_event_handler \/ recv_integer \/ recv \/ recv_done
                         \/ write_buffer \/ write_list
  <2>1. Untouched(p) /\ ~Transferring(p) /\ ~Transferring(p)'
    BY <1>6, Bystander DEF Transferring
  <2>2. QED
    BY <1>4, <2>1 DEF Untouched
<1>7. CASE p = Client /\ (write_buffer \/ write_list)
  <2>1. /\ inq'[p] = inq[p] /\ stored'[p] = stored[p] /\ ~Transferring(p) /\ ~Transferring(p)'
    BY <1>7 DEF write_buffer, write_list, Transferring
  <2>2. QED
    BY <1>4, <2>1
<1>8. CASE p = Client /\ recv_done
  <2>1. inq'[p] = inq[p] /\ stored'[p] = stored[p]
    BY <1>8 DEF recv_done, net
  <2>2. Follows(p, q)'
    BY <1>1, <1>2, <1>8, EndTaken
  <2>3. QED
    BY <1>0, <1>1, <1>2, <2>1, <2>2 DEF Tells
<1>9. ASSUME p = Client, read_event_handler \/ recv_integer \/ recv
      PROVE  Tells(p, inq[p] \o z)'
  <2>1. inq[p] # <<>>
    <3>1. SUFFICES ASSUME inq[p] = <<>> PROVE FALSE
      OBVIOUS
    <3>2. link[p] # "open"
      BY <1>9, <3>1 DEF read_event_handler, recv_integer, recv, Readable
    <3>3. QED
      BY <3>1, <3>2 DEF Reaches
  <2>2. q # <<>> /\ q[1] = Head(inq[p]) /\ Tail(inq[p]) \o z = Tail(q)
    BY <1>0, <1>1, <2>1, ConcatTaken
  <2>3. ASSUME Follows(p, Tail(q))', inq'[p] = Tail(inq[p]),
               Inflight(stored'[p], sent[p], Tail(q))
        PROVE  Tells(p, inq[p] \o z)'
    BY <1>1, <2>2, <2>3 DEF Tells
  <2>4. CASE read_event_handler
    <3>1. /\ Follows(p, Tail(q))' /\ q[1].type = "command"
          /\ inq'[p] = Tail(inq[p]) /\ stored'[p] = stored[p]
      BY <1>1, <1>2, <1>9, <2>1, <2>2, <2>4, CommandTaken
    <3>2. Inflight(stored'[p], sent[p], Tail(q))
      BY <1>1, <1>2, <2>2, <3>1, OtherTaken DEF FileData
    <3>3. QED
      BY <2>3, <3>1, <3>2
  <2>5. CASE recv_integer
    <3>1. /\ Follows(p, Tail(q))' /\ q[1].type = "integer"
          /\ inq'[p] = Tail(inq[p]) /\ stored'[p] = stored[p]
      BY <1>1, <1>2, <1>9, <2>1, <2>2, <2>5, CountTaken
    <3>2. Inflight(stored'[p], sent[p], Tail(q))
      BY <1>1, <1>2, <2>2, <3>1, OtherTaken DEF FileData
    <3>3. QED
      BY <2>3, <3>1, <3>2
  <2>6. CASE recv
    <3>1. /\ Follows(p, Tail(q))' /\ q[1].type = "chunk"
          /\ inq'[p] = Tail(inq[p])
          /\ stored' = IF q[1].val = 0 THEN stored
                       ELSE [stored EXCEPT ![p] = Append(@, q[1])]
      BY <1>1, <1>2, <1>9, <2>1, <2>2, <2>6, PartTaken
    <3>2. CASE q[1].val = 0
      <4>1. ~FileData(q[1]) /\ stored'[p] = stored[p]
        BY <3>1, <3>2 DEF FileData
      <4>2. Inflight(stored'[p], sent[p], Tail(q))
        BY <1>1, <1>2, <2>2, <4>1, OtherTaken
      <4>3. QED
        BY <2>3, <3>1, <4>2
    <3>3. CASE q[1].val # 0
      <4>1. FileData(q[1]) /\ stored'[p] = Append(stored[p], q[1])
        BY <1>1, <3>1, <3>3 DEF FileData, TypeOK
      <4>2. Inflight(stored'[p], sent[p], Tail(q))
        BY <1>1, <1>2, <2>2, <4>1, DataTaken
      <4>3. QED
        BY <2>3, <3>1, <4>2
    <3>4. QED
      BY <3>2, <3>3
  <2>7. QED
    BY <1>9, <2>4, <2>5, <2>6
<1>10. QED
  BY <1>5, <1>6, <1>7, <1>8, <1>9 DEF ServerStep

(* The one step that writes to a file.                                     *)
LEMMA StoresOne ==
  ASSUME IInv, ServerStep, NEW p \in Peer, stored'[p] # stored[p]
  PROVE  /\ Live(p) /\ inq[p] # <<>> /\ phase = "recv" /\ phase' = phase /\ link' = link
         /\ stored' = [stored EXCEPT ![p] = Append(@, Head(inq[p]))]
<1>1. recv /\ p = Client
  <2>1. CASE \/ Poll \/ TakeEntry \/ BatchDone \/ SkipRead \/ SkipWrite
             \/ accept_tcp_handler \/ write_event_handler \/ write_done
    BY <2>1, IdleSteps
  <2>2. CASE read_event_handler \/ recv_integer \/ recv_done \/ write_buffer \/ write_list
    BY <2>2 DEF read_event_handler, recv_integer, recv_done, write_buffer, write_list
  <2>3. CASE recv /\ p # Client
    BY <2>3, Bystander DEF Untouched
  <2>4. QED
    BY <2>1, <2>2, <2>3 DEF ServerStep
<1>2. Live(p) /\ phase = "recv"
  BY <1>1, Dispatched DEF IInv, EntryOK, InHandler, recv
<1>3. QED
  BY <1>1, <1>2 DEF recv

(* What the server writes to a client, the client waits for.               *)
LEMMA WritesOwed ==
  ASSUME IInv, IInv', ServerStep, NEW p \in Peer, StartsWith(owed[p], outq[p]),
         Survives' /\ link'[p] = "open" => Conversation(p)'
  PROVE  StartsWith(owed[p], outq[p])'
<1>1. UNCHANGED peers /\ owed'[p] = owed[p]
  BY LinkSteps DEF peers
<1>2. CASE outq'[p] = outq[p]
  BY <1>1, <1>2
<1>3. CASE outq'[p] # outq[p]
  <2>1. p = Client /\ (write_buffer \/ write_list)
    <3>1. CASE \/ Poll \/ TakeEntry \/ BatchDone \/ SkipRead \/ SkipWrite
               \/ write_event_handler \/ write_done
      BY <1>3, <3>1 DEF Poll, TakeEntry, BatchDone, SkipRead, SkipWrite, write_event_handler,
                        write_done, net, Delete
    <3>2. CASE accept_tcp_handler
      BY <1>3, <3>2, AcceptCases DEF Accepts, net
    <3>3. CASE read_event_handler \/ recv_integer \/ recv \/ recv_done
      BY <1>3, <3>3 DEF read_event_handler, recv_integer, recv, recv_done, net, Delete
    <3>4. CASE p # Client /\ (write_buffer \/ write_list)
      BY <1>3, <3>4, Bystander DEF Untouched
    <3>5. QED
      BY <3>1, <3>2, <3>3, <3>4 DEF ServerStep
  <2>2. link[p] = "open" /\ link' = link /\ phase' = "write_list"
    BY <1>3, <2>1 DEF write_buffer, write_list, Put
  <2>3. Conversation(p)'
    BY <2>2 DEF Survives
  <2>4. /\ owed'[p] \in Seq(Packet) /\ outq'[p] \in Seq(Packet) /\ Unsent(p)' \in Seq(Packet)
    <3>1. /\ owed'[p] \in Seq(Packet) /\ outq'[p] \in Seq(Packet) /\ list'[p] \in Seq(Packet)
          /\ wbuf'[p] \in Packet \cup {Null}
      BY DEF IInv, TypeOK
    <3>2. QED
      BY <3>1 DEF Unsent
  <2>5. owed'[p] = outq'[p] \o Unsent(p)' \/ outq'[p] \o Unsent(p)' = <<>>
    BY <2>3 DEF Conversation, Replied
  <2>6. ASSUME NEW o \in Seq(Packet), NEW s \in Seq(Packet), NEW u \in Seq(Packet),
               o = s \o u \/ s \o u = <<>>
        PROVE  StartsWith(o, s)
    <3>1. CASE o = s \o u
      <4>1. Len(s) \in Nat /\ Len(u) \in Nat /\ Len(o) = Len(s) + Len(u)
            /\ \A i \in 1 .. Len(s) : o[i] = s[i]
        BY <3>1, ConcatAt
      <4>2. Len(s) <= Len(o) /\ Len(s) \in 0 .. Len(o) /\ Len(o) \in Nat
        BY <4>1
      <4>3. PICK t : t = SubSeq(o, 1, Len(s))
        OBVIOUS
      <4>4. t \in Seq(Packet) /\ Len(t) = Len(s) /\ \A i \in 1 .. Len(s) : t[i] = o[i]
        BY <4>2, <4>3
      <4>5. t = s
        BY <4>1, <4>4, PacketsAgree
      <4>6. QED
        BY <4>2, <4>3, <4>5 DEF StartsWith
    <3>2. CASE s \o u = <<>>
      <4>1. s = <<>>
        BY <3>2
      <4>2. QED
        BY <4>1 DEF StartsWith
    <3>3. QED
      BY <2>6, <3>1, <3>2
  <2>7. QED
    BY <2>4, <2>5, <2>6
<1>4. QED
  BY <1>2, <1>3

LEMMA ServerPeer ==
  ASSUME IInv, IInv', ServerStep, NEW p \in Peer, PeerOK(p)
  PROVE  PeerOK(p)'
<1>1. /\ UNCHANGED peers
      /\ link'[p] = link[p] \/ (link'[p] \in {"dead", "closed"} /\ link[p] # "none")
      /\ link'[p] = "none" => Untouched(p)
      /\ sent'[p] = sent[p]
  BY LinkSteps DEF peers
<1>2. Survives' => Survives
  BY DEF Survives, ServerStep, Poll, TakeEntry, BatchDone, SkipRead, SkipWrite,
     accept_tcp_handler, read_event_handler, recv_integer, recv, recv_done,
     write_event_handler, write_buffer, write_list, write_done, CallRead
<1>3. (link[p] = "none" => Unknown(p))'
  BY <1>1 DEF PeerOK, Unknown, Untouched
<1>4. (link[p] = "closed" => obj[p] = "freed")'
  BY ServerLinks DEF PeerOK
<1>5. ASSUME Survives', link'[p] = "open" PROVE Conversation(p)'
  <2>1. link[p] = "open" /\ Survives /\ Reaches(p)
    BY <1>1, <1>2, <1>5 DEF Reaches
  <2>2. PICK z \in Seq(Packet) : Comes(p, z)
    BY <2>1 DEF PeerOK
  <2>3. Follows(p, Unread(p))
    BY <2>1, <2>2 DEF Comes, Tells, Unread
  <2>4. TalkOf(p)
    BY <2>1, <2>3 DEF TalkOf, Grammar
  <2>5. Conversation(p)
    BY <2>1 DEF PeerOK
  <2>6. QED
    BY <1>5, <2>4, <2>5, ServerConversation DEF Engaged
<1>6. StartsWith(owed[p], outq[p])'
  BY <1>5, WritesOwed DEF PeerOK
<1>7. Reaches(p)' => Reaches(p)
  <2>1. inq[p] = <<>> => inq'[p] = <<>>
    <3>1. CASE \/ Poll \/ TakeEntry \/ BatchDone \/ SkipRead \/ SkipWrite
               \/ recv_done \/ write_done \/ write_buffer \/ write_list
      BY <3>1 DEF Poll, TakeEntry, BatchDone, SkipRead, SkipWrite, recv_done, write_done,
                  write_buffer, write_list, net
    <3>2. CASE accept_tcp_handler
      BY <3>2, AcceptCases DEF Accepts, net, IInv, TypeOK
    <3>3. CASE write_event_handler
      <4>1. inq' = inq \/ inq' = [inq EXCEPT ![Client] = <<>>]
        BY <3>3 DEF write_event_handler, Delete, net
      <4>2. QED
        BY <4>1 DEF IInv, TypeOK
    <3>4. CASE p # Client /\ (read_event_handler \/ recv_integer \/ recv)
      BY <3>4, Bystander DEF Untouched
    <3>5. CASE p = Client /\ (read_event_handler \/ recv_integer \/ recv)
      BY <3>5 DEF read_event_handler, recv_integer, recv, Delete, IInv, TypeOK
    <3>6. QED
      BY <3>1, <3>2, <3>3, <3>4, <3>5 DEF ServerStep
  <2>2. QED
    BY <1>1, <2>1, ServerLinks DEF Reaches, PeerOK
<1>8. ASSUME Survives', Reaches(p)' PROVE \E z \in Seq(Packet) : Comes(p, z)'
  <2>1. PICK z \in Seq(Packet) : Comes(p, z)
    BY <1>2, <1>7, <1>8 DEF PeerOK
  <2>2. Comes(p, z)'
    BY <1>7, <1>8, <2>1, ServerComes DEF Reaches
  <2>3. QED
    BY <2>2
<1>9. StartsWith(sent[p], stored[p])'
  <2>1. CASE stored'[p] = stored[p]
    BY <1>1, <2>1 DEF PeerOK
  <2>2. CASE stored'[p] # stored[p]
    <3>1. /\ Live(p) /\ inq[p] # <<>> /\ phase = "recv" /\ phase' = phase /\ link' = link
      BY <2>2, StoresOne
    <3>2. link[p] \notin {"none", "closed"}
      BY <3>1 DEF PeerOK, Live, IInv, QueueOK
    <3>3. Survives /\ Survives' /\ Reaches(p)
      BY <3>1, <3>2 DEF Survives, Reaches
    <3>4. PICK z \in Seq(Packet) : Comes(p, z)
      BY <3>3 DEF PeerOK
    <3>5. QED
      BY <3>1, <3>2, <3>3, <3>4, ServerComes
  <2>3. QED
    BY <2>1, <2>2
<1>10. QED
  BY <1>3, <1>4, <1>5, <1>6, <1>8, <1>9 DEF PeerOK

(* A request behind what comes.                                            *)
LEMMA StillBegins ==
  ASSUME NEW s \in Seq(Packet), NEW t \in Seq(Packet), NEW u \in Seq(Packet), StartsWith(s, t)
  PROVE  StartsWith(s \o u, t)
<1>1. PICK w \in Seq(Packet) : w = s \o u
  BY ConcatAt
<1>2. /\ Len(w) = Len(s) + Len(u) /\ Len(s) \in Nat /\ Len(u) \in Nat /\ Len(t) \in Nat
      /\ \A i \in 1 .. Len(s) : w[i] = s[i]
  BY <1>1, ConcatAt
<1>3. Len(t) <= Len(s) /\ SubSeq(s, 1, Len(t)) = t
  BY DEF StartsWith
<1>4. Len(t) <= Len(w) /\ Len(t) \in 0 .. Len(s) /\ Len(t) \in 0 .. Len(w)
  BY <1>2, <1>3
<1>5. \A i \in 1 .. Len(t) : s[i] = t[i]
  <2>1. \A i \in 1 .. Len(t) : SubSeq(s, 1, Len(t))[i] = s[i]
    BY <1>4
  <2>2. QED
    BY <1>3, <2>1
<1>6. PICK v : v = SubSeq(w, 1, Len(t))
  OBVIOUS
<1>7. v \in Seq(Packet) /\ Len(v) = Len(t) /\ \A i \in 1 .. Len(t) : v[i] = w[i]
  BY <1>4, <1>6
<1>8. v = t
  BY <1>2, <1>3, <1>4, <1>5, <1>7, PacketsAgree
<1>9. QED
  BY <1>1, <1>4, <1>6, <1>8 DEF StartsWith

LEMMA StartsEmpty ==
  ASSUME NEW t \in Seq(Packet), StartsWith(<<>>, t)
  PROVE  t = <<>>
BY DEF StartsWith

LEMMA EmptyStarts == ASSUME NEW s \in Seq(Packet) PROVE StartsWith(s, <<>>)
BY DEF StartsWith

-----------------------------------------------------------------------------
(* The clients' own steps.                                                 *)

LEMMA WorldConnect ==
  ASSUME WorldOK, NEW p \in Peer, Connect(p)
  PROVE  WorldOK'
<1>1. /\ link[p] = "none" /\ link' = [link EXCEPT ![p] = "open"]
      /\ UNCHANGED <<loop, fdOf, inq, outq, heap, stored, peers>>
      /\ link \in [Peer -> Link] /\ IInv /\ Unknown(p)
  BY DEF Connect, WorldOK, PeerOK, IInv, TypeOK
<1>2. IInv' /\ link'[p] = "open"
  BY <1>1, ConnectStep
<1>3. /\ inq'[p] = <<>> /\ outbox'[p] = <<>> /\ outq'[p] = <<>> /\ wbuf'[p] = Null
      /\ list'[p] = <<>> /\ owed'[p] = <<>> /\ stored'[p] = <<>> /\ sent'[p] = <<>>
  BY <1>1 DEF Unknown, heap, peers
<1>4. ~Transferring(p)'
  <2>1. ~Live(p)
    BY <1>1 DEF IInv, QueueOK, Live
  <2>2. QED
    BY <1>1, <2>1 DEF Transferring, Client, loop, IInv, NoDangling, InHandler
<1>5. <<>> \o <<>> = <<>> /\ StartsWith(<<>>, <<>>) /\ Quiet(<<>>) /\ Requests(<<>>)
      /\ <<>> \in Seq(Packet)
  BY DEF StartsWith, Quiet, Requests
<1>6. Conversation(p)'
  BY <1>3, <1>5 DEF Conversation, Unread, Replied, Unsent
<1>7. Comes(p, <<>>)'
  <2>1. Follows(p, <<>>)'
    BY <1>4, <1>5 DEF Follows
  <2>2. QED
    BY <1>3, <1>5, <2>1, NothingInflight DEF Comes, Tells
<1>8. PeerOK(p)'
  BY <1>2, <1>3, <1>5, <1>6, <1>7 DEF PeerOK
<1>9. \A q \in Peer \ {p} : Untouched(q) /\ link'[q] = link[q]
  BY <1>1 DEF Untouched, heap, peers
<1>10. QED
  BY <1>1, <1>2, <1>8, <1>9, OthersStand

LEMMA WorldCompose ==
  ASSUME WorldOK, NEW p \in Peer, NEW r \in Request, Compose(p, r),
         link[p] \in {"open", "closed"}, outbox[p] = <<>>, owed[p] = <<>>
  PROVE  WorldOK'
<1>1. /\ outbox' = [outbox EXCEPT ![p] = Packets(r)]
      /\ owed' = [owed EXCEPT ![p] = @ \o Replies(r)]
      /\ sent' = [sent EXCEPT ![p] = @ \o Contents(r)]
      /\ UNCHANGED <<loop, net, heap, stored>> /\ IInv /\ TypeOK /\ PeerOK(p)
  BY DEF Compose, WorldOK, IInv
<1>2. /\ Packets(r) \in Seq(Packet) /\ Replies(r) \in Seq(Packet) /\ Contents(r) \in Seq(Packet)
  BY PacketsType
<1>3. /\ outbox'[p] = Packets(r) /\ owed'[p] = Replies(r) /\ sent'[p] = sent[p] \o Contents(r)
      /\ owed'[p] = owed[p] \o Replies(r)
      /\ inq' = inq /\ outq' = outq /\ link' = link /\ stored' = stored /\ obj' = obj
      /\ phase' = phase /\ transfer' = transfer /\ Client' = Client
  BY <1>1, <1>2, EmptyEnds DEF TypeOK, net, heap, loop, Client
<1>4. IInv'
  BY <1>1, ComposeStep
<1>5. StartsWith(owed[p], outq[p])'
  <2>1. outq[p] = <<>>
    BY <1>1, StartsEmpty DEF PeerOK, TypeOK
  <2>2. QED
    BY <1>2, <1>3, <2>1, EmptyStarts
<1>6. StartsWith(sent[p], stored[p])'
  <2>1. sent[p] \in Seq(Packet) /\ stored[p] \in Seq(Packet)
    BY <1>1 DEF TypeOK
  <2>2. QED
    BY <1>1, <1>2, <1>3, <2>1, StillBegins DEF PeerOK
<1>7. Survives' /\ link'[p] = "open" => Conversation(p)'
  BY <1>1, <1>3, ConversationGrown DEF PeerOK, Survives
<1>8. ASSUME Survives', Reaches(p)' PROVE \E z \in Seq(Packet) : Comes(p, z)'
  <2>1. Survives /\ Reaches(p) /\ link[p] = "open"
    BY <1>3, <1>8 DEF Survives, Reaches
  <2>2. PICK q \in Seq(Packet) : q = Unread(p)
    BY <1>1, QueueTypes
  <2>3. Follows(p, q) /\ Inflight(stored[p], sent[p], q)
    BY <1>1, <2>1, <2>2 DEF PeerOK, Comes, Tells, Unread
  <2>4. PICK t : t = q \o Packets(r)
    OBVIOUS
  <2>5. Unread(p)' = t
    BY <1>1, <1>3, <2>2, <2>4, UnreadGrown
  <2>6. Follows(p, t)'
    <3>1. Follows(p, t)
      BY <1>1, <2>3, <2>4, FollowsGrown
    <3>2. QED
      BY <1>3, <3>1, StillFollows DEF Transferring
  <2>7. Inflight(stored[p], sent[p], t)'
    <3>1. Inflight(stored[p], sent[p] \o Contents(r), t)
      BY <1>1, <2>3, <2>4, DataGrown DEF TypeOK
    <3>2. QED
      BY <1>3, <3>1
  <2>8. Comes(p, Packets(r))'
    BY <1>3, <2>5, <2>6, <2>7 DEF Comes, Tells, Unread
  <2>9. QED
    BY <1>2, <2>8
<1>9. PeerOK(p)'
  BY <1>1, <1>3, <1>5, <1>6, <1>7, <1>8 DEF PeerOK
<1>10. \A q \in Peer \ {p} : Untouched(q) /\ link'[q] = link[q]
  BY <1>1, <1>3 DEF Untouched, heap
<1>11. QED
  BY <1>1, <1>4, <1>9, <1>10, OthersStand

LEMMA WorldFlush ==
  ASSUME WorldOK, NEW p \in Peer, Flush(p)
  PROVE  WorldOK'
<1>1. /\ link[p] = "open" /\ outbox[p] # <<>>
      /\ inq' = [inq EXCEPT ![p] = Append(@, Head(outbox[p]))]
      /\ outbox' = [outbox EXCEPT ![p] = Tail(@)]
      /\ UNCHANGED <<loop, backlog, fdOf, link, outq, heap, stored, nreq, owed, sent>>
      /\ IInv /\ TypeOK /\ PeerOK(p)
  BY DEF Flush, WorldOK, IInv
<1>2. /\ inq'[p] = Append(inq[p], Head(outbox[p])) /\ outbox'[p] = Tail(outbox[p])
      /\ Tail(outbox[p]) \in Seq(Packet)
  BY <1>1 DEF TypeOK
<1>3. IInv'
  BY <1>1, FlushStep
<1>4. Unread(p)' = Unread(p)
  BY <1>1, <1>2, UnreadSent
<1>5. /\ phase' = phase /\ transfer' = transfer /\ Client' = Client /\ wbuf' = wbuf
      /\ Replied(p)' = Replied(p)
  BY <1>1 DEF loop, heap, Client, Replied, Unsent
<1>6. Survives' /\ link'[p] = "open" => Conversation(p)'
  <2>1. SUFFICES ASSUME Survives' PROVE Conversation(p)'
    OBVIOUS
  <2>2. Conversation(p)
    BY <1>1, <1>5, <2>1 DEF PeerOK, Survives
  <2>3. QED
    BY <1>1, <1>4, <1>5, <2>2, ConversationKept DEF Conversation
<1>7. ASSUME Survives' PROVE \E z \in Seq(Packet) : Comes(p, z)'
  <2>1. Survives /\ Reaches(p)
    BY <1>1, <1>5, <1>7 DEF Survives, Reaches
  <2>2. PICK q : q = Unread(p)
    OBVIOUS
  <2>3. Follows(p, q) /\ Inflight(stored[p], sent[p], q)
    BY <1>1, <2>1, <2>2 DEF PeerOK, Comes, Tells, Unread
  <2>4. Follows(p, q)'
    BY <1>5, <2>3, StillFollows DEF Transferring
  <2>5. PICK z \in Seq(Packet) : z = outbox'[p]
    BY <1>2
  <2>6. Comes(p, z)'
    BY <1>1, <1>4, <2>2, <2>3, <2>4, <2>5 DEF Comes, Tells, Unread
  <2>7. QED
    BY <2>6
<1>8. PeerOK(p)'
  BY <1>1, <1>6, <1>7 DEF PeerOK
<1>9. \A q \in Peer \ {p} : Untouched(q) /\ link'[q] = link[q]
  BY <1>1 DEF Untouched, heap
<1>10. QED
  BY <1>1, <1>3, <1>8, <1>9, OthersStand

LEMMA WorldReceive ==
  ASSUME WorldOK, NEW p \in Peer, Receive(p)
  PROVE  WorldOK'
<1>1. /\ outq[p] # <<>> /\ owed[p] # <<>>
      /\ outq' = [outq EXCEPT ![p] = Tail(@)]
      /\ owed' = [owed EXCEPT ![p] = Tail(@)]
      /\ UNCHANGED <<loop, backlog, fdOf, link, inq, heap, stored, outbox, nreq, sent>>
      /\ IInv /\ TypeOK /\ PeerOK(p)
      /\ outq[p] \in Seq(Packet) /\ owed[p] \in Seq(Packet)
  BY DEF Receive, WorldOK, IInv, TypeOK
<1>2. outq'[p] = Tail(outq[p]) /\ owed'[p] = Tail(owed[p])
  BY <1>1 DEF TypeOK
<1>3. IInv'
  BY <1>1, ReceiveStep
<1>4. /\ phase' = phase /\ transfer' = transfer /\ Client' = Client /\ obj' = obj
  BY <1>1 DEF loop, heap, Client
<1>5. StartsWith(owed[p], outq[p])'
  <2>1. StartsWith(Tail(owed[p]), Tail(outq[p]))
    BY <1>1, OrderTaken DEF PeerOK
  <2>2. QED
    BY <1>2, <2>1
<1>6. Survives' /\ link'[p] = "open" => Conversation(p)'
  BY <1>1, <1>2, <1>4, ConversationReceived DEF PeerOK, Survives
<1>7. ASSUME Survives', Reaches(p)' PROVE \E z \in Seq(Packet) : Comes(p, z)'
  <2>1. Survives /\ Reaches(p)
    BY <1>1, <1>4, <1>7 DEF Survives, Reaches
  <2>2. PICK z \in Seq(Packet) : Comes(p, z)
    BY <1>1, <2>1 DEF PeerOK
  <2>3. PICK q : q = inq[p] \o z
    OBVIOUS
  <2>4. Follows(p, q)'
    BY <1>4, <2>2, <2>3, StillFollows DEF Comes, Tells, Transferring
  <2>5. Comes(p, z)'
    BY <1>1, <2>2, <2>3, <2>4 DEF Comes, Tells
  <2>6. QED
    BY <2>5
<1>8. PeerOK(p)'
  <2>1. link[p] # "none"
    BY <1>1 DEF PeerOK, Unknown
  <2>2. QED
    BY <1>1, <1>4, <1>5, <1>6, <1>7, <2>1 DEF PeerOK
<1>9. \A q \in Peer \ {p} : Untouched(q) /\ link'[q] = link[q]
  BY <1>1 DEF Untouched, heap
<1>10. QED
  BY <1>1, <1>3, <1>8, <1>9, OthersStand

(* The process of a client ends: its connection does, and what it had not  *)
(* sent never arrives.                                                     *)
LEMMA WorldExit ==
  ASSUME WorldOK, NEW p \in Peer, Exit(p), link[p] # "none"
  PROVE  WorldOK'
<1>1. /\ link' = [link EXCEPT ![p] = IF @ # "open" THEN @
                                     ELSE IF outq[p] = <<>> THEN "fin" ELSE "rst"]
      /\ outq' = [outq EXCEPT ![p] = <<>>]
      /\ outbox' = [outbox EXCEPT ![p] = <<>>]
      /\ owed' = [owed EXCEPT ![p] = <<>>]
      /\ UNCHANGED <<loop, backlog, fdOf, inq, heap, stored, nreq, sent>>
      /\ IInv /\ TypeOK /\ PeerOK(p)
  BY DEF Exit, WorldOK, IInv
<1>2. /\ outq'[p] = <<>> /\ owed'[p] = <<>> /\ link'[p] # "open" /\ link'[p] # "none"
      /\ link'[p] = "closed" <=> link[p] = "closed"
      /\ link[p] \in Link
  BY <1>1 DEF TypeOK
<1>3. IInv'
  BY <1>1, ExitStep
<1>4. /\ phase' = phase /\ transfer' = transfer /\ Client' = Client /\ obj' = obj
  BY <1>1 DEF loop, heap, Client
<1>5. StartsWith(owed[p], outq[p])'
  BY <1>2 DEF StartsWith
<1>6. ASSUME Survives', Reaches(p)' PROVE \E z \in Seq(Packet) : Comes(p, z)'
  <2>1. Survives /\ Reaches(p)
    BY <1>1, <1>2, <1>4, <1>6 DEF Survives, Reaches
  <2>2. PICK z \in Seq(Packet) : Comes(p, z)
    BY <1>1, <2>1 DEF PeerOK
  <2>3. PICK q : q = inq[p] \o z
    OBVIOUS
  <2>4. Follows(p, q)'
    BY <1>4, <2>2, <2>3, StillFollows DEF Comes, Tells, Transferring
  <2>5. Comes(p, z)'
    BY <1>1, <1>2, <2>2, <2>3, <2>4 DEF Comes, Tells
  <2>6. QED
    BY <2>5
<1>7. PeerOK(p)'
  BY <1>1, <1>2, <1>4, <1>5, <1>6 DEF PeerOK
<1>8. \A q \in Peer \ {p} : Untouched(q) /\ link'[q] = link[q]
  BY <1>1 DEF Untouched, heap
<1>9. QED
  BY <1>1, <1>3, <1>7, <1>8, OthersStand

(* A connection is given up that the server has already left.              *)
LEMMA WorldLost ==
  ASSUME WorldOK, NEW p \in Peer, Lost(p), link[p] # "none",
         UNCHANGED <<loop, backlog, fdOf, link, inq, heap, stored, nreq, sent>>,
         \/ outbox[p] # <<>> /\ outbox' = [outbox EXCEPT ![p] = Tail(@)] /\ UNCHANGED <<outq, owed>>
         \/ /\ outq' = [outq EXCEPT ![p] = <<>>] /\ owed' = [owed EXCEPT ![p] = <<>>]
            /\ UNCHANGED outbox
  PROVE  WorldOK'
<1>1. IInv /\ TypeOK /\ PeerOK(p)
  BY DEF WorldOK, IInv
<1>2. IInv'
  <2>1. TypeOK'
    <3>1. outbox' \in [Peer -> Seq(Packet)]
      <4>1. outbox \in [Peer -> Seq(Packet)]
        BY <1>1 DEF TypeOK
      <4>2. CASE outbox' = outbox
        BY <4>1, <4>2
      <4>3. CASE outbox[p] # <<>> /\ outbox' = [outbox EXCEPT ![p] = Tail(@)]
        <5>1. Tail(outbox[p]) \in Seq(Packet)
          BY <4>1, <4>3
        <5>2. QED
          BY <4>1, <4>3, <5>1
      <4>4. QED
        BY <4>2, <4>3
    <3>2. /\ outq' \in [Peer -> Seq(Packet)] /\ owed' \in [Peer -> Seq(Packet)]
          /\ \A q \in Peer : Len(outq'[q]) <= Cap
      <4>1. Len(<<>>) <= Cap
        BY ServerAssumption
      <4>2. /\ outq \in [Peer -> Seq(Packet)] /\ owed \in [Peer -> Seq(Packet)]
            /\ \A q \in Peer : Len(outq[q]) <= Cap
        BY <1>1 DEF TypeOK
      <4>3. CASE UNCHANGED <<outq, owed>>
        BY <4>2, <4>3
      <4>4. CASE /\ outq' = [outq EXCEPT ![p] = <<>>] /\ owed' = [owed EXCEPT ![p] = <<>>]
        <5>1. <<>> \in Seq(Packet)
          OBVIOUS
        <5>2. /\ outq' \in [Peer -> Seq(Packet)] /\ owed' \in [Peer -> Seq(Packet)]
          BY <4>2, <4>4, <5>1
        <5>3. \A q \in Peer : Len(outq'[q]) <= Cap
          BY <4>1, <4>2, <4>4
        <5>4. QED
          BY <5>2, <5>3
      <4>5. QED
        BY <4>3, <4>4
    <3>3. QED
      BY <1>1, <3>1, <3>2 DEF TypeOK, loop, heap
  <2>2. QueueOK'
    BY <1>1 DEF IInv, QueueOK, heap
  <2>3. \A q \in Peer : Readable(q)' = Readable(q)
    BY DEF Readable
  <2>4. QED
    BY <1>1, <2>1, <2>2, <2>3, PeerKeeps
<1>3. obj' = obj /\ phase' = phase
  BY DEF loop, heap
<1>4. ~(Survives' /\ link'[p] = "open") /\ ~(Survives' /\ Reaches(p)')
  BY <1>3 DEF Lost, Survives, Reaches
<1>5. StartsWith(owed[p], outq[p])'
  <2>1. StartsWith(<<>>, <<>>)
    BY DEF StartsWith
  <2>2. QED
    BY <1>1, <2>1 DEF PeerOK, TypeOK
<1>6. PeerOK(p)'
  BY <1>1, <1>3, <1>4, <1>5 DEF PeerOK
<1>7. \A q \in Peer \ {p} : Untouched(q) /\ link'[q] = link[q]
  BY <1>1 DEF Untouched, heap, TypeOK
<1>8. QED
  BY <1>1, <1>2, <1>6, <1>7, OthersStand

LEMMA WorldServes ==
  ASSUME WorldOK, ServerStep
  PROVE  WorldOK'
<1>1. IInv /\ IInv'
  BY NextIInv DEF WorldOK, Next
<1>2. QED
  BY <1>1, ServerPeer DEF WorldOK

LEMMA WorldStands ==
  ASSUME WorldOK, UNCHANGED vars
  PROVE  WorldOK'
<1>1. /\ UNCHANGED <<loop, link, heap, stored, inq, outq, peers>> /\ IInv /\ IInv'
  BY NextIInv DEF WorldOK, vars, net
<1>2. ASSUME NEW p \in Peer PROVE PeerOK(p)'
  BY <1>1, StandsStill DEF WorldOK, Untouched, Survives, Transferring, Client, loop, heap, peers
<1>3. QED
  BY <1>1, <1>2 DEF WorldOK

-----------------------------------------------------------------------------
(* The clients: what a command still waits for fits the place its thread   *)
(* is at.                                                                  *)
Place == {"off", "prompt", "flush", "recv", "recv_integer", "recv_file", "hung", "gone"}

ClientTypes ==
  /\ at \in [Peer -> Place]
  /\ cmd \in [Peer -> {"none"} \cup {r.cmd : r \in Request}]
  /\ file \in [Peer -> {"regular"} \cup Local]
  /\ num \in [Peer -> Nat]
  /\ got \in [Peer -> Seq(Packet)]

(* n packets of a file, of which only the last can be empty.               *)
Parts(s, n) == n = Len(s) /\ \A i \in 1 .. Len(s) : i < Len(s) => s[i].val # 0

(* Their number, and then the packets.                                     *)
Counted(s) == s # <<>> /\ Parts(Tail(s), Head(s).val)

Expects(place, command, n, s) ==
  CASE place = "flush"        -> CASE command = "ping"      -> Len(s) = 1
                                   [] command = "file_recv" -> Counted(s)
                                   [] OTHER                 -> s = <<>>
    [] place = "recv"         -> Len(s) = 1
    [] place = "recv_integer" -> Counted(s)
    [] place = "recv_file"    -> Parts(s, n)
    [] OTHER                  -> s = <<>>

ClientOK(p) ==
  /\ at[p] = "off" <=> link[p] = "none"
  /\ at[p] \notin {"off", "gone"} => link[p] \in {"open", "closed"}
  /\ at[p] # "flush" => outbox[p] = <<>>
  /\ Expects(at[p], cmd[p], num[p], owed[p])

CSInv == WorldOK /\ ClientTypes /\ \A p \in Peer : ClientOK(p)

LEMMA InitCSInv == CSInit => CSInv
<1> SUFFICES ASSUME CSInit PROVE CSInv
  OBVIOUS
<1>1. WorldOK
  BY InitWorld DEF CSInit
<1>2. ClientTypes
  <2>1. <<>> \in Seq(Packet)
    OBVIOUS
  <2>2. QED
    BY <2>1 DEF CSInit, ClientTypes, Place
<1>3. \A p \in Peer : ClientOK(p)
  BY DEF CSInit, Init, ClientOK, Expects
<1>4. QED
  BY <1>1, <1>2, <1>3 DEF CSInv

(* Who has not moved is as it was.                                         *)
LEMMA OthersWait ==
  ASSUME CSInv, NEW p \in Peer, ClientOK(p)',
         \A q \in Peer \ {p} :
           /\ at'[q] = at[q] /\ cmd'[q] = cmd[q] /\ num'[q] = num[q]
           /\ link'[q] = link[q] /\ outbox'[q] = outbox[q] /\ owed'[q] = owed[q]
  PROVE  \A q \in Peer : ClientOK(q)'
<1>1. ASSUME NEW q \in Peer \ {p} PROVE ClientOK(q)'
  BY <1>1 DEF CSInv, ClientOK
<1>2. QED
  BY <1>1

(* The packets of a request's reply.                                       *)
LEMMA RepliesExpected ==
  ASSUME NEW r \in Request, Sends(r), NEW n
  PROVE  Expects("flush", r.cmd, n, Replies(r))
<1>1. Accepted(r) /\ r.cmd \in {"ping", "file_send", "file_recv"} /\ r.size \in Nat
  BY RequestAssumption DEF Sends
<1>2. CASE r.cmd = "ping"
  BY <1>1, <1>2 DEF Expects, Replies
<1>3. CASE r.cmd = "file_send"
  BY <1>1, <1>3 DEF Expects, Replies
<1>4. CASE r.cmd = "file_recv"
  <2>1. PICK c \in Seq(Packet) :
           /\ c = Chunks(r.size) /\ Len(c) \in Nat \ {0}
           /\ \A i \in 1 .. Len(c) : c[i].type = "chunk" /\ (i < Len(c) => c[i].val # 0)
    BY <1>1, ChunksFormat
  <2>2. PICK h \in Packet : h = Integer(Len(c))
    BY <2>1 DEF Integer, Packet
  <2>3. PICK s : s = <<h>> \o c
    OBVIOUS
  <2>4. s = Replies(r)
    BY <1>1, <1>4, <2>1, <2>2, <2>3 DEF Replies
  <2>5. s # <<>> /\ Tail(s) = c /\ Head(s) = h
    <3>1. <<h>> \in Seq(Packet)
      OBVIOUS
    <3>2. Len(s) = 1 + Len(c) /\ s \in Seq(Packet) /\ s[1] = h
      BY <2>1, <2>3, <3>1
    <3>3. /\ Tail(s) \in Seq(Packet) /\ Len(Tail(s)) = Len(c)
          /\ \A i \in 1 .. Len(c) : Tail(s)[i] = c[i]
      BY <2>1, <2>3, <3>1, <3>2
    <3>4. Tail(s) = c
      BY <2>1, <3>3, PacketsAgree
    <3>5. QED
      BY <2>1, <3>2, <3>4
  <2>6. h.val = Len(c)
    BY <2>2 DEF Integer
  <2>7. Parts(c, h.val)
    BY <2>1, <2>6 DEF Parts
  <2>8. Counted(s)
    BY <2>5, <2>7 DEF Counted
  <2>9. QED
    BY <1>4, <2>4, <2>8 DEF Expects
<1>5. QED
  BY <1>1, <1>2, <1>3, <1>4

(* The next packet of a file.                                              *)
LEMMA PartsTaken ==
  ASSUME NEW s \in Seq(Packet), NEW n \in Nat, Parts(s, n), s # <<>>, NEW m,
         m = IF Head(s).val = 0 THEN 0 ELSE n - 1
  PROVE  m \in Nat /\ Parts(Tail(s), m)
<1>1. n = Len(s) /\ n \in Nat \ {0} /\ \A i \in 1 .. n : i < n => s[i].val # 0
  BY DEF Parts
<1>2. Head(s) = s[1]
  OBVIOUS
<1>3. m = n - 1
  BY <1>1, <1>2
<1>4. /\ Tail(s) \in Seq(Packet) /\ Len(Tail(s)) = n - 1
      /\ \A i \in 1 .. n - 1 : Tail(s)[i] = s[i + 1]
  BY <1>1
<1>5. PICK t : t = Tail(s)
  OBVIOUS
<1>6. \A i \in 1 .. Len(t) : i < Len(t) => t[i].val # 0
  BY <1>1, <1>4, <1>5
<1>7. QED
  BY <1>1, <1>3, <1>4, <1>5, <1>6 DEF Parts

LEMMA ConnectCSInv ==
  ASSUME CSInv, NEW p \in Peer, connect(p)
  PROVE  CSInv'
<1>1. /\ at[p] = "off" /\ Connect(p) /\ at' = [at EXCEPT ![p] = "prompt"]
      /\ UNCHANGED <<cmd, file, num, got>>
      /\ WorldOK /\ ClientTypes /\ ClientOK(p) /\ link \in [Peer -> Link]
  BY DEF connect, Goto, CSInv, WorldOK, IInv, TypeOK
<1>2. WorldOK'
  BY <1>1, WorldConnect
<1>3. ClientTypes'
  BY <1>1 DEF ClientTypes, Place
<1>4. /\ link' = [link EXCEPT ![p] = "open"] /\ outbox' = outbox /\ owed' = owed
  BY <1>1 DEF Connect, peers
<1>5. ClientOK(p)'
  <2>1. at'[p] = "prompt" /\ link'[p] = "open" /\ outbox[p] = <<>> /\ owed[p] = <<>>
    BY <1>1, <1>4 DEF ClientTypes, ClientOK, Expects
  <2>2. QED
    BY <1>4, <2>1 DEF ClientOK, Expects
<1>6. \A q \in Peer \ {p} : at'[q] = at[q] /\ link'[q] = link[q]
  BY <1>1, <1>4 DEF ClientTypes
<1>7. QED
  BY <1>1, <1>2, <1>3, <1>4, <1>5, <1>6, OthersWait DEF CSInv

(* A command begins, with the request under way.                           *)
LEMMA ComposeCSInv ==
  ASSUME CSInv, NEW p \in Peer, NEW r \in Request, NEW f \in {"regular"} \cup Local,
         at[p] = "prompt", Sends(r), Compose(p, r),
         cmd' = [cmd EXCEPT ![p] = r.cmd], file' = [file EXCEPT ![p] = f],
         Goto(p, "flush"), got' = [got EXCEPT ![p] = <<>>], UNCHANGED num
  PROVE  CSInv'
<1>1. /\ WorldOK /\ ClientTypes /\ ClientOK(p)
      /\ outbox \in [Peer -> Seq(Packet)] /\ owed \in [Peer -> Seq(Packet)]
  BY DEF CSInv, WorldOK, IInv, TypeOK
<1>2. link[p] \in {"open", "closed"} /\ outbox[p] = <<>> /\ owed[p] = <<>>
  BY <1>1 DEF ClientOK, Expects
<1>3. WorldOK'
  BY <1>1, <1>2, WorldCompose
<1>4. ClientTypes'
  <2>1. <<>> \in Seq(Packet)
    OBVIOUS
  <2>2. QED
    BY <1>1, <2>1 DEF ClientTypes, Place, Goto
<1>5. /\ link' = link /\ outbox' = [outbox EXCEPT ![p] = Packets(r)]
      /\ owed' = [owed EXCEPT ![p] = @ \o Replies(r)]
  BY DEF Compose, net
<1>6. at'[p] = "flush" /\ cmd'[p] = r.cmd /\ num'[p] = num[p]
  BY <1>1 DEF ClientTypes, Goto
<1>7. owed'[p] = Replies(r)
  <2>1. Replies(r) \in Seq(Packet)
    BY PacketsType
  <2>2. <<>> \o Replies(r) = Replies(r)
    BY <2>1, EmptyEnds
  <2>3. QED
    BY <1>1, <1>2, <1>5, <2>2
<1>8. ClientOK(p)'
  <2>1. Expects("flush", r.cmd, num[p], Replies(r))
    BY RepliesExpected
  <2>2. Expects(at[p], cmd[p], num[p], owed[p])'
    BY <1>6, <1>7, <2>1
  <2>3. QED
    BY <1>2, <1>5, <1>6, <2>2 DEF ClientOK
<1>9. \A q \in Peer \ {p} : /\ at'[q] = at[q] /\ cmd'[q] = cmd[q]
                            /\ outbox'[q] = outbox[q] /\ owed'[q] = owed[q]
  BY <1>1, <1>5 DEF ClientTypes, Goto
<1>10. QED
  BY <1>1, <1>3, <1>4, <1>5, <1>8, <1>9, OthersWait DEF CSInv

(* Nothing moves but a client from one place to another.                   *)
LEMMA MovesCSInv ==
  ASSUME CSInv, NEW p \in Peer, NEW place \in Place \ {"off", "gone", "flush"},
         Goto(p, place), UNCHANGED vars, UNCHANGED <<num, got>>,
         at[p] \notin {"off", "gone"}, outbox[p] = <<>>,
         Expects(place, "none", num[p], owed[p]),
         \/ UNCHANGED <<cmd, file>>
         \/ \E c \in {r.cmd : r \in Request}, f \in {"regular"} \cup Local :
              cmd' = [cmd EXCEPT ![p] = c] /\ file' = [file EXCEPT ![p] = f]
  PROVE  CSInv'
<1>1. WorldOK /\ ClientTypes /\ ClientOK(p) /\ at' = [at EXCEPT ![p] = place]
  BY DEF CSInv, Goto
<1>2. WorldOK'
  BY <1>1, WorldStands
<1>3. ClientTypes'
  BY <1>1 DEF ClientTypes, Place
<1>4. link' = link /\ outbox' = outbox /\ owed' = owed
  BY DEF vars, net, peers
<1>5. at'[p] = place
  BY <1>1 DEF ClientTypes
<1>6. Expects(at[p], cmd[p], num[p], owed[p])'
  BY <1>4, <1>5 DEF Expects
<1>7. ClientOK(p)'
  BY <1>1, <1>4, <1>5, <1>6 DEF ClientOK
<1>8. \A q \in Peer \ {p} : at'[q] = at[q] /\ cmd'[q] = cmd[q]
  BY <1>1 DEF ClientTypes
<1>9. QED
  BY <1>1, <1>2, <1>3, <1>4, <1>7, <1>8, OthersWait DEF CSInv

LEMMA DiesCSInv ==
  ASSUME CSInv, NEW p \in Peer, Dies(p), at[p] # "off", UNCHANGED <<num, got>>,
         \/ UNCHANGED <<cmd, file>>
         \/ \E c \in {r.cmd : r \in Request}, f \in {"regular"} \cup Local :
              cmd' = [cmd EXCEPT ![p] = c] /\ file' = [file EXCEPT ![p] = f]
  PROVE  CSInv'
<1>1. /\ WorldOK /\ ClientTypes /\ ClientOK(p) /\ at' = [at EXCEPT ![p] = "gone"] /\ Exit(p)
      /\ link \in [Peer -> Link] /\ outbox \in [Peer -> Seq(Packet)]
      /\ owed \in [Peer -> Seq(Packet)] /\ link[p] # "none"
  BY DEF Dies, Goto, CSInv, WorldOK, IInv, TypeOK, ClientOK
<1>2. WorldOK'
  BY <1>1, WorldExit
<1>3. ClientTypes'
  BY <1>1 DEF ClientTypes, Place
<1>4. /\ link' = [link EXCEPT ![p] = IF @ # "open" THEN @
                                     ELSE IF outq[p] = <<>> THEN "fin" ELSE "rst"]
      /\ outbox' = [outbox EXCEPT ![p] = <<>>] /\ owed' = [owed EXCEPT ![p] = <<>>]
  BY <1>1 DEF Exit
<1>5. at'[p] = "gone" /\ link'[p] # "none" /\ outbox'[p] = <<>> /\ owed'[p] = <<>>
  BY <1>1, <1>4 DEF ClientTypes
<1>6. ClientOK(p)'
  BY <1>5 DEF ClientOK, Expects
<1>7. \A q \in Peer \ {p} : /\ at'[q] = at[q] /\ cmd'[q] = cmd[q] /\ link'[q] = link[q]
                            /\ outbox'[q] = outbox[q] /\ owed'[q] = owed[q]
  BY <1>1, <1>4 DEF ClientTypes
<1>8. QED
  BY <1>1, <1>2, <1>3, <1>6, <1>7, OthersWait DEF CSInv

LEMMA ProcessCSInv ==
  ASSUME CSInv, NEW p \in Peer, NEW r \in Request, process(p, r)
  PROVE  CSInv'
<1>1. PICK f \in IF r.cmd = "ping" THEN {"regular"} ELSE Local :
        /\ at[p] = "prompt" /\ Sends(r) /\ UNCHANGED num
        /\ cmd' = [cmd EXCEPT ![p] = r.cmd] /\ file' = [file EXCEPT ![p] = f]
        /\ \/ Dies(p) /\ UNCHANGED got
           \/ Goto(p, "hung") /\ UNCHANGED <<vars, got>>
           \/ Compose(p, r) /\ Goto(p, "flush") /\ got' = [got EXCEPT ![p] = <<>>]
  BY DEF process
<1>2. f \in {"regular"} \cup Local
  BY <1>1
<1>3. CASE Dies(p) /\ UNCHANGED got
  BY <1>1, <1>2, <1>3, DiesCSInv
<1>4. CASE Goto(p, "hung") /\ UNCHANGED <<vars, got>>
  <2>1. outbox[p] = <<>> /\ Expects("hung", "none", num[p], owed[p])
    BY <1>1 DEF CSInv, ClientOK, Expects
  <2>2. QED
    BY <1>1, <1>2, <1>4, <2>1, MovesCSInv DEF Place
<1>5. CASE Compose(p, r) /\ Goto(p, "flush") /\ got' = [got EXCEPT ![p] = <<>>]
  BY <1>1, <1>2, <1>5, ComposeCSInv
<1>6. QED
  BY <1>1, <1>3, <1>4, <1>5

LEMMA StandsCSInv ==
  ASSUME CSInv, UNCHANGED <<vars, client>>
  PROVE  CSInv'
<1>1. WorldOK'
  BY WorldStands DEF CSInv
<1>2. ClientTypes' /\ \A p \in Peer : ClientOK(p)'
  BY DEF CSInv, ClientTypes, ClientOK, client, vars, net, peers
<1>3. QED
  BY <1>1, <1>2 DEF CSInv

LEMMA RejectCSInv ==
  ASSUME CSInv, NEW p \in Peer, NEW r \in Request, reject(p, r)
  PROVE  CSInv'
<1>1. CASE UNCHANGED <<vars, at>>
  BY <1>1, StandsCSInv DEF reject, client
<1>2. CASE Dies(p)
  BY <1>2, DiesCSInv DEF reject
<1>3. QED
  BY <1>1, <1>2 DEF reject

LEMMA FlushCSInv ==
  ASSUME CSInv, NEW p \in Peer, flush(p)
  PROVE  CSInv'
<1>1. /\ WorldOK /\ ClientTypes /\ ClientOK(p) /\ at[p] = "flush" /\ Flush(p) /\ UNCHANGED client
      /\ outbox \in [Peer -> Seq(Packet)]
  BY DEF flush, CSInv, WorldOK, IInv, TypeOK
<1>2. WorldOK'
  BY <1>1, WorldFlush
<1>3. /\ UNCHANGED <<at, cmd, num, link, owed>> /\ outbox' = [outbox EXCEPT ![p] = Tail(@)]
  BY <1>1 DEF Flush, client
<1>4. ClientTypes'
  BY <1>1 DEF ClientTypes, client
<1>5. ClientOK(p)'
  BY <1>1, <1>3 DEF ClientOK
<1>6. \A q \in Peer \ {p} : outbox'[q] = outbox[q]
  BY <1>1, <1>3
<1>7. QED
  BY <1>2, <1>3, <1>4, <1>5, <1>6, OthersWait DEF CSInv

LEMMA FlushLostCSInv ==
  ASSUME CSInv, NEW p \in Peer, flush_lost(p)
  PROVE  CSInv'
<1>1. /\ WorldOK /\ ClientTypes /\ ClientOK(p) /\ at[p] = "flush" /\ Lost(p) /\ outbox[p] # <<>>
      /\ UNCHANGED <<cmd, file, num, got>> /\ outbox \in [Peer -> Seq(Packet)]
  BY DEF flush_lost, CSInv, WorldOK, IInv, TypeOK
<1>2. CASE /\ outbox' = [outbox EXCEPT ![p] = Tail(@)]
           /\ UNCHANGED <<at, loop, net, heap, stored, nreq, owed, sent>>
  <2>1. /\ UNCHANGED <<loop, backlog, fdOf, link, inq, heap, stored, nreq, sent>>
        /\ UNCHANGED <<outq, owed>>
    BY <1>2 DEF net
  <2>2. link[p] # "none"
    BY <1>1 DEF ClientOK
  <2>3. WorldOK'
    BY <1>1, <1>2, <2>1, <2>2, WorldLost
  <2>4. ClientTypes'
    BY <1>1, <1>2 DEF ClientTypes
  <2>5. ClientOK(p)'
    BY <1>1, <1>2, <2>1 DEF ClientOK
  <2>6. \A q \in Peer \ {p} : outbox'[q] = outbox[q]
    BY <1>1, <1>2
  <2>7. QED
    BY <1>1, <1>2, <2>1, <2>3, <2>4, <2>5, <2>6, OthersWait DEF CSInv
<1>3. CASE Dies(p)
  BY <1>1, <1>3, DiesCSInv
<1>4. QED
  BY <1>2, <1>3 DEF flush_lost

LEMMA FlushedCSInv ==
  ASSUME CSInv, NEW p \in Peer, flushed(p)
  PROVE  CSInv'
<1>1. /\ at[p] = "flush" /\ outbox[p] = <<>> /\ UNCHANGED <<vars, cmd, file, num, got>>
      /\ Expects("flush", cmd[p], num[p], owed[p])
  BY DEF flushed, CSInv, ClientOK
<1>2. CASE cmd[p] = "ping"
  <2>1. Expects("recv", "none", num[p], owed[p])
    BY <1>1, <1>2 DEF Expects
  <2>2. QED
    BY <1>1, <1>2, <2>1, MovesCSInv DEF flushed, Place
<1>3. CASE cmd[p] = "file_recv"
  <2>1. Expects("recv_integer", "none", num[p], owed[p])
    BY <1>1, <1>3 DEF Expects
  <2>2. QED
    BY <1>1, <1>3, <2>1, MovesCSInv DEF flushed, Place
<1>4. CASE cmd[p] \notin {"ping", "file_recv"}
  <2>1. Expects("prompt", "none", num[p], owed[p])
    BY <1>1, <1>4 DEF Expects
  <2>2. QED
    BY <1>1, <1>4, <2>1, MovesCSInv DEF flushed, Place
<1>5. QED
  BY <1>2, <1>3, <1>4

(* What a client may turn to when a packet has arrived, or never will.     *)
LEMMA HeardCSInv ==
  ASSUME CSInv, NEW p \in Peer, NEW place \in {"prompt", "recv_file"}, NEW n \in Nat,
         at[p] \in {"recv", "recv_integer", "recv_file"},
         at' = [at EXCEPT ![p] = place], num' = [num EXCEPT ![p] = n], UNCHANGED <<cmd, file>>,
         \/ Arrives(p) /\ Expects(place, "none", n, Tail(owed[p]))
         \/ Ended(p) /\ Expects(place, "none", n, <<>>)
  PROVE  CSInv'
<1>1. /\ WorldOK /\ ClientTypes /\ ClientOK(p)
      /\ outq \in [Peer -> Seq(Packet)] /\ owed \in [Peer -> Seq(Packet)]
  BY DEF CSInv, WorldOK, IInv, TypeOK
<1>2. link[p] # "none" /\ link[p] \in {"open", "closed"} /\ outbox[p] = <<>>
  BY <1>1 DEF ClientOK
<1>3. WorldOK' /\ UNCHANGED <<link, outbox>> /\ got' \in [Peer -> Seq(Packet)]
      /\ \E s \in Seq(Packet) : owed' = [owed EXCEPT ![p] = s] /\ Expects(place, "none", n, s)
  <2>1. CASE Arrives(p) /\ Expects(place, "none", n, Tail(owed[p]))
    <3>1. Receive(p) /\ owed' = [owed EXCEPT ![p] = Tail(@)] /\ UNCHANGED <<link, outbox>>
          /\ outq[p] # <<>> /\ owed[p] # <<>>
      BY <2>1 DEF Arrives, Receive
    <3>2. WorldOK'
      BY <1>1, <3>1, WorldReceive
    <3>3. got' \in [Peer -> Seq(Packet)]
      <4>1. Head(outq[p]) \in Packet /\ got[p] \in Seq(Packet)
        BY <1>1, <3>1 DEF ClientTypes
      <4>2. Append(got[p], Head(outq[p])) \in Seq(Packet)
        BY <4>1
      <4>3. QED
        BY <1>1, <2>1, <4>2 DEF ClientTypes, Arrives
    <3>4. Tail(owed[p]) \in Seq(Packet)
      BY <1>1, <3>1
    <3>5. QED
      BY <2>1, <3>1, <3>2, <3>3, <3>4
  <2>2. CASE Ended(p) /\ Expects(place, "none", n, <<>>)
    <3>1. /\ Lost(p) /\ UNCHANGED got
          /\ owed' = [owed EXCEPT ![p] = <<>>] /\ outq' = [outq EXCEPT ![p] = <<>>]
          /\ UNCHANGED <<loop, backlog, fdOf, link, inq, heap, stored, nreq, sent>>
          /\ UNCHANGED outbox
      BY <2>2 DEF Ended
    <3>2. WorldOK'
      BY <1>1, <1>2, <3>1, WorldLost
    <3>3. <<>> \in Seq(Packet)
      OBVIOUS
    <3>4. QED
      BY <1>1, <2>2, <3>1, <3>2, <3>3 DEF ClientTypes
  <2>3. QED
    BY <2>1, <2>2
<1>4. PICK s \in Seq(Packet) : owed' = [owed EXCEPT ![p] = s] /\ Expects(place, "none", n, s)
  BY <1>3
<1>5. ClientTypes'
  BY <1>1, <1>3 DEF ClientTypes, Place
<1>6. ClientOK(p)'
  <2>1. at'[p] = place /\ num'[p] = n /\ owed'[p] = s
    BY <1>1, <1>4 DEF ClientTypes
  <2>2. Expects(at[p], cmd[p], num[p], owed[p])'
    BY <1>4, <2>1 DEF Expects
  <2>3. QED
    BY <1>2, <1>3, <2>1, <2>2 DEF ClientOK
<1>7. \A q \in Peer \ {p} : at'[q] = at[q] /\ num'[q] = num[q] /\ owed'[q] = owed[q]
  BY <1>1, <1>4 DEF ClientTypes
<1>8. QED
  BY <1>1, <1>3, <1>5, <1>6, <1>7, OthersWait DEF CSInv

LEMMA LastTaken ==
  ASSUME NEW s \in Seq(Packet), Len(s) = 1
  PROVE  Tail(s) = <<>>
<1>1. s # <<>>
  OBVIOUS
<1>2. Tail(s) \in Seq(Packet) /\ Len(Tail(s)) = Len(s) - 1
  BY <1>1, HeadTailProperties
<1>3. Len(Tail(s)) \notin Nat \ {0}
  BY <1>2
<1>4. QED
  BY <1>2, <1>3, EmptySeq

LEMMA ReplyCSInv ==
  ASSUME CSInv, NEW p \in Peer, recv_reply(p)
  PROVE  CSInv'
<1>1. at[p] = "recv" /\ UNCHANGED <<cmd, file, num>> /\ num \in [Peer -> Nat]
      /\ Len(owed[p]) = 1 /\ owed[p] \in Seq(Packet)
  BY DEF recv_reply, CSInv, ClientTypes, ClientOK, Expects, WorldOK, IInv, TypeOK
<1>2. CASE (Arrives(p) \/ Ended(p)) /\ Goto(p, "prompt")
  <2>1. num' = [num EXCEPT ![p] = num[p]] /\ num[p] \in Nat
    BY <1>1
  <2>2. Tail(owed[p]) = <<>>
    BY <1>1, LastTaken
  <2>3. Expects("prompt", "none", num[p], Tail(owed[p])) /\ Expects("prompt", "none", num[p], <<>>)
    BY <2>2 DEF Expects
  <2>4. QED
    BY <1>1, <1>2, <2>1, <2>3, HeardCSInv DEF Goto
<1>3. CASE Dies(p) /\ UNCHANGED got
  BY <1>1, <1>3, DiesCSInv
<1>4. QED
  BY <1>2, <1>3 DEF recv_reply

LEMMA HeadsMeet ==
  ASSUME NEW s \in Seq(Packet), NEW t \in Seq(Packet), s # <<>>, t # <<>>, StartsWith(s, t)
  PROVE  Head(t) = Head(s) /\ Head(t) \in Packet
<1>1. Len(t) \in Nat \ {0} /\ Len(s) \in Nat \ {0} /\ Len(t) <= Len(s)
  BY DEF StartsWith
<1>2. SubSeq(s, 1, Len(t))[1] = s[1]
  BY <1>1
<1>3. QED
  BY <1>1, <1>2 DEF StartsWith

LEMMA CountCSInv ==
  ASSUME CSInv, NEW p \in Peer, recv_count(p)
  PROVE  CSInv'
<1>1. at[p] = "recv_integer" /\ Goto(p, "recv_file") /\ UNCHANGED <<cmd, file>>
      /\ Counted(owed[p]) /\ owed[p] \in Seq(Packet) /\ outq[p] \in Seq(Packet)
      /\ StartsWith(owed[p], outq[p])
  BY DEF recv_count, CSInv, ClientOK, Expects, WorldOK, PeerOK, IInv, TypeOK
<1>2. CASE Arrives(p) /\ num' = [num EXCEPT ![p] = Head(outq[p]).val]
  <2>1. outq[p] # <<>> /\ owed[p] # <<>>
    BY <1>2 DEF Arrives, Receive
  <2>2. Head(outq[p]) = Head(owed[p]) /\ Head(outq[p]) \in Packet
    BY <1>1, <2>1, HeadsMeet
  <2>3. PICK n \in Nat : n = Head(outq[p]).val
    BY <2>2 DEF Packet
  <2>4. Expects("recv_file", "none", n, Tail(owed[p]))
    BY <1>1, <2>2, <2>3 DEF Counted, Expects
  <2>5. QED
    BY <1>1, <1>2, <2>3, <2>4, HeardCSInv DEF Goto
<1>3. CASE Ended(p) /\ num' = [num EXCEPT ![p] = 0]
  <2>1. Expects("recv_file", "none", 0, <<>>)
    BY DEF Expects, Parts
  <2>2. QED
    BY <1>1, <1>3, <2>1, HeardCSInv DEF Goto
<1>4. QED
  BY <1>2, <1>3 DEF recv_count

LEMMA PartCSInv ==
  ASSUME CSInv, NEW p \in Peer, recv_part(p)
  PROVE  CSInv'
<1>1. /\ at[p] = "recv_file" /\ UNCHANGED <<cmd, file>> /\ at \in [Peer -> Place]
      /\ num[p] \in Nat /\ num[p] > 0
      /\ Parts(owed[p], num[p]) /\ owed[p] \in Seq(Packet) /\ outq[p] \in Seq(Packet)
      /\ StartsWith(owed[p], outq[p])
  BY DEF recv_part, CSInv, ClientTypes, ClientOK, Expects, WorldOK, PeerOK, IInv, TypeOK
<1>2. CASE /\ Arrives(p)
           /\ num' = [num EXCEPT ![p] = IF Head(outq[p]).val = 0 THEN 0 ELSE @ - 1]
           /\ UNCHANGED at
  <2>1. outq[p] # <<>> /\ owed[p] # <<>>
    BY <1>2 DEF Arrives, Receive
  <2>2. Head(outq[p]) = Head(owed[p]) /\ Head(outq[p]) \in Packet
    BY <1>1, <2>1, HeadsMeet
  <2>3. PICK m : m = IF Head(owed[p]).val = 0 THEN 0 ELSE num[p] - 1
    OBVIOUS
  <2>4. m \in Nat /\ Parts(Tail(owed[p]), m)
    BY <1>1, <2>1, <2>3, PartsTaken
  <2>5. Expects("recv_file", "none", m, Tail(owed[p]))
    BY <2>4 DEF Expects
  <2>6. num' = [num EXCEPT ![p] = m] /\ at' = [at EXCEPT ![p] = "recv_file"]
    BY <1>1, <1>2, <2>2, <2>3
  <2>7. QED
    BY <1>1, <1>2, <2>4, <2>5, <2>6, HeardCSInv
<1>3. CASE Ended(p) /\ num' = [num EXCEPT ![p] = 0] /\ UNCHANGED at
  <2>1. Expects("recv_file", "none", 0, <<>>)
    BY DEF Expects, Parts
  <2>2. at' = [at EXCEPT ![p] = "recv_file"]
    BY <1>1, <1>3
  <2>3. QED
    BY <1>1, <1>3, <2>1, <2>2, HeardCSInv
<1>4. CASE Dies(p) /\ UNCHANGED <<num, got>>
  BY <1>1, <1>4, DiesCSInv
<1>5. QED
  BY <1>2, <1>3, <1>4 DEF recv_part

LEMMA ReceivedCSInv ==
  ASSUME CSInv, NEW p \in Peer, received(p)
  PROVE  CSInv'
<1>1. /\ at[p] = "recv_file" /\ num[p] = 0 /\ UNCHANGED <<cmd, file, num, got>>
      /\ Parts(owed[p], num[p]) /\ owed[p] \in Seq(Packet) /\ outbox[p] = <<>>
  BY DEF received, CSInv, ClientOK, Expects, WorldOK, IInv, TypeOK
<1>2. CASE Goto(p, "prompt") /\ UNCHANGED vars
  <2>1. Len(owed[p]) = 0
    BY <1>1 DEF Parts
  <2>2. owed[p] = <<>>
    BY <1>1, <2>1
  <2>3. Expects("prompt", "none", num[p], owed[p])
    BY <2>2 DEF Expects
  <2>4. QED
    BY <1>1, <1>2, <2>3, MovesCSInv DEF Place
<1>3. CASE Dies(p)
  BY <1>1, <1>3, DiesCSInv
<1>4. QED
  BY <1>2, <1>3 DEF received

LEMMA QuitCSInv ==
  ASSUME CSInv, NEW p \in Peer, quit(p)
  PROVE  CSInv'
BY DiesCSInv DEF quit

LEMMA ServesCSInv ==
  ASSUME CSInv, ServerStep, UNCHANGED client
  PROVE  CSInv'
<1>1. WorldOK /\ IInv /\ WorldOK' /\ UNCHANGED <<at, cmd, num>>
  BY WorldServes DEF CSInv, WorldOK, client
<1>2. ClientTypes'
  BY DEF CSInv, ClientTypes, client
<1>3. ASSUME NEW p \in Peer PROVE ClientOK(p)'
  <2>1. /\ UNCHANGED <<outbox, owed>>
        /\ link'[p] = link[p] \/ (link'[p] \in {"dead", "closed"} /\ link[p] # "none")
    BY <1>1, LinkSteps DEF peers
  <2>2. /\ link[p] = "closed" => link'[p] = "closed"
        /\ link[p] = "open" => link'[p] \in {"open", "closed"}
    BY <1>1, ServerLinks DEF WorldOK, PeerOK
  <2>3. QED
    BY <1>1, <2>1, <2>2 DEF CSInv, ClientOK
<1>4. QED
  BY <1>1, <1>2, <1>3 DEF CSInv

LEMMA NextCSInv == CSInv /\ [CSNext]_<<vars, client>> => CSInv'
<1> SUFFICES ASSUME CSInv, [CSNext]_<<vars, client>> PROVE CSInv'
  OBVIOUS
<1>1. CASE ServerStep /\ UNCHANGED client
  BY <1>1, ServesCSInv
<1>2. ASSUME NEW p \in Peer, ClientStep(p) PROVE CSInv'
  BY <1>2, FlushCSInv, FlushLostCSInv, FlushedCSInv, ReplyCSInv, CountCSInv, PartCSInv,
     ReceivedCSInv DEF ClientStep
<1>3. ASSUME NEW p \in Peer, UserStep(p) PROVE CSInv'
  BY <1>3, ConnectCSInv, QuitCSInv, ProcessCSInv, RejectCSInv DEF UserStep
<1>4. CASE CSRest \/ UNCHANGED <<vars, client>>
  BY <1>4, StandsCSInv DEF CSRest
<1>5. QED
  BY <1>1, <1>2, <1>3, <1>4 DEF CSNext

-----------------------------------------------------------------------------
(* The steps of the service, in the terms of client and server.            *)
Status  == [p \in Peer |-> Session(p)]
Sending == [p \in Peer |-> Coming(p)]
CutOff  == {p \in Peer : Lost(p)}

LEMMA StepCome ==
  ASSUME NEW p \in Peer, Session(p) = "away", Status' = [Status EXCEPT ![p] = "prompt"],
         UNCHANGED <<owed, got, Sending, stored, CutOff>>
  PROVE  Sessions!Next
<1>1. Sessions!Come(p)
  BY DEF Sessions!Come, Sessions!files, Status, Sending, CutOff
<1>2. QED
  BY <1>1 DEF Sessions!Next

LEMMA StepAsk ==
  ASSUME NEW p \in Peer, NEW r \in Request, Session(p) = "prompt",
         Status' = [Status EXCEPT ![p] = "busy"],
         owed' = [owed EXCEPT ![p] = Replies(r)], got' = [got EXCEPT ![p] = <<>>],
         Sending' = [Sending EXCEPT ![p] = @ \o Contents(r)],
         UNCHANGED <<stored, CutOff>>
  PROVE  Sessions!Next
<1>1. Sessions!Ask(p, r)
  BY DEF Sessions!Ask, Status, Sending, CutOff
<1>2. QED
  BY <1>1 DEF Sessions!Next

LEMMA StepDeliver ==
  ASSUME NEW p \in Peer, Session(p) = "busy", owed[p] # <<>>, owed \in [Peer -> Seq(Packet)],
         got' = [got EXCEPT ![p] = Append(@, Head(owed[p]))],
         owed' = [owed EXCEPT ![p] = Tail(@)],
         \/ UNCHANGED Status
         \/ owed'[p] = <<>> /\ Status' = [Status EXCEPT ![p] = "prompt"],
         UNCHANGED <<Sending, stored, CutOff>>
  PROVE  Sessions!Next
<1>1. Sessions!Deliver(p)
  BY DEF Sessions!Deliver, Sessions!Prompts, Sessions!files, Status, Sending, CutOff
<1>2. QED
  BY <1>1 DEF Sessions!Next

LEMMA StepGiveUp ==
  ASSUME NEW p \in Peer, Session(p) = "busy", Lost(p), owed' = [owed EXCEPT ![p] = <<>>],
         \/ UNCHANGED Status
         \/ Status' = [Status EXCEPT ![p] = "prompt"],
         UNCHANGED <<got, Sending, stored, CutOff>>
  PROVE  Sessions!Next
<1>1. Sessions!GiveUp(p)
  BY DEF Sessions!GiveUp, Sessions!Prompts, Sessions!files, Status, Sending, CutOff
<1>2. QED
  BY <1>1 DEF Sessions!Next

LEMMA StepReturn ==
  ASSUME NEW p \in Peer, Session(p) = "busy", owed[p] = <<>>,
         Status' = [Status EXCEPT ![p] = "prompt"],
         UNCHANGED <<owed, got, Sending, stored, CutOff>>
  PROVE  Sessions!Next
<1>1. Sessions!Return(p)
  BY DEF Sessions!Return, Sessions!Prompts, Sessions!files, Status, Sending, CutOff
<1>2. QED
  BY <1>1 DEF Sessions!Next

LEMMA StepKeep ==
  ASSUME NEW p \in Peer, Coming(p) # <<>>,
         stored' = [stored EXCEPT ![p] = Append(@, Head(Coming(p)))],
         Sending' = [Sending EXCEPT ![p] = Tail(@)],
         UNCHANGED <<Status, owed, got, CutOff>>
  PROVE  Sessions!Next
<1>1. Sessions!Keep(p)
  BY DEF Sessions!Keep, Sessions!session, Status, Sending, CutOff
<1>2. QED
  BY <1>1 DEF Sessions!Next

LEMMA StepLeave ==
  ASSUME NEW p \in Peer, Session(p) # "away", Status' = [Status EXCEPT ![p] = "gone"],
         owed' = [owed EXCEPT ![p] = <<>>],
         UNCHANGED <<got, Sending, stored, CutOff>>
  PROVE  Sessions!Next
<1>1. Sessions!Leave(p)
  BY DEF Sessions!Leave, Sessions!files, Status, Sending, CutOff
<1>2. QED
  BY <1>1 DEF Sessions!Next

LEMMA StepCut ==
  ASSUME CutOff \subseteq CutOff', UNCHANGED <<Status, owed, got, Sending, stored>>
  PROVE  Sessions!Next
<1>1. Sessions!Cut
  BY DEF Sessions!Cut, Sessions!session, Sessions!files, Status, Sending, CutOff
<1>2. QED
  BY <1>1 DEF Sessions!Next

LEMMA StepNone ==
  ASSUME UNCHANGED <<Status, owed, got, Sending, stored, CutOff>>
  PROVE  UNCHANGED Sessions!vars
BY DEF Sessions!vars, Sessions!session, Sessions!files, Status, Sending, CutOff

(* Who of them has moved.                                                  *)
LEMMA StatusMoves ==
  ASSUME NEW p \in Peer, at \in [Peer -> Place], NEW place \in Place,
         at' = [at EXCEPT ![p] = place], NEW v, v = Session(p)'
  PROVE  Status' = [Status EXCEPT ![p] = v]
<1>1. ASSUME NEW q \in Peer \ {p} PROVE Session(q)' = Session(q)
  BY <1>1 DEF Session
<1>2. QED
  BY <1>1 DEF Status

-----------------------------------------------------------------------------
(* What a peer has sent and the server has not written yet.                *)

LEMMA RestAt ==
  ASSUME NEW s \in Seq(Packet), NEW m \in Nat, m <= Len(s)
  PROVE  /\ SubSeq(s, m + 1, Len(s)) \in Seq(Packet)
         /\ Len(SubSeq(s, m + 1, Len(s))) = Len(s) - m
         /\ \A i \in 1 .. Len(s) - m : SubSeq(s, m + 1, Len(s))[i] = s[m + i]
<1>1. Len(s) \in Nat /\ \A i \in 1 .. Len(s) : s[i] \in Packet
  OBVIOUS
<1>2. \A i \in m + 1 .. Len(s) : s[i] \in Packet
  BY <1>1
<1>3. /\ SubSeq(s, m + 1, Len(s)) \in Seq(Packet)
      /\ Len(SubSeq(s, m + 1, Len(s))) = IF m + 1 <= Len(s) THEN Len(s) - (m + 1) + 1 ELSE 0
      /\ \A i \in 1 .. Len(s) - (m + 1) + 1 : SubSeq(s, m + 1, Len(s))[i] = s[m + 1 + i - 1]
  BY <1>1, SubSeqProperties
<1>4. \A i \in 1 .. Len(s) - m : m + 1 + i - 1 = m + i
  BY <1>1
<1>5. QED
  BY <1>1, <1>3, <1>4

LEMMA RestGrown ==
  ASSUME NEW s \in Seq(Packet), NEW c \in Seq(Packet), NEW m \in Nat, m <= Len(s)
  PROVE  SubSeq(s \o c, m + 1, Len(s \o c)) = SubSeq(s, m + 1, Len(s)) \o c
<1>1. PICK u : u = s \o c
  OBVIOUS
<1>2. /\ u \in Seq(Packet) /\ Len(u) = Len(s) + Len(c)
      /\ Len(s) \in Nat /\ Len(c) \in Nat
      /\ \A i \in 1 .. Len(u) : u[i] = IF i <= Len(s) THEN s[i] ELSE c[i - Len(s)]
  BY <1>1, ConcatProperties
<1>3. PICK a : a = SubSeq(u, m + 1, Len(u))
  OBVIOUS
<1>4. PICK b : b = SubSeq(s, m + 1, Len(s))
  OBVIOUS
<1>5. /\ a \in Seq(Packet) /\ Len(a) = Len(u) - m /\ \A i \in 1 .. Len(a) : a[i] = u[m + i]
  BY <1>2, <1>3, RestAt
<1>6. /\ b \in Seq(Packet) /\ Len(b) = Len(s) - m /\ \A i \in 1 .. Len(b) : b[i] = s[m + i]
  BY <1>2, <1>4, RestAt
<1>7. PICK d : d = b \o c
  OBVIOUS
<1>8. /\ d \in Seq(Packet) /\ Len(d) = Len(b) + Len(c)
      /\ \A i \in 1 .. Len(d) : d[i] = IF i <= Len(b) THEN b[i] ELSE c[i - Len(b)]
  <2>1. /\ b \o c \in Seq(Packet) /\ Len(b \o c) = Len(b) + Len(c)
        /\ \A i \in 1 .. Len(b) + Len(c) :
             (b \o c)[i] = IF i <= Len(b) THEN b[i] ELSE c[i - Len(b)]
    BY <1>6, ConcatProperties
  <2>2. QED
    BY <1>7, <2>1
<1>9. Len(a) = Len(d)
  BY <1>2, <1>5, <1>6, <1>8
<1>10. ASSUME NEW i \in 1 .. Len(a) PROVE a[i] = d[i]
  <2>1. i \in 1 .. Len(d) /\ m + i \in 1 .. Len(u)
    BY <1>2, <1>5, <1>6, <1>8
  <2>2. CASE i <= Len(b)
    BY <1>2, <1>5, <1>6, <1>8, <2>1, <2>2
  <2>3. CASE ~(i <= Len(b))
    <3>1. m + i - Len(s) = i - Len(b) /\ ~(m + i <= Len(s))
      BY <1>2, <1>6, <2>3
    <3>2. a[i] = u[m + i] /\ d[i] = c[i - Len(b)]
      BY <1>5, <1>8, <2>1, <2>3
    <3>3. u[m + i] = c[m + i - Len(s)]
      BY <1>2, <2>1, <3>1
    <3>4. QED
      BY <3>1, <3>2, <3>3
  <2>4. QED
    BY <2>2, <2>3
<1>11. a = d
  BY <1>5, <1>8, <1>9, <1>10, PacketsAgree
<1>12. QED
  BY <1>1, <1>3, <1>4, <1>7, <1>11

LEMMA RestTaken ==
  ASSUME NEW s \in Seq(Packet), NEW t \in Seq(Packet), NEW x \in Packet,
         StartsWith(s, Append(t, x))
  PROVE  /\ SubSeq(s, Len(t) + 1, Len(s)) # <<>>
         /\ Head(SubSeq(s, Len(t) + 1, Len(s))) = x
         /\ SubSeq(s, Len(Append(t, x)) + 1, Len(s)) = Tail(SubSeq(s, Len(t) + 1, Len(s)))
<1>1. PICK u : u = Append(t, x)
  OBVIOUS
<1>2. /\ u \in Seq(Packet) /\ Len(u) = Len(t) + 1 /\ u[Len(u)] = x
      /\ Len(t) \in Nat /\ Len(s) \in Nat
  BY <1>1, AppendProperties
<1>3. Len(u) <= Len(s) /\ SubSeq(s, 1, Len(u)) = u
  BY <1>1 DEF StartsWith
<1>4. s[Len(u)] = x
  <2>1. SubSeq(s, 1, Len(u))[Len(u)] = s[Len(u)]
    BY <1>2, <1>3
  <2>2. QED
    BY <1>2, <1>3, <2>1
<1>5. PICK a : a = SubSeq(s, Len(t) + 1, Len(s))
  OBVIOUS
<1>6. a \in Seq(Packet) /\ Len(a) = Len(s) - Len(t) /\ \A i \in 1 .. Len(a) : a[i] = s[Len(t) + i]
  BY <1>2, <1>3, <1>5, RestAt
<1>7. a # <<>> /\ Head(a) = x
  <2>1. Len(a) >= 1
    BY <1>2, <1>3, <1>6
  <2>2. a[1] = x
    BY <1>2, <1>4, <1>6, <2>1
  <2>3. QED
    BY <1>6, <2>1, <2>2
<1>8. PICK b : b = SubSeq(s, Len(u) + 1, Len(s))
  OBVIOUS
<1>9. b \in Seq(Packet) /\ Len(b) = Len(s) - Len(u) /\ \A i \in 1 .. Len(b) : b[i] = s[Len(u) + i]
  BY <1>2, <1>3, <1>8, RestAt
<1>10. /\ Tail(a) \in Seq(Packet) /\ Len(Tail(a)) = Len(a) - 1
       /\ \A i \in 1 .. Len(Tail(a)) : Tail(a)[i] = a[i + 1]
  BY <1>6, <1>7, HeadTailProperties
<1>11. PICK c : c = Tail(a)
  OBVIOUS
<1>12. c \in Seq(Packet) /\ Len(c) = Len(b) /\ \A i \in 1 .. Len(c) : c[i] = a[i + 1]
  BY <1>2, <1>6, <1>9, <1>10, <1>11
<1>13. ASSUME NEW i \in 1 .. Len(b) PROVE b[i] = c[i]
  <2>1. i + 1 \in 1 .. Len(a) /\ Len(u) + i = Len(t) + (i + 1)
    BY <1>2, <1>6, <1>9
  <2>2. QED
    BY <1>6, <1>9, <1>12, <2>1
<1>14. b = c
  BY <1>9, <1>12, <1>13, PacketsAgree
<1>15. QED
  BY <1>1, <1>5, <1>7, <1>8, <1>11, <1>14

LEMMA SimConnect ==
  ASSUME CSInv, NEW p \in Peer, connect(p)
  PROVE  Sessions!Next
<1>1. /\ at[p] = "off" /\ at' = [at EXCEPT ![p] = "prompt"] /\ at \in [Peer -> Place]
      /\ link' = [link EXCEPT ![p] = "open"] /\ link[p] = "none" /\ link \in [Peer -> Link]
      /\ UNCHANGED <<phase, owed, got, sent, stored>>
  BY DEF connect, Connect, Goto, loop, peers, CSInv, ClientTypes, WorldOK, IInv, TypeOK
<1>2. Status' = [Status EXCEPT ![p] = "prompt"] /\ Session(p) = "away"
  <2>1. Session(p)' = "prompt"
    BY <1>1 DEF Session
  <2>2. QED
    BY <1>1, <2>1, StatusMoves DEF Place, Session
<1>3. UNCHANGED <<Sending, CutOff>>
  BY <1>1 DEF Sending, Coming, CutOff, Lost
<1>4. QED
  BY <1>1, <1>2, <1>3, StepCome

LEMMA SimCompose ==
  ASSUME CSInv, NEW p \in Peer, NEW r \in Request, at[p] = "prompt", Compose(p, r),
         Goto(p, "flush"), got' = [got EXCEPT ![p] = <<>>]
  PROVE  Sessions!Next
<1>1. /\ at' = [at EXCEPT ![p] = "flush"] /\ at \in [Peer -> Place]
      /\ owed' = [owed EXCEPT ![p] = @ \o Replies(r)] /\ owed \in [Peer -> Seq(Packet)]
      /\ sent' = [sent EXCEPT ![p] = @ \o Contents(r)] /\ sent \in [Peer -> Seq(Packet)]
      /\ stored \in [Peer -> Seq(Packet)] /\ StartsWith(sent[p], stored[p])
      /\ UNCHANGED <<phase, link, stored>>
      /\ owed[p] = <<>>
  BY DEF Compose, Goto, loop, net, CSInv, ClientTypes, ClientOK, Expects, WorldOK, PeerOK,
         IInv, TypeOK
<1>2. Replies(r) \in Seq(Packet) /\ Contents(r) \in Seq(Packet)
  BY PacketsType
<1>3. Status' = [Status EXCEPT ![p] = "busy"] /\ Session(p) = "prompt"
  <2>1. Session(p)' = "busy"
    BY <1>1 DEF Session
  <2>2. QED
    BY <1>1, <2>1, StatusMoves DEF Place, Session
<1>4. owed' = [owed EXCEPT ![p] = Replies(r)]
  <2>1. <<>> \o Replies(r) = Replies(r)
    BY <1>2, EmptyEnds
  <2>2. QED
    BY <1>1, <2>1
<1>5. Sending' = [Sending EXCEPT ![p] = @ \o Contents(r)]
  <2>1. Coming(p)' = Coming(p) \o Contents(r)
    <3>1. /\ sent[p] \in Seq(Packet) /\ Len(stored[p]) \in Nat
          /\ Len(stored[p]) <= Len(sent[p])
      BY <1>1 DEF StartsWith
    <3>2. sent'[p] = sent[p] \o Contents(r) /\ stored'[p] = stored[p]
      BY <1>1
    <3>3. SubSeq(sent[p] \o Contents(r), Len(stored[p]) + 1, Len(sent[p] \o Contents(r)))
            = SubSeq(sent[p], Len(stored[p]) + 1, Len(sent[p])) \o Contents(r)
      BY <1>2, <3>1, RestGrown
    <3>4. QED
      BY <3>2, <3>3 DEF Coming
  <2>2. ASSUME NEW q \in Peer \ {p} PROVE Coming(q)' = Coming(q)
    BY <1>1, <2>2 DEF Coming
  <2>3. QED
    BY <2>1, <2>2 DEF Sending
<1>6. UNCHANGED CutOff
  BY <1>1 DEF CutOff, Lost
<1>7. QED
  BY <1>1, <1>3, <1>4, <1>5, <1>6, StepAsk

LEMMA SimDies ==
  ASSUME CSInv, NEW p \in Peer, Dies(p), at[p] # "off", UNCHANGED got
  PROVE  Sessions!Next
<1>1. /\ at' = [at EXCEPT ![p] = "gone"] /\ at \in [Peer -> Place]
      /\ link' = [link EXCEPT ![p] = IF @ # "open" THEN @
                                     ELSE IF outq[p] = <<>> THEN "fin" ELSE "rst"]
      /\ owed' = [owed EXCEPT ![p] = <<>>] /\ link \in [Peer -> Link]
      /\ UNCHANGED <<phase, sent, stored>>
  BY DEF Dies, Exit, Goto, loop, CSInv, ClientTypes, WorldOK, IInv, TypeOK
<1>2. Status' = [Status EXCEPT ![p] = "gone"] /\ Session(p) # "away"
  <2>1. Session(p)' = "gone"
    BY <1>1 DEF Session
  <2>2. QED
    BY <1>1, <2>1, StatusMoves DEF Place, Session
<1>3. UNCHANGED CutOff
  <2>1. \A q \in Peer : link'[q] = "closed" <=> link[q] = "closed"
    BY <1>1
  <2>2. QED
    BY <1>1, <2>1 DEF CutOff, Lost
<1>4. UNCHANGED Sending
  BY <1>1 DEF Sending, Coming
<1>5. QED
  BY <1>1, <1>2, <1>3, <1>4, StepLeave

(* Nothing has happened that a user could see.                             *)
LEMMA SimStands ==
  ASSUME UNCHANGED <<phase, link, owed, got, sent, stored>>,
         \A p \in Peer : Session(p)' = Session(p)
  PROVE  UNCHANGED Sessions!vars
<1>1. UNCHANGED Status
  BY DEF Status
<1>2. UNCHANGED <<Sending, CutOff>>
  BY DEF Sending, Coming, CutOff, Lost
<1>3. QED
  BY <1>1, <1>2, StepNone

LEMMA SimProcess ==
  ASSUME CSInv, NEW p \in Peer, NEW r \in Request, process(p, r)
  PROVE  [Sessions!Next]_(Sessions!vars)
<1>1. /\ at[p] = "prompt" /\ at \in [Peer -> Place]
      /\ \/ Dies(p) /\ UNCHANGED got
         \/ Goto(p, "hung") /\ UNCHANGED <<vars, got>>
         \/ Compose(p, r) /\ Goto(p, "flush") /\ got' = [got EXCEPT ![p] = <<>>]
  BY DEF process, CSInv, ClientTypes
<1>2. CASE Dies(p) /\ UNCHANGED got
  BY <1>1, <1>2, SimDies
<1>3. CASE Goto(p, "hung") /\ UNCHANGED <<vars, got>>
  <2>1. UNCHANGED <<phase, link, owed, got, sent, stored>>
    BY <1>3 DEF vars, loop, net, peers
  <2>2. \A q \in Peer : Session(q)' = Session(q)
    BY <1>1, <1>3 DEF Goto, Session
  <2>3. QED
    BY <2>1, <2>2, SimStands
<1>4. CASE Compose(p, r) /\ Goto(p, "flush") /\ got' = [got EXCEPT ![p] = <<>>]
  BY <1>1, <1>4, SimCompose
<1>5. QED
  BY <1>1, <1>2, <1>3, <1>4

LEMMA SimReject ==
  ASSUME CSInv, NEW p \in Peer, NEW r \in Request, reject(p, r)
  PROVE  [Sessions!Next]_(Sessions!vars)
<1>1. CASE UNCHANGED <<vars, at>>
  <2>1. UNCHANGED <<phase, link, owed, got, sent, stored>>
    BY <1>1 DEF reject, vars, loop, net, peers
  <2>2. \A q \in Peer : Session(q)' = Session(q)
    BY <1>1 DEF Session
  <2>3. QED
    BY <2>1, <2>2, SimStands
<1>2. CASE Dies(p)
  BY <1>2, SimDies DEF reject
<1>3. QED
  BY <1>1, <1>2 DEF reject

LEMMA SimFlush ==
  ASSUME CSInv, NEW p \in Peer, flush(p) \/ flush_lost(p)
  PROVE  [Sessions!Next]_(Sessions!vars)
<1>1. CASE Dies(p) /\ flush_lost(p)
  BY <1>1, SimDies DEF flush_lost
<1>2. CASE UNCHANGED <<phase, link, owed, got, sent, stored, at>>
  <2>1. \A q \in Peer : Session(q)' = Session(q)
    BY <1>2 DEF Session
  <2>2. QED
    BY <1>2, <2>1, SimStands
<1>3. flush(p) => UNCHANGED <<phase, link, owed, got, sent, stored, at>>
  BY DEF flush, Flush, client, loop
<1>4. flush_lost(p) => Dies(p) \/ UNCHANGED <<phase, link, owed, got, sent, stored, at>>
  BY DEF flush_lost, loop, net
<1>5. QED
  BY <1>1, <1>2, <1>3, <1>4

LEMMA SimReturns ==
  ASSUME CSInv, NEW p \in Peer, at[p] \in {"flush", "recv_file"}, owed[p] = <<>>,
         Goto(p, "prompt"), UNCHANGED <<vars, got>>
  PROVE  Sessions!Next
<1>1. /\ at' = [at EXCEPT ![p] = "prompt"] /\ at \in [Peer -> Place]
      /\ UNCHANGED <<phase, link, owed, got, sent, stored>>
  BY DEF Goto, vars, loop, net, peers, CSInv, ClientTypes
<1>2. Status' = [Status EXCEPT ![p] = "prompt"] /\ Session(p) = "busy"
  <2>1. Session(p)' = "prompt"
    BY <1>1 DEF Session
  <2>2. QED
    BY <1>1, <2>1, StatusMoves DEF Place, Session
<1>3. UNCHANGED <<Sending, CutOff>>
  BY <1>1 DEF Sending, Coming, CutOff, Lost
<1>4. QED
  BY <1>1, <1>2, <1>3, StepReturn

LEMMA SimFlushed ==
  ASSUME CSInv, NEW p \in Peer, flushed(p)
  PROVE  [Sessions!Next]_(Sessions!vars)
<1>1. /\ at[p] = "flush" /\ at \in [Peer -> Place] /\ UNCHANGED <<vars, got>>
      /\ Expects("flush", cmd[p], num[p], owed[p])
  BY DEF flushed, CSInv, ClientTypes, ClientOK
<1>2. CASE cmd[p] \in {"ping", "file_recv"}
  <2>1. UNCHANGED <<phase, link, owed, got, sent, stored>>
    BY <1>1 DEF vars, loop, net, peers
  <2>2. Goto(p, "recv") \/ Goto(p, "recv_integer")
    BY <1>2 DEF flushed
  <2>3. \A q \in Peer : Session(q)' = Session(q)
    BY <1>1, <2>2 DEF Goto, Session
  <2>4. QED
    BY <2>1, <2>3, SimStands
<1>3. CASE cmd[p] \notin {"ping", "file_recv"}
  <2>1. owed[p] = <<>> /\ Goto(p, "prompt")
    BY <1>1, <1>3 DEF flushed, Expects
  <2>2. QED
    BY <1>1, <2>1, SimReturns
<1>4. QED
  BY <1>2, <1>3

(* A packet of the reply, or the news that there will be no more.          *)
LEMMA SimHears ==
  ASSUME CSInv, NEW p \in Peer, NEW place \in {"prompt", "recv_file"},
         at[p] \in {"recv", "recv_integer", "recv_file"}, at' = [at EXCEPT ![p] = place],
         \/ Arrives(p) /\ (place = "prompt" => Tail(owed[p]) = <<>>)
         \/ Ended(p)
  PROVE  Sessions!Next
<1>1. /\ at \in [Peer -> Place] /\ owed \in [Peer -> Seq(Packet)]
      /\ outq \in [Peer -> Seq(Packet)] /\ StartsWith(owed[p], outq[p])
  BY DEF CSInv, ClientTypes, WorldOK, PeerOK, IInv, TypeOK
<1>2. Session(p) = "busy"
  BY DEF Session
<1>3. \/ UNCHANGED Status
      \/ place = "prompt" /\ Status' = [Status EXCEPT ![p] = "prompt"]
  <2>1. CASE place = "prompt"
    <3>1. Session(p)' = "prompt"
      BY <1>1, <2>1 DEF Session
    <3>2. QED
      BY <1>1, <2>1, <3>1, StatusMoves DEF Place
  <2>2. CASE place = "recv_file"
    <3>1. \A q \in Peer : Session(q)' = Session(q)
      BY <1>1, <2>2 DEF Session
    <3>2. QED
      BY <3>1 DEF Status
  <2>3. QED
    BY <2>1, <2>2
<1>4. CASE Arrives(p) /\ (place = "prompt" => Tail(owed[p]) = <<>>)
  <2>1. /\ UNCHANGED <<phase, link, sent, stored>> /\ outq[p] # <<>> /\ owed[p] # <<>>
        /\ owed' = [owed EXCEPT ![p] = Tail(@)]
        /\ got' = [got EXCEPT ![p] = Append(@, Head(outq[p]))]
    BY <1>4 DEF Arrives, Receive, loop
  <2>2. Head(outq[p]) = Head(owed[p])
    BY <1>1, <2>1, HeadsMeet
  <2>3. UNCHANGED <<Sending, CutOff>>
    BY <2>1 DEF Sending, Coming, CutOff, Lost
  <2>4. got' = [got EXCEPT ![p] = Append(@, Head(owed[p]))] /\ owed'[p] = Tail(owed[p])
    BY <1>1, <2>1, <2>2
  <2>5. QED
    BY <1>1, <1>2, <1>3, <1>4, <2>1, <2>3, <2>4, StepDeliver
<1>5. CASE Ended(p)
  <2>1. /\ UNCHANGED <<phase, link, sent, stored, got>> /\ Lost(p)
        /\ owed' = [owed EXCEPT ![p] = <<>>]
    BY <1>5 DEF Ended, loop
  <2>2. UNCHANGED <<Sending, CutOff>>
    BY <2>1 DEF Sending, Coming, CutOff, Lost
  <2>3. QED
    BY <1>2, <1>3, <2>1, <2>2, StepGiveUp
<1>6. QED
  BY <1>4, <1>5

LEMMA SimReply ==
  ASSUME CSInv, NEW p \in Peer, recv_reply(p)
  PROVE  Sessions!Next
<1>1. at[p] = "recv" /\ Len(owed[p]) = 1 /\ owed[p] \in Seq(Packet)
  BY DEF recv_reply, CSInv, ClientOK, Expects, WorldOK, IInv, TypeOK
<1>2. CASE (Arrives(p) \/ Ended(p)) /\ Goto(p, "prompt")
  BY <1>1, <1>2, LastTaken, SimHears DEF Goto
<1>3. CASE Dies(p) /\ UNCHANGED got
  BY <1>1, <1>3, SimDies
<1>4. QED
  BY <1>2, <1>3 DEF recv_reply

LEMMA SimCount ==
  ASSUME CSInv, NEW p \in Peer, recv_count(p)
  PROVE  Sessions!Next
<1>1. at[p] = "recv_integer" /\ (Arrives(p) \/ Ended(p)) /\ at' = [at EXCEPT ![p] = "recv_file"]
  BY DEF recv_count, Goto
<1>2. QED
  BY <1>1, SimHears

LEMMA SimPart ==
  ASSUME CSInv, NEW p \in Peer, recv_part(p)
  PROVE  Sessions!Next
<1>1. at[p] = "recv_file" /\ at \in [Peer -> Place]
  BY DEF recv_part, CSInv, ClientTypes
<1>2. CASE (Arrives(p) \/ Ended(p)) /\ UNCHANGED at
  <2>1. at' = [at EXCEPT ![p] = "recv_file"]
    BY <1>1, <1>2
  <2>2. QED
    BY <1>1, <1>2, <2>1, SimHears
<1>3. CASE Dies(p) /\ UNCHANGED got
  BY <1>1, <1>3, SimDies
<1>4. QED
  BY <1>2, <1>3 DEF recv_part

LEMMA SimReceived ==
  ASSUME CSInv, NEW p \in Peer, received(p)
  PROVE  Sessions!Next
<1>1. /\ at[p] = "recv_file" /\ num[p] = 0 /\ UNCHANGED got
      /\ Parts(owed[p], num[p]) /\ owed[p] \in Seq(Packet)
  BY DEF received, CSInv, ClientOK, Expects, WorldOK, IInv, TypeOK
<1>2. CASE Goto(p, "prompt") /\ UNCHANGED vars
  <2>1. Len(owed[p]) = 0
    BY <1>1 DEF Parts
  <2>2. owed[p] = <<>>
    BY <1>1, <2>1
  <2>3. QED
    BY <1>1, <1>2, <2>2, SimReturns
<1>3. CASE Dies(p)
  BY <1>1, <1>3, SimDies
<1>4. QED
  BY <1>2, <1>3 DEF received

(* A process that has crashed takes no further step.                       *)
LEMMA CrashedStays ==
  ASSUME ServerStep
  PROVE  phase # "crashed"
BY DEF ServerStep, Poll, TakeEntry, BatchDone, SkipRead, SkipWrite, accept_tcp_handler, CallRead,
       read_event_handler, recv_integer, recv, recv_done, write_event_handler, write_buffer,
       write_list, write_done

LEMMA ServerPeers ==
  ASSUME IInv, IInv', ServerStep
  PROVE  UNCHANGED <<sent, owed>>
<1>1. /\ sent \in [Peer -> Seq(Packet)] /\ owed \in [Peer -> Seq(Packet)]
      /\ sent' \in [Peer -> Seq(Packet)] /\ owed' \in [Peer -> Seq(Packet)]
  BY DEF IInv, TypeOK
<1>2. \A p \in Peer : sent'[p] = sent[p] /\ owed'[p] = owed[p]
  BY LinkSteps DEF peers
<1>3. QED
  BY <1>1, <1>2

LEMMA SimServes ==
  ASSUME CSInv, ServerStep, UNCHANGED client
  PROVE  Sessions!Next
<1>1. /\ IInv /\ IInv' /\ WorldOK' /\ UNCHANGED <<at, got>>
      /\ stored \in [Peer -> Seq(Packet)] /\ stored' \in [Peer -> Seq(Packet)]
      /\ sent \in [Peer -> Seq(Packet)] /\ inq \in [Peer -> Seq(Packet)]
  BY WorldServes DEF CSInv, WorldOK, IInv, TypeOK, client
<1>2. UNCHANGED Status
  BY <1>1 DEF Status, Session
<1>3. CASE stored' = stored
  <2>1. CutOff \subseteq CutOff'
    <3>1. ASSUME NEW p \in Peer, link[p] = "closed" PROVE link'[p] = "closed"
      BY <1>1, <3>1, ServerLinks DEF CSInv, WorldOK, PeerOK
    <3>2. phase # "crashed"
      BY CrashedStays
    <3>3. QED
      BY <3>1, <3>2 DEF CutOff, Lost
  <2>2. UNCHANGED <<sent, owed>>
    BY <1>1, ServerPeers
  <2>3. UNCHANGED Sending
    BY <1>3, <2>2 DEF Sending, Coming
  <2>4. QED
    BY <1>1, <1>2, <1>3, <2>1, <2>2, <2>3, StepCut
<1>4. CASE stored' # stored
  <2>1. PICK p \in Peer : stored'[p] # stored[p]
    BY <1>1, <1>4
  <2>2. /\ Live(p) /\ inq[p] # <<>> /\ phase' = phase /\ link' = link
        /\ stored' = [stored EXCEPT ![p] = Append(@, Head(inq[p]))]
    BY <1>1, <2>1, StoresOne
  <2>3. UNCHANGED <<sent, owed>>
    BY <1>1, ServerPeers
  <2>4. UNCHANGED CutOff
    BY <2>2 DEF CutOff, Lost
  <2>5. PICK x \in Packet : x = Head(inq[p])
    BY <1>1, <2>2
  <2>6. stored'[p] = Append(stored[p], x)
    BY <1>1, <2>2, <2>5
  <2>7. StartsWith(sent[p], Append(stored[p], x))
    BY <1>1, <2>3, <2>6 DEF WorldOK, PeerOK
  <2>8. /\ Coming(p) # <<>> /\ Head(Coming(p)) = x
        /\ SubSeq(sent[p], Len(Append(stored[p], x)) + 1, Len(sent[p])) = Tail(Coming(p))
    BY <1>1, <2>7, RestTaken DEF Coming
  <2>9. Coming(p)' = Tail(Coming(p))
    BY <2>3, <2>6, <2>8 DEF Coming
  <2>10. ASSUME NEW q \in Peer \ {p} PROVE Coming(q)' = Coming(q)
    BY <1>1, <2>2, <2>3, <2>10 DEF Coming
  <2>11. Sending' = [Sending EXCEPT ![p] = Tail(@)]
    BY <2>9, <2>10 DEF Sending
  <2>12. stored' = [stored EXCEPT ![p] = Append(@, Head(Coming(p)))]
    BY <2>2, <2>5, <2>8
  <2>13. QED
    BY <1>1, <1>2, <2>3, <2>4, <2>8, <2>11, <2>12, StepKeep
<1>5. QED
  BY <1>3, <1>4

-----------------------------------------------------------------------------
(* Whatever the clients do and however they end, _client_data stays a live *)
(* client_t with the program of client.cpp at the other end.               *)
THEOREM ClientDataIsLiveInUse == CSSpec => []NoDangling
<1>1. CSInv => NoDangling
  BY DEF CSInv, WorldOK, IInv
<1>2. QED
  BY <1>1, InitCSInv, NextCSInv, PTL DEF CSSpec

(* Client and server implement the service: what a command of client.cpp   *)
(* has received is the beginning of its own reply, it returns without all  *)
(* of it only when the connection is gone, and file_send_command writes    *)
(* what has been sent once and in order, for any number of clients, any    *)
(* requests and any size of the buffers, though clients and server may die *)
(* at any time.                                                            *)
THEOREM ServiceIsKept == CSSpec => Implements
<1>1. CSInit => Sessions!Init
  <2>1. SUFFICES ASSUME CSInit PROVE Sessions!Init
    OBVIOUS
  <2>2. \A p \in Peer : Session(p) = "away" /\ ~Lost(p)
    BY <2>1 DEF CSInit, Init, Session, Lost
  <2>3. \A p \in Peer : Coming(p) = <<>>
    <3>1. SubSeq(<<>>, Len(<<>>) + 1, Len(<<>>)) = <<>>
      BY SubSeqEmpty
    <3>2. QED
      BY <2>1, <3>1 DEF CSInit, Init, Coming
  <2>4. QED
    BY <2>1, <2>2, <2>3 DEF Sessions!Init, CSInit, Init
<1>2. CSInv /\ [CSNext]_<<vars, client>> => [Sessions!Next]_(Sessions!vars)
  <2>1. SUFFICES ASSUME CSInv, [CSNext]_<<vars, client>> PROVE [Sessions!Next]_(Sessions!vars)
    OBVIOUS
  <2>2. CASE ServerStep /\ UNCHANGED client
    BY <2>1, <2>2, SimServes
  <2>3. ASSUME NEW p \in Peer, ClientStep(p) PROVE [Sessions!Next]_(Sessions!vars)
    BY <2>1, <2>3, SimFlush, SimFlushed, SimReply, SimCount, SimPart, SimReceived DEF ClientStep
  <2>4. ASSUME NEW p \in Peer, UserStep(p) PROVE [Sessions!Next]_(Sessions!vars)
    <3>1. CASE quit(p)
      BY <2>1, <3>1, SimDies DEF quit
    <3>2. QED
      BY <2>1, <2>4, <3>1, SimConnect, SimProcess, SimReject DEF UserStep
  <2>5. CASE CSRest \/ UNCHANGED <<vars, client>>
    <3>1. /\ UNCHANGED <<phase, link, owed, got, sent, stored>>
          /\ \A q \in Peer : Session(q)' = Session(q)
      BY <2>5 DEF CSRest, vars, client, loop, net, peers, Session
    <3>2. QED
      BY <3>1, SimStands
  <2>6. QED
    BY <2>1, <2>2, <2>3, <2>4, <2>5 DEF CSNext
<1>3. CSSpec => []CSInv
  BY InitCSInv, NextCSInv, PTL DEF CSSpec
<1>4. QED
  BY <1>1, <1>2, <1>3, PTL DEF CSSpec, Implements, Sessions!Spec
=============================================================================

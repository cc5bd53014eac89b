# A verification of aspr1net

aspr1net is a small TCP server and client on an event loop derived from
Redis's `ae`. One thread runs the server: `epoll_wait`, then a handler per
ready descriptor. A client sends a command (`ping`, `file_send`, `file_recv`,
`get`, `set`) as a packet, an 8-byte length and a body; files travel as a
packet with the number of parts followed by the parts.

These modules model the event table and loop, the timers, the server's handlers
with the life of each connection, the client program, the packets and the buffers
they are built in, the parsing of command lines and the calls that make sockets.
TLC checks them on small instances; nearly all of their safety properties are also
proved for all instances with TLAPS.

## Inventory

| Part | State | Operations | Interacts with |
|---|---|---|---|
| Event table (`ae.cpp`, `ae.hpp`, `ae_epoll.hpp`) | `_events[]` (mask, two handlers, data), `_max_fd`, `_fdset_size`, the epoll set | `add_file_event`, `del_file_event`, `get_file_event`, `resize` | kernel by `epoll_ctl`; called by everything |
| Event loop (`ae.cpp`) | `_stop`, `_fired[]`, the entry under dispatch, `_rfired` | `run`, `stop`, `process_events`, `poll` | calls handlers, which call the table |
| Time events (`ae.cpp`) | `_time_event_list`, next id | `add_time_event`, `del_time_event`, `nearest_time_event`; `process_time_events` is a stub | the loop's timeout |
| Server (`server.cpp`) | one `client_t` per connection: `_r_buffer`, `_w_buffer`, `_buffer_list`, `_fd` | accept, read and write handlers, five commands | table, sockets, files |
| Client (`client.cpp`, `client_main.cpp`) | buffers, `_fd` | `connect`, `process`, `send`, `recv`, `file_send`, `file_recv` | the server, over a blocking socket |
| Buffer (`buffer.cpp`) | array, `_size`, `_read_idx`, `_write_idx` | `write` (string, number), `extend`, `shrink`, `reset`, `ending` | filled by `read()` directly |
| Arguments (`arguments.hpp`) | `_argv` | `process` of a string | server and client, on each command |
| Sockets (`anet.cpp`) | none of its own; descriptors in flight | listen, connect, accept, `anetRead`, `anetWrite`, options | kernel |

What is hard in this code, and what would make each part correct:

* **Event table.** Two copies of the same facts, one in the process and one in
  the kernel, are changed by separate calls whose results are partly ignored.
  Correct: they agree, `_max_fd` is the highest registered descriptor, no event
  can be dispatched to a null handler, no closed descriptor is registered.
* **Event loop.** A batch is fetched once and dispatched while handlers change
  the table: they delete clients, close descriptors and accept connections that
  reuse them. Correct: nothing stale is dispatched; `stop()` ends `run()`.
* **Server.** Handlers block inside `read()` and `write()`; peers close or reset
  at any point; a reply is split over two buffers and a later event. Correct:
  client data never dangles, connections are neither dropped nor leaked, replies
  and files are whole and in order, requests are answered.
* **Buffer.** Off-by-ones around the terminating `'\0'` and growth. Correct: no
  overrun, the frame decodes to what was written.
* **Client.** It blocks in the same places as the server does; the server, or
  another client, may die at any of them; neither files nor the results of reads
  are tested. Correct: together with the server, every user has a session that
  behaves as if nobody else were there.
* **Packets.** A stream has no packets. Correct: they come out as they went in.
* **Time events.** Times in two parts, a conversion to `int`. Correct: the loop
  sleeps until the earliest timer.
* **Arguments.** A loop that steps over two characters at an escape. Correct: it
  stays inside the text, ends, and yields the words.
* **Sockets.** Descriptors in flight over a dozen failures and a retry. Correct: each
  is returned or closed, once.

The hazards are listed at their lines in `PROJECT.json`, each with the properties
that would catch it.

## Modules

| Module | What it is |
|---|---|
| `EventTable` | the table and the epoll set as a record, operations as operators on it; no variables |
| `EventTableProofs` | lemmas: each operation preserves the table's invariant |
| `EventLoop`, `MCEventLoop` | the loop with an arbitrary owner: handlers may call anything |
| `EventLoopProofs` | the inductive invariant and the theorems of `EventLoop` |
| `Server`, `MCServer` | the same table and dispatch composed with the program's handlers, the kernel's sockets and the peers |
| `ServerProofs` | the inductive invariants and the theorems of `Server`, then those of `ClientServer` |
| `Service` | abstract: what client and server together promise a user |
| `ClientServer`, `MCClientServer` | the client program composed with `Server`; implements `Service` |
| `PacketChannel` | abstract: packets in, packets out |
| `Framing`, `MCFraming` | heads and bodies over a stream of bytes; implements `PacketChannel` |
| `FramingProofs` | the refinement of `PacketChannel` by `Framing`, for all sizes |
| `Buffer`, `MCBuffer` | one `buffer_t`, byte by byte |
| `BufferProofs` | for which lengths the buffer is sound, and what `ClientMain` makes of its input, proved |
| `Timers`, `MCTimers` | the time events and the timeout of `process_events` |
| `TimersProofs` | the inductive invariant and the theorems of `Timers` |
| `Arguments`, `MCArguments` | `arg_t::process`, a character at a time, and what the words of a line are |
| `ArgumentsProofs` | the inductive invariant and the theorems of `Arguments` |
| `ClientMain`, `MCClientMain` | `fgetline` and the loops of the client's `main()` |
| `Sockets`, `MCSockets` | the functions of `anet.cpp` that make descriptors |
| `SocketsProofs` | the inductive invariant and the theorems of `Sockets` |

Definitions introduced by a comment "a mistake" (`NoScan_del_file_event`,
`Forgets_write_done`, ...) are wrong variants of the definition that follows
them. No other definition refers to them; substituting one for its original makes the
property it is paired with in `PROJECT.json` fail, which shows that the
property depends on that line of the code.

### EventTable and EventLoop

`Table` is a record with the fields of `ae_event_loop` and `ae_file_event`, and
`watched`/`interest` for the kernel's side. `add_file_event` and
`del_file_event` follow the code's early returns and the choice between
`EPOLL_CTL_ADD` and `MOD`. The kernel's refusal of an `ADD` is the argument
`accepted`. The downward scan of `del_file_event` is `HighestBelow`.

`EventLoop` runs `run()` and `process_events()` one decision at a time. Its owner
may, outside the loop, in the before-sleep procedure or inside any handler, add
and delete events, stop, and open and close descriptors. It closes a descriptor
only after deleting its events, as `~client_t` does; `resize` is called outside
dispatch (inside, the code's `_fe` would dangle). A batch is a function from
descriptors to reported events and the order of its entries is chosen while
dispatching, which covers every order. `epoll_wait` may report any subset of
what is asked for, nothing at all (timeout, signal), and errors as writable.
`resize` releases `_old_events` twice (ae.cpp:160); that is undefined, and
modelled as a crash or a continuation.

### Server

The variables are grouped as `loop` (the dispatching thread), `net` (listen
queue, descriptors, socket buffers, connection states), `heap` (the `client_t`
objects) and `peers`. A peer connects once and so names its connection and its
object. Each handler is an action; where it can wait in the kernel it is split
into phases: `recv_num`, `recv` (file_send), `write_buf`, `write_list` (write
handler). While the thread is in such a phase peers go on and nothing else on
the server does.

The unit of transfer is a packet. File contents are abstracted to the lengths of
their parts. `Chunks` cuts a file as `fread` and `feof` do, including the empty
last part when the size is a multiple of a packet. `fopen` results are part of
the request.

Ends of connections are modelled as Linux reports them: `fin` (a close with
nothing undelivered), `rst` (a close with unread data, reported once by the next
call as an error), `dead` (reads give 0, writes fail). Where the code goes on
with an uninitialised length after a failed `read()`, both outcomes of the
second `read()` are behaviours: 0, which deletes the client, and an error, which
executes the command still in the buffer again, or, in `client_t::recv`, stores
-1 as an index and fails an assertion.

Peers speak the protocol of `client.cpp`: they send a whole request, then read
the whole reply. `Pipelining` lets them send the next request before the reply
is complete, `MayDie` lets them close at any time.

### Service and ClientServer

`Service` gives every user a session: a command waits for the parts of its reply,
and what was sent is kept, possibly after the command has returned. It has no
network and no other user in it, only the possibility that a session is cut.

`ClientServer` puts the client program in the place of `Server`'s peers. It reuses
their sockets (`Connect`, `Compose`, `Flush`, `Receive`, `Exit`) and adds the
client's thread: `at` is the call it is in, `num` and `file` its locals. `process`
is the work up to the first `write()`; `flush`, `recv_reply`, `recv_count`,
`recv_part` are the calls that can block, with what the code does next. Its failures
are the code's: an unopenable file crashes the client at `feof`, `fwrite` or `fclose`,
a directory is read for ever, a write to a connection that is gone vanishes or is
answered by SIGPIPE, which the client does not ignore, and the end of the connection
in a reply gives a count of 0, an early end or an index of -1; when it ends with a
reset, what had not been delivered is lost (`Ended`). Names contain no
blanks here (see `Forwarded`).

The refinement mapping (`Sessions`): a session's status is where the thread is (`Session`), what
it waits for are the packets owed, what is being sent is the part of what was sent
that is not yet stored (`Coming`), and a session is cut when the server has closed the
connection or has crashed. Implementing `Service` therefore says that replies and
files of two clients never mix, also after a third has died in the middle of a
transfer and its descriptor and memory have been reused.

### PacketChannel and Framing

`Framing` is one direction of a connection in bytes (of two values; a head is a
number of `HeadSize` of them, lowest first). `write()` takes and `read()` gives any
number of bytes, at least one. Two variables that never change say what is at the
ends: with `looping` the reader is `anetRead`, used by the client and by both
`recv_integer`, without it the plain `read()` of `read_event_handler` and the server's
`client_t::recv`; with `pieces` the kernel divides packets as it likes, which `Init`
allows only together with `looping`. A head that did not arrive completely leaves any
length, and a packet without a body makes plain `read()` return 0, which
`read_event_handler` takes for the end. The abstract `PacketChannel` has two sequences; the
mapping is the identity on the history variables `sent` and `received` and on `closed`.

### Buffer

The array lies in a larger address space, so an overrun is a state. `-1` is an
indeterminate byte. A "byte" has `Base` values and a head `HeadSize` bytes, so
that the zero bytes inside a binary head matter as they do to `strncpy`.

### Timers

The clock ticks `Fine` times in a millisecond, of which the code reads seconds and
whole milliseconds. `due` is the exact time of a timer, a history field for the
property. `Timeout` is the argument of `epoll_wait` for any flags, computed as the
code does, through `ToInt`. `process_time_events` does nothing, as in the code.

### Arguments

Characters are classes: what the `switch` tells apart, what `isspace` accepts, the
backslash, the NUL and everything else. `form` is the overload that was called; the
two differ only in `EndAt`. `Words` is the reference: which characters separate,
which are dropped, where a word begins, without a loop. `Ascending` puts positions into
their order by counting, for each, how many there are up to it.

### ClientMain

`fgetline` reads `stdin` a character at a time and `main()` takes each line as an
address until it is connected, then as a command. `used` records which characters
made which line. Its initial predicate, next-state relation and type invariant are
called `MainInit`, `MainNext` and `MainTypeOK`, so that it can be extended together
with `Buffer`.

### Sockets

A step is a system call with the code up to the next one; every one can fail. `fn`
and `flags` are the function and its arguments, `s` its local variable, `lists` the
number of address lists allocated, `held` the descriptors the callers own, `lost` the
sockets which the code leaves open on the two paths where it does (a refused
SO_REUSEADDR in `_anetTcpServer`, a refused O_NONBLOCK in `anetUnixGenericConnect`).
A new descriptor is the lowest free one. The functions of the code are `Begin` with
the place of their first system call; their paths meet in `AfterReuseAddr`, `Fail` and
`Return` as the code's do in its static helpers and labels.

## Runs

Each run is a module with a configuration; `tlc -config X.cfg M`.

| Run | Configuration | Checks | Distinct states |
|---|---|---|---|
| loop_table | `MCEventLoop_table` | `TypeOK`, `MaxFdInv`, `EpollInv`, `HandlerInv`, `StopHonoured` (liveness) | 1.0 M |
| server_protocol | `MCServer_protocol` | `ReplyCorrect`, `FilesComplete`, `WriteInterest`, `StallsForItsPeer` (with `Survives`), `NeverDropped`, no deadlock | 256 k |
| server_deaths | `MCServer_deaths` | `TypeOK`, `NoDangling`, `EventsAreFresh` | 2.6 M |
| service | `MCClientServer_service` | `Implements` (refinement of `Service`), `NoDangling`, no deadlock | 1.4 M |
| service_returns | `MCClientServer_returns` | `Implements`, `CommandReturns`, `UploadsKept`, `Reclaimed` (liveness), no deadlock | 133 k |
| framing | `MCFraming_stream` | `Implements` (refinement of `PacketChannel`), `PacketsArrive` (liveness), no deadlock | 13 k |
| sockets_calls | `MCSockets_calls` | `TypeOK`, `NothingLost`, `OwnsSocket`, `ReturnsWhatItSays`, `TriesEverything` | 318 k |
| timers_sleep | `MCTimers_sleep` | `TypeOK`, `Punctual`, `WaitsAsTold`, `IdsAreUnique` | 337 k |
| arguments_words | `MCArguments_words` | `TypeOK`, `InBounds`, `Progress`, `WordsOfLine`, `Forwarded`, `Terminates` (liveness) | 94 k |
| client_lines | `MCClientMain_lines` | `LinesDelivered` (with `TypeOK`), `BlankLines` | 85 k |
| buffer_frames | `MCBuffer_frames` | `InBounds` (with `TypeOK`), `FrameIntact` | 1.7 k |
| buffer_assert | `MCBuffer_assert` | `Asserted` is violated, see Findings | |

What the server runs show:

* *server_protocol*: with conforming peers every reply is a prefix of what is
  owed, in order and unmixed; whenever nothing of a peer's is on its way its
  files are complete; the write event is registered exactly while a reply is
  unsent; the server never closes an accepted connection first; the process
  does not crash; whenever a handler stalls everybody, it is its own peer's turn to
  send or to read; and no state is a deadlock: `Rest`, the only step of a system
  at rest, requires that no peer waits for anything.
* *server_deaths*: with peers that pipeline and die at any point, the data of every
  registered event is a live `client_t` that owns the descriptor, every live
  `client_t` is registered, and an event still in the batch never refers to a
  connection that is gone, although descriptors are reused at once. Among the requests
  are a command without an argument and one that leaves no reply where the table has one.

What the others show:

* *loop_table*: whatever the owner calls, the table and the epoll set agree; and a
  `stop()` inside a handler ends `run()`.
* *service*: the two programs implement the service for every kind of command line and
  of file, for clients that die at any time and a server that may die. There is one
  descriptor for two clients: `accept` fails while it is in use, and it is used again
  while its last owner's session is still being taken apart.
* *service_returns*: two clients at a time; commands return, files are kept and
  connections that were left are cleaned up, also when the other client dies inside a
  transfer. `Reclaimed` excepts a process that has crashed (an assertion can fail when
  a peer leaves in the middle of a transfer).
* *framing*: the length in front is enough for packets to be restored by `anetRead`, on
  a stream smaller than what is sent. Plain `read()` restores them when head and body
  are there in one piece; without this assumption `Implements` is false for it, and a
  server behind a network that divides a packet loses the framing. `Server` works
  with whole packets, which is this assumption.
* *sockets_calls*: nobody's descriptor is closed, none is lost except on two paths, a
  successful call returns what it is named for, and a connect has tried every address.
* *timers_sleep*: the sleep ends within a millisecond of the earliest timer, if the time
  left fits an `int`.
* *arguments_words*: both tokenizers agree with the reference on every text. `Forwarded`
  draws the line between the file names that reach the server and those that do not:
  the client parses the escapes away and sends the bare name (client.cpp:51, 73).
* *client_lines*: no line that fits is lost or split; a blank command, on which
  `process` looks at an argument that is not there, comes from a blank line or
  behind a line whose length is a multiple of the buffer.

### Bounds

Two or three descriptors are enough for gaps below `_max_fd` and for reuse while
another entry of the batch is pending. Two peers are enough for one to act while the
server waits for the other; with one descriptor they also exhaust the descriptors. A
socket buffer of one packet makes every transfer block half way; larger ones only
remove interleavings. Two requests per peer give a request behind another; a third
adds no new pair of neighbours. `Size` equals the number of descriptors, except in
loop_table, where the table is also one shorter, so that a descriptor falls outside
it. Files of at most two packets give a full, a short and an empty last part. The
buffer of 8 bytes leaves room for bodies of 0 to 5 bytes (with their `'\0'`), the
edge being one byte on each side. `MaxRequests` is the only bound on a counter of
the server; it limits the peers.

`MCClientServer` has two clients and two descriptors for them, or one, so that the
second has to wait; two requests each in *service*, one in *service_returns*, where
the clients' own files can be opened. `MCFraming` has a head of two bytes, bodies of
zero to three, two of which look like heads, a stream of five bytes, which one frame
of the longest fills, and three packets, so that a lost byte shows in a later
packet. `MCSockets` has three descriptors, one held, one lost, one in use, and three
addresses. `MCTimers` has seconds of three milliseconds of two ticks, so that every
carry happens within `MaxTime`, delays of zero, two, four and twelve milliseconds,
two timers, and an `int` of 16 values, which the last does not fit. `MCArguments`
takes every text of up to five characters out of six classes: two words, or an
escape with two neighbours on a side. `MCClientMain` takes every input of up to nine
characters with a buffer of three, which is a line of three pieces.

Symmetry of peers is used in the runs without liveness properties; the modules never
choose among peers except by what is unique about them.

### Fairness

`EventLoop`: weak fairness of the loop's own steps, the thread being scheduled and
handlers returning, but not of `epoll_wait`, which may wait for ever. `StopHonoured`
is about a stop from inside a handler for that reason: a stop set while nothing
happens is not seen.

`Server` states none: what it promises in time depends on the other end, and is
stated for both together.

`ClientServer`: weak fairness of the server's thread and of each client's, which are
separate processes (`client.cpp` blocks in `send` and `recv` and does nothing else
meanwhile); nothing makes a user connect, type or quit, and nobody has to die. These
assumptions matter: sockets block, so a client that stops reading, or stops within a
packet, stalls all others, and `CommandReturns` is then false by design. `Framing`:
weak fairness of `anetWrite` and of the reader, which loop until they are done.
`Arguments`: the function runs. The other modules state no fairness.

## Findings

* `buffer_t::extend` does not grow the array for a body that is too long by less
  than the room there is; the body is copied behind the array, against the
  assertion in buffer.cpp:20. Run buffer_assert. It takes a string of 1017 to 2031
  characters; `client_main` reads at most 127.

Read in the code, without a run of their own:

* `get` and `set` promise a reply in the command table (`_reply` is 1, "1: reply",
  server.hpp:70) and leave none; the write handler then deletes the client.
  `Server` has it (`empty_command`); `client.cpp` never sends them.
* The client's receive buffer is not terminated (client.cpp:46), against "always" in
  buffer.hpp:12. Its own output uses lengths.
* The time to the nearest timer is put into an `int` (ae_epoll.hpp:97): one of 2^31 ms,
  24.8 days, or more becomes negative, which waits for ever, or short. `Punctual` says
  so with `InRange`; without that condition it is violated. The program adds no timers.

## Proofs

`EventTableProofs` proves that `NewTable`, `add_file_event`, `del_file_event`, a
close after the events are gone, and `resize` preserve

    TableInv(t) == t \in Table /\ MaxFdIsHighest(t) /\ EpollAgrees(t) /\ HandlersPresent(t)

The parts need each other: `max_fd` has its type only because the scan returns a
descriptor, and `EPOLL_CTL_MOD` reaches the kernel only because a descriptor with a
mask is watched. The scan is the one place where the greatest element of a set is
needed (`BoundedMax`), which follows from the well-foundedness of `<`.

`EventLoopProofs` proves `Spec => []IInv` for

    IInv == TypeOK /\ TableInv(table) /\ Registered(table) \subseteq open

with one lemma per kind of step, and from it the theorems `TypeCorrect`,
`MaxFdCorrect`, `EpollCorrect` and `HandlersCorrect`. The last conjunct is needed
because a close removes a descriptor from the kernel's set behind the table's
back. Assumptions: `TableAssumption` (descriptors are numbered from 0, null is not a
handler or data) and `SizesAssumption` (array sizes are natural numbers).

### Server

`ServerProofs` proves the properties of the server from several layers of invariants.
The first, `Spec => []IInv`, is about memory and needs no assumption on the peers:

    IInv == TypeOK /\ TableOK /\ NoDangling /\ QueueOK /\ EntryOK /\ EventsAreFresh

`TableOK` is `TableInv` from `EventTableProofs` with the listening socket's entry, so
each handler is followed through the lemmas about the table's operations. `QueueOK` says
that a queued peer has no `client_t` yet, so that `accept` makes its first one, and
`EntryOK` that the entry being dispatched is out of the batch. `EventsAreFresh` needs
`NoDangling`, which says whose a descriptor is, and `NoDangling` needs `EventsAreFresh`
where a handler reads: a batch reported before a descriptor was reused must not reach its
new owner. `TypeCorrect`, `ClientDataIsLive` and `BatchStaysFresh` follow, for peers that
pipeline, die at any point and ask for anything.

`InterestOK` adds that the write event is there while a reply is unsent.
`OutputIsAwaited` and `ConnectionsAreKept` follow for requests other than `get` and `set`
(`Replying`); for these the code asks for a write event without a reply (see Findings),
and both theorems are false. `OutputIsAwaited` also assumes that files to be fetched
can be opened (`Openable`): `file_recv_command` registers the event and then crashes, or
hangs, over its null stream.

`TalkOK` is about what is on its way. `Follows(p, q)` is the grammar of the packets `q` that
the server has still to read of a peer: it begins with what the server is waiting for (a
command, the number of parts, or as many parts as `transfer.left` says) and each
`file_send` in it is followed by its count and its parts, of which only the last is
empty. The grammar survives the server's reading at the front (`CommandTaken`, `CountTaken`,
`PartTaken`, `EndTaken`) and the client's writing at the end (`AppendedRequest`). Without it
nothing can be said about what a handler finds in a packet.

* `OrderOK` adds the conversation: at most the last command unread has a reply, and what the
  client is owed is either that reply or what is already on its way, in the two
  buffers or the socket. `RepliesInOrder` follows, for clients that wait for a reply
  before they ask again (`~Pipelining`), as `client.cpp` does.
* `StayOK` adds that the process is alive and a served client is there. `WaitsForPeersOnly`
  follows for clients that do not ask again, leave only between requests and name
  files that can be opened (`~Pipelining`, `~MayDie`, `Polite`); each of these can fail
  in reality, and then the server stalls or crashes, as the runs with deaths show.
* `FilesOK` adds `Inflight`: an increasing map from the parts sent and not yet stored to the
  unread packets with data. `FilesArrive` follows for files that the server can open
  for writing (`Savable`); clients may pipeline and die.

### Client and Service

The last part of `ServerProofs` proves `CSSpec => Implements`: client and server implement
`Service` (`ServiceIsKept`), without any assumption on what users ask for, what files
are found at either end, or who dies when. The invariant has two parts.

* `WorldOK` is `IInv` with `PeerOK(p)` for every peer, which joins the layers above for one
  connection: the conversation if it is open; the grammar and `Inflight` as long as the
  server can read something of it, even if the peer has gone, where a rest of the request
  that never comes has to be assumed (`Comes`); and that replies and files are in order.
  Unlike `TalkOK` and `OrderOK` it assumes nothing of the peers, since here they are the
  client program, which does not ask before it has its reply. When the server crashes or
  hangs, only what has been sent and stored by then remains in order.
* `ClientOK(p)` relates the place of the client's thread to what it still waits for
  (`Expects`): the count and the parts it announces in `recv_integer`, as many parts as `num`
  says in `recv_file`, of which only the last may be empty, one packet in `recv`, and
  nothing at the prompt. Only then is a command that returns at `num = 0`, or at an
  empty packet, one that has everything. TLC checked it first, on both runs.

`CSInv`, the conjunction, is inductive (`NextCSInv`), and under it each step is a step of
`Service` or none: `Connect` is `Come`, the start of a command `Ask`, a packet that arrives
`Deliver` (and it is the next one owed, because what is on its way begins what is owed),
the end of the connection `GiveUp`, the end of the process `Leave`; the server's `fwrite` is
`Keep` (`StoresOne`: the part is the next one sent), and any other step of the server `Cut`.
`ClientDataIsLiveInUse` is `NoDangling` with the client program at the other end.

### Framing

`FramingProofs` proves that `Framing` implements `PacketChannel`, with the mapping of the
run. The invariant places both ends in the history of the stream: `Layout` says at which
byte the frame of each packet begins, `StreamAt` that the stream continues at byte `c` with
the frames' bytes, and `ReaderAt` that the reader has all packets before and knows which
byte of the one that is due comes next; or the writer is lost (`Over`), or a plain `read()`
has stopped. The induction over the pieces a packet arrives in is thus one
over bytes. `HeadAssumption` says of the head that it is a number written in `HeadSize`
bytes that reads back as itself; it is an assumption because powers are recursive.

### Timers, Buffer, ClientMain, Sockets and Arguments

`TimersProofs` proves all four properties of `Timers`. Its invariant says that a timer's
seconds and milliseconds are its exact time in whole milliseconds (`TimersOK`), that ids are
below the next one (`IdsOK`), and that time only goes on (`ClockOK`). `SleepIsPunctual` needs
the search of `nearest_time_event` to yield the earliest timer.

`BufferProofs` proves, for buffers of any size, that nothing is written behind the array
(`StaysInBounds`) and that the assertions hold (`AssertionsHold`), for bodies that fit or are
more than twice as long as the room there is (`Doubling`). That is the weakest condition the
code allows: for a body in between, `extend` does not grow the array, as the run buffer_assert
shows. `FramesStayIntact` also assumes that no head that is copied has a zero byte below
another one (`Solid`), since the array is copied with `strncpy`. The program meets both:
what it writes fits, and is not copied.

The same module proves both properties of `ClientMain`, for every input and every size of
`_command_str` from two up (`LinesAreDelivered`, `BlankLinesAreExplained`). The inductive
invariant `MainInv` says that what `fgetline` has read is letters, that a piece begins with
a line or a number of full buffers behind the beginning of one (`BeginsPiece`, which explains
the blank lines), and that the lines used begin at different places, are without newlines,
and have among them each beginning of a line passed so far (`LinesOK`).

`SocketsProofs` proves `Spec => []IInv` for the conjunction of the types, the places at
which each function can be (`PlaceInv`: `s` has a socket exactly where the code relies
on it, and only a TCP function holds a list), the ownership of descriptors
(`Ownership`: the open ones are those that are held, those that were lost and the one in
`s`, and these are different) and the number of lists at each place (`ListsNow`). The
ownership needs the places, because what `Return` hands over is `s`; the places need
the types. `SocketState` and `Tried` add what is known of the socket and of the addresses
at each place, from which the two action properties follow (`CallsKeepTheirWord`,
`NothingLeftToTry`). The assumption is `SocketsAssumption` (the bounds are natural numbers,
at least one address is answered).

`ArgumentsProofs` proves `Spec => []IInv` for `TypeOK`, `InBounds`, `Progress`, `WordGrows`
(inside a word, something has been or can be taken from it: the reason why no word is
empty) and `NoNul` (a string has none). `TypeCorrect`, `StaysInBounds` and `MakesProgress`
follow for texts of any length. That an escape, which steps over two characters, stays
inside is a consequence of the test of the second one against the end.

`LinesAreSplit` proves `WordsOfLine`. Its invariant, `WordsInv`, says that `argv` has the
words that begin before the place the parser is at, or before the word it is in, and that
`space_arg` has what that word keeps up to `top`. What `Ascending` gives is known from the
lemmas before it: any set of positions has an increasing enumeration
(`PositionsHaveOrder`, because there is no least bound for a set without one), it is
the only one (`AscendingIsEnumeration`), and those of two sets, one behind the other, join
(`AscendingJoin`). `NamesAreForwarded` proves `Forwarded` from the words alone: a name
without blanks is one word behind the command (`PlainNamesPass`), and one with a blank would
have to keep all of its characters, which a break or an escape prevents
(`NamesWithBlanksDoNot`).

### Assumptions

Besides those named above, the constants have the types that the `ASSUME`s next to their
declarations give them: sizes are natural numbers, mostly positive, the requests are
records, null is not a packet and not a handler (`PacketAssumption`, `TableAssumption`),
powers of the base are positive (`PowerAssumption`). TLC evaluates each of them on
every run. The hypotheses of single theorems are about the requests peers make and
the way they behave; the runs that check the same properties satisfy them.

### Only model-checked

All liveness: `StopHonoured`, `Reclaimed`, `CommandReturns`, `UploadsKept`, `PacketsArrive`,
`Terminates`. It is beyond the prover. Every invariant, action property and refinement that a
run checks is a theorem, some under the hypotheses named above.

## Not modelled

* `anet.cpp`: the functions that set one option of a socket and return (keep-alive,
  no-delay, send buffer, send timeout), name resolution without a socket, and the
  formatting of addresses: each is a system call and an error text, without state.
* A failing `init()`. It reports nothing; with a failed listen the descriptor -1 is used
  as an index, and nothing in the code says what should hold afterwards.
* `resize` inside a handler, which no handler does.
* Packets longer than the receiver's buffer.
* A `std::string` with a NUL inside for `arg_t::process`; that overload has no caller.
* A clock that is set back.
* The destructors of the loop and of `server_t`, after which nothing runs; the two
  `command_t` types that share a name; the commented-out originals in `ae.cpp` and
  `ae_epoll.hpp`; logging; the build.

## Plan

What could follow: weaker hypotheses for the theorems that have them, such as a form of
`WriteInterest` that also says what remains true once a `get` or a `set`, which never
reply, has been asked.

------------------------------- MODULE Sockets -------------------------------
(***************************************************************************)
(* anet.cpp: the calls that make descriptors.  Connecting and listening    *)
(* walk a list of addresses and can fail at every system call on the way;  *)
(* the question is who owns the descriptor then.                           *)
(*                                                                         *)
(* One thread calls one function at a time; a step is a system call with   *)
(* the code up to the next one.  The kernel may refuse any of them.        *)
(***************************************************************************)
EXTENDS Integers

CONSTANTS
  MaxFd,      \* the process may have the descriptors 0 .. MaxFd
  MaxAddrs    \* the longest answer of getaddrinfo()

ASSUME SocketsAssumption == MaxFd \in Nat /\ MaxAddrs \in Nat \ {0}

Fd == 0 .. MaxFd
ANET_ERR == -1

(* The functions, with the flags of their generic form: ANET_CONNECT_*     *)
(* and a source address for TCP connects, AF_INET6 for TCP servers.        *)
Plain == [nonblock |-> FALSE, source |-> FALSE, best_effort |-> FALSE, v6 |-> FALSE]
TcpConnects ==
  {Plain,
   [Plain EXCEPT !.nonblock = TRUE],
   [Plain EXCEPT !.nonblock = TRUE, !.source = TRUE],
   [Plain EXCEPT !.nonblock = TRUE, !.source = TRUE, !.best_effort = TRUE]}
UnixConnects == {Plain, [Plain EXCEPT !.nonblock = TRUE]}
TcpServers   == {Plain, [Plain EXCEPT !.v6 = TRUE]}

VARIABLES
  sock,      \* the kernel: what each descriptor is
  nonblock,  \* the kernel: O_NONBLOCK of each descriptor
  fn,        \* the function that runs, or "none"
  flags,     \* its flags
  pc,        \* the system call it is about to make
  s,         \* its local s
  left,      \* entries of servinfo it has not come to yet
  lists,     \* answers of getaddrinfo() not freed
  held,      \* the descriptors the callers own
  result,    \* what the last call returned
  faults,    \* history: what went wrong in this attempt
  lost       \* history: sockets the code left open when an option was refused

local == <<fn, flags, left, lists, faults, lost>>
vars  == <<sock, nonblock, fn, flags, pc, s, left, lists, held, result, faults, lost>>

Kind == {"closed", "socket", "connecting", "connected", "listening"}
Open == {fd \in Fd : sock[fd] # "closed"}

Init ==
  /\ sock = [fd \in Fd |-> "closed"]
  /\ nonblock = [fd \in Fd |-> FALSE]
  /\ fn = "none" /\ flags = Plain /\ pc = "idle"
  /\ s = ANET_ERR /\ left = 0 /\ lists = 0
  /\ held = {} /\ result = ANET_ERR
  /\ faults = {} /\ lost = {}

-----------------------------------------------------------------------------
(* A new descriptor is the lowest that is closed, and blocks.              *)
Make(kind, fd) ==
  /\ fd \notin Open /\ \A i \in Fd : i < fd => i \in Open
  /\ sock' = [sock EXCEPT ![fd] = kind]
  /\ nonblock' = [nonblock EXCEPT ![fd] = FALSE]

close(fd) ==
  /\ sock' = [sock EXCEPT ![fd] = "closed"]
  /\ UNCHANGED nonblock

Becomes(kind) ==
  /\ sock' = [sock EXCEPT ![s] = kind]
  /\ UNCHANGED nonblock

Kept == UNCHANGED <<sock, nonblock>>

Goto(place) == pc' = place /\ UNCHANGED <<held, result>>

Return(fd) ==
  /\ pc' = "idle"
  /\ result' = fd
  /\ held' = held \cup ({fd} \ {ANET_ERR})

Begin(name, f, place) ==
  /\ pc = "idle"
  /\ fn' = name /\ flags' = f
  /\ s' = ANET_ERR /\ left' = 0 /\ faults' = {}
  /\ Goto(place)
  /\ Kept /\ UNCHANGED <<lists, lost>>

(* How a call fails: the generic ones jump to "error", the others return.  *)
Fail == IF fn \in {"tcp_connect", "tcp_server"} THEN Goto("error") ELSE Return(ANET_ERR)

(* An option of the new socket cannot be set.                              *)
Refused(leaks) ==
  /\ lost' = IF leaks THEN lost \cup {s} ELSE lost
  /\ faults' = faults \cup {"option"}
  /\ UNCHANGED <<fn, flags, left, lists>>

-----------------------------------------------------------------------------
(* getaddrinfo() of the address.                                           *)
Resolve ==
  /\ pc = "resolve"
  /\ \/ /\ Return(ANET_ERR)
        /\ faults' = faults \cup {"resolve"}
        /\ UNCHANGED <<left, lists>>
     \/ /\ left' \in 1 .. MaxAddrs
        /\ lists' = lists + 1
        /\ Goto("socket")
        /\ UNCHANGED faults
  /\ Kept /\ UNCHANGED <<fn, flags, s, lost>>

(* The head of the loop over servinfo: socket(), or the next entry.        *)
Socket ==
  /\ pc = "socket"
  /\ \/ left = 0 /\ Goto("error") /\ Kept /\ UNCHANGED <<s, left>>
     \/ /\ left > 0 /\ left' = left - 1
        /\ \/ s' = ANET_ERR /\ Goto("socket") /\ Kept
           \/ \E fd \in Fd :
                /\ Make("socket", fd) /\ s' = fd
                /\ Goto(IF fn = "tcp_server" /\ flags.v6 THEN "v6only" ELSE "reuseaddr")
  /\ UNCHANGED <<fn, flags, lists, faults, lost>>

(* anetCreateSocket's socket().                                            *)
CreateSocket ==
  /\ pc = "create"
  /\ \/ Return(ANET_ERR) /\ Kept /\ UNCHANGED s
     \/ \E fd \in Fd : Make("socket", fd) /\ s' = fd /\ Goto("reuseaddr")
  /\ UNCHANGED local

(* A mistake: the socket is left to the caller, who does not close it.     *)
Careless_V6Only ==
  /\ pc = "v6only"
  /\ \/ Goto("reuseaddr") /\ Kept
     \/ Kept /\ Goto("error")
  /\ UNCHANGED <<local, s>>

(* anetV6Only closes the socket itself.                                    *)
V6Only ==
  /\ pc = "v6only"
  /\ \/ Goto("reuseaddr") /\ Kept
     \/ close(s) /\ Goto("error")
  /\ UNCHANGED <<local, s>>

AfterReuseAddr ==
  IF fn \in {"tcp_server", "unix_server"} THEN "listen"
  ELSE IF flags.nonblock THEN "nonblock"
  ELSE IF flags.source THEN "source" ELSE "connect"

(* anetSetReuseAddr.  anetCreateSocket closes the socket on failure, a     *)
(* connect does so at its label error, and _anetTcpServer does not: its    *)
(* label error only forgets s.                                             *)
SetReuseAddr ==
  /\ pc = "reuseaddr"
  /\ \/ Goto(AfterReuseAddr) /\ Kept /\ UNCHANGED local
     \/ /\ IF fn \in {"unix_connect", "unix_server"} THEN close(s) ELSE Kept
        /\ Fail
        /\ Refused(fn = "tcp_server")
  /\ UNCHANGED s

(* anetNonBlock of a new socket.  anetUnixGenericConnect returns without   *)
(* closing it when fcntl() fails.                                          *)
SetNonBlock ==
  /\ pc = "nonblock"
  /\ \/ /\ nonblock' = [nonblock EXCEPT ![s] = TRUE] /\ UNCHANGED sock
        /\ Goto(IF flags.source THEN "source" ELSE "connect")
        /\ UNCHANGED local
     \/ Kept /\ Fail /\ Refused(fn = "unix_connect")
  /\ UNCHANGED s

(* getaddrinfo() of the source address, then bind() to one of the answers. *)
ResolveSource ==
  /\ pc = "source"
  /\ \/ Goto("bind") /\ lists' = lists + 1 /\ UNCHANGED faults
     \/ Goto("error") /\ faults' = faults \cup {"source"} /\ UNCHANGED lists
  /\ Kept /\ UNCHANGED <<fn, flags, s, left, lost>>

BindSource ==
  /\ pc = "bind"
  /\ lists' = lists - 1
  /\ \/ Goto("connect") /\ UNCHANGED faults
     \/ Goto("error") /\ faults' = faults \cup {"source"}
  /\ Kept /\ UNCHANGED <<fn, flags, s, left, lost>>

Connected ==
  /\ \/ Becomes("connected")
     \/ flags.nonblock /\ Becomes("connecting")
  /\ IF fn = "tcp_connect" THEN Goto("end") ELSE Return(s)
  /\ UNCHANGED s

(* A mistake: the number of the closed socket stays in s.                  *)
Stale_ConnectFails ==
  /\ close(s)
  /\ UNCHANGED s
  /\ IF fn = "tcp_connect" THEN Goto("socket") ELSE Return(ANET_ERR)

(* A mistake: no other address is tried.                                   *)
OneOnly_ConnectFails ==
  /\ close(s)
  /\ s' = ANET_ERR
  /\ IF fn = "tcp_connect" THEN Goto("end") ELSE Return(ANET_ERR)

(* The next address, if there is one.                                      *)
ConnectFails ==
  /\ close(s)
  /\ s' = ANET_ERR
  /\ IF fn = "tcp_connect" THEN Goto("socket") ELSE Return(ANET_ERR)

Connect == pc = "connect" /\ (Connected \/ ConnectFails) /\ UNCHANGED local

(* A mistake: bind() has failed and listen() is called nevertheless.       *)
Unchecked_Listen ==
  /\ pc = "listen"
  /\ Kept
  /\ IF fn = "tcp_server" THEN Goto("end") ELSE Return(s)
  /\ UNCHANGED <<local, s>>

(* anetListen: bind() and listen(); it closes the socket itself.           *)
Listen ==
  /\ pc = "listen"
  /\ \/ /\ Becomes("listening")
        /\ IF fn = "tcp_server" THEN Goto("end") ELSE Return(s)
     \/ close(s) /\ Fail
  /\ UNCHANGED <<local, s>>

(* The label error, of a connect and of a server.                          *)
Error ==
  /\ pc = "error"
  /\ IF fn = "tcp_connect" /\ s # ANET_ERR THEN close(s) ELSE Kept
  /\ s' = ANET_ERR
  /\ Goto("end")
  /\ UNCHANGED local

(* A mistake: the second attempt starts with the first list still there.   *)
Unfreed_End ==
  /\ pc = "end"
  /\ IF fn = "tcp_connect" /\ s = ANET_ERR /\ flags.source /\ flags.best_effort
     THEN Goto("resolve") /\ flags' = [flags EXCEPT !.source = FALSE] /\ faults' = {}
          /\ UNCHANGED lists
     ELSE Return(s) /\ lists' = lists - 1 /\ UNCHANGED <<flags, faults>>
  /\ Kept /\ UNCHANGED <<fn, s, left, lost>>

(* The label end.  Best-effort binding starts again without a source.      *)
End ==
  /\ pc = "end"
  /\ lists' = lists - 1
  /\ IF fn = "tcp_connect" /\ s = ANET_ERR /\ flags.source /\ flags.best_effort
     THEN Goto("resolve") /\ flags' = [flags EXCEPT !.source = FALSE] /\ faults' = {}
     ELSE Return(s) /\ UNCHANGED <<flags, faults>>
  /\ Kept /\ UNCHANGED <<fn, s, left, lost>>

(* anetGenericAccept: again after EINTR.                                   *)
Accept ==
  /\ pc = "accept"
  /\ \/ Goto("accept") /\ Kept
     \/ Return(ANET_ERR) /\ Kept
     \/ \E fd \in Fd : Make("connected", fd) /\ Return(fd)
  /\ UNCHANGED <<local, s>>

-----------------------------------------------------------------------------
(* The callers.                                                            *)
anetTcpConnect  == \E f \in TcpConnects : Begin("tcp_connect", f, "resolve")
anetUnixConnect == \E f \in UnixConnects : Begin("unix_connect", f, "create")
anetTcpServer   == \E f \in TcpServers : Begin("tcp_server", f, "resolve")
anetUnixServer  == Begin("unix_server", Plain, "create")
anetAccept      == (\E fd \in held : sock[fd] = "listening") /\ Begin("accept", Plain, "accept")

(* anetBlock and anetNonBlock of a descriptor; a failure changes nothing.  *)
SetBlock(fd, on) ==
  /\ pc = "idle"
  /\ nonblock' = [nonblock EXCEPT ![fd] = on]
  /\ UNCHANGED <<sock, local, pc, s, held, result>>

Close(fd) ==
  /\ pc = "idle"
  /\ close(fd)
  /\ held' = held \ {fd}
  /\ UNCHANGED <<local, pc, s, result>>

Call == anetTcpConnect \/ anetUnixConnect \/ anetTcpServer \/ anetUnixServer \/ anetAccept

Step ==
  \/ Resolve \/ Socket \/ CreateSocket \/ V6Only \/ SetReuseAddr \/ SetNonBlock
  \/ ResolveSource \/ BindSource \/ Connect \/ Listen \/ Error \/ End \/ Accept

Next ==
  \/ Call \/ Step
  \/ \E fd \in held : Close(fd) \/ \E on \in BOOLEAN : SetBlock(fd, on)

Spec == Init /\ [][Next]_vars

-----------------------------------------------------------------------------
(* Every variable has its type.                                            *)
TypeOK ==
  /\ sock \in [Fd -> Kind] /\ nonblock \in [Fd -> BOOLEAN]
  /\ s \in Fd \cup {ANET_ERR} /\ result \in Fd \cup {ANET_ERR}
  /\ left \in 0 .. MaxAddrs /\ lists \in 0 .. 2
  /\ held \subseteq Fd
  /\ faults \subseteq {"resolve", "option", "source"} /\ lost \subseteq Fd

(* Between calls every open descriptor is one a caller was given, whatever *)
(* failed on the way, and every list of addresses has been freed once.     *)
(* The code leaves a socket open on two paths, and on no other:            *)
(* SetReuseAddr of a TCP server, SetNonBlock of a Unix connect.            *)
NothingLost ==
  pc = "idle" => /\ Open = held \cup lost
                 /\ held \cap lost = {}
                 /\ lists = 0

(* The labels error and end have a socket of this call in s or none: they  *)
(* close nothing twice and nothing of the caller's, who may have been      *)
(* given the same number in the meantime.                                  *)
OwnsSocket ==
  s # ANET_ERR /\ (pc = "end" \/ (pc = "error" /\ fn = "tcp_connect"))
    => s \in Open \ held

(* What a successful call returns is what it promises: a connection, which *)
(* a non-blocking connect may leave in progress, or a listening socket;    *)
(* and it blocks unless the call was a non-blocking one.                   *)
Returned(fd) ==
  /\ nonblock'[fd] = flags.nonblock
  /\ CASE fn \in {"tcp_connect", "unix_connect"} ->
            sock'[fd] = "connected" \/ (flags.nonblock /\ sock'[fd] = "connecting")
       [] fn = "accept" -> sock'[fd] = "connected"
       [] OTHER         -> sock'[fd] = "listening"

ReturnsWhatItSays ==
  [][pc # "idle" /\ pc' = "idle" /\ result' # ANET_ERR => Returned(result')]_vars

(* "If we fail in the socket() call, or on connect(), we retry with the    *)
(* next entry in servinfo" (anet.cpp:246) and "try again without a binding *)
(* address" (anet.cpp:305): a connect only fails when the addresses are    *)
(* used up or an address, an option or the source stood in the way, and    *)
(* with best-effort binding only after an attempt without a source.        *)
TriesEverything ==
  [][pc # "idle" /\ pc' = "idle" /\ fn = "tcp_connect" /\ result' = ANET_ERR
       => /\ faults' = {} => left = 0
          /\ flags.best_effort /\ "resolve" \notin faults' => ~flags.source]_vars
=============================================================================

---------------------------- MODULE SocketsProofs ----------------------------
(***************************************************************************)
(* Who owns a descriptor while and after anet.cpp makes one, for every     *)
(* number of descriptors and addresses.                                    *)
(***************************************************************************)
EXTENDS Sockets, TLAPS

Connects == {"tcp_connect", "unix_connect"}
Servers  == {"tcp_server", "unix_server"}

(* Where each function can be.                                             *)
PlaceInv ==
  /\ pc = "resolve"   => fn \in {"tcp_connect", "tcp_server"}
  /\ pc = "socket"    => fn \in {"tcp_connect", "tcp_server"}
  /\ pc = "create"    => fn \in {"unix_connect", "unix_server"}
  /\ pc = "v6only"    => fn = "tcp_server"
  /\ pc = "reuseaddr" => fn \in Connects \cup Servers
  /\ pc = "nonblock"  => fn \in Connects
  /\ pc = "source"    => fn = "tcp_connect"
  /\ pc = "bind"      => fn = "tcp_connect"
  /\ pc = "connect"   => fn \in Connects
  /\ pc = "listen"    => fn \in Servers
  /\ pc = "error"     => fn \in {"tcp_connect", "tcp_server"}
  /\ pc = "end"       => fn \in {"tcp_connect", "tcp_server"}
  /\ pc = "accept"    => fn = "accept"
  /\ fn \in Connects /\ flags.source => fn = "tcp_connect"

Places == {"idle", "resolve", "socket", "create", "v6only", "reuseaddr", "nonblock",
           "source", "bind", "connect", "listen", "error", "end", "accept"}

(* Where the function has a socket of its own in s.                        *)
Working == {"v6only", "reuseaddr", "nonblock", "source", "bind", "connect", "listen"}
Owned ==
  IF \/ pc \in Working
     \/ s # ANET_ERR /\ (pc = "end" \/ (pc = "error" /\ fn = "tcp_connect"))
  THEN {s} ELSE {}

(* Lists of addresses that are not freed at each place.                    *)
ListsNow ==
  IF fn \notin {"tcp_connect", "tcp_server"} \/ pc \in {"idle", "resolve"} THEN 0
  ELSE IF pc = "bind" THEN 2 ELSE 1

Flags == [nonblock : BOOLEAN, source : BOOLEAN, best_effort : BOOLEAN, v6 : BOOLEAN]

KernelTypes == sock \in [Fd -> Kind] /\ nonblock \in [Fd -> BOOLEAN]

LocalTypes ==
  /\ s \in Fd \cup {ANET_ERR} /\ result \in Fd \cup {ANET_ERR}
  /\ left \in 0 .. MaxAddrs
  /\ faults \subseteq {"resolve", "option", "source"}
  /\ flags \in Flags
  /\ pc \in Places
  /\ pc \in Working => s \in Fd
  /\ pc \in {"resolve", "socket", "create"} => s = ANET_ERR

Ownership ==
  /\ Open = held \cup lost \cup Owned
  /\ held \cap lost = {}
  /\ Owned \cap (held \cup lost) = {}

IInv == KernelTypes /\ LocalTypes /\ PlaceInv /\ Ownership /\ lists = ListsNow

-----------------------------------------------------------------------------
(* What the kernel's calls do to the set of open descriptors.              *)
LEMMA MakeOpens ==
  ASSUME KernelTypes, NEW kind \in Kind \ {"closed"}, NEW fd \in Fd, Make(kind, fd)
  PROVE  KernelTypes' /\ fd \notin Open /\ Open' = Open \cup {fd}
BY DEF KernelTypes, Make, Open

LEMMA CloseCloses ==
  ASSUME KernelTypes, NEW fd \in Fd, close(fd)
  PROVE  KernelTypes' /\ Open' = Open \ {fd}
BY DEF KernelTypes, close, Open, Kind

LEMMA BecomesStays ==
  ASSUME KernelTypes, s \in Open, NEW kind \in Kind \ {"closed"}, Becomes(kind)
  PROVE  KernelTypes' /\ Open' = Open
BY DEF KernelTypes, Becomes, Open

LEMMA KeptStays ==
  ASSUME KernelTypes, Kept
  PROVE  KernelTypes' /\ Open' = Open
BY DEF KernelTypes, Kept, Open

-----------------------------------------------------------------------------
LEMMA InitIInv == Init => IInv
<1> SUFFICES ASSUME Init PROVE IInv
  OBVIOUS
<1>1. Open = {}
  BY DEF Init, Open
<1>2. 0 \in 0 .. MaxAddrs
  BY SocketsAssumption
<1>3. QED
  BY <1>1, <1>2
  DEF Init, IInv, KernelTypes, LocalTypes, Ownership, Flags, Kind, Plain, Places,
      PlaceInv, Connects, Working, Owned, ListsNow

(* While it works on a socket the function has it open.                    *)
LEMMA WorkingOwns ==
  ASSUME IInv, pc \in Working
  PROVE  s \in Fd /\ s \in Open /\ KernelTypes
BY DEF IInv, LocalTypes, Ownership, Owned

(* The beginning of a call.                                                *)
LEMMA CallStep ==
  ASSUME IInv, Call
  PROVE  IInv'
<1>1. PICK name \in Connects \cup Servers \cup {"accept"},
           f \in TcpConnects \cup TcpServers,
           place \in {"resolve", "create", "accept"} :
        /\ Begin(name, f, place)
        /\ place = "resolve" => name \in {"tcp_connect", "tcp_server"}
        /\ place = "create" => name \in {"unix_connect", "unix_server"}
        /\ place = "accept" => name = "accept"
        /\ f.source /\ name \in Connects => name = "tcp_connect"
  BY DEF Call, anetTcpConnect, anetUnixConnect, anetTcpServer, anetUnixServer,
      anetAccept,
         Connects, Servers, TcpConnects, UnixConnects, TcpServers, Plain
<1>2. f \in Flags
  <2>1. Plain \in Flags
    BY DEF Plain, Flags
  <2>2. \A g \in Flags : /\ [g EXCEPT !.nonblock = TRUE] \in Flags
                         /\ [g EXCEPT !.source = TRUE] \in Flags
                         /\ [g EXCEPT !.best_effort = TRUE] \in Flags
                         /\ [g EXCEPT !.v6 = TRUE] \in Flags
    BY DEF Flags
  <2> DEFINE one == [Plain EXCEPT !.nonblock = TRUE]
             two == [one EXCEPT !.source = TRUE]
             all == [two EXCEPT !.best_effort = TRUE]
  <2>3. one \in Flags /\ two \in Flags /\ all \in Flags
    BY <2>1, <2>2
  <2>4. /\ two = [Plain EXCEPT !.nonblock = TRUE, !.source = TRUE]
        /\ all = [Plain EXCEPT !.nonblock = TRUE, !.source = TRUE, !.best_effort = TRUE]
    OBVIOUS
  <2> HIDE DEF one, two, all
  <2>5. f \in {Plain, one, two, all, [Plain EXCEPT !.v6 = TRUE]}
    BY <2>4 DEF TcpConnects, TcpServers, one
  <2>6. QED
    BY <2>1, <2>2, <2>3, <2>5
<1>3. KernelTypes' /\ Open' = Open
  BY <1>1, KeptStays DEF Begin, IInv
<1>4. 0 \in 0 .. MaxAddrs
  BY SocketsAssumption
<1>5. QED
  BY <1>1, <1>2, <1>3, <1>4
  DEF IInv, LocalTypes, Ownership, Begin, Goto, Places, PlaceInv, Connects,
      Servers, Working, Owned, ListsNow, ANET_ERR, Fd

LEMMA ResolveStep ==
  ASSUME IInv, Resolve
  PROVE  IInv'
<1>1. KernelTypes' /\ Open' = Open
  BY KeptStays DEF Resolve, IInv
<1>2. LocalTypes'
  <2>1. left' \in 0 .. MaxAddrs
    BY SocketsAssumption DEF IInv, LocalTypes, Resolve, local
  <2>2. s' \in Fd \cup {ANET_ERR} /\ result' \in Fd \cup {ANET_ERR}
    BY <1>1 DEF IInv, LocalTypes, Resolve, Goto, Return
  <2>3. faults' \subseteq {"resolve", "option", "source"} /\ flags' \in Flags
    BY DEF IInv, LocalTypes, Resolve, local
  <2>4. /\ pc' \in Places
        /\ pc' \in Working => s' \in Fd
        /\ pc' \in {"resolve", "socket", "create"} => s' = ANET_ERR
    BY <1>1 DEF IInv, LocalTypes, Resolve, Goto, Return, Places, Working
  <2>5. QED
    BY <2>1, <2>2, <2>3, <2>4 DEF LocalTypes
<1>3. PlaceInv'
  BY DEF IInv, PlaceInv, Resolve, Goto, Return, local, Connects, Servers
<1>4. Ownership'
  BY <1>1
  DEF IInv, LocalTypes, Ownership, PlaceInv, Resolve, Goto, Return, local, Owned,
      Working, ANET_ERR, Fd
<1>5. (lists = ListsNow)'
  BY DEF IInv, PlaceInv, Resolve, Goto, Return, local, ListsNow, Connects, Servers
<1>6. QED
  BY <1>1, <1>2, <1>3, <1>4, <1>5 DEF IInv

LEMMA ResolveSourceStep ==
  ASSUME IInv, ResolveSource
  PROVE  IInv'
<1>1. KernelTypes' /\ Open' = Open
  BY KeptStays DEF ResolveSource, IInv
<1>2. LocalTypes'
  BY DEF IInv, LocalTypes, ResolveSource, Goto, Return, local, Places, Working,
      ANET_ERR, Fd
<1>3. PlaceInv'
  BY DEF IInv, PlaceInv, ResolveSource, Goto, Return, local, Connects, Servers
<1>4. Ownership'
  BY <1>1
  DEF IInv, LocalTypes, Ownership, PlaceInv, ResolveSource, Goto, Return, local,
      Owned, Working, ANET_ERR, Fd
<1>5. (lists = ListsNow)'
  BY DEF IInv, PlaceInv, ResolveSource, Goto, Return, local, ListsNow, Connects, Servers
<1>6. QED
  BY <1>1, <1>2, <1>3, <1>4, <1>5 DEF IInv

LEMMA BindSourceStep ==
  ASSUME IInv, BindSource
  PROVE  IInv'
<1>1. KernelTypes' /\ Open' = Open
  BY KeptStays DEF BindSource, IInv
<1>2. LocalTypes'
  BY DEF IInv, LocalTypes, BindSource, Goto, Return, local, Places, Working,
      ANET_ERR, Fd
<1>3. PlaceInv'
  BY DEF IInv, PlaceInv, BindSource, Goto, Return, local, Connects, Servers
<1>4. Ownership'
  BY <1>1
  DEF IInv, LocalTypes, Ownership, PlaceInv, BindSource, Goto, Return, local,
      Owned, Working, ANET_ERR, Fd
<1>5. (lists = ListsNow)'
  BY DEF IInv, PlaceInv, BindSource, Goto, Return, local, ListsNow, Connects, Servers
<1>6. QED
  BY <1>1, <1>2, <1>3, <1>4, <1>5 DEF IInv

LEMMA EndStep ==
  ASSUME IInv, End
  PROVE  IInv'
<1>1. KernelTypes' /\ Open' = Open
  BY KeptStays DEF End, IInv
<1>2. LocalTypes'
  BY DEF IInv, LocalTypes, End, Goto, Return, local, Places, Working, ANET_ERR, Fd,
      Flags
<1>3. PlaceInv'
  BY DEF IInv, PlaceInv, End, Goto, Return, local, Connects, Servers, Flags
<1>4. Ownership'
  BY <1>1
  DEF IInv, LocalTypes, Ownership, PlaceInv, End, Goto, Return, local, Owned,
      Working, ANET_ERR, Fd, Flags
<1>5. (lists = ListsNow)'
  BY DEF IInv, PlaceInv, End, Goto, Return, local, ListsNow, Connects, Servers, Flags
<1>6. QED
  BY <1>1, <1>2, <1>3, <1>4, <1>5 DEF IInv

LEMMA SocketStep ==
  ASSUME IInv, Socket
  PROVE  IInv'
<1>1. /\ KernelTypes'
      /\ \/ Open' = Open /\ s' = ANET_ERR /\ pc' \in {"socket", "error"}
         \/ /\ s' \in Fd \ Open /\ Open' = Open \cup {s'}
            /\ pc' \in {"v6only", "reuseaddr"}
  BY MakeOpens, KeptStays
  DEF IInv, LocalTypes, PlaceInv, Ownership, Owned, Working, Kind, Socket, Goto
<1>2. LocalTypes'
  <2>1. left' \in 0 .. MaxAddrs
    BY SocketsAssumption DEF IInv, LocalTypes, Socket, local
  <2>2. s' \in Fd \cup {ANET_ERR} /\ result' \in Fd \cup {ANET_ERR}
    BY <1>1 DEF IInv, LocalTypes, Socket, Goto, Return
  <2>3. faults' \subseteq {"resolve", "option", "source"} /\ flags' \in Flags
    BY DEF IInv, LocalTypes, Socket, local
  <2>4. /\ pc' \in Places
        /\ pc' \in Working => s' \in Fd
        /\ pc' \in {"resolve", "socket", "create"} => s' = ANET_ERR
    BY <1>1 DEF IInv, LocalTypes, Socket, Goto, Return, Places, Working
  <2>5. QED
    BY <2>1, <2>2, <2>3, <2>4 DEF LocalTypes
<1>3. PlaceInv'
  BY DEF IInv, PlaceInv, Socket, Goto, Return, Fail, local, Connects, Servers
<1>4. Ownership'
  BY <1>1
  DEF IInv, LocalTypes, Ownership, PlaceInv, Socket, Goto, Return, Fail, local,
      Owned, Working, Connects, Servers, ANET_ERR, Fd
<1>5. (lists = ListsNow)'
  BY DEF IInv, PlaceInv, Socket, Goto, Return, Fail, local, ListsNow, Connects, Servers
<1>6. QED
  BY <1>1, <1>2, <1>3, <1>4, <1>5 DEF IInv

LEMMA CreateSocketStep ==
  ASSUME IInv, CreateSocket
  PROVE  IInv'
<1>1. /\ KernelTypes'
      /\ \/ Open' = Open /\ s' = ANET_ERR /\ pc' = "idle"
         \/ s' \in Fd \ Open /\ Open' = Open \cup {s'} /\ pc' = "reuseaddr"
  <2>1. KernelTypes /\ s = ANET_ERR
    BY DEF CreateSocket, IInv, LocalTypes
  <2>2. CASE Return(ANET_ERR) /\ Kept /\ UNCHANGED s
    BY <2>1, <2>2, KeptStays DEF Return
  <2>3. ASSUME NEW fd \in Fd, Make("socket", fd), s' = fd, Goto("reuseaddr")
        PROVE  /\ KernelTypes' /\ s' \in Fd \ Open
               /\ Open' = Open \cup {s'} /\ pc' = "reuseaddr"
    BY <2>1, <2>3, MakeOpens DEF Goto, Kind
  <2>4. QED
    BY <2>2, <2>3 DEF CreateSocket
<1>2. LocalTypes'
  <2>1. left' \in 0 .. MaxAddrs
    BY SocketsAssumption DEF IInv, LocalTypes, CreateSocket, local
  <2>2. s' \in Fd \cup {ANET_ERR} /\ result' \in Fd \cup {ANET_ERR}
    BY <1>1 DEF IInv, LocalTypes, CreateSocket, Goto, Return
  <2>3. faults' \subseteq {"resolve", "option", "source"} /\ flags' \in Flags
    BY DEF IInv, LocalTypes, CreateSocket, local
  <2>4. /\ pc' \in Places
        /\ pc' \in Working => s' \in Fd
        /\ pc' \in {"resolve", "socket", "create"} => s' = ANET_ERR
    BY <1>1 DEF IInv, LocalTypes, CreateSocket, Goto, Return, Places, Working
  <2>5. QED
    BY <2>1, <2>2, <2>3, <2>4 DEF LocalTypes
<1>3. PlaceInv'
  BY DEF IInv, PlaceInv, CreateSocket, Goto, Return, Fail, local, Connects, Servers
<1>4. Ownership'
  BY <1>1
  DEF IInv, LocalTypes, Ownership, PlaceInv, CreateSocket, Goto, Return, Fail,
      local, Owned, Working, Connects, Servers, ANET_ERR, Fd
<1>5. (lists = ListsNow)'
  BY DEF IInv, PlaceInv, CreateSocket, Goto, Return, Fail, local, ListsNow,
      Connects, Servers
<1>6. QED
  BY <1>1, <1>2, <1>3, <1>4, <1>5 DEF IInv

LEMMA V6OnlyStep ==
  ASSUME IInv, V6Only
  PROVE  IInv'
<1>1. /\ KernelTypes'
      /\ \/ Open' = Open /\ pc' = "reuseaddr"
         \/ Open' = Open \ {s} /\ pc' = "error"
  <2>1. s \in Fd /\ s \in Open /\ KernelTypes /\ s # ANET_ERR
    BY WorkingOwns DEF V6Only, Working, Fd, ANET_ERR
  <2>2. CASE Goto("reuseaddr") /\ Kept
    BY <2>1, <2>2, KeptStays DEF Goto
  <2>3. CASE close(s) /\ Goto("error")
    BY <2>1, <2>3, CloseCloses DEF Goto
  <2>4. QED
    BY <2>2, <2>3 DEF V6Only
<1>2. LocalTypes'
  BY <1>1
  DEF IInv, LocalTypes, V6Only, Goto, Return, Fail, local, Places, Working,
      ANET_ERR, Fd
<1>3. PlaceInv'
  BY DEF IInv, PlaceInv, V6Only, Goto, Return, Fail, local, Connects, Servers
<1>4. Ownership'
  BY <1>1
  DEF IInv, LocalTypes, Ownership, PlaceInv, V6Only, Goto, Return, Fail, local,
      Owned, Working, Connects, Servers, ANET_ERR, Fd
<1>5. (lists = ListsNow)'
  BY DEF IInv, PlaceInv, V6Only, Goto, Return, Fail, local, ListsNow, Connects, Servers
<1>6. QED
  BY <1>1, <1>2, <1>3, <1>4, <1>5 DEF IInv

(* Where a call goes on once SO_REUSEADDR is set.                          *)
LEMMA AfterPlaces ==
  ASSUME IInv, pc = "reuseaddr"
  PROVE  \/ AfterReuseAddr = "listen" /\ fn \in Servers
         \/ AfterReuseAddr = "nonblock" /\ fn \in Connects
         \/ AfterReuseAddr = "source" /\ fn = "tcp_connect"
         \/ AfterReuseAddr = "connect" /\ fn \in Connects
<1>1. fn \in Connects \cup Servers /\ (fn \in Connects /\ flags.source => fn = "tcp_connect")
  BY DEF IInv, PlaceInv
<1>2. flags.nonblock \in BOOLEAN /\ flags.source \in BOOLEAN
  BY DEF IInv, LocalTypes, Flags
<1>3. CASE fn \in Servers
  BY <1>3 DEF AfterReuseAddr, Servers
<1>4. CASE fn \in Connects
  <2>1. fn \notin {"tcp_server", "unix_server"}
    BY <1>4 DEF Connects
  <2>2. CASE flags.nonblock
    BY <1>4, <2>1, <2>2 DEF AfterReuseAddr
  <2>3. CASE ~flags.nonblock /\ flags.source
    BY <1>1, <1>4, <2>1, <2>3 DEF AfterReuseAddr
  <2>4. CASE ~flags.nonblock /\ ~flags.source
    BY <1>4, <2>1, <2>4 DEF AfterReuseAddr
  <2>5. QED
    BY <1>2, <2>2, <2>3, <2>4
<1>5. QED
  BY <1>1, <1>3, <1>4

LEMMA SetReuseAddrStep ==
  ASSUME IInv, SetReuseAddr
  PROVE  IInv'
<1>1. /\ KernelTypes' /\ held' = held /\ s' = s
      /\ \/ Open' = Open /\ lost' = lost /\ pc' = AfterReuseAddr
         \/ /\ Open' = Open \ {s} /\ fn \in {"unix_connect", "unix_server"}
            /\ pc' = "idle" /\ lost' = lost
         \/ /\ Open' = Open /\ fn \in {"tcp_connect", "tcp_server"} /\ pc' = "error"
            /\ lost' = (IF fn = "tcp_server" THEN lost \cup {s} ELSE lost)
  <2>1. s \in Fd /\ s \in Open /\ KernelTypes /\ s # ANET_ERR
    BY WorkingOwns DEF SetReuseAddr, Working, Fd, ANET_ERR
  <2>2. CASE Goto(AfterReuseAddr) /\ Kept /\ UNCHANGED local
    BY <2>1, <2>2, KeptStays DEF SetReuseAddr, Goto, local
  <2>3. CASE /\ IF fn \in {"unix_connect", "unix_server"} THEN close(s) ELSE Kept
             /\ Fail /\ Refused(fn = "tcp_server")
    <3>1. fn \in Connects \cup Servers
      BY DEF SetReuseAddr, IInv, PlaceInv
    <3>2. CASE fn \in {"unix_connect", "unix_server"}
      <4>1. KernelTypes' /\ Open' = Open \ {s}
        BY <2>1, <2>3, <3>2, CloseCloses
      <4>2. QED
        BY <2>3, <3>2, <4>1 DEF SetReuseAddr, Fail, Return, Refused
    <3>3. CASE fn \in {"tcp_connect", "tcp_server"}
      <4>1. KernelTypes' /\ Open' = Open
        BY <2>1, <2>3, <3>3, KeptStays
      <4>2. QED
        BY <2>3, <3>3, <4>1 DEF SetReuseAddr, Fail, Goto, Refused
    <3>4. QED
      BY <3>1, <3>2, <3>3 DEF Connects, Servers
  <2>4. QED
    BY <2>2, <2>3 DEF SetReuseAddr
<1>2. LocalTypes'
  BY <1>1
  DEF IInv, LocalTypes, SetReuseAddr, AfterReuseAddr, Refused, Goto, Return,
      Fail, local, Places, Working, ANET_ERR, Fd
<1>3. PlaceInv'
  <2>1. fn' = fn /\ flags' = flags
    BY DEF SetReuseAddr, Refused, local
  <2>2. QED
    BY <1>1, <2>1, AfterPlaces DEF SetReuseAddr, IInv, PlaceInv, Connects, Servers
<1>4. Ownership'
  BY <1>1
  DEF IInv, LocalTypes, Ownership, PlaceInv, SetReuseAddr, AfterReuseAddr,
      Refused, Goto, Return, Fail, local, Owned, Working, Connects, Servers,
      ANET_ERR, Fd
<1>5. (lists = ListsNow)'
  BY DEF IInv, PlaceInv, SetReuseAddr, AfterReuseAddr, Refused, Goto, Return, Fail,
      local, ListsNow, Connects, Servers
<1>6. QED
  BY <1>1, <1>2, <1>3, <1>4, <1>5 DEF IInv

LEMMA SetNonBlockStep ==
  ASSUME IInv, SetNonBlock
  PROVE  IInv'
<1>1. KernelTypes' /\ Open' = Open
  BY KeptStays
  DEF IInv, LocalTypes, PlaceInv, Ownership, Owned, Working, Kind, SetNonBlock,
      KernelTypes, Open
<1>2. LocalTypes'
  BY <1>1
  DEF IInv, LocalTypes, SetNonBlock, Refused, Goto, Return, Fail, local, Places,
      Working, ANET_ERR, Fd
<1>3. PlaceInv'
  BY DEF IInv, PlaceInv, SetNonBlock, Refused, Goto, Return, Fail, local, Connects,
      Servers
<1>4. Ownership'
  BY <1>1
  DEF IInv, LocalTypes, Ownership, PlaceInv, SetNonBlock, Refused, Goto, Return,
      Fail, local, Owned, Working, Connects, Servers, ANET_ERR, Fd
<1>5. (lists = ListsNow)'
  BY DEF IInv, PlaceInv, SetNonBlock, Refused, Goto, Return, Fail, local, ListsNow,
      Connects, Servers
<1>6. QED
  BY <1>1, <1>2, <1>3, <1>4, <1>5 DEF IInv

LEMMA ConnectStep ==
  ASSUME IInv, Connect
  PROVE  IInv'
<1>1. /\ KernelTypes'
      /\ \/ /\ Open' = Open /\ s' = s /\ s \in Fd
            /\ \/ fn = "tcp_connect" /\ pc' = "end" /\ held' = held
               \/ fn # "tcp_connect" /\ pc' = "idle" /\ held' = held \cup {s}
         \/ /\ Open' = Open \ {s} /\ s' = ANET_ERR /\ held' = held
            /\ pc' = (IF fn = "tcp_connect" THEN "socket" ELSE "idle")
  <2>1. s \in Fd /\ s \in Open /\ KernelTypes /\ s # ANET_ERR
    BY WorkingOwns DEF Connect, Working, Fd, ANET_ERR
  <2>2. CASE Connected
    <3>1. KernelTypes' /\ Open' = Open
      BY <2>1, <2>2, BecomesStays DEF Connected, Kind
    <3>2. QED
      BY <2>1, <2>2, <3>1 DEF Connected, Goto, Return
  <2>3. CASE ConnectFails
    <3>1. KernelTypes' /\ Open' = Open \ {s}
      BY <2>1, <2>3, CloseCloses DEF ConnectFails
    <3>2. QED
      BY <2>3, <3>1 DEF ConnectFails, Goto, Return
  <2>4. QED
    BY <2>2, <2>3 DEF Connect
<1>2. LocalTypes'
  BY <1>1
  DEF IInv, LocalTypes, Connect, Connected, ConnectFails, Goto, Return, Fail,
      local, Places, Working, ANET_ERR, Fd
<1>3. PlaceInv'
  BY DEF IInv, PlaceInv, Connect, Connected, ConnectFails, Goto, Return, Fail,
      local, Connects, Servers
<1>4. Ownership'
  <2>1. lost' = lost /\ fn' = fn
    BY DEF Connect, local
  <2>2. Owned = {s}
    BY DEF Connect, Owned, Working
  <2>3. QED
    BY <1>1, <2>1, <2>2 DEF IInv, Ownership, PlaceInv, Owned, Working, ANET_ERR, Fd
<1>5. (lists = ListsNow)'
  BY DEF IInv, PlaceInv, Connect, Connected, ConnectFails, Goto, Return, Fail,
      local, ListsNow, Connects, Servers
<1>6. QED
  BY <1>1, <1>2, <1>3, <1>4, <1>5 DEF IInv

LEMMA ListenStep ==
  ASSUME IInv, Listen
  PROVE  IInv'
<1>1. /\ KernelTypes'
      /\ \/ /\ Open' = Open /\ s \in Fd
            /\ \/ fn = "tcp_server" /\ pc' = "end" /\ held' = held
               \/ fn # "tcp_server" /\ pc' = "idle" /\ held' = held \cup {s}
         \/ /\ Open' = Open \ {s} /\ held' = held
            /\ \/ fn = "tcp_server" /\ pc' = "error"
               \/ fn # "tcp_server" /\ pc' = "idle"
  <2>1. s \in Fd /\ s \in Open /\ KernelTypes /\ s # ANET_ERR
    BY WorkingOwns DEF Listen, Working, Fd, ANET_ERR
  <2>2. CASE Becomes("listening") /\ IF fn = "tcp_server" THEN Goto("end") ELSE Return(s)
    <3>1. KernelTypes' /\ Open' = Open
      BY <2>1, <2>2, BecomesStays DEF Kind
    <3>2. QED
      BY <2>1, <2>2, <3>1 DEF Goto, Return
  <2>3. CASE close(s) /\ Fail
    <3>1. KernelTypes' /\ Open' = Open \ {s}
      BY <2>1, <2>3, CloseCloses
    <3>2. fn \in Servers
      BY DEF Listen, IInv, PlaceInv
    <3>3. QED
      BY <2>3, <3>1, <3>2 DEF Fail, Goto, Return, Servers
  <2>4. QED
    BY <2>2, <2>3 DEF Listen
<1>2. LocalTypes'
  BY <1>1
  DEF IInv, LocalTypes, Listen, Goto, Return, Fail, local, Places, Working,
      ANET_ERR, Fd
<1>3. PlaceInv'
  BY DEF IInv, PlaceInv, Listen, Goto, Return, Fail, local, Connects, Servers
<1>4. Ownership'
  <2>1. lost' = lost /\ fn' = fn /\ s' = s
    BY DEF Listen, local
  <2>2. Owned = {s}
    BY DEF Listen, Owned, Working
  <2>3. QED
    BY <1>1, <2>1, <2>2 DEF IInv, Ownership, PlaceInv, Owned, Working, ANET_ERR, Fd
<1>5. (lists = ListsNow)'
  BY DEF IInv, PlaceInv, Listen, Goto, Return, Fail, local, ListsNow, Connects, Servers
<1>6. QED
  BY <1>1, <1>2, <1>3, <1>4, <1>5 DEF IInv

LEMMA ErrorStep ==
  ASSUME IInv, Error
  PROVE  IInv'
<1>1. KernelTypes' /\ Open' = Open \ Owned
  BY CloseCloses, KeptStays
  DEF IInv, LocalTypes, PlaceInv, Ownership, Owned, Working, Kind, Error,
      ANET_ERR
<1>2. LocalTypes'
  BY <1>1
  DEF IInv, LocalTypes, Error, Goto, Return, Fail, local, Places, Working,
      ANET_ERR, Fd
<1>3. PlaceInv'
  BY DEF IInv, PlaceInv, Error, Goto, Return, Fail, local, Connects, Servers
<1>4. Ownership'
  BY <1>1
  DEF IInv, LocalTypes, Ownership, PlaceInv, Error, Goto, Return, Fail, local,
      Owned, Working, Connects, Servers, ANET_ERR, Fd
<1>5. (lists = ListsNow)'
  BY DEF IInv, PlaceInv, Error, Goto, Return, Fail, local, ListsNow, Connects, Servers
<1>6. QED
  BY <1>1, <1>2, <1>3, <1>4, <1>5 DEF IInv

LEMMA AcceptStep ==
  ASSUME IInv, Accept
  PROVE  IInv'
<1>1. /\ KernelTypes'
      /\ \/ Open' = Open /\ held' = held
         \/ result' \in Fd \ Open /\ Open' = Open \cup {result'} /\ held' = held \cup {result'}
  <2>1. KernelTypes
    BY DEF IInv
  <2>2. CASE (Goto("accept") \/ Return(ANET_ERR)) /\ Kept
    BY <2>1, <2>2, KeptStays DEF Goto, Return
  <2>3. ASSUME NEW fd \in Fd, Make("connected", fd), Return(fd)
        PROVE  /\ KernelTypes' /\ result' \in Fd \ Open
               /\ Open' = Open \cup {result'} /\ held' = held \cup {result'}
    <3>1. KernelTypes' /\ fd \notin Open /\ Open' = Open \cup {fd}
      BY <2>1, <2>3, MakeOpens DEF Kind
    <3>2. fd # ANET_ERR
      BY DEF Fd, ANET_ERR
    <3>3. QED
      BY <2>3, <3>1, <3>2 DEF Return
  <2>4. QED
    BY <2>2, <2>3 DEF Accept
<1>2. LocalTypes'
  BY <1>1
  DEF IInv, LocalTypes, Accept, Goto, Return, Fail, local, Places, Working,
      ANET_ERR, Fd
<1>3. PlaceInv'
  BY DEF IInv, PlaceInv, Accept, Goto, Return, Fail, local, Connects, Servers
<1>4. Ownership'
  BY <1>1
  DEF IInv, LocalTypes, Ownership, PlaceInv, Accept, Goto, Return, Fail, local,
      Owned, Working, Connects, Servers, ANET_ERR, Fd
<1>5. (lists = ListsNow)'
  BY DEF IInv, PlaceInv, Accept, Goto, Return, Fail, local, ListsNow, Connects, Servers
<1>6. QED
  BY <1>1, <1>2, <1>3, <1>4, <1>5 DEF IInv

(* What the callers do with their own descriptors.                         *)
LEMMA CloseStep ==
  ASSUME IInv, NEW fd \in held, Close(fd)
  PROVE  IInv'
<1>1. fd \in Fd
  BY DEF IInv, Ownership, Open
<1>2. KernelTypes' /\ Open' = Open \ {fd}
  BY <1>1, CloseCloses DEF Close, IInv
<1>3. Ownership'
  BY <1>2 DEF IInv, Ownership, Close, local, Owned, Working
<1>4. QED
  BY <1>2, <1>3 DEF IInv, LocalTypes, PlaceInv, ListsNow, Close, local

LEMMA SetBlockStep ==
  ASSUME IInv, NEW fd \in held, NEW on \in BOOLEAN, SetBlock(fd, on)
  PROVE  IInv'
<1>1. KernelTypes' /\ Open' = Open
  BY DEF IInv, KernelTypes, SetBlock, Open
<1>2. QED
  BY <1>1
  DEF IInv, LocalTypes, PlaceInv, Ownership, Owned, Working, ListsNow, SetBlock,
      local

LEMMA StepIInv == IInv /\ [Next]_vars => IInv'
<1> SUFFICES ASSUME IInv, [Next]_vars PROVE IInv'
  OBVIOUS
<1>1. CASE Call
  BY <1>1, CallStep
<1>2. CASE Step
  BY <1>2, ResolveStep, SocketStep, CreateSocketStep, V6OnlyStep, SetReuseAddrStep,
     SetNonBlockStep, ResolveSourceStep, BindSourceStep, ConnectStep, ListenStep,
     ErrorStep, EndStep, AcceptStep
  DEF Step
<1>3. CASE \E fd \in held : Close(fd) \/ \E on \in BOOLEAN : SetBlock(fd, on)
  BY <1>3, CloseStep, SetBlockStep
<1>4. CASE UNCHANGED vars
  BY <1>4
  DEF vars, IInv, KernelTypes, LocalTypes, PlaceInv, Ownership, Owned, Working,
      ListsNow, Open
<1>5. QED
  BY <1>1, <1>2, <1>3, <1>4 DEF Next

THEOREM Invariance == Spec => []IInv
BY InitIInv, StepIInv, PTL DEF Spec

(* The variables of the calls and the kernel keep their types.             *)
THEOREM TypeCorrect == Spec => []TypeOK
<1>1. IInv => TypeOK
  <2> SUFFICES ASSUME IInv PROVE TypeOK
    OBVIOUS
  <2>1. held \subseteq Fd /\ lost \subseteq Fd
    BY DEF IInv, Ownership, Open
  <2>2. lists \in 0 .. 2
    BY DEF IInv, ListsNow
  <2>3. QED
    BY <2>1, <2>2 DEF IInv, KernelTypes, LocalTypes, TypeOK
<1>2. QED
  BY <1>1, Invariance, PTL

(* Between calls the callers own every open descriptor but those that were *)
(* left open when an option was refused, and no address list is left.      *)
THEOREM NothingIsLost == Spec => []NothingLost
<1>1. IInv => NothingLost
  BY DEF IInv, LocalTypes, Ownership, Owned, Working, ListsNow, NothingLost
<1>2. QED
  BY <1>1, Invariance, PTL

(* At the labels error and end, s is a socket of this call or none.        *)
THEOREM OnlyItsSocket == Spec => []OwnsSocket
<1>1. IInv => OwnsSocket
  BY DEF IInv, Ownership, Owned, OwnsSocket
<1>2. QED
  BY <1>1, Invariance, PTL

-----------------------------------------------------------------------------
(* What is known of the socket a call works on: fresh until the call that  *)
(* connects it or makes it listen, and then what the call promises.        *)
Promised ==
  /\ nonblock[s] = flags.nonblock
  /\ fn = "tcp_connect" => sock[s] = "connected" \/ (flags.nonblock /\ sock[s] = "connecting")
  /\ fn = "tcp_server" => sock[s] = "listening"

SocketState ==
  /\ fn \in Servers \cup {"accept"} => flags.nonblock = FALSE
  /\ pc \in {"v6only", "reuseaddr", "nonblock"} => nonblock[s] = FALSE
  /\ pc = "nonblock" => flags.nonblock = TRUE
  /\ pc \in {"source", "bind", "connect", "listen"} => nonblock[s] = flags.nonblock
  /\ pc = "end" /\ s # ANET_ERR => Promised

(* How a connect came to fail.                                             *)
Tried ==
  fn = "tcp_connect" /\ faults = {} /\ (pc = "error" \/ (pc = "end" /\ s = ANET_ERR)) => left = 0

(* What a step does that lets a call return.                               *)
ReturnsRight == pc # "idle" /\ pc' = "idle" /\ result' # ANET_ERR => Returned(result')
GivesUpLast ==
  pc # "idle" /\ pc' = "idle" /\ fn = "tcp_connect" /\ result' = ANET_ERR
    => /\ faults' = {} => left = 0
       /\ flags.best_effort /\ "resolve" \notin faults' => ~flags.source

Right == SocketState' /\ Tried' /\ ReturnsRight /\ GivesUpLast

(* Steps that leave the socket as it is and do not return.                 *)
LEMMA StepsOn ==
  ASSUME IInv, SocketState, Tried, pc' # "idle", pc' # "end",
         UNCHANGED <<fn, flags, s>>, Kept,
         pc' \in {"v6only", "reuseaddr", "nonblock"} => nonblock[s] = FALSE,
         pc' = "nonblock" => flags.nonblock = TRUE,
         pc' \in {"source", "bind", "connect", "listen"} => nonblock[s] = flags.nonblock,
         pc' = "error" /\ fn = "tcp_connect" => faults' # {} \/ left' = 0
  PROVE  Right
BY DEF Right, SocketState, Tried, ReturnsRight, GivesUpLast, Kept

(* Steps that return ANET_ERR, and not of a TCP connect.                   *)
LEMMA StepsOut ==
  ASSUME IInv, SocketState, Tried, pc' = "idle", result' = ANET_ERR,
         fn # "tcp_connect", UNCHANGED <<fn, flags>>
  PROVE  Right
BY DEF Right, SocketState, Tried, ReturnsRight, GivesUpLast

LEMMA CallRight == ASSUME IInv, SocketState, Tried, Call PROVE Right
<1>1. pc = "idle" /\ pc' \in {"resolve", "create", "accept"}
  BY DEF Call, anetTcpConnect, anetUnixConnect, anetTcpServer, anetUnixServer, anetAccept,
         Begin, Goto
<1>2. fn' \in Servers \cup {"accept"} => flags'.nonblock = FALSE
  BY DEF Call, anetTcpConnect, anetUnixConnect, anetTcpServer, anetUnixServer, anetAccept,
         Begin, Servers, TcpServers, Plain
<1>3. QED
  BY <1>1, <1>2 DEF Right, SocketState, Tried, ReturnsRight, GivesUpLast

LEMMA ResolveRight == ASSUME IInv, SocketState, Tried, Resolve PROVE Right
<1>1. UNCHANGED <<fn, flags>> /\ pc = "resolve"
  BY DEF Resolve
<1>2. CASE Return(ANET_ERR) /\ faults' = faults \cup {"resolve"}
  BY <1>1, <1>2 DEF Return, Right, SocketState, Tried, ReturnsRight, GivesUpLast
<1>3. CASE Goto("socket")
  BY <1>1, <1>3 DEF Goto, Right, SocketState, Tried, ReturnsRight, GivesUpLast
<1>4. QED
  BY <1>2, <1>3 DEF Resolve

LEMMA SocketRight == ASSUME IInv, SocketState, Tried, Socket PROVE Right
<1>1. UNCHANGED <<fn, flags, faults>> /\ pc' \in {"socket", "error", "v6only", "reuseaddr"}
  BY DEF Socket, Goto
<1>2. pc' = "error" => left' = 0
  BY DEF Socket, Goto
<1>3. pc' \in {"v6only", "reuseaddr"} => nonblock'[s'] = FALSE
  BY DEF Socket, Goto, Make, IInv, KernelTypes
<1>4. QED
  BY <1>1, <1>2, <1>3 DEF Right, SocketState, Tried, ReturnsRight, GivesUpLast

LEMMA CreateSocketRight == ASSUME IInv, SocketState, Tried, CreateSocket PROVE Right
<1>1. UNCHANGED <<fn, flags>> /\ fn # "tcp_connect"
  BY DEF CreateSocket, local, IInv, PlaceInv
<1>2. CASE Return(ANET_ERR)
  BY <1>1, <1>2, StepsOut DEF Return
<1>3. CASE \E fd \in Fd : Make("socket", fd) /\ s' = fd /\ Goto("reuseaddr")
  <2>1. nonblock'[s'] = FALSE /\ pc' = "reuseaddr"
    BY <1>3 DEF Make, Goto, IInv, KernelTypes
  <2>2. QED
    BY <1>1, <2>1 DEF Right, SocketState, Tried, ReturnsRight, GivesUpLast
<1>4. QED
  BY <1>2, <1>3 DEF CreateSocket

LEMMA V6OnlyRight == ASSUME IInv, SocketState, Tried, V6Only PROVE Right
<1>1. UNCHANGED <<fn, flags, s, nonblock>> /\ fn = "tcp_server" /\ nonblock[s] = FALSE
  BY DEF V6Only, local, IInv, PlaceInv, SocketState, Kept, close
<1>2. pc' \in {"reuseaddr", "error"}
  BY DEF V6Only, Goto
<1>3. QED
  BY <1>1, <1>2 DEF Right, SocketState, Tried, ReturnsRight, GivesUpLast

LEMMA SetReuseAddrRight == ASSUME IInv, SocketState, Tried, SetReuseAddr PROVE Right
<1>1. UNCHANGED <<fn, flags, s>> /\ pc = "reuseaddr" /\ nonblock[s] = FALSE
  BY DEF SetReuseAddr, local, Refused, SocketState
<1>2. CASE Goto(AfterReuseAddr) /\ Kept
  <2>1. /\ pc' \in {"listen", "nonblock", "source", "connect"}
        /\ pc' = "nonblock" => flags.nonblock = TRUE
        /\ pc' \in {"source", "connect"} => flags.nonblock = FALSE
        /\ pc' = "listen" => fn \in Servers
    BY <1>1, <1>2, AfterPlaces DEF Goto, AfterReuseAddr, IInv, LocalTypes, Flags
  <2>2. pc' \in {"source", "connect", "listen"} => nonblock[s] = flags.nonblock
    BY <1>1, <2>1 DEF SocketState
  <2>3. QED
    BY <1>1, <1>2, <2>1, <2>2, StepsOn
<1>3. CASE Fail /\ Refused(fn = "tcp_server")
  <2>1. CASE fn \in {"tcp_connect", "tcp_server"}
    BY <1>1, <1>3, <2>1
    DEF Fail, Goto, Refused, Right, SocketState, Tried, ReturnsRight, GivesUpLast
  <2>2. CASE fn \notin {"tcp_connect", "tcp_server"}
    BY <1>1, <1>3, <2>2, StepsOut DEF Fail, Return
  <2>3. QED
    BY <2>1, <2>2
<1>4. QED
  BY <1>2, <1>3 DEF SetReuseAddr

LEMMA SetNonBlockRight == ASSUME IInv, SocketState, Tried, SetNonBlock PROVE Right
<1>1. /\ UNCHANGED <<fn, flags, s>> /\ pc = "nonblock" /\ fn \in Connects /\ s \in Fd
      /\ flags.nonblock = TRUE
  BY DEF SetNonBlock, local, Refused, IInv, PlaceInv, LocalTypes, Working, SocketState
<1>2. CASE /\ nonblock' = [nonblock EXCEPT ![s] = TRUE]
           /\ Goto(IF flags.source THEN "source" ELSE "connect")
  <2>1. nonblock'[s'] = TRUE /\ pc' \in {"source", "connect"}
    BY <1>1, <1>2 DEF IInv, KernelTypes, Goto
  <2>2. QED
    BY <1>1, <2>1 DEF Right, SocketState, Tried, ReturnsRight, GivesUpLast
<1>3. CASE Fail /\ Refused(fn = "unix_connect")
  <2>1. CASE fn = "tcp_connect"
    BY <1>1, <1>3, <2>1
    DEF Fail, Goto, Refused, Right, SocketState, Tried, ReturnsRight, GivesUpLast
  <2>2. CASE fn # "tcp_connect"
    BY <1>1, <1>3, <2>2, StepsOut DEF Fail, Return, Connects
  <2>3. QED
    BY <2>1, <2>2
<1>4. QED
  BY <1>2, <1>3 DEF SetNonBlock

LEMMA SourceRight == ASSUME IInv, SocketState, Tried, ResolveSource \/ BindSource PROVE Right
<1>1. /\ UNCHANGED <<fn, flags, s>> /\ Kept /\ nonblock[s] = flags.nonblock
      /\ pc' \in {"bind", "connect", "error"}
      /\ pc' = "error" => faults' # {}
  BY DEF ResolveSource, BindSource, SocketState, Goto
<1>2. QED
  BY <1>1, StepsOn

LEMMA ConnectRight == ASSUME IInv, SocketState, Tried, Connect PROVE Right
<1>1. /\ UNCHANGED <<fn, flags, nonblock>> /\ fn \in Connects /\ pc = "connect"
      /\ nonblock[s] = flags.nonblock /\ s \in Fd /\ sock \in [Fd -> Kind]
  BY DEF Connect, Connected, ConnectFails, Becomes, close, local, IInv, PlaceInv,
         SocketState, LocalTypes, Working, KernelTypes
<1>2. CASE Connected
  <2>1. /\ s' = s
        /\ sock'[s] = "connected" \/ (flags.nonblock /\ sock'[s] = "connecting")
    BY <1>1, <1>2 DEF Connected, Becomes
  <2>2. CASE fn = "tcp_connect" /\ pc' = "end"
    BY <1>1, <2>1, <2>2
    DEF Right, SocketState, Tried, Promised, ReturnsRight, GivesUpLast, Servers, Fd, ANET_ERR
  <2>3. CASE fn = "unix_connect" /\ pc' = "idle" /\ result' = s
    BY <1>1, <2>1, <2>3
    DEF Right, SocketState, Tried, ReturnsRight, Returned, GivesUpLast, Servers
  <2>4. QED
    BY <1>1, <1>2, <2>2, <2>3 DEF Connected, Goto, Return, Connects
<1>3. CASE ConnectFails
  <2>1. CASE fn = "tcp_connect" /\ pc' = "socket"
    BY <1>1, <2>1 DEF Right, SocketState, Tried, ReturnsRight, GivesUpLast
  <2>2. CASE fn = "unix_connect" /\ pc' = "idle" /\ result' = ANET_ERR
    BY <1>1, <2>2, StepsOut
  <2>3. QED
    BY <1>1, <1>3, <2>1, <2>2 DEF ConnectFails, Goto, Return, Connects
<1>4. QED
  BY <1>2, <1>3 DEF Connect

LEMMA ListenRight == ASSUME IInv, SocketState, Tried, Listen PROVE Right
<1>1. /\ UNCHANGED <<fn, flags, s, nonblock>> /\ fn \in Servers /\ pc = "listen"
      /\ nonblock[s] = flags.nonblock /\ s \in Fd /\ sock \in [Fd -> Kind]
  BY DEF Listen, Becomes, close, local, IInv, PlaceInv,
         SocketState, LocalTypes, Working, KernelTypes
<1>2. CASE Becomes("listening") /\ IF fn = "tcp_server" THEN Goto("end") ELSE Return(s)
  <2>1. sock'[s] = "listening"
    BY <1>1, <1>2 DEF Becomes
  <2>2. CASE fn = "tcp_server" /\ pc' = "end"
    BY <1>1, <2>1, <2>2
    DEF Right, SocketState, Tried, Promised, ReturnsRight, GivesUpLast
  <2>3. CASE fn = "unix_server" /\ pc' = "idle" /\ result' = s
    BY <1>1, <2>1, <2>3
    DEF Right, SocketState, Tried, ReturnsRight, Returned, GivesUpLast
  <2>4. QED
    BY <1>1, <1>2, <2>2, <2>3 DEF Goto, Return, Servers
<1>3. CASE Fail
  <2>1. CASE fn = "tcp_server" /\ pc' = "error"
    BY <1>1, <2>1 DEF Right, SocketState, Tried, ReturnsRight, GivesUpLast
  <2>2. CASE fn = "unix_server" /\ pc' = "idle" /\ result' = ANET_ERR
    BY <1>1, <2>2, StepsOut
  <2>3. QED
    BY <1>1, <1>3, <2>1, <2>2 DEF Fail, Goto, Return, Servers
<1>4. QED
  BY <1>2, <1>3 DEF Listen

LEMMA ErrorRight == ASSUME IInv, SocketState, Tried, Error PROVE Right
<1>1. UNCHANGED <<fn, flags, left, faults>> /\ pc = "error" /\ pc' = "end" /\ s' = ANET_ERR
  BY DEF Error, Goto, local
<1>2. QED
  BY <1>1 DEF Right, SocketState, Tried, ReturnsRight, GivesUpLast

LEMMA EndRight == ASSUME IInv, SocketState, Tried, End PROVE Right
<1>1. pc = "end" /\ fn' = fn /\ s' = s /\ Kept /\ fn \in {"tcp_connect", "tcp_server"}
  BY DEF End, IInv, PlaceInv
<1>2. CASE Goto("resolve") /\ flags' = [flags EXCEPT !.source = FALSE]
  <2>1. flags'.nonblock = flags.nonblock /\ pc' = "resolve"
    BY <1>2 DEF Goto, IInv, LocalTypes, Flags
  <2>2. QED
    BY <1>1, <2>1 DEF Right, SocketState, Tried, ReturnsRight, GivesUpLast
<1>3. CASE /\ ~(fn = "tcp_connect" /\ s = ANET_ERR /\ flags.source /\ flags.best_effort)
           /\ Return(s) /\ UNCHANGED <<flags, faults>>
  <2>1. pc' = "idle" /\ result' = s
    BY <1>3 DEF Return
  <2>2. s # ANET_ERR => Returned(s)
    BY <1>1, <1>3 DEF SocketState, Promised, Returned, Kept
  <2>3. GivesUpLast
    BY <1>1, <1>3, <2>1 DEF GivesUpLast, Tried
  <2>4. QED
    BY <1>1, <1>3, <2>1, <2>2, <2>3 DEF Right, SocketState, Tried, ReturnsRight
<1>4. QED
  BY <1>2, <1>3 DEF End

LEMMA AcceptRight == ASSUME IInv, SocketState, Tried, Accept PROVE Right
<1>1. UNCHANGED <<fn, flags>> /\ fn = "accept" /\ flags.nonblock = FALSE
  BY DEF Accept, local, IInv, PlaceInv, SocketState
<1>2. CASE Goto("accept")
  BY <1>1, <1>2 DEF Goto, Right, SocketState, Tried, ReturnsRight, GivesUpLast
<1>3. CASE Return(ANET_ERR)
  BY <1>1, <1>3, StepsOut DEF Return
<1>4. ASSUME NEW fd \in Fd, Make("connected", fd), Return(fd) PROVE Right
  <2>1. pc' = "idle" /\ result' = fd /\ sock'[fd] = "connected" /\ nonblock'[fd] = FALSE
    BY <1>4 DEF Make, Return, IInv, KernelTypes
  <2>2. Returned(fd)
    BY <1>1, <2>1 DEF Returned
  <2>3. QED
    BY <1>1, <2>1, <2>2 DEF Right, SocketState, Tried, ReturnsRight, GivesUpLast
<1>5. QED
  BY <1>2, <1>3, <1>4 DEF Accept

LEMMA NextRight == ASSUME IInv, SocketState, Tried, [Next]_vars PROVE Right
<1>1. CASE Step
  BY <1>1, ResolveRight, SocketRight, CreateSocketRight, V6OnlyRight, SetReuseAddrRight,
     SetNonBlockRight, SourceRight, ConnectRight, ListenRight, ErrorRight, EndRight, AcceptRight
  DEF Step
<1>2. CASE UNCHANGED <<fn, flags, pc, s, left, faults>> /\ (pc = "idle" \/ Kept)
  BY <1>2
  DEF Right, SocketState, Tried, ReturnsRight, GivesUpLast, Promised, Kept
<1>3. CASE \E fd \in held : Close(fd) \/ \E on \in BOOLEAN : SetBlock(fd, on)
  BY <1>2, <1>3 DEF Close, SetBlock, local
<1>4. CASE UNCHANGED vars
  BY <1>2, <1>4 DEF vars, Kept
<1>5. QED
  BY <1>1, <1>3, <1>4, CallRight DEF Next

LEMMA Rightness == Spec => [][Right]_vars
<1>1. Init => SocketState /\ Tried
  BY DEF Init, SocketState, Tried, Servers
<1>2. IInv /\ SocketState /\ Tried /\ [Next]_vars => SocketState' /\ Tried' /\ Right
  BY NextRight DEF Right
<1>3. QED
  BY <1>1, <1>2, Invariance, PTL DEF Spec

(* A call that succeeds returns a descriptor as it promises, blocking or   *)
(* not, connected or listening.                                            *)
THEOREM CallsKeepTheirWord == Spec => ReturnsWhatItSays
<1>1. Right => (pc # "idle" /\ pc' = "idle" /\ result' # ANET_ERR => Returned(result'))
  BY DEF Right, ReturnsRight
<1>2. QED
  BY <1>1, Rightness, PTL DEF ReturnsWhatItSays

(* A TCP connect gives up only when there is nothing left to try.          *)
THEOREM NothingLeftToTry == Spec => TriesEverything
<1>1. Right => GivesUpLast
  BY DEF Right
<1>2. QED
  BY <1>1, Rightness, PTL DEF TriesEverything, GivesUpLast
=============================================================================

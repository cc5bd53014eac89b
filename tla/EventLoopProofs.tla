--------------------------- MODULE EventLoopProofs ---------------------------
(***************************************************************************)
(* The event loop's type and table invariants, for every number of         *)
(* descriptors, set of handlers and set of array sizes.                    *)
(***************************************************************************)
EXTENDS EventLoop, EventTableProofs

(* The inductive invariant.  MaxFdInv and EpollInv are not inductive alone:*)
(* del_file_event keeps max_fd right only because every registered         *)
(* descriptor is at most max_fd, and MOD reaches the kernel only because a *)
(* masked descriptor is watched.  Registered(table) \subseteq open is what *)
(* makes closing a descriptor harmless to the epoll set.                   *)
IInv ==
  /\ TypeOK
  /\ TableInv(table)
  /\ Registered(table) \subseteq open

LEMMA InitIInv == Init => IInv
<1> SUFFICES ASSUME Init PROVE IInv
  OBVIOUS
<1>1. PICK n \in Sizes, ok \in BOOLEAN : table = NewTable(n, ok)
  BY DEF Init
<1>2. n \in Nat
  BY SizesAssumption
<1>3. TableInv(table)
  BY <1>1, <1>2, NewTableInv
<1>4. Registered(table) = {}
  BY <1>1 DEF NewTable, Registered
<1>5. TypeOK
  <2>1. table \in Table
    BY <1>3 DEF TableInv
  <2>2. 0 \in Fd
    BY TableAssumption DEF Fd
  <2>3. QED
    BY <2>1, <2>2 DEF Init, TypeOK, Phase, NoEntry, NoBatch, Mask, AE_NONE
<1>6. QED
  BY <1>3, <1>4, <1>5 DEF IInv

(* A call to add_file_event.                                               *)
LEMMA AddStep ==
  ASSUME IInv,
         NEW fd \in Fd, NEW mask \in Mask \ {AE_NONE}, NEW proc \in Proc,
         NEW data \in Data, AddFileEvent(fd, mask, proc, data)
  PROVE  IInv'
<1>1. PICK accepted \in BOOLEAN :
        /\ accepted => fd \in open
        /\ table' = add_file_event(table, fd, mask, proc, data, accepted)
  BY DEF AddFileEvent
<1>2. TableInv(table')
  BY <1>1, AddPreserves DEF IInv
<1>3. Registered(table') \subseteq Registered(table) \cup {fd}
  <2>1. table'.mask = table.mask \/ table'.mask = [table.mask EXCEPT ![fd] = @ \cup mask]
    <3>1. table.mask[fd] = AE_NONE => table.mask[fd] \cup mask = mask \cup table.mask[fd]
      OBVIOUS
    <3>2. QED
      BY <1>1 DEF IInv, TypeOK, Table, add_file_event, Installed, add_event, mod_event
  <2>2. QED
    BY <2>1 DEF Registered, IInv, TypeOK, Table
<1>4. Registered(table') \subseteq open
  <2>1. CASE fd \in open
    BY <2>1, <1>3 DEF IInv
  <2>2. CASE fd \notin open
    <3>1. table.mask[fd] = AE_NONE /\ ~accepted
      BY <2>2, <1>1 DEF IInv, Registered
    <3>2. table' = table
      BY <3>1, <1>1 DEF add_file_event, AddRefused
    <3>3. QED
      BY <3>2 DEF IInv
  <2>3. QED
    BY <2>1, <2>2
<1>5. TypeOK'
  BY <1>2 DEF IInv, TypeOK, TableInv, AddFileEvent
<1>6. QED
  BY <1>2, <1>4, <1>5 DEF IInv, AddFileEvent

(* A call to del_file_event.                                               *)
LEMMA DelStep ==
  ASSUME IInv, NEW fd \in Fd, NEW mask \in Mask, DelFileEvent(fd, mask)
  PROVE  IInv'
<1>1. table' = del_file_event(table, fd, mask)
  BY DEF DelFileEvent
<1>2. TableInv(table')
  BY <1>1, DelPreserves DEF IInv
<1>3. Registered(table') \subseteq Registered(table)
  <2>1. table'.mask = table.mask \/ table'.mask = [table.mask EXCEPT ![fd] = @ \ mask]
    BY <1>1 DEF IInv, TypeOK, Table, del_file_event, del_event, mod_event
  <2>2. QED
    BY <2>1 DEF Registered, IInv, TypeOK, Table, AE_NONE
<1>4. TypeOK'
  BY <1>2 DEF IInv, TypeOK, TableInv, DelFileEvent
<1>5. QED
  BY <1>2, <1>3, <1>4 DEF IInv, DelFileEvent

(* A call to resize.                                                       *)
LEMMA ResizeStep ==
  ASSUME IInv, NEW new \in Sizes, Resize(new)
  PROVE  IInv'
<1>1. CASE table' = table /\ phase' = "crashed"
  BY <1>1 DEF IInv, TypeOK, Resize, Phase
<1>2. CASE table' = resize(table, new) /\ phase' = phase
  <2>1. new \in Nat
    BY SizesAssumption
  <2>2. TableInv(table')
    BY <1>2, <2>1, ResizePreserves DEF IInv, Resize
  <2>3. Registered(table') \subseteq Registered(table)
    BY <1>2 DEF resize, Registered, AE_NONE, IInv, TypeOK, Table
  <2>4. TypeOK'
    BY <1>2, <2>2 DEF IInv, TypeOK, TableInv, Resize
  <2>5. QED
    BY <2>2, <2>3, <2>4 DEF IInv, Resize
<1>3. QED
  BY <1>1, <1>2 DEF Resize

(* Opening and closing descriptors.                                        *)
LEMMA OpenCloseStep ==
  ASSUME IInv, NEW fd \in Fd, OpenFd(fd) \/ CloseFd(fd)
  PROVE  IInv'
<1>1. CASE OpenFd(fd)
  BY <1>1 DEF OpenFd, IInv, TypeOK
<1>2. CASE CloseFd(fd)
  <2>1. table' = table
    BY <1>2, CloseIsQuiet DEF CloseFd, IInv
  <2>2. fd \notin Registered(table)
    BY <1>2 DEF CloseFd, Registered
  <2>3. QED
    BY <1>2, <2>1, <2>2 DEF CloseFd, IInv, TypeOK
<1>3. QED
  BY <1>1, <1>2

(* The loop's own steps leave the table and the descriptors alone.         *)
LEMMA LoopStep ==
  ASSUME IInv, Stop \/ Run \/ Poll \/ Loop
  PROVE  IInv'
<1>0. table' = table /\ open' = open
  BY DEF Stop, Run, Poll, Loop, TestStop, BeforeSleepReturns, TakeEntry,
         BatchDone, DispatchRead, DispatchWrite, HandlerReturns
<1>1. TypeOK'
  <2> USE DEF IInv, TypeOK, Phase
  <2>1. CASE Stop
    BY <2>1 DEF Stop
  <2>2. CASE Run
    BY <2>2 DEF Run
  <2>3. CASE Poll
    <3>1. fired' \in [Fd -> Mask]
      BY <2>3 DEF Poll
    <3>2. phase' \in Phase /\ UNCHANGED <<table, open, cur, rfired, stop>>
      BY <2>3 DEF Poll
    <3>3. QED
      BY <3>1, <3>2
  <2>4. CASE TestStop \/ BeforeSleepReturns \/ HandlerReturns
    BY <2>4 DEF TestStop, BeforeSleepReturns, HandlerReturns
  <2>5. CASE TakeEntry
    <3>1. AE_NONE \in Mask
      BY DEF AE_NONE, Mask
    <3>2. PICK fd \in Fd :
            /\ cur' = [fd |-> fd, mask |-> fired[fd]]
            /\ fired' = [fired EXCEPT ![fd] = AE_NONE]
      BY <2>5 DEF TakeEntry
    <3>3. fired' \in [Fd -> Mask] /\ cur' \in [fd : Fd, mask : Mask]
      BY <3>1, <3>2
    <3>4. QED
      BY <2>5, <3>3 DEF TakeEntry
  <2>6. CASE BatchDone
    <3>1. NoEntry \in [fd : Fd, mask : Mask]
      BY TableAssumption DEF NoEntry, AE_NONE, Mask, Fd
    <3>2. QED
      BY <2>6, <3>1 DEF BatchDone
  <2>7. CASE DispatchRead \/ DispatchWrite
    BY <2>7 DEF DispatchRead, DispatchWrite
  <2>8. QED
    BY <2>1, <2>2, <2>3, <2>4, <2>5, <2>6, <2>7 DEF Loop
<1>2. QED
  BY <1>0, <1>1 DEF IInv

LEMMA NextIInv == IInv /\ [Next]_vars => IInv'
<1> SUFFICES ASSUME IInv, [Next]_vars PROVE IInv'
  OBVIOUS
<1>1. CASE Owner
  <2>1. ASSUME NEW fd \in Fd, NEW mask \in Mask \ {AE_NONE}, NEW proc \in Proc,
               NEW data \in Data, AddFileEvent(fd, mask, proc, data)
        PROVE  IInv'
    BY <2>1, AddStep
  <2>2. ASSUME NEW fd \in Fd, NEW mask \in Mask \ {AE_NONE}, DelFileEvent(fd, mask)
        PROVE  IInv'
    BY <2>2, DelStep
  <2>3. ASSUME NEW new \in Sizes, Resize(new)
        PROVE  IInv'
    BY <2>3, ResizeStep
  <2>4. ASSUME NEW fd \in Fd, OpenFd(fd) \/ CloseFd(fd)
        PROVE  IInv'
    BY <2>4, OpenCloseStep
  <2>5. CASE Stop \/ Run
    BY <2>5, LoopStep
  <2>6. QED
    BY <1>1, <2>1, <2>2, <2>3, <2>4, <2>5 DEF Owner
<1>2. CASE Poll \/ Loop
  BY <1>2, LoopStep
<1>3. CASE UNCHANGED vars
  BY <1>3 DEF vars, IInv, TypeOK
<1>4. QED
  BY <1>1, <1>2, <1>3 DEF Next

-----------------------------------------------------------------------------
THEOREM InductiveInvariant == Spec => []IInv
<1>1. Init => IInv
  BY InitIInv
<1>2. IInv /\ [Next]_vars => IInv'
  BY NextIInv
<1>3. QED
  BY <1>1, <1>2, PTL DEF Spec

(* Every variable keeps its type: in particular _max_fd never leaves       *)
(* Fd \cup {-1}, so the scan of del_file_event stays inside the array.     *)
THEOREM TypeCorrect == Spec => []TypeOK
<1>1. IInv => TypeOK
  BY DEF IInv
<1>2. QED
  BY <1>1, InductiveInvariant, PTL

(* _max_fd is the highest registered descriptor whatever the owner does    *)
(* (ae.cpp:80-126, ae.hpp:116).                                            *)
THEOREM MaxFdCorrect == Spec => []MaxFdInv
<1>1. IInv => MaxFdInv
  BY DEF IInv, TableInv, MaxFdInv
<1>2. QED
  BY <1>1, InductiveInvariant, PTL

(* The kernel's epoll set and the table agree, descriptor by descriptor    *)
(* and event by event (ae.cpp:80-126, ae_epoll.hpp:53-95).                 *)
THEOREM EpollCorrect == Spec => []EpollInv
<1>1. IInv => EpollInv
  BY DEF IInv, TableInv, EpollInv
<1>2. QED
  BY <1>1, InductiveInvariant, PTL

(* No dispatched event has a null handler, and no closed descriptor is     *)
(* registered (ae.cpp:80-126, 148-167).                                    *)
THEOREM HandlersCorrect == Spec => []HandlerInv
<1>1. IInv => HandlerInv
  BY DEF IInv, TableInv, HandlerInv
<1>2. QED
  BY <1>1, InductiveInvariant, PTL
=============================================================================

------------------------------ MODULE EventLoop ------------------------------
(***************************************************************************)
(* ae_event_loop: run() with its stop flag, process_events() with the      *)
(* batch epoll_wait fills into _fired, and the calls its owner makes on    *)
(* the table, from outside the loop, from the before-sleep procedure and   *)
(* from inside a handler.                                                  *)
(*                                                                         *)
(* The owner is arbitrary: any handler may add, delete or stop anything    *)
(* while it runs.  Server.tla composes the same table with the handlers    *)
(* this program really has.                                                *)
(*                                                                         *)
(* A batch is a function from descriptors to the events reported, and the  *)
(* next entry is picked from it at dispatch time: epoll_wait promises no   *)
(* order, and nothing reads the order before an entry's turn.              *)
(***************************************************************************)
EXTENDS EventTable

CONSTANTS Sizes        \* the array sizes the owner asks for

ASSUME SizesAssumption == Sizes \subseteq Nat /\ Sizes # {}

VARIABLES
  table,    \* the event table and the kernel's epoll set
  open,     \* the descriptors the process has open
  phase,    \* where the loop's thread is
  fired,    \* entries of _fired not dispatched yet
  cur,      \* the entry being dispatched: descriptor and reported events
  rfired,   \* _rfired: the entry's read handler has run
  stop      \* _stop

vars == <<table, open, phase, fired, cur, rfired, stop>>

Phase == {"stopped",    \* run() has not been called or has returned
          "test",       \* while (!_stop)
          "before",     \* _bs_proc runs
          "wait",       \* epoll_wait
          "next",       \* for (i ...): take the next entry
          "read",       \* the entry's readable test
          "in_read",    \* _r_proc runs
          "write",      \* the entry's writable test
          "in_write",   \* _w_proc runs
          "crashed"}

(* The owner's code runs outside the loop or when the loop called it.      *)
OwnerRuns == phase \in {"stopped", "before", "in_read", "in_write"}

NoEntry == [fd |-> 0, mask |-> AE_NONE]
NoBatch == [fd \in Fd |-> AE_NONE]

Init ==
  /\ \E n \in Sizes, ok \in BOOLEAN : table = NewTable(n, ok)
  /\ open = {}
  /\ phase = "stopped"
  /\ fired = NoBatch
  /\ cur = NoEntry
  /\ rfired = FALSE
  /\ stop = FALSE

-----------------------------------------------------------------------------
(* Calls of the owner.                                                     *)

AddFileEvent(fd, mask, proc, data) ==
  /\ OwnerRuns
  /\ \E accepted \in BOOLEAN :
       /\ accepted => fd \in open
       /\ table' = add_file_event(table, fd, mask, proc, data, accepted)
  /\ UNCHANGED <<open, phase, fired, cur, rfired, stop>>

DelFileEvent(fd, mask) ==
  /\ OwnerRuns
  /\ table' = del_file_event(table, fd, mask)
  /\ UNCHANGED <<open, phase, fired, cur, rfired, stop>>

(* resize, called outside dispatch.  It releases _old_events a second time *)
(* where _old_fired is meant (ae.cpp:160): undefined behaviour, from which *)
(* the process aborts or goes on with the table as written.                *)
Resize(new) ==
  /\ phase \in {"stopped", "before"}
  /\ new # table.size
  /\ ~ResizeRefused(table, new)
  /\ \/ table' = resize(table, new) /\ table.api /\ UNCHANGED phase
     \/ phase' = "crashed" /\ UNCHANGED table
  /\ UNCHANGED <<open, fired, cur, rfired, stop>>

Stop ==
  /\ OwnerRuns
  /\ stop' = TRUE
  /\ UNCHANGED <<table, open, phase, fired, cur, rfired>>

(* Descriptors come and go.  The owner closes one only after removing its  *)
(* events, as ~client_t does.                                              *)
OpenFd(fd) ==
  /\ OwnerRuns
  /\ fd \notin open
  /\ open' = open \cup {fd}
  /\ UNCHANGED <<table, phase, fired, cur, rfired, stop>>

CloseFd(fd) ==
  /\ OwnerRuns
  /\ fd \in open
  /\ table.mask[fd] = AE_NONE
  /\ open' = open \ {fd}
  /\ table' = del_event(table, fd)
  /\ UNCHANGED <<phase, fired, cur, rfired, stop>>

-----------------------------------------------------------------------------
(* The loop.                                                               *)

Run ==
  /\ phase = "stopped"
  /\ stop' = FALSE
  /\ phase' = "test"
  /\ UNCHANGED <<table, open, fired, cur, rfired>>

(* A mistake: the loop does not look at the flag.                          *)
Deaf_TestStop ==
  /\ phase = "test"
  /\ phase' = "before"
  /\ UNCHANGED <<table, open, fired, cur, rfired, stop>>

TestStop ==
  /\ phase = "test"
  /\ phase' = IF stop THEN "stopped" ELSE "before"
  /\ UNCHANGED <<table, open, fired, cur, rfired, stop>>

BeforeSleepReturns ==
  /\ phase = "before"
  /\ phase' = "wait"
  /\ UNCHANGED <<table, open, fired, cur, rfired, stop>>

(* What epoll_wait may report for a watched descriptor, after the          *)
(* conversion in poll(): input and output only if asked for, an error or a *)
(* hang-up always, as writable.                                            *)
Reportable(fd) ==
  IF fd \notin table.watched THEN {AE_NONE}
  ELSE {m \in Mask : AE_READABLE \in m => AE_READABLE \in table.interest[fd]}

(* epoll_wait returns: with a batch, or with nothing after a timeout or a  *)
(* signal.  With a null _api_data the call dereferences it.                *)
Poll ==
  /\ phase = "wait"
  /\ IF table.api
     THEN /\ fired' \in {f \in [Fd -> Mask] : \A fd \in Fd : f[fd] \in Reportable(fd)}
          /\ phase' = "next"
     ELSE /\ phase' = "crashed"
          /\ UNCHANGED fired
  /\ UNCHANGED <<table, open, cur, rfired, stop>>

TakeEntry ==
  /\ phase = "next"
  /\ \E fd \in Fd :
       /\ fired[fd] # AE_NONE
       /\ cur' = [fd |-> fd, mask |-> fired[fd]]
       /\ fired' = [fired EXCEPT ![fd] = AE_NONE]
  /\ rfired' = FALSE
  /\ phase' = "read"
  /\ UNCHANGED <<table, open, stop>>

(* The batch is done; process_time_events() does nothing.                  *)
BatchDone ==
  /\ phase = "next"
  /\ fired = NoBatch
  /\ cur' = NoEntry
  /\ rfired' = FALSE
  /\ phase' = "test"
  /\ UNCHANGED <<table, open, fired, stop>>

(* _fe->_mask & _mask & AE_READABLE: the mask is the one of now, not the   *)
(* one of the time epoll_wait returned.                                    *)
ReadDue ==
  AE_READABLE \in table.mask[cur.fd] \cap cur.mask

WriteDue ==
  /\ AE_WRITABLE \in table.mask[cur.fd] \cap cur.mask
  /\ ~rfired \/ table.r_proc[cur.fd] # table.w_proc[cur.fd]

DispatchRead ==
  /\ phase = "read"
  /\ IF ReadDue
     THEN rfired' = TRUE /\ phase' = "in_read"
     ELSE phase' = "write" /\ UNCHANGED rfired
  /\ UNCHANGED <<table, open, fired, cur, stop>>

DispatchWrite ==
  /\ phase = "write"
  /\ phase' = IF WriteDue THEN "in_write" ELSE "next"
  /\ UNCHANGED <<table, open, fired, cur, rfired, stop>>

HandlerReturns ==
  /\ \/ phase = "in_read" /\ phase' = "write"
     \/ phase = "in_write" /\ phase' = "next"
  /\ UNCHANGED <<table, open, fired, cur, rfired, stop>>

-----------------------------------------------------------------------------
Owner ==
  \/ \E fd \in Fd, mask \in Mask \ {AE_NONE}, proc \in Proc, data \in Data :
       AddFileEvent(fd, mask, proc, data)
  \/ \E fd \in Fd, mask \in Mask \ {AE_NONE} : DelFileEvent(fd, mask)
  \/ \E new \in Sizes : Resize(new)
  \/ Stop
  \/ \E fd \in Fd : OpenFd(fd) \/ CloseFd(fd)
  \/ Run

(* Steps of the loop's thread that do not wait for anyone; epoll_wait may  *)
(* wait for ever.                                                          *)
Loop ==
  \/ TestStop
  \/ BeforeSleepReturns
  \/ TakeEntry
  \/ BatchDone
  \/ DispatchRead
  \/ DispatchWrite
  \/ HandlerReturns

Next == Owner \/ Poll \/ Loop

(* The thread runs and handlers return; nothing makes epoll_wait return.   *)
Fairness == WF_vars(Loop)

Spec == Init /\ [][Next]_vars

FairSpec == Spec /\ Fairness

-----------------------------------------------------------------------------
(* Every variable has its type.                                            *)
TypeOK ==
  /\ table \in Table
  /\ open \subseteq Fd
  /\ phase \in Phase
  /\ fired \in [Fd -> Mask]
  /\ cur \in [fd : Fd, mask : Mask]
  /\ rfired \in BOOLEAN
  /\ stop \in BOOLEAN

(* _max_fd is the highest registered descriptor, or -1 (ae.hpp:116),       *)
(* whatever order the owner's adds, deletes and resizes come in.           *)
MaxFdInv == MaxFdIsHighest(table)

(* The epoll set never drifts from the table: no descriptor is watched     *)
(* without a mask, or masked without being watched.                        *)
EpollInv == EpollAgrees(table)

(* Only open descriptors are registered, all inside the array, and no      *)
(* event that can be dispatched has a null handler.                        *)
HandlerInv ==
  /\ HandlersPresent(table)
  /\ Registered(table) \subseteq open

(* stop(), called from a handler, ends run(): the rest of the batch is     *)
(* dispatched and the loop returns without waiting for another event.      *)
StopHonoured ==
  (stop /\ phase \in {"in_read", "in_write"}) ~> (phase = "stopped")
=============================================================================

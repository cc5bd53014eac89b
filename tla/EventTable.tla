----------------------------- MODULE EventTable -----------------------------
(***************************************************************************)
(* The file-event table of ae_event_loop together with the epoll instance  *)
(* behind it: _events[], _max_fd, _fdset_size and _api_data of ae.hpp, the *)
(* registrations that ae_epoll_state keeps in the kernel, and the two      *)
(* operations that keep both in step, add_file_event and del_file_event.   *)
(*                                                                         *)
(* The module has no variables.  A table is a record and an operation maps *)
(* a table to a table, so that a handler making several calls in a row     *)
(* (the destructor of a client makes two) is the composition of them.      *)
(***************************************************************************)
EXTENDS Integers

CONSTANTS
  MaxFd,   \* the highest descriptor the kernel hands to this process
  Proc,    \* the event handlers a caller can register
  Data,    \* the client data a caller can register with them
  Null     \* the null pointer, for both

ASSUME TableAssumption ==
  /\ MaxFd \in Nat
  /\ Null \notin Proc
  /\ Null \notin Data

Fd == 0 .. MaxFd

AE_READABLE == "readable"
AE_WRITABLE == "writable"
AE_NONE     == {}
Mask        == SUBSET {AE_READABLE, AE_WRITABLE}

(***************************************************************************)
(* size is _fdset_size, api tells whether epoll_create succeeded (_api_data*)
(* is not null).  watched and interest are the kernel's side: the          *)
(* descriptors in the epoll set, and the events asked for each.            *)
(***************************************************************************)
Table ==
  [ size     : Nat,
    api      : BOOLEAN,
    max_fd   : Fd \cup {-1},
    mask     : [Fd -> Mask],
    r_proc   : [Fd -> Proc \cup {Null}],
    w_proc   : [Fd -> Proc \cup {Null}],
    data     : [Fd -> Data \cup {Null}],
    watched  : SUBSET Fd,
    interest : [Fd -> Mask] ]

NewTable(size, api) ==
  [ size     |-> size,
    api      |-> api,
    max_fd   |-> -1,
    mask     |-> [fd \in Fd |-> AE_NONE],
    r_proc   |-> [fd \in Fd |-> Null],
    w_proc   |-> [fd \in Fd |-> Null],
    data     |-> [fd \in Fd |-> Null],
    watched  |-> {},
    interest |-> [fd \in Fd |-> AE_NONE] ]

Registered(t) == {fd \in Fd : t.mask[fd] # AE_NONE}

-----------------------------------------------------------------------------
(* epoll_ctl, as add_event, mod_event and del_event call it.  The results  *)
(* of MOD and DEL are not looked at: on a descriptor that is not watched   *)
(* they change nothing.                                                    *)

mod_event(t, fd, mask) ==
  IF fd \in t.watched THEN [t EXCEPT !.interest[fd] = mask] ELSE t

del_event(t, fd) ==
  [t EXCEPT !.watched = @ \ {fd}, !.interest[fd] = AE_NONE]

(* accepted is the kernel's answer to an ADD of a descriptor that is not   *)
(* yet in the set: it is refused when the descriptor is closed or when the *)
(* watch limit is reached.                                                 *)
AddRefused(t, fd, accepted) ==
  \/ fd >= t.size
  \/ ~t.api
  \/ t.mask[fd] = AE_NONE /\ (fd \in t.watched \/ ~accepted)

add_event(t, fd, mask) ==
  [t EXCEPT !.watched = @ \cup {fd}, !.interest[fd] = mask]

-----------------------------------------------------------------------------
(* Mistakes in add_file_event: the kernel is told of the new events only,  *)
(* not of all; the table forgets the old events; a handler for both events *)
(* is stored for the first only.                                           *)
Unmerged_Installed(t, fd, mask, proc, data) ==
  LET merged == t.mask[fd] \cup mask
      k == IF t.mask[fd] = AE_NONE
           THEN add_event(t, fd, merged)
           ELSE mod_event(t, fd, mask)
  IN [k EXCEPT
        !.mask[fd]   = merged,
        !.r_proc[fd] = IF AE_READABLE \in mask THEN proc ELSE @,
        !.w_proc[fd] = IF AE_WRITABLE \in mask THEN proc ELSE @,
        !.data[fd]   = data,
        !.max_fd     = IF fd > @ THEN fd ELSE @]

Replaced_Installed(t, fd, mask, proc, data) ==
  LET k == IF t.mask[fd] = AE_NONE
           THEN add_event(t, fd, mask)
           ELSE mod_event(t, fd, mask)
  IN [k EXCEPT
        !.mask[fd]   = mask,
        !.r_proc[fd] = IF AE_READABLE \in mask THEN proc ELSE @,
        !.w_proc[fd] = IF AE_WRITABLE \in mask THEN proc ELSE @,
        !.data[fd]   = data,
        !.max_fd     = IF fd > @ THEN fd ELSE @]

ElseIf_Installed(t, fd, mask, proc, data) ==
  LET merged == t.mask[fd] \cup mask
      k == IF t.mask[fd] = AE_NONE
           THEN add_event(t, fd, merged)
           ELSE mod_event(t, fd, merged)
  IN [k EXCEPT
        !.mask[fd]   = merged,
        !.r_proc[fd] = IF AE_READABLE \in mask THEN proc ELSE @,
        !.w_proc[fd] = IF mask = {AE_WRITABLE} THEN proc ELSE @,
        !.data[fd]   = data,
        !.max_fd     = IF fd > @ THEN fd ELSE @]

(* The part of add_file_event after its early returns.                     *)
Installed(t, fd, mask, proc, data) ==
  LET merged == t.mask[fd] \cup mask
      k == IF t.mask[fd] = AE_NONE
           THEN add_event(t, fd, merged)
           ELSE mod_event(t, fd, merged)
  IN [k EXCEPT
        !.mask[fd]   = merged,
        !.r_proc[fd] = IF AE_READABLE \in mask THEN proc ELSE @,
        !.w_proc[fd] = IF AE_WRITABLE \in mask THEN proc ELSE @,
        !.data[fd]   = data,
        !.max_fd     = IF fd > @ THEN fd ELSE @]

add_file_event(t, fd, mask, proc, data, accepted) ==
  IF AddRefused(t, fd, accepted) THEN t
  ELSE Installed(t, fd, mask, proc, data)

(* A mistake: the scan counts down once more after it has found its entry. *)
OnceMore_HighestBelow(mask, fd) ==
  LET below == {i \in 0 .. fd - 1 : mask[i] # AE_NONE}
  IN  IF below = {} THEN -2
      ELSE (CHOOSE i \in below : \A j \in below : j <= i) - 1

(* The scan of del_file_event, downwards from fd - 1: the highest          *)
(* descriptor below fd with a non-empty mask, or -1.                       *)
HighestBelow(mask, fd) ==
  LET below == {i \in 0 .. fd - 1 : mask[i] # AE_NONE}
  IN  IF below = {} THEN -1
      ELSE CHOOSE i \in below : \A j \in below : j <= i

(* A mistake: _max_fd goes down by one instead of to the next registered   *)
(* descriptor.                                                             *)
NoScan_del_file_event(t, fd, mask) ==
  IF fd >= t.size \/ ~t.api THEN t
  ELSE LET left == t.mask[fd] \ mask
           k    == IF left = AE_NONE THEN del_event(t, fd)
                                     ELSE mod_event(t, fd, left)
       IN [k EXCEPT
             !.mask[fd] = left,
             !.max_fd   = IF fd = @ /\ left = AE_NONE THEN fd - 1 ELSE @]

del_file_event(t, fd, mask) ==
  IF fd >= t.size \/ ~t.api THEN t
  ELSE LET left == t.mask[fd] \ mask
           k    == IF left = AE_NONE THEN del_event(t, fd)
                                     ELSE mod_event(t, fd, left)
       IN [k EXCEPT
             !.mask[fd] = left,
             !.max_fd   = IF fd = @ /\ left = AE_NONE
                          THEN HighestBelow(t.mask, fd) ELSE @]

(***************************************************************************)
(* resize: refused when a registered descriptor would not fit.  The new    *)
(* array takes over the entries that fit both sizes, and the masks above   *)
(* _max_fd are cleared.                                                    *)
(***************************************************************************)
ResizeRefused(t, new) == t.max_fd >= new

resize(t, new) ==
  LET moved(f) == [fd \in Fd |-> IF fd < t.size /\ fd < new THEN f[fd] ELSE Null]
  IN  [t EXCEPT !.size   = new,
                !.mask   = [fd \in Fd |-> IF fd <= t.max_fd THEN @[fd]
                                          ELSE AE_NONE],
                !.r_proc = moved(@),
                !.w_proc = moved(@),
                !.data   = moved(@)]

-----------------------------------------------------------------------------
(* What the table promises between calls.                                  *)

(* _max_fd is the "highest file descriptor currently registered".          *)
MaxFdIsHighest(t) ==
  /\ \A fd \in Registered(t) : fd <= t.max_fd
  /\ t.max_fd # -1 => t.max_fd \in Registered(t)

(* The kernel watches exactly the registered descriptors, for exactly the  *)
(* events in their masks.                                                  *)
EpollAgrees(t) ==
  /\ t.watched = Registered(t)
  /\ t.interest = t.mask

(* Nothing is registered beyond the end of the array, and no registered    *)
(* event has a null handler.                                               *)
HandlersPresent(t) ==
  \A fd \in Fd :
    /\ fd >= t.size => t.mask[fd] = AE_NONE
    /\ AE_READABLE \in t.mask[fd] => t.r_proc[fd] \in Proc
    /\ AE_WRITABLE \in t.mask[fd] => t.w_proc[fd] \in Proc
=============================================================================

-------------------------------- MODULE Timers --------------------------------
(***************************************************************************)
(* The time events of ae_event_loop and how long process_events() sleeps   *)
(* because of them.  The clock is finer than the milliseconds the code     *)
(* reads of it.  process_time_events() is a stub: a timer that has expired *)
(* stays in the list, as a deleted one does.                               *)
(***************************************************************************)
EXTENDS Integers, Sequences

CONSTANTS
  Second,     \* milliseconds of a second: 1000
  Fine,       \* ticks of the clock in a millisecond
  IntRange,   \* values of an int: 2^32
  Delays,     \* milliseconds that are asked for
  MaxTimers,  \* bound: timers added
  MaxTime     \* bound: ticks the clock makes

ASSUME TimersAssumption ==
  /\ Second \in Nat \ {0} /\ Fine \in Nat \ {0}
  /\ IntRange \in Nat \ {0} /\ IntRange % 2 = 0
  /\ Delays \subseteq Nat /\ MaxTimers \in Nat /\ MaxTime \in Nat

AE_DELETED_EVENT_ID == -1
Flag == {"AE_FILE_EVENTS", "AE_TIME_EVENTS", "AE_DONT_WAIT"}

VARIABLES
  now,       \* the clock, in ticks
  list,      \* _time_event_list; due is a history field, the exact time
  next_id,   \* _time_event_next_id
  files,     \* _max_fd # -1
  flags,     \* flags of the process_events() that is polling
  timeout,   \* its argument of epoll_wait()
  since,     \* the clock when it was computed
  polling,
  pending,   \* history: ids handed out and not deleted
  honest     \* history: every answer of del_time_event() was right

vars == <<now, list, next_id, files, flags, timeout, since, polling, pending, honest>>

poll == <<flags, timeout, since, polling>>

Init ==
  /\ now = 0 /\ list = <<>> /\ next_id = 0 /\ files = FALSE
  /\ flags = {} /\ timeout = 0 /\ since = 0 /\ polling = FALSE
  /\ pending = {} /\ honest = TRUE

(* _S_current_time.                                                        *)
CurrentSec == now \div (Fine * Second)
CurrentMs  == (now \div Fine) % Second

-----------------------------------------------------------------------------
(* A mistake: the milliseconds are not carried over.                       *)
Uncarried_When(ms) == [sec |-> CurrentSec + ms \div Second, ms |-> CurrentMs + (ms % Second)]

(* The constructor of ae_time_event.                                       *)
When(ms) ==
  LET total == CurrentMs + (ms % Second)
  IN  [sec |-> CurrentSec + ms \div Second + total \div Second, ms |-> total % Second]

(* A mistake: an id is handed out twice.                                   *)
Again_add_time_event(ms) ==
  /\ ~polling /\ Len(list) < MaxTimers
  /\ list' = <<[id |-> next_id, when |-> When(ms), due |-> now + ms * Fine]>> \o list
  /\ next_id' = (next_id + (Len(list) % 2))
  /\ pending' = pending \cup {next_id}
  /\ UNCHANGED <<now, files, poll, honest>>

add_time_event(ms) ==
  /\ ~polling /\ Len(list) < MaxTimers
  /\ list' = <<[id |-> next_id, when |-> When(ms), due |-> now + ms * Fine]>> \o list
  /\ next_id' = next_id + 1
  /\ pending' = pending \cup {next_id}
  /\ UNCHANGED <<now, files, poll, honest>>

(* The first entry with the id is marked; AE_OK if there is one.           *)
del_time_event(id) ==
  /\ ~polling
  /\ LET at == {i \in DOMAIN list : list[i].id = id}
     IN  /\ list' = [i \in DOMAIN list |->
                       IF i \in at /\ \A j \in at : i <= j
                       THEN [list[i] EXCEPT !.id = AE_DELETED_EVENT_ID] ELSE list[i]]
         /\ honest' = (honest /\ ((at # {}) <=> (id \in pending)))
  /\ pending' = pending \ {id}
  /\ UNCHANGED <<now, next_id, files, poll>>

-----------------------------------------------------------------------------
Earlier(v, w) == v.sec < w.sec \/ (v.sec = w.sec /\ v.ms < w.ms)

(* A mistake: the seconds are not looked at.                               *)
Milliseconds_nearest_time_event ==
  CHOOSE i \in DOMAIN list : \A j \in DOMAIN list : list[i].when.ms <= list[j].when.ms

(* The first of the earliest, deleted ones included.                       *)
nearest_time_event ==
  CHOOSE i \in DOMAIN list :
    \A j \in DOMAIN list :
      /\ ~Earlier(list[j].when, list[i].when)
      /\ j < i => Earlier(list[i].when, list[j].when)

(* A long in an int.                                                       *)
ToInt(n) == ((n + IntRange \div 2) % IntRange) - IntRange \div 2

Remaining(w) == (w.sec - CurrentSec) * Second + (w.ms - CurrentMs)

(* A mistake: a timer is looked for although nobody is to wait for it.     *)
Patient_Timeout(f) ==
  IF "AE_TIME_EVENTS" \in f /\ list # <<>>
  THEN LET ms == Remaining(list[nearest_time_event].when)
       IN  IF ms > 0 THEN ToInt(ms) ELSE 0
  ELSE IF "AE_DONT_WAIT" \in f THEN 0 ELSE -1

(* The timeout of process_events() and ae_epoll_state::wait(); a negative  *)
(* one waits for a file event however long it takes.                       *)
Timeout(f) ==
  IF "AE_TIME_EVENTS" \in f /\ "AE_DONT_WAIT" \notin f /\ list # <<>>
  THEN LET ms == Remaining(list[nearest_time_event].when)
       IN  IF ms > 0 THEN ToInt(ms) ELSE 0
  ELSE IF "AE_DONT_WAIT" \in f THEN 0 ELSE -1

(* Without flags, or without files and timers to wait for, it does not     *)
(* poll at all.                                                            *)
process_events(f) ==
  /\ ~polling
  /\ f \cap {"AE_TIME_EVENTS", "AE_FILE_EVENTS"} # {}
  /\ files \/ ("AE_TIME_EVENTS" \in f /\ "AE_DONT_WAIT" \notin f)
  /\ polling' = TRUE /\ flags' = f
  /\ timeout' = Timeout(f)
  /\ since' = now
  /\ UNCHANGED <<now, list, next_id, files, pending, honest>>

(* epoll_wait() returns: the time is over, or a file event or a signal.    *)
PollReturns ==
  /\ polling
  /\ polling' = FALSE /\ flags' = {} /\ timeout' = 0 /\ since' = 0
  /\ UNCHANGED <<now, list, next_id, files, pending, honest>>

(* The first file event is registered, or the last one removed.            *)
FilesChange ==
  /\ ~polling
  /\ files' = ~files
  /\ UNCHANGED <<now, list, next_id, poll, pending, honest>>

Tick ==
  /\ now < MaxTime
  /\ now' = now + 1
  /\ UNCHANGED <<list, next_id, files, poll, pending, honest>>

Next ==
  \/ \E ms \in Delays : add_time_event(ms)
  \/ \E id \in 0 .. MaxTimers : del_time_event(id)
  \/ \E f \in SUBSET Flag : process_events(f)
  \/ PollReturns \/ FilesChange \/ Tick

Spec == Init /\ [][Next]_vars

-----------------------------------------------------------------------------
(* Every variable has its type; the milliseconds of a timer are less than  *)
(* a second.                                                               *)
TypeOK ==
  /\ now \in 0 .. MaxTime /\ since \in 0 .. now
  /\ \A i \in DOMAIN list :
       /\ list[i].id \in -1 .. next_id - 1
       /\ list[i].when.sec \in Nat /\ list[i].when.ms \in 0 .. Second - 1
  /\ {files, polling, honest} \subseteq BOOLEAN
  /\ flags \subseteq Flag
  /\ timeout \in ToInt(IntRange \div 2) .. IntRange \div 2 - 1

(* Time events that may be waited for end the sleep within a millisecond   *)
(* of the exact time of the earliest, sooner or later, however seconds and *)
(* milliseconds fall; "this operation is useful to know how many time the  *)
(* select can be put in sleep without to delay any event" (ae.cpp:334).    *)
(* This is so as long as the time left fits in the int it is put into;     *)
(* with a later one the sleep is another (ae_epoll.hpp:97).                *)
InRange(t) == t.due - since < (IntRange \div 2 - 1) * Fine

Punctual ==
  polling /\ "AE_TIME_EVENTS" \in flags /\ "AE_DONT_WAIT" \notin flags =>
    \A i \in DOMAIN list :
      InRange(list[i]) /\ (\A j \in DOMAIN list : list[i].due <= list[j].due) =>
        LET wake == since + timeout * Fine
        IN  /\ timeout >= 0
            /\ wake > list[i].due - Fine
            /\ wake < list[i].due + Fine \/ timeout = 0

(* "if flags has AE_DONT_WAIT set the function returns ASAP" (ae.cpp:446), *)
(* and nothing but a timer lets a call without it return unasked.          *)
WaitsAsTold ==
  polling => /\ "AE_DONT_WAIT" \in flags => timeout = 0
             /\ timeout = 0 => "AE_DONT_WAIT" \in flags
                               \/ \E i \in DOMAIN list :
                                    list[i].due - Fine < since \/ ~InRange(list[i])

(* The timers that are left are those that were added and not deleted,     *)
(* each under an id of its own, and del_time_event() has told the truth    *)
(* about each.                                                             *)
IdsAreUnique ==
  /\ honest
  /\ {list[i].id : i \in DOMAIN list} \ {AE_DELETED_EVENT_ID} = pending
  /\ \A i, j \in DOMAIN list : list[i].id = list[j].id => i = j \/ list[i].id = AE_DELETED_EVENT_ID
=============================================================================

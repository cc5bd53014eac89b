--------------------------- MODULE EventTableProofs ---------------------------
(***************************************************************************)
(* What the two operations on the event table preserve, for every number   *)
(* of descriptors and every array size.  The proofs about the loop and the *)
(* server cite these lemmas once per call a handler makes.                 *)
(***************************************************************************)
EXTENDS EventTable, TLAPS, WellFoundedInduction

(* The inductive form of the table's promises: the type and the three      *)
(* parts need each other (max_fd is only a descriptor because the scan of  *)
(* del_file_event returns one, MOD only reaches the kernel because a       *)
(* masked descriptor is watched).                                          *)
TableInv(t) ==
  /\ t \in Table
  /\ MaxFdIsHighest(t)
  /\ EpollAgrees(t)
  /\ HandlersPresent(t)

-----------------------------------------------------------------------------
(* A set of naturals has a least element, because < is well-founded.       *)
LEMMA LeastNatural ==
  ASSUME NEW T \in SUBSET Nat, T # {}
  PROVE  \E k \in T : \A m \in T : k <= m
<1>1. \E k \in T : \A m \in T : ~ (<<m, k>> \in OpToRel(<, Nat))
  BY NatLessThanWellFounded, WFMin
<1>2. PICK k \in T : \A m \in T : ~ (<<m, k>> \in OpToRel(<, Nat))
  BY <1>1
<1>3. ASSUME NEW m \in T PROVE k <= m
  <2>1. m \in Nat /\ k \in Nat
    OBVIOUS
  <2>2. ~ (m < k)
    <3>1. m < k => <<m, k>> \in OpToRel(<, Nat)
      BY <2>1, Zenon DEF OpToRel
    <3>2. QED
      BY <1>2, <3>1, Zenon
  <2>3. QED
    BY <2>1, <2>2
<1>4. QED
  BY <1>3

(* A set of naturals with an upper bound has a greatest element: the one   *)
(* with the least distance from the bound.                                 *)
LEMMA BoundedMax ==
  ASSUME NEW n \in Nat, NEW S, S \subseteq 0 .. n, S # {}
  PROVE  \E i \in S : \A j \in S : j <= i
<1> DEFINE T == {k \in Nat : n - k \in S}
<1>1. T \subseteq Nat /\ T # {}
  <2>1. PICK s \in S : TRUE
    OBVIOUS
  <2>2. n - s \in Nat /\ n - (n - s) = s
    BY <2>1
  <2>3. QED
    BY <2>1, <2>2
<1>2. PICK k \in T : \A m \in T : k <= m
  <2> HIDE DEF T
  <2>1. QED
    BY <1>1, LeastNatural
<1>3. \A j \in S : n - j \in T
  <2>1. TAKE j \in S
  <2>2. n - j \in Nat /\ n - (n - j) = j
    OBVIOUS
  <2>3. QED
    BY <2>2
<1>4. \A j \in S : j <= n - k
  BY <1>2, <1>3
<1>5. QED
  BY <1>4

(* The downward scan returns the highest registered descriptor below fd.   *)
LEMMA HighestBelowIsHighest ==
  ASSUME NEW mask \in [Fd -> Mask], NEW fd \in Fd
  PROVE  LET h == HighestBelow(mask, fd)
         IN  /\ h \in Fd \cup {-1}
             /\ h < fd
             /\ h # -1 => mask[h] # AE_NONE
             /\ \A j \in Fd : j < fd /\ mask[j] # AE_NONE => j <= h
<1> DEFINE below == {i \in 0 .. fd - 1 : mask[i] # AE_NONE}
<1>0. fd \in Nat /\ MaxFd \in Nat
  BY TableAssumption DEF Fd
<1>1. CASE below = {}
  <2>1. HighestBelow(mask, fd) = -1
    BY <1>1 DEF HighestBelow
  <2>2. \A j \in Fd : j < fd => j \in 0 .. fd - 1
    BY <1>0 DEF Fd
  <2>3. QED
    BY <1>0, <1>1, <2>1, <2>2
<1>2. CASE below # {}
  <2>1. \E i \in below : \A j \in below : j <= i
    <3>1. below \subseteq 0 .. fd - 1
      OBVIOUS
    <3>2. fd - 1 \in Nat
      BY <1>0, <1>2
    <3>3. QED
      BY <1>2, <3>1, <3>2, BoundedMax
  <2>2. HighestBelow(mask, fd) = CHOOSE i \in below : \A j \in below : j <= i
    BY <1>2 DEF HighestBelow
  <2>3. /\ HighestBelow(mask, fd) \in below
        /\ \A j \in below : j <= HighestBelow(mask, fd)
    BY <2>1, <2>2
  <2>4. \A j \in Fd : j < fd => j \in 0 .. fd - 1
    BY <1>0 DEF Fd
  <2>5. below \subseteq Fd
    BY <1>0 DEF Fd
  <2>6. QED
    BY <1>0, <2>3, <2>4, <2>5 DEF Fd
<1>3. QED
  BY <1>1, <1>2

-----------------------------------------------------------------------------
(* A new table satisfies the promises.                                     *)
LEMMA NewTableInv ==
  ASSUME NEW size \in Nat, NEW api \in BOOLEAN
  PROVE  TableInv(NewTable(size, api))
BY DEF TableInv, Table, NewTable, MaxFdIsHighest, EpollAgrees,
       HandlersPresent, Registered, Mask, AE_NONE

(* Every field of the table after a call that was not refused.             *)
LEMMA InstalledFields ==
  ASSUME NEW t, TableInv(t), NEW fd \in Fd, NEW mask \in Mask \ {AE_NONE},
         NEW proc \in Proc, NEW data \in Data
  PROVE  Installed(t, fd, mask, proc, data) =
           [ size     |-> t.size,
             api      |-> t.api,
             max_fd   |-> IF fd > t.max_fd THEN fd ELSE t.max_fd,
             mask     |-> [t.mask EXCEPT ![fd] = t.mask[fd] \cup mask],
             r_proc   |-> [t.r_proc EXCEPT ![fd] =
                            IF AE_READABLE \in mask THEN proc ELSE @],
             w_proc   |-> [t.w_proc EXCEPT ![fd] =
                            IF AE_WRITABLE \in mask THEN proc ELSE @],
             data     |-> [t.data EXCEPT ![fd] = data],
             watched  |-> t.watched \cup {fd},
             interest |-> [t.interest EXCEPT ![fd] = t.mask[fd] \cup mask] ]
<1> DEFINE u == Installed(t, fd, mask, proc, data)
           merged == t.mask[fd] \cup mask
           k == IF t.mask[fd] = {} THEN add_event(t, fd, merged)
                                   ELSE mod_event(t, fd, merged)
<1> USE DEF AE_NONE
<1>0. t \in Table /\ EpollAgrees(t)
  BY DEF TableInv
<1>1. t.mask[fd] # {} => fd \in t.watched
  BY <1>0 DEF EpollAgrees, Registered
<1>2. k = [t EXCEPT !.watched = t.watched \cup {fd},
                    !.interest = [t.interest EXCEPT ![fd] = merged]]
  <2>1. CASE t.mask[fd] = {}
    BY <2>1, <1>0 DEF add_event, Table
  <2>2. CASE t.mask[fd] # {}
    <3>1. t.watched = t.watched \cup {fd}
      BY <1>1, <2>2
    <3>2. k = [t EXCEPT !.interest[fd] = merged]
      BY <1>1, <2>2 DEF mod_event
    <3>3. QED
      BY <3>1, <3>2, <1>0 DEF Table
  <2>3. QED
    BY <2>1, <2>2
<1>3. u = [k EXCEPT
             !.mask[fd]   = merged,
             !.r_proc[fd] = IF AE_READABLE \in mask THEN proc ELSE @,
             !.w_proc[fd] = IF AE_WRITABLE \in mask THEN proc ELSE @,
             !.data[fd]   = data,
             !.max_fd     = IF fd > @ THEN fd ELSE @]
  BY DEF Installed
<1> HIDE DEF k, u, merged
<1>4. u = [ size     |-> t.size,
            api      |-> t.api,
            max_fd   |-> IF fd > t.max_fd THEN fd ELSE t.max_fd,
            mask     |-> [t.mask EXCEPT ![fd] = merged],
            r_proc   |-> [t.r_proc EXCEPT ![fd] =
                           IF AE_READABLE \in mask THEN proc ELSE @],
            w_proc   |-> [t.w_proc EXCEPT ![fd] =
                           IF AE_WRITABLE \in mask THEN proc ELSE @],
            data     |-> [t.data EXCEPT ![fd] = data],
            watched  |-> t.watched \cup {fd},
            interest |-> [t.interest EXCEPT ![fd] = merged] ]
  BY <1>0, <1>2, <1>3 DEF Table
<1>5. QED
  BY <1>4 DEF u, merged

(* Every field after a call of del_file_event on a descriptor in range.    *)
LEMMA DeletedFields ==
  ASSUME NEW t, TableInv(t), NEW fd \in Fd, NEW mask \in Mask,
         fd < t.size, t.api
  PROVE  LET left == t.mask[fd] \ mask
         IN  del_file_event(t, fd, mask) =
               [ size     |-> t.size,
                 api      |-> t.api,
                 max_fd   |-> IF fd = t.max_fd /\ left = AE_NONE
                              THEN HighestBelow(t.mask, fd) ELSE t.max_fd,
                 mask     |-> [t.mask EXCEPT ![fd] = left],
                 r_proc   |-> t.r_proc,
                 w_proc   |-> t.w_proc,
                 data     |-> t.data,
                 watched  |-> IF left = AE_NONE THEN t.watched \ {fd} ELSE t.watched,
                 interest |-> [t.interest EXCEPT ![fd] = left] ]
<1> DEFINE u == del_file_event(t, fd, mask)
           left == t.mask[fd] \ mask
           k == IF left = {} THEN del_event(t, fd) ELSE mod_event(t, fd, left)
<1> USE DEF AE_NONE
<1>0. /\ t \in Table /\ EpollAgrees(t)
      /\ ~(fd >= t.size \/ ~t.api)
  BY TableAssumption DEF TableInv, Table, Fd
<1>1. left # {} => fd \in t.watched
  BY <1>0 DEF EpollAgrees, Registered
<1>2. k = [t EXCEPT !.watched = IF left = {} THEN t.watched \ {fd} ELSE t.watched,
                    !.interest = [t.interest EXCEPT ![fd] = left]]
  <2>1. CASE left = {}
    BY <2>1, <1>0 DEF del_event, Table
  <2>2. CASE left # {}
    <3>1. k = [t EXCEPT !.interest[fd] = left]
      BY <1>1, <2>2 DEF mod_event
    <3>2. QED
      BY <2>2, <3>1, <1>0 DEF Table
  <2>3. QED
    BY <2>1, <2>2
<1>3. u = [k EXCEPT
             !.mask[fd] = left,
             !.max_fd   = IF fd = @ /\ left = {}
                          THEN HighestBelow(t.mask, fd) ELSE @]
  BY <1>0 DEF del_file_event
<1> HIDE DEF k, u, left
<1>4. u = [ size     |-> t.size,
            api      |-> t.api,
            max_fd   |-> IF fd = t.max_fd /\ left = {}
                         THEN HighestBelow(t.mask, fd) ELSE t.max_fd,
            mask     |-> [t.mask EXCEPT ![fd] = left],
            r_proc   |-> t.r_proc,
            w_proc   |-> t.w_proc,
            data     |-> t.data,
            watched  |-> IF left = {} THEN t.watched \ {fd} ELSE t.watched,
            interest |-> [t.interest EXCEPT ![fd] = left] ]
  BY <1>0, <1>2, <1>3 DEF Table
<1>5. QED
  BY <1>4 DEF u, left

(* add_file_event keeps them, refused or not.                              *)
LEMMA AddPreserves ==
  ASSUME NEW t, TableInv(t), NEW fd \in Fd, NEW mask \in Mask \ {AE_NONE},
         NEW proc \in Proc, NEW data \in Data, NEW accepted \in BOOLEAN
  PROVE  TableInv(add_file_event(t, fd, mask, proc, data, accepted))
<1> DEFINE u == Installed(t, fd, mask, proc, data)
           merged == t.mask[fd] \cup mask
<1> USE DEF AE_NONE
<1>1. CASE AddRefused(t, fd, accepted)
  BY <1>1 DEF add_file_event
<1>2. CASE ~AddRefused(t, fd, accepted)
  <2>0. /\ t \in Table
        /\ MaxFdIsHighest(t) /\ EpollAgrees(t) /\ HandlersPresent(t)
    BY DEF TableInv
  <2>1. /\ add_file_event(t, fd, mask, proc, data, accepted) = u
        /\ fd < t.size
    BY <1>2, TableAssumption, <2>0 DEF add_file_event, AddRefused, Fd, Table
  <2>2. merged \in Mask /\ merged # {}
    BY <2>0 DEF Table, Mask
  <2>3. /\ u \in Table
        /\ u.size = t.size
        /\ u.mask = [t.mask EXCEPT ![fd] = merged]
        /\ u.max_fd = IF fd > t.max_fd THEN fd ELSE t.max_fd
        /\ u.r_proc = [t.r_proc EXCEPT ![fd] =
                         IF AE_READABLE \in mask THEN proc ELSE @]
        /\ u.w_proc = [t.w_proc EXCEPT ![fd] =
                         IF AE_WRITABLE \in mask THEN proc ELSE @]
        /\ u.watched = t.watched \cup {fd}
        /\ u.interest = [t.interest EXCEPT ![fd] = merged]
    <3> DEFINE w == IF AE_READABLE \in mask THEN proc ELSE t.r_proc[fd]
               v == IF AE_WRITABLE \in mask THEN proc ELSE t.w_proc[fd]
    <3>1. u = [ size     |-> t.size,
                api      |-> t.api,
                max_fd   |-> IF fd > t.max_fd THEN fd ELSE t.max_fd,
                mask     |-> [t.mask EXCEPT ![fd] = merged],
                r_proc   |-> [t.r_proc EXCEPT ![fd] = w],
                w_proc   |-> [t.w_proc EXCEPT ![fd] = v],
                data     |-> [t.data EXCEPT ![fd] = data],
                watched  |-> t.watched \cup {fd},
                interest |-> [t.interest EXCEPT ![fd] = merged] ]
      BY InstalledFields
    <3>2. w \in Proc \cup {Null} /\ v \in Proc \cup {Null}
      BY <2>0 DEF Table
    <3> HIDE DEF u, merged, w, v
    <3>3. QED
      BY <2>0, <2>2, <3>1, <3>2 DEF Table, w, v
  <2>4. Registered(u) = Registered(t) \cup {fd}
    BY <2>0, <2>2, <2>3 DEF Registered, Table
  <2>5. MaxFdIsHighest(u)
    BY <2>0, <2>3, <2>4, TableAssumption DEF MaxFdIsHighest, Table, Fd, Registered
  <2>6. EpollAgrees(u)
    BY <2>0, <2>3, <2>4 DEF EpollAgrees, Table
  <2>7. HandlersPresent(u)
    BY <2>0, <2>1, <2>3, TableAssumption DEF HandlersPresent, Table, Fd
  <2>8. QED
    BY <2>1, <2>3, <2>5, <2>6, <2>7 DEF TableInv
<1>3. QED
  BY <1>1, <1>2

(* del_file_event keeps them.                                              *)
LEMMA DelPreserves ==
  ASSUME NEW t, TableInv(t), NEW fd \in Fd, NEW mask \in Mask
  PROVE  TableInv(del_file_event(t, fd, mask))
<1> DEFINE u == del_file_event(t, fd, mask)
           left == t.mask[fd] \ mask
<1> USE DEF AE_NONE
<1>0. /\ t \in Table
      /\ MaxFdIsHighest(t) /\ EpollAgrees(t) /\ HandlersPresent(t)
  BY DEF TableInv
<1>1. CASE fd >= t.size \/ ~t.api
  BY <1>1 DEF del_file_event
<1>2. CASE ~(fd >= t.size \/ ~t.api)
  <2>1. left \in Mask
    BY <1>0 DEF Table, Mask
  <2>2. /\ HighestBelow(t.mask, fd) \in Fd \cup {-1}
        /\ HighestBelow(t.mask, fd) < fd
        /\ HighestBelow(t.mask, fd) # -1 => t.mask[HighestBelow(t.mask, fd)] # {}
        /\ \A j \in Fd : j < fd /\ t.mask[j] # {} => j <= HighestBelow(t.mask, fd)
    BY <1>0, HighestBelowIsHighest DEF Table
  <2>3. /\ u \in Table
        /\ u.size = t.size
        /\ u.mask = [t.mask EXCEPT ![fd] = left]
        /\ u.max_fd = IF fd = t.max_fd /\ left = {}
                      THEN HighestBelow(t.mask, fd) ELSE t.max_fd
        /\ u.r_proc = t.r_proc
        /\ u.w_proc = t.w_proc
        /\ u.watched = IF left = {} THEN t.watched \ {fd} ELSE t.watched
        /\ u.interest = [t.interest EXCEPT ![fd] = left]
    <3>1. fd < t.size /\ t.api
      BY <1>0, <1>2, TableAssumption DEF Table, Fd
    <3>2. u = [ size     |-> t.size,
                api      |-> t.api,
                max_fd   |-> IF fd = t.max_fd /\ left = {}
                             THEN HighestBelow(t.mask, fd) ELSE t.max_fd,
                mask     |-> [t.mask EXCEPT ![fd] = left],
                r_proc   |-> t.r_proc,
                w_proc   |-> t.w_proc,
                data     |-> t.data,
                watched  |-> IF left = {} THEN t.watched \ {fd} ELSE t.watched,
                interest |-> [t.interest EXCEPT ![fd] = left] ]
      BY <3>1, DeletedFields
    <3> HIDE DEF u, left
    <3>3. QED
      BY <1>0, <2>1, <2>2, <3>2 DEF Table
  <2>4. Registered(u) = IF left = {} THEN Registered(t) \ {fd} ELSE Registered(t)
    BY <1>0, <2>3 DEF Registered, Table
  <2>5. MaxFdIsHighest(u)
    <3> DEFINE h == HighestBelow(t.mask, fd)
    <3>0. /\ u.max_fd = IF fd = t.max_fd /\ left = {} THEN h ELSE t.max_fd
          /\ Registered(u) = IF left = {} THEN Registered(t) \ {fd} ELSE Registered(t)
          /\ Registered(t) = {i \in Fd : t.mask[i] # {}}
          /\ h \in Fd \cup {-1} /\ h < fd
          /\ h # -1 => t.mask[h] # {}
          /\ \A j \in Fd : j < fd /\ t.mask[j] # {} => j <= h
          /\ \A j \in Registered(t) : j <= t.max_fd
          /\ t.max_fd # -1 => t.max_fd \in Registered(t)
      BY <1>0, <2>2, <2>3, <2>4 DEF MaxFdIsHighest, Registered
    <3>1. \A j \in Fd : j \in Nat
      BY TableAssumption DEF Fd
    <3> HIDE DEF h, u, left
    <3>2. CASE fd = t.max_fd /\ left = {}
      <4>1. \A j \in Registered(u) : j <= u.max_fd
        BY <3>0, <3>1, <3>2
      <4>2. u.max_fd # -1 => u.max_fd \in Registered(u)
        BY <3>0, <3>1, <3>2
      <4>3. QED
        BY <4>1, <4>2 DEF MaxFdIsHighest
    <3>3. CASE ~(fd = t.max_fd /\ left = {})
      <4>1. \A j \in Registered(u) : j <= u.max_fd
        BY <3>0, <3>3
      <4>2. u.max_fd # -1 => u.max_fd \in Registered(u)
        BY <3>0, <3>3
      <4>3. QED
        BY <4>1, <4>2 DEF MaxFdIsHighest
    <3>4. QED
      BY <3>2, <3>3
  <2>6. EpollAgrees(u)
    BY <1>0, <2>3, <2>4 DEF EpollAgrees, Table
  <2>7. HandlersPresent(u)
    BY <1>0, <2>3, TableAssumption DEF HandlersPresent, Table, Fd
  <2>8. QED
    BY <2>3, <2>5, <2>6, <2>7 DEF TableInv
<1>3. QED
  BY <1>1, <1>2

(* Closing a descriptor whose events have been deleted changes nothing in  *)
(* the epoll set.                                                          *)
LEMMA CloseIsQuiet ==
  ASSUME NEW t, TableInv(t), NEW fd \in Fd, t.mask[fd] = AE_NONE
  PROVE  del_event(t, fd) = t
<1>1. /\ t \in Table
      /\ fd \notin t.watched
      /\ t.interest[fd] = AE_NONE
  BY DEF TableInv, EpollAgrees, Registered
<1>2. QED
  BY <1>1 DEF del_event, Table

(* resize keeps them whenever it is not refused.                           *)
LEMMA ResizePreserves ==
  ASSUME NEW t, TableInv(t), NEW new \in Nat, ~ResizeRefused(t, new)
  PROVE  TableInv(resize(t, new))
<1> DEFINE u == resize(t, new)
<1> USE DEF AE_NONE
<1>0. /\ t \in Table
      /\ MaxFdIsHighest(t) /\ EpollAgrees(t) /\ HandlersPresent(t)
  BY DEF TableInv
<1>1. \A fd \in Fd : t.mask[fd] # {} => fd <= t.max_fd /\ fd < t.size /\ fd < new
  BY <1>0, TableAssumption
     DEF ResizeRefused, MaxFdIsHighest, HandlersPresent, Registered, Table, Fd
<1>2. [fd \in Fd |-> IF fd <= t.max_fd THEN t.mask[fd] ELSE AE_NONE] = t.mask
  BY <1>0, <1>1 DEF Table
<1>3. /\ u.mask = t.mask
      /\ u.size = new
      /\ u.max_fd = t.max_fd
      /\ u.watched = t.watched
      /\ u.interest = t.interest
      /\ u.api = t.api
      /\ u.r_proc = [fd \in Fd |-> IF fd < t.size /\ fd < new
                                   THEN t.r_proc[fd] ELSE Null]
      /\ u.w_proc = [fd \in Fd |-> IF fd < t.size /\ fd < new
                                   THEN t.w_proc[fd] ELSE Null]
      /\ u \in Table
  BY <1>0, <1>2 DEF resize, Table
<1>4. MaxFdIsHighest(u) /\ EpollAgrees(u)
  BY <1>0, <1>3 DEF MaxFdIsHighest, EpollAgrees, Registered
<1>5. HandlersPresent(u)
  BY <1>0, <1>1, <1>3, TableAssumption DEF HandlersPresent, Fd, Table
<1>6. QED
  BY <1>3, <1>4, <1>5 DEF TableInv
=============================================================================

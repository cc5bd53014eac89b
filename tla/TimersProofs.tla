----------------------------- MODULE TimersProofs -----------------------------
(***************************************************************************)
(* The ids of timers are unique, and the sleep that process_events() asks  *)
(* epoll_wait() for ends when the earliest timer is due, for any length of *)
(* a second, a millisecond and an int.                                     *)
(***************************************************************************)
EXTENDS Timers, SequenceTheorems, NaturalsInduction, WellFoundedInduction, TLAPS

(* A timer of the list, and when, in milliseconds.                         *)
Total(w) == Second * w.sec + w.ms
Timer ==
  [id : Int, when : [sec : Nat, ms : 0 .. Second - 1], due : Nat]

(* What the code knows of a timer is its exact time in whole milliseconds. *)
TimersOK ==
  /\ list \in Seq(Timer)
  /\ \A i \in DOMAIN list : Total(list[i].when) = list[i].due \div Fine

IdsOK ==
  /\ next_id \in Nat /\ pending \subseteq 0 .. next_id - 1
  /\ \A i \in DOMAIN list : list[i].id \in -1 .. next_id - 1

ClockOK ==
  /\ now \in Nat /\ since \in Nat /\ now <= MaxTime /\ since <= now
  /\ files \in BOOLEAN /\ polling \in BOOLEAN /\ honest \in BOOLEAN
  /\ flags \subseteq Flag

TimeoutOK == timeout \in ToInt(IntRange \div 2) .. IntRange \div 2 - 1

IInv == ClockOK /\ TimersOK /\ IdsOK /\ IdsAreUnique /\ TimeoutOK /\ Punctual /\ WaitsAsTold

-----------------------------------------------------------------------------
(* A set of naturals has a least element.                                  *)
LEMMA LeastNatural ==
  ASSUME NEW T \in SUBSET Nat, T # {}
  PROVE  \E k \in T : \A m \in T : k <= m
<1>1. \E k \in T : \A m \in T : ~ (<<m, k>> \in OpToRel(<, Nat))
  BY NatLessThanWellFounded, WFMin
<1>2. PICK k \in T : \A m \in T : ~ (<<m, k>> \in OpToRel(<, Nat))
  BY <1>1
<1>3. ASSUME NEW m \in T PROVE k <= m
  <2>1. m \in Nat /\ k \in Nat
    OBVIOUS
  <2>2. ~ (m < k)
    <3>1. m < k => <<m, k>> \in OpToRel(<, Nat)
      BY <2>1, Zenon DEF OpToRel
    <3>2. QED
      BY <1>2, <3>1, Zenon
  <2>3. QED
    BY <2>1, <2>2
<1>4. QED
  BY <1>3

LEMMA Division ==
  ASSUME NEW a \in Int, NEW d \in Nat \ {0}
  PROVE  /\ a \div d \in Int /\ a % d \in 0 .. d - 1
         /\ a = d * (a \div d) + (a % d)
  OBVIOUS

LEMMA Quotient ==
  ASSUME NEW d \in Nat \ {0}, NEW a \in Int, NEW q \in Int, NEW r \in 0 .. d - 1, a = d * q + r
  PROVE  a \div d = q
  OBVIOUS

(* Seconds, and milliseconds beyond them, are together all milliseconds.   *)
LEMMA Digits ==
  ASSUME NEW a \in Nat, NEW d \in Nat \ {0}, NEW e \in Nat \ {0}
  PROVE  e * (a \div (d * e)) + ((a \div d) % e) = a \div d
<1>1. PICK m \in Nat \ {0} : m = d * e
  OBVIOUS
<1> DEFINE p == a \div m
           q == a \div d
           s == q \div e
           t == q % e
           r == a % d
           u == a % m
<1>2. q \in Int /\ r \in 0 .. d - 1 /\ a = d * q + r
  BY Division
<1>3. s \in Int /\ t \in 0 .. e - 1 /\ q = e * s + t
  BY <1>2, Division
<1>4. p \in Int /\ u \in 0 .. m - 1 /\ a = m * p + u
  BY Division
<1> HIDE DEF p, q, s, t, r, u
<1>5. d * t + r \in 0 .. m - 1
  BY <1>1, <1>2, <1>3
<1>6. a = m * s + (d * t + r)
  BY <1>1, <1>2, <1>3
<1>7. p = s
  BY <1>3, <1>4, <1>5, <1>6
<1>8. QED
  BY <1>1, <1>3, <1>7 DEF p, q, t

(* A time that lies in an int stays what it is there.                      *)
LEMMA IntKeeps ==
  ASSUME NEW n \in Int, n < IntRange \div 2, n >= -(IntRange \div 2)
  PROVE  ToInt(n) = n
  BY TimersAssumption DEF ToInt

LEMMA IntBounds ==
  ASSUME NEW n \in Int
  PROVE  ToInt(n) \in ToInt(IntRange \div 2) .. IntRange \div 2 - 1
  BY TimersAssumption DEF ToInt

LEMMA Half == IntRange \div 2 \in Nat \ {0} /\ ToInt(IntRange \div 2) = -(IntRange \div 2)
  BY TimersAssumption DEF ToInt

(* The clock that the code reads is the clock in whole milliseconds.       *)
LEMMA Reading ==
  ASSUME ClockOK
  PROVE  /\ CurrentSec \in Nat /\ CurrentMs \in 0 .. Second - 1
         /\ Second * CurrentSec + CurrentMs = now \div Fine /\ now \div Fine \in Nat
<1>1. now \in Nat /\ Fine \in Nat \ {0} /\ Second \in Nat \ {0}
  BY TimersAssumption DEF ClockOK
<1>2. Second * (now \div (Fine * Second)) + ((now \div Fine) % Second) = now \div Fine
  BY <1>1, Digits
<1>3. now \div Fine \in Nat
  BY <1>1
<1>4. Fine * Second \in Nat \ {0}
  BY <1>1
<1>5. CurrentSec \in Nat
  BY <1>1, <1>4 DEF CurrentSec
<1>6. QED
  BY <1>1, <1>2, <1>3, <1>5 DEF CurrentSec, CurrentMs

(* The constructor of ae_time_event keeps the milliseconds below a second, *)
(* and rounds the exact time down.                                         *)
LEMMA WhenIsDue ==
  ASSUME ClockOK, NEW ms \in Nat
  PROVE  /\ When(ms) \in [sec : Nat, ms : 0 .. Second - 1]
         /\ now + ms * Fine \in Nat
         /\ Total(When(ms)) = (now + ms * Fine) \div Fine
<1> DEFINE total == CurrentMs + (ms % Second)
           carry == total \div Second
           rest == total % Second
           secs == ms \div Second
           over == ms % Second
<1>1. now \in Nat /\ Fine \in Nat \ {0} /\ Second \in Nat \ {0}
  BY TimersAssumption DEF ClockOK
<1>2. /\ CurrentSec \in Nat /\ CurrentMs \in 0 .. Second - 1
      /\ Second * CurrentSec + CurrentMs = now \div Fine
  BY Reading
<1>3. secs \in Nat /\ over \in 0 .. Second - 1 /\ ms = Second * secs + over
  BY <1>1
<1>4. total \in Nat /\ total = CurrentMs + over
  BY <1>1, <1>2
<1> HIDE DEF total
<1>5. carry \in Nat /\ rest \in 0 .. Second - 1 /\ total = Second * carry + rest
  <2>1. carry \in Int /\ rest \in 0 .. Second - 1 /\ total = Second * carry + rest
    <3>1. total \in Int /\ Second \in Nat \ {0}
      BY <1>1, <1>4
    <3>2. QED
      BY <3>1, Division
  <2>2. carry >= 0
    BY <1>1, <1>4
  <2>3. QED
    BY <2>1, <2>2
<1>6. When(ms) = [sec |-> CurrentSec + secs + carry, ms |-> rest]
  BY DEF When, total
<1> HIDE DEF carry, rest, secs, over
<1>7. Total(When(ms)) = (now \div Fine) + ms
  BY <1>1, <1>2, <1>3, <1>4, <1>5, <1>6 DEF Total
<1>8. (now + ms * Fine) \div Fine = (now \div Fine) + ms
  BY <1>1
<1>9. QED
  BY <1>1, <1>2, <1>3, <1>5, <1>6, <1>7, <1>8

(* Times are compared by their seconds first, and that is their order.     *)
LEMMA Order ==
  ASSUME NEW v \in [sec : Nat, ms : 0 .. Second - 1], NEW w \in [sec : Nat, ms : 0 .. Second - 1]
  PROVE  /\ Total(v) \in Nat /\ Total(w) \in Nat
         /\ Earlier(v, w) = (Total(v) < Total(w))
<1>1. /\ v.sec \in Nat /\ w.sec \in Nat /\ v.ms \in 0 .. Second - 1 /\ w.ms \in 0 .. Second - 1
      /\ Second \in Nat \ {0}
  BY TimersAssumption
<1>2. PICK a, b, x, y : a = v.sec /\ b = w.sec /\ x = v.ms /\ y = w.ms
  OBVIOUS
<1>3. a < b => Second * a + Second <= Second * b
  BY <1>1, <1>2
<1>4. b < a => Second * b + Second <= Second * a
  BY <1>1, <1>2
<1>5. QED
  BY <1>1, <1>2, <1>3, <1>4 DEF Total, Earlier

(* There is a first among the earliest.                                    *)
LEMMA NearestIsEarliest ==
  ASSUME TimersOK, list # <<>>
  PROVE  /\ nearest_time_event \in DOMAIN list
         /\ \A j \in DOMAIN list :
              Total(list[nearest_time_event].when) <= Total(list[j].when)
<1>1. list \in Seq(Timer) /\ Len(list) \in Nat \ {0} /\ DOMAIN list = 1 .. Len(list)
  BY EmptySeq DEF TimersOK
<1>2. \A i \in DOMAIN list : list[i].when \in [sec : Nat, ms : 0 .. Second - 1]
  <2>1. \A i \in DOMAIN list : list[i] \in Timer
    BY <1>1
  <2>2. QED
    BY <2>1 DEF Timer
<1>3. \A i, j \in DOMAIN list :
        /\ Total(list[i].when) \in Nat
        /\ Earlier(list[i].when, list[j].when) = (Total(list[i].when) < Total(list[j].when))
  BY <1>2, Order
<1> DEFINE T == {Total(list[i].when) : i \in DOMAIN list}
<1>4. PICK least \in T : \A t \in T : least <= t
  <2>1. T \in SUBSET Nat /\ T # {}
    BY <1>1, <1>3
  <2>2. QED
    BY <2>1, LeastNatural
<1> DEFINE I == {i \in DOMAIN list : Total(list[i].when) = least}
<1>5. PICK i \in I : \A j \in I : i <= j
  <2>1. I \in SUBSET Nat /\ I # {}
    BY <1>1, <1>4
  <2>2. QED
    BY <2>1, LeastNatural
<1>6. i \in DOMAIN list /\ Total(list[i].when) = least
  OBVIOUS
<1>7. \A j \in DOMAIN list :
        /\ ~Earlier(list[j].when, list[i].when)
        /\ j < i => Earlier(list[i].when, list[j].when)
  <2>1. TAKE j \in DOMAIN list
  <2>2. Total(list[j].when) \in Nat /\ least \in Nat /\ least <= Total(list[j].when)
    BY <1>3, <1>4
  <2>3. ~Earlier(list[j].when, list[i].when)
    <3>1. ~(Total(list[j].when) < Total(list[i].when))
      BY <1>6, <2>2
    <3>2. QED
      BY <1>3, <1>6, <3>1
  <2>4. ASSUME j < i PROVE Earlier(list[i].when, list[j].when)
    <3>1. j \notin I
      BY <1>1, <1>5, <1>6, <2>4
    <3>2. Total(list[j].when) # least
      BY <3>1
    <3>3. Total(list[i].when) < Total(list[j].when)
      BY <1>6, <2>2, <3>2
    <3>4. QED
      BY <1>3, <1>6, <3>3
  <2>5. QED
    BY <2>3, <2>4
<1> DEFINE k == nearest_time_event
<1>8. k \in DOMAIN list /\ \A j \in DOMAIN list : ~Earlier(list[j].when, list[k].when)
  BY <1>6, <1>7 DEF nearest_time_event
<1> HIDE DEF k
<1>9. \A j \in DOMAIN list : Total(list[k].when) <= Total(list[j].when)
  <2>1. TAKE j \in DOMAIN list
  <2>2. /\ Total(list[k].when) \in Nat /\ Total(list[j].when) \in Nat
        /\ ~(Total(list[j].when) < Total(list[k].when))
    BY <1>3, <1>8
  <2>3. QED
    BY <2>2
<1>10. QED
  BY <1>8, <1>9 DEF k

(* Two exact times and the milliseconds between them, each rounded down.   *)
LEMMA Sleep ==
  ASSUME NEW due \in Nat, NEW t \in Nat, NEW h \in Nat, NEW ms,
         ms = (due \div Fine) - (t \div Fine)
  PROVE  /\ ms \in Int
         /\ ms <= 0 => due - Fine < t
         /\ due - t < (h - 1) * Fine => ms < h
         /\ due - Fine < t + ms * Fine /\ t + ms * Fine < due + Fine
<1> DEFINE p == due \div Fine
           q == t \div Fine
           x == due % Fine
           y == t % Fine
<1>1. Fine \in Nat \ {0}
  BY TimersAssumption
<1>2. /\ p \in Int /\ x \in 0 .. Fine - 1 /\ due = Fine * p + x
      /\ q \in Int /\ y \in 0 .. Fine - 1 /\ t = Fine * q + y
  BY <1>1, Division
<1>3. ms = p - q
  OBVIOUS
<1> HIDE DEF p, q, x, y
<1>4. ms \in Int
  BY <1>2, <1>3
<1>5. Fine * ms = (due - t) + (y - x)
  BY <1>1, <1>2, <1>3
<1>6. ms * Fine = Fine * ms
  BY <1>1, <1>4
<1>7. due - Fine < t + ms * Fine /\ t + ms * Fine < due + Fine
  BY <1>1, <1>2, <1>4, <1>5, <1>6
<1>8. ms <= 0 => due - Fine < t
  <2>1. ms <= 0 => Fine * ms <= 0
    BY <1>1, <1>4
  <2>2. QED
    BY <1>1, <1>2, <1>4, <1>5, <2>1
<1>9. due - t < (h - 1) * Fine => ms < h
  <2>1. SUFFICES ASSUME due - t < (h - 1) * Fine, ms >= h
                 PROVE  FALSE
    BY <1>4
  <2>2. Fine * ms >= Fine * h /\ (h - 1) * Fine = Fine * h - Fine
    BY <1>1, <1>4, <2>1
  <2>3. QED
    BY <1>1, <1>2, <1>5, <2>1, <2>2
<1>10. QED
  BY <1>4, <1>7, <1>8, <1>9

(* The time that is left until the nearest time event.                     *)
LEMMA RemainingIs ==
  ASSUME ClockOK, NEW w \in [sec : Nat, ms : 0 .. Second - 1]
  PROVE  Remaining(w) = Total(w) - (now \div Fine)
<1>1. /\ w.sec \in Nat /\ w.ms \in Nat /\ Second \in Nat
      /\ CurrentSec \in Nat /\ CurrentMs \in Nat
      /\ Second * CurrentSec + CurrentMs = now \div Fine
  BY TimersAssumption, Reading
<1> DEFINE a == w.sec
           b == w.ms
<1>2. Remaining(w) = (a - CurrentSec) * Second + (b - CurrentMs) /\ Total(w) = Second * a + b
  BY DEF Remaining, Total
<1>3. a \in Nat /\ b \in Nat
  BY <1>1
<1> HIDE DEF a, b
<1>4. (a - CurrentSec) * Second = Second * a - Second * CurrentSec
  BY <1>1, <1>3
<1>5. QED
  BY <1>1, <1>2, <1>3, <1>4

(* The timeout of a call that begins now, with what Punctual and           *)
(* WaitsAsTold say of it.                                                  *)
SoonEnough(t) == t.due - now < (IntRange \div 2 - 1) * Fine
Earliest(i) == \A j \in DOMAIN list : list[i].due <= list[j].due

LEMMA TimeoutIsRight ==
  ASSUME ClockOK, TimersOK, NEW f
  PROVE  /\ Timeout(f) \in ToInt(IntRange \div 2) .. IntRange \div 2 - 1
         /\ "AE_DONT_WAIT" \in f => Timeout(f) = 0
         /\ Timeout(f) = 0 => \/ "AE_DONT_WAIT" \in f
                              \/ \E i \in DOMAIN list :
                                   list[i].due - Fine < now \/ ~SoonEnough(list[i])
         /\ "AE_TIME_EVENTS" \in f /\ "AE_DONT_WAIT" \notin f =>
              \A i \in DOMAIN list :
                SoonEnough(list[i]) /\ Earliest(i) =>
                  /\ Timeout(f) >= 0
                  /\ now + Timeout(f) * Fine > list[i].due - Fine
                  /\ now + Timeout(f) * Fine < list[i].due + Fine \/ Timeout(f) = 0
<1> DEFINE h == IntRange \div 2
           out == Timeout(f)
<1>1. h \in Nat \ {0} /\ ToInt(h) = -h /\ Fine \in Nat \ {0} /\ now \in Nat
  BY Half, TimersAssumption DEF ClockOK
<1>2. CASE ~("AE_TIME_EVENTS" \in f /\ "AE_DONT_WAIT" \notin f /\ list # <<>>)
  <2>1. out = IF "AE_DONT_WAIT" \in f THEN 0 ELSE -1
    BY <1>2 DEF Timeout
  <2>2. list = <<>> => DOMAIN list = {}
    OBVIOUS
  <2> HIDE DEF out
  <2>3. out \in ToInt(h) .. h - 1
    <3> HIDE DEF h
    <3>1. QED
      BY <1>1, <2>1
  <2>4. QED
    BY <1>2, <2>1, <2>2, <2>3 DEF out
<1>3. CASE "AE_TIME_EVENTS" \in f /\ "AE_DONT_WAIT" \notin f /\ list # <<>>
  <2> DEFINE k == nearest_time_event
             ms == Remaining(list[k].when)
  <2>1. k \in DOMAIN list /\ \A j \in DOMAIN list : Total(list[k].when) <= Total(list[j].when)
    BY <1>3, NearestIsEarliest
  <2>2. out = IF ms > 0 THEN ToInt(ms) ELSE 0
    BY <1>3 DEF Timeout
  <2> HIDE DEF k, out
  <2>3. \A i \in DOMAIN list :
          /\ list[i] \in Timer /\ list[i].due \in Nat
          /\ list[i].when \in [sec : Nat, ms : 0 .. Second - 1]
          /\ Total(list[i].when) = list[i].due \div Fine
    <3>1. \A i \in DOMAIN list : list[i] \in Timer
      BY DEF TimersOK
    <3>2. QED
      BY <3>1 DEF Timer, TimersOK
  <2> DEFINE due == list[k].due
  <2>4. due \in Nat /\ ms = (due \div Fine) - (now \div Fine)
    BY <2>1, <2>3, RemainingIs
  <2> HIDE DEF ms, due
  <2>5. /\ ms \in Int
        /\ ms <= 0 => due - Fine < now
        /\ due - now < (h - 1) * Fine => ms < h
    BY <1>1, <2>4, Sleep
  <2>6. out \in ToInt(h) .. h - 1
    <3>1. ToInt(ms) \in ToInt(h) .. h - 1
      BY <2>5, IntBounds
    <3> HIDE DEF h
    <3>2. QED
      BY <1>1, <2>2, <3>1
  <2>7. ms > 0 /\ ms < h => out = ms
    <3>1. ms > 0 /\ ms < h => ToInt(ms) = ms
      <4>1. ms > 0 /\ ms < h => ms < IntRange \div 2 /\ ms >= -(IntRange \div 2)
        BY <1>1, <2>5
      <4>2. QED
        BY <2>5, <4>1, IntKeeps
    <3>2. QED
      BY <2>2, <3>1
  <2>8. out = 0 => due - Fine < now \/ ~(due - now < (h - 1) * Fine)
    <3> HIDE DEF h
    <3>1. CASE ms <= 0
      BY <2>5, <3>1
    <3>2. CASE ms > 0
      BY <2>5, <2>7, <3>2
    <3>3. QED
      BY <2>5, <3>1, <3>2
  <2>9. ASSUME NEW i \in DOMAIN list, SoonEnough(list[i]), Earliest(i)
        PROVE  /\ out >= 0
               /\ now + out * Fine > list[i].due - Fine
               /\ now + out * Fine < list[i].due + Fine \/ out = 0
    <3> DEFINE d == list[i].due
    <3>1. d \in Nat /\ d <= due /\ d - now < (h - 1) * Fine
      BY <2>1, <2>3, <2>9 DEF SoonEnough, Earliest, due
    <3>2. due \div Fine <= d \div Fine
      BY <2>1, <2>3 DEF due
    <3> HIDE DEF d
    <3>3. due \div Fine = d \div Fine
      BY <1>1, <2>4, <3>1, <3>2
    <3>4. ms = (d \div Fine) - (now \div Fine)
      BY <2>4, <3>3
    <3>5. /\ ms <= 0 => d - Fine < now
          /\ ms < h
          /\ d - Fine < now + ms * Fine /\ now + ms * Fine < d + Fine
      BY <1>1, <3>1, <3>4, Sleep
    <3> HIDE DEF h
    <3>6. CASE ms <= 0
      <4>1. out = 0
        BY <2>2, <2>5, <3>6
      <4>2. out * Fine = 0
        BY <1>1, <4>1
      <4>3. QED
        BY <1>1, <3>1, <3>5, <3>6, <4>1, <4>2 DEF d
    <3>7. CASE ms > 0
      <4>1. out = ms
        BY <2>7, <3>5, <3>7
      <4>2. out >= 0
        BY <2>5, <3>7, <4>1
      <4>3. now + out * Fine > d - Fine /\ now + out * Fine < d + Fine
        BY <1>1, <2>5, <3>1, <3>5, <4>1
      <4>4. QED
        BY <4>2, <4>3 DEF d
    <3>8. QED
      BY <2>5, <3>6, <3>7
  <2>10. QED
    BY <1>3, <2>1, <2>6, <2>8, <2>9 DEF out, due, SoonEnough
<1>4. QED
  BY <1>2, <1>3

-----------------------------------------------------------------------------
LEMMA Prepended ==
  ASSUME NEW s \in Seq(Timer), NEW t \in Timer
  PROVE  /\ <<t>> \o s \in Seq(Timer) /\ Len(<<t>> \o s) = Len(s) + 1
         /\ DOMAIN (<<t>> \o s) = 1 .. Len(s) + 1
         /\ (<<t>> \o s)[1] = t
         /\ \A i \in 2 .. Len(s) + 1 : (<<t>> \o s)[i] = s[i - 1]
<1>1. <<t>> \in Seq(Timer) /\ Len(<<t>>) = 1 /\ <<t>>[1] = t /\ Len(s) \in Nat
  OBVIOUS
<1>2. PICK u \in Seq(Timer) : u = <<t>>
  BY <1>1
<1>3. /\ u \o s \in Seq(Timer) /\ Len(u \o s) = Len(u) + Len(s)
      /\ \A i \in 1 .. Len(u) + Len(s) :
           (u \o s)[i] = IF i <= Len(u) THEN u[i] ELSE s[i - Len(u)]
  BY ConcatProperties
<1>4. Len(u) = 1 /\ u[1] = t
  BY <1>1, <1>2
<1> DEFINE v == u \o s
<1>5. /\ v \in Seq(Timer) /\ Len(v) = Len(s) + 1
      /\ \A i \in 1 .. Len(s) + 1 : v[i] = IF i <= 1 THEN t ELSE s[i - 1]
  BY <1>1, <1>3, <1>4
<1> HIDE DEF v
<1>6. /\ DOMAIN v = 1 .. Len(s) + 1 /\ v[1] = t
      /\ \A i \in 2 .. Len(s) + 1 : v[i] = s[i - 1]
  BY <1>1, <1>5
<1>7. QED
  BY <1>2, <1>5, <1>6 DEF v

LEMMA InitStep == ASSUME Init PROVE IInv
<1>1. <<>> \in Seq(Timer) /\ DOMAIN <<>> = {}
  OBVIOUS
<1>2. /\ now = 0 /\ list = <<>> /\ next_id = 0 /\ files = FALSE
      /\ flags = {} /\ timeout = 0 /\ since = 0 /\ polling = FALSE
      /\ pending = {} /\ honest = TRUE
  BY DEF Init
<1>3. ClockOK /\ TimersOK /\ IdsOK /\ Punctual /\ WaitsAsTold
  <2>1. ClockOK
    <3>1. now \in Nat /\ since \in Nat /\ now <= MaxTime /\ since <= now
      BY <1>2, TimersAssumption
    <3>2. files \in BOOLEAN /\ polling \in BOOLEAN /\ honest \in BOOLEAN /\ flags \subseteq Flag
      BY <1>2, Zenon
    <3>3. QED
      BY <3>1, <3>2 DEF ClockOK
  <2>2. TimersOK
    BY <1>1, <1>2 DEF TimersOK
  <2>3. IdsOK
    BY <1>1, <1>2 DEF IdsOK
  <2>4. Punctual /\ WaitsAsTold
    BY <1>2 DEF Punctual, WaitsAsTold
  <2>5. QED
    BY <2>1, <2>2, <2>3, <2>4
<1>4. IdsAreUnique
  BY <1>1, <1>2 DEF IdsAreUnique
<1>5. TimeoutOK
  <2> DEFINE h == IntRange \div 2
  <2>1. h \in Nat \ {0} /\ ToInt(h) = -h
    BY Half
  <2> HIDE DEF h
  <2>2. 0 \in -h .. h - 1
    BY <2>1
  <2>3. QED
    BY <1>2, <2>1, <2>2 DEF TimeoutOK, h
<1>6. QED
  BY <1>3, <1>4, <1>5 DEF IInv

LEMMA AddStep ==
  ASSUME IInv, NEW ms \in Delays, add_time_event(ms)
  PROVE  IInv'
<1> DEFINE t == [id |-> next_id, when |-> When(ms), due |-> now + ms * Fine]
           n == Len(list)
<1>1. /\ ~polling /\ list' = <<t>> \o list /\ next_id' = next_id + 1
      /\ pending' = pending \cup {next_id}
      /\ UNCHANGED <<now, files, flags, timeout, since, polling, honest>>
  BY DEF add_time_event, poll
<1>2. list \in Seq(Timer) /\ n \in Nat /\ DOMAIN list = 1 .. n /\ next_id \in Nat
  BY DEF IInv, TimersOK, IdsOK
<1>3. t \in Timer /\ t.id = next_id /\ Total(t.when) = t.due \div Fine
  <2>1. ms \in Nat
    BY TimersAssumption
  <2>2. QED
    BY <1>2, <2>1, WhenIsDue DEF Timer, IInv
<1> HIDE DEF t
<1>4. /\ list' \in Seq(Timer) /\ DOMAIN list' = 1 .. n + 1
      /\ list'[1] = t /\ \A i \in 2 .. n + 1 : list'[i] = list[i - 1]
  <2>1. PICK s \in Seq(Timer) : s = list
    BY <1>2
  <2>2. /\ <<t>> \o s \in Seq(Timer)
        /\ DOMAIN (<<t>> \o s) = 1 .. Len(s) + 1
        /\ (<<t>> \o s)[1] = t
        /\ \A i \in 2 .. Len(s) + 1 : (<<t>> \o s)[i] = s[i - 1]
    BY <1>3, Prepended
  <2>3. QED
    BY <1>1, <2>1, <2>2
<1> HIDE DEF n
<1>5. \A i \in 1 .. n + 1 : i = 1 \/ (i \in 2 .. n + 1 /\ i - 1 \in 1 .. n)
  BY <1>2
<1>6. ClockOK' /\ TimeoutOK' /\ Punctual' /\ WaitsAsTold'
  BY <1>1 DEF IInv, ClockOK, TimeoutOK, Punctual, WaitsAsTold
<1>7. TimersOK'
  <2>1. \A i \in 1 .. n + 1 : Total(list'[i].when) = list'[i].due \div Fine
    BY <1>2, <1>3, <1>4, <1>5 DEF IInv, TimersOK
  <2>2. QED
    BY <1>4, <2>1 DEF TimersOK
<1>8. \A i \in 1 .. n : list[i].id \in -1 .. next_id - 1
  BY <1>2 DEF IInv, IdsOK
<1>9. IdsOK'
  <2>1. next_id' \in Nat /\ pending' \subseteq 0 .. next_id' - 1
    <3>1. pending \subseteq 0 .. next_id - 1
      BY DEF IInv, IdsOK
    <3>2. \A x \in 0 .. next_id - 1 : x \in 0 .. next_id
      BY <1>2
    <3>3. next_id \in 0 .. next_id /\ next_id' - 1 = next_id /\ next_id' \in Nat
      BY <1>1, <1>2
    <3>4. QED
      BY <1>1, <3>1, <3>2, <3>3
  <2>2. next_id \in -1 .. next_id' - 1 /\ -1 .. next_id - 1 \subseteq -1 .. next_id' - 1
    BY <1>1, <1>2
  <2>3. \A i \in 1 .. n + 1 : list'[i].id \in -1 .. next_id' - 1
    BY <1>3, <1>4, <1>5, <1>8, <2>2
  <2>4. QED
    BY <1>4, <2>1, <2>3 DEF IdsOK
<1>10. IdsAreUnique'
  <2>1. /\ honest /\ {list[i].id : i \in 1 .. n} \ {-1} = pending
        /\ \A i, j \in 1 .. n : list[i].id = list[j].id => i = j \/ list[i].id = -1
    BY <1>2 DEF IInv, IdsAreUnique, AE_DELETED_EVENT_ID
  <2>2. next_id # -1 /\ \A i \in 1 .. n : list[i].id # next_id
    BY <1>2, <1>8
  <2>3. {list'[i].id : i \in 1 .. n + 1} = {list[i].id : i \in 1 .. n} \cup {next_id}
    <3>1. \A i \in 1 .. n : i + 1 \in 2 .. n + 1 /\ (i + 1) - 1 = i /\ i + 1 \in 1 .. n + 1
      BY <1>2
    <3>2. \A i \in 1 .. n : list'[i + 1].id = list[i].id
      BY <1>4, <3>1
    <3>3. 1 \in 1 .. n + 1 /\ list'[1].id = next_id
      BY <1>2, <1>3, <1>4
    <3>4. \A i \in 1 .. n + 1 : list'[i].id \in {list[k].id : k \in 1 .. n} \cup {next_id}
      BY <1>3, <1>4, <1>5
    <3>5. QED
      BY <3>1, <3>2, <3>3, <3>4
  <2>4. {list'[i].id : i \in 1 .. n + 1} \ {-1} = pending'
    BY <1>1, <2>1, <2>2, <2>3
  <2>5. ASSUME NEW i \in 1 .. n + 1, NEW j \in 1 .. n + 1, list'[i].id = list'[j].id
        PROVE  i = j \/ list'[i].id = -1
    <3>1. CASE i = 1 /\ j # 1
      BY <1>3, <1>4, <1>5, <2>2, <2>5, <3>1
    <3>2. CASE i # 1 /\ j = 1
      BY <1>3, <1>4, <1>5, <2>2, <2>5, <3>2
    <3>3. CASE i # 1 /\ j # 1
      <4>1. list'[i] = list[i - 1] /\ list'[j] = list[j - 1] /\ i - 1 \in 1 .. n /\ j - 1 \in 1 .. n
        BY <1>4, <1>5, <3>3
      <4>2. i - 1 = j - 1 \/ list[i - 1].id = -1
        BY <2>1, <2>5, <4>1
      <4>3. QED
        BY <4>1, <4>2
    <3>4. QED
      BY <3>1, <3>2, <3>3
  <2>6. QED
    BY <1>1, <1>4, <2>1, <2>4, <2>5 DEF IdsAreUnique, AE_DELETED_EVENT_ID
<1>11. QED
  BY <1>6, <1>7, <1>9, <1>10 DEF IInv

LEMMA DelStep ==
  ASSUME IInv, NEW id \in 0 .. MaxTimers, del_time_event(id)
  PROVE  IInv'
<1> DEFINE at == {i \in DOMAIN list : list[i].id = id}
           n == Len(list)
<1>1. /\ ~polling
      /\ list' = [i \in DOMAIN list |->
                    IF i \in at /\ \A j \in at : i <= j
                    THEN [list[i] EXCEPT !.id = AE_DELETED_EVENT_ID] ELSE list[i]]
      /\ honest' = (honest /\ ((at # {}) <=> (id \in pending)))
      /\ pending' = pending \ {id}
      /\ UNCHANGED <<now, next_id, files, flags, timeout, since, polling>>
  BY DEF del_time_event, poll
<1>2. /\ list \in Seq(Timer) /\ n \in Nat /\ DOMAIN list = 1 .. n /\ next_id \in Nat
      /\ id \in Nat /\ id # -1
  BY TimersAssumption DEF IInv, TimersOK, IdsOK
<1>3. /\ honest /\ {list[i].id : i \in 1 .. n} \ {-1} = pending
      /\ \A i, j \in 1 .. n : list[i].id = list[j].id => i = j \/ list[i].id = -1
  BY <1>2 DEF IInv, IdsAreUnique, AE_DELETED_EVENT_ID
<1> HIDE DEF n
<1>4. \A i \in 1 .. n : list[i] \in Timer /\ list[i].id \in -1 .. next_id - 1
  BY <1>2 DEF IInv, IdsOK, n
<1>5. \A i \in 1 .. n : (i \in at /\ \A j \in at : i <= j) <=> list[i].id = id
  BY <1>2, <1>3
<1>6. \A i \in 1 .. n : list'[i] = IF list[i].id = id THEN [list[i] EXCEPT !.id = -1] ELSE list[i]
  BY <1>1, <1>2, <1>5 DEF AE_DELETED_EVENT_ID
<1>7. DOMAIN list' = 1 .. n
  BY <1>1, <1>2
<1>8. \A i \in 1 .. n : /\ list'[i] \in Timer
                        /\ list'[i].when = list[i].when /\ list'[i].due = list[i].due
                        /\ list'[i].id = IF list[i].id = id THEN -1 ELSE list[i].id
  <2>1. TAKE i \in 1 .. n
  <2>2. list[i] \in Timer
    BY <1>4
  <2>3. QED
    <3>1. PICK t \in Timer : t = list[i]
      BY <2>2
    <3>2. /\ [t EXCEPT !.id = -1] \in Timer
          /\ [t EXCEPT !.id = -1].when = t.when /\ [t EXCEPT !.id = -1].due = t.due
          /\ [t EXCEPT !.id = -1].id = -1
      BY DEF Timer
    <3>3. QED
      BY <1>6, <3>1, <3>2
<1>9. list' \in Seq(Timer)
  <2>1. list' = [i \in 1 .. n |-> list'[i]]
    BY <1>1, <1>2
  <2>2. list' \in [1 .. n -> Timer]
    BY <1>8, <2>1
  <2>3. QED
    BY <1>2, <2>2
<1>10. ClockOK' /\ TimeoutOK' /\ Punctual' /\ WaitsAsTold'
  BY <1>1 DEF IInv, ClockOK, TimeoutOK, Punctual, WaitsAsTold
<1>11. TimersOK'
  BY <1>2, <1>7, <1>8, <1>9 DEF IInv, TimersOK
<1>12. IdsOK'
  <2>1. \A i \in 1 .. n : list'[i].id \in -1 .. next_id - 1
    BY <1>2, <1>4, <1>8
  <2>2. QED
    BY <1>1, <1>7, <2>1 DEF IInv, IdsOK
<1>13. IdsAreUnique'
  <2>1. honest'
    <3>1. (at # {}) <=> (id \in pending)
      BY <1>2, <1>3
    <3>2. QED
      BY <1>1, <1>3, <3>1
  <2>2. {list'[i].id : i \in 1 .. n} \ {-1} = pending'
    <3>1. ASSUME NEW x \in {list'[i].id : i \in 1 .. n} \ {-1} PROVE x \in pending \ {id}
      BY <1>2, <1>3, <1>8
    <3>2. ASSUME NEW x \in pending \ {id} PROVE x \in {list'[i].id : i \in 1 .. n} \ {-1}
      BY <1>2, <1>3, <1>8
    <3>3. QED
      BY <1>1, <3>1, <3>2
  <2>3. \A i, j \in 1 .. n : list'[i].id = list'[j].id => i = j \/ list'[i].id = -1
    BY <1>3, <1>8
  <2>4. QED
    BY <1>7, <2>1, <2>2, <2>3 DEF IdsAreUnique, AE_DELETED_EVENT_ID
<1>14. QED
  BY <1>10, <1>11, <1>12, <1>13 DEF IInv

LEMMA PollStep ==
  ASSUME IInv, NEW f \in SUBSET Flag, process_events(f)
  PROVE  IInv'
<1>1. /\ polling' = TRUE /\ flags' = f /\ timeout' = Timeout(f) /\ since' = now
      /\ UNCHANGED <<now, list, next_id, files, pending, honest>>
  BY DEF process_events
<1>2. ClockOK' /\ TimersOK' /\ IdsOK' /\ IdsAreUnique'
  BY <1>1 DEF IInv, ClockOK, TimersOK, IdsOK, IdsAreUnique
<1>3. /\ timeout' \in ToInt(IntRange \div 2) .. IntRange \div 2 - 1
      /\ "AE_DONT_WAIT" \in f => timeout' = 0
      /\ timeout' = 0 => \/ "AE_DONT_WAIT" \in f
                         \/ \E i \in DOMAIN list :
                              list[i].due - Fine < now \/ ~SoonEnough(list[i])
      /\ "AE_TIME_EVENTS" \in f /\ "AE_DONT_WAIT" \notin f =>
           \A i \in DOMAIN list :
             SoonEnough(list[i]) /\ Earliest(i) =>
               /\ timeout' >= 0
               /\ now + timeout' * Fine > list[i].due - Fine
               /\ now + timeout' * Fine < list[i].due + Fine \/ timeout' = 0
  BY <1>1, TimeoutIsRight DEF IInv
<1>4. Punctual'
  BY <1>1, <1>3 DEF Punctual, InRange, SoonEnough, Earliest
<1>5. WaitsAsTold'
  BY <1>1, <1>3 DEF WaitsAsTold, InRange, SoonEnough
<1>6. TimeoutOK'
  BY <1>3 DEF TimeoutOK, ToInt
<1>7. QED
  BY <1>2, <1>4, <1>5, <1>6 DEF IInv

LEMMA NextStep == ASSUME IInv, [Next]_vars PROVE IInv'
<1>1. CASE PollReturns
  <2>1. /\ polling' = FALSE /\ flags' = {} /\ timeout' = 0 /\ since' = 0
        /\ UNCHANGED <<now, list, next_id, files, pending, honest>>
    BY <1>1 DEF PollReturns
  <2>2. TimeoutOK'
    <3> DEFINE h == IntRange \div 2
    <3>1. h \in Nat \ {0} /\ ToInt(h) = -h
      BY Half
    <3> HIDE DEF h
    <3>2. 0 \in -h .. h - 1
      BY <3>1
    <3>3. QED
      BY <2>1, <3>1, <3>2 DEF TimeoutOK, ToInt, h
  <2>3. ClockOK'
    <3>1. now' \in Nat /\ since' \in Nat /\ now' <= MaxTime /\ since' <= now'
      BY <2>1 DEF IInv, ClockOK
    <3>2. /\ files' \in BOOLEAN /\ polling' \in BOOLEAN /\ honest' \in BOOLEAN
          /\ flags' \subseteq Flag
      BY <2>1, Zenon DEF IInv, ClockOK
    <3>3. QED
      BY <3>1, <3>2 DEF ClockOK
  <2>4. TimersOK' /\ IdsOK' /\ IdsAreUnique'
    BY <2>1 DEF IInv, TimersOK, IdsOK, IdsAreUnique
  <2>5. Punctual' /\ WaitsAsTold'
    BY <2>1 DEF Punctual, WaitsAsTold
  <2>6. QED
    BY <2>2, <2>3, <2>4, <2>5 DEF IInv
<1>2. CASE FilesChange
  BY <1>2 DEF FilesChange, poll, IInv, ClockOK, TimersOK, IdsOK, IdsAreUnique, TimeoutOK,
              Punctual, WaitsAsTold
<1>3. CASE Tick
  <2>1. /\ now < MaxTime /\ now' = now + 1
        /\ UNCHANGED <<list, next_id, files, flags, timeout, since, polling, pending, honest>>
    BY <1>3 DEF Tick, poll
  <2>2. ClockOK'
    BY <2>1, TimersAssumption DEF IInv, ClockOK
  <2>3. QED
    BY <2>1, <2>2
    DEF IInv, TimersOK, IdsOK, IdsAreUnique, TimeoutOK, Punctual, WaitsAsTold, InRange
<1>4. CASE UNCHANGED vars
  BY <1>4 DEF vars, poll, IInv, ClockOK, TimersOK, IdsOK, IdsAreUnique, TimeoutOK,
              Punctual, WaitsAsTold, InRange
<1>5. QED
  BY <1>1, <1>2, <1>3, <1>4, AddStep, DelStep, PollStep DEF Next

LEMMA Inductive == Spec => []IInv
<1>1. Init => IInv
  BY InitStep
<1>2. IInv /\ [Next]_vars => IInv'
  BY NextStep
<1>3. QED
  BY <1>1, <1>2, PTL DEF Spec

-----------------------------------------------------------------------------
(* Every variable has its type, for clocks, seconds and ints of any size.  *)
THEOREM TypeCorrect == Spec => []TypeOK
<1>1. IInv => TypeOK
  <2>1. SUFFICES ASSUME IInv PROVE TypeOK
    OBVIOUS
  <2>2. \A i \in DOMAIN list : list[i] \in Timer
    BY <2>1 DEF IInv, TimersOK
  <2>3. \A i \in DOMAIN list :
          /\ list[i].id \in -1 .. next_id - 1
          /\ list[i].when.sec \in Nat /\ list[i].when.ms \in 0 .. Second - 1
    BY <2>1, <2>2 DEF IInv, IdsOK, Timer
  <2>4. now \in 0 .. MaxTime /\ since \in 0 .. now
    BY <2>1, TimersAssumption DEF IInv, ClockOK
  <2>5. QED
    BY <2>1, <2>3, <2>4 DEF IInv, ClockOK, TimeoutOK, TypeOK
<1>2. QED
  BY <1>1, Inductive, PTL

(* A sleep for time events ends within a millisecond of the exact time of  *)
(* the earliest, however its seconds and milliseconds fall.                *)
THEOREM SleepIsPunctual == Spec => []Punctual
<1>1. IInv => Punctual
  BY DEF IInv
<1>2. QED
  BY <1>1, Inductive, PTL

(* process_events() returns as soon as possible only if it is told to, or  *)
(* a timer is due.                                                         *)
THEOREM SleepIsAsTold == Spec => []WaitsAsTold
<1>1. IInv => WaitsAsTold
  BY DEF IInv
<1>2. QED
  BY <1>1, Inductive, PTL

(* No id is used twice, and del_time_event() finds exactly the timers that *)
(* are left.                                                               *)
THEOREM IdsStayUnique == Spec => []IdsAreUnique
<1>1. IInv => IdsAreUnique
  BY DEF IInv
<1>2. QED
  BY <1>1, Inductive, PTL
=============================================================================

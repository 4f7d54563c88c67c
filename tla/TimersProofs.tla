---------------------------- MODULE TimersProofs ----------------------------
(* Proofs about Timers for any waiting times and counts and any bounds: the *)
(* list keeps its order, whatever is added, deleted or rescheduled while a  *)
(* timer runs, and the timer that runs is one that was due first.           *)
EXTENDS Timers, SequenceTheorems, WellFoundedInduction, TLAPS

Ordered(list) == \A i, j \in 1 .. Len(list) : i <= j => list[i].time <= list[j].time

(* Where schedule_timer puts a timer: behind those due no later, before     *)
(* those due later.                                                         *)
Slot(list, t) ==
    LET later == {k \in 1 .. Len(list) : list[k].time > t.time}
    IN IF later = {} THEN Len(list) + 1 ELSE Min(later)

\* A nonempty set of naturals has a least element.
LEMMA Least ==
    ASSUME NEW S \in SUBSET Nat, S # {}
    PROVE  \E x \in S : \A y \in S : x <= y
  <1>1. PICK x \in S : \A y \in S : ~(<<y, x>> \in OpToRel(<, Nat))
    BY WFMin, NatLessThanWellFounded, Zenon
  <1>2. \A y \in S : ~(y < x)
    BY <1>1 DEF OpToRel
  <1> QED
    BY <1>2

\* Min returns it.
LEMMA MinOfNaturals ==
    ASSUME NEW S \in SUBSET Nat, S # {}
    PROVE  Min(S) \in S /\ \A y \in S : Min(S) <= y
  BY Least DEF Min

\* Max returns the greatest refnum.
LEMMA MaxOfRefs ==
    ASSUME NEW S \in SUBSET (0 .. MaxRef), S # {}
    PROVE  Max(S) \in S
  <1> DEFINE D == {MaxRef - i : i \in S}
  <1>1. D \in SUBSET Nat /\ D # {}
    <2>1. \A i \in S : MaxRef - i \in Nat
      BY BoundsAssumption
    <2> QED
      BY <2>1
  <1> HIDE DEF D
  <1>2. PICK n \in D : \A m \in D : n <= m
    BY <1>1, Least
  <1>3. PICK i \in S : n = MaxRef - i
    BY <1>2 DEF D
  <1>4. ASSUME NEW j \in S PROVE i >= j
    <2>1. MaxRef - i <= MaxRef - j
      BY <1>2, <1>3 DEF D
    <2> QED
      BY <2>1, BoundsAssumption
  <1> QED
    BY <1>4 DEF Max

\* The place of an insertion: no timer before it is due later, none behind it earlier.
LEMMA SlotPlace ==
    ASSUME NEW list \in Seq(Timer), Ordered(list), NEW t \in Timer
    PROVE  /\ Slot(list, t) \in 1 .. Len(list) + 1
           /\ \A k \in 1 .. Len(list) : k < Slot(list, t) => list[k].time <= t.time
           /\ \A k \in 1 .. Len(list) : k >= Slot(list, t) => t.time <= list[k].time
  <1> DEFINE later == {k \in 1 .. Len(list) : list[k].time > t.time}
  <1>1. Len(list) \in Nat /\ t.time \in Int
        /\ \A k \in 1 .. Len(list) : list[k] \in Timer /\ list[k].time \in Int
    <2>1. Len(list) \in Nat /\ \A k \in 1 .. Len(list) : list[k] \in Timer
      BY ElementOfSeq, LenProperties
    <2>2. \A u \in Timer : u.time \in Int
      BY DEF Timer
    <2> QED
      BY <2>1, <2>2
  <1>2. CASE later = {}
    <2>1. Slot(list, t) = Len(list) + 1
      BY <1>2 DEF Slot
    <2> QED
      BY <1>1, <1>2, <2>1
  <1>3. CASE later # {}
    <2>1. Slot(list, t) = Min(later)
      BY <1>3 DEF Slot
    <2>2. Min(later) \in later /\ \A y \in later : Min(later) <= y
      <3>1. later \in SUBSET Nat
        BY <1>1
      <3> HIDE DEF later
      <3> QED
        BY <1>3, <3>1, MinOfNaturals
    <2>3. Slot(list, t) \in 1 .. Len(list) /\ list[Slot(list, t)].time > t.time
      BY <2>1, <2>2
    <2>4. \A k \in 1 .. Len(list) : k < Slot(list, t) => list[k].time <= t.time
      BY <1>1, <2>1, <2>2
    <2>5. \A k \in 1 .. Len(list) : k >= Slot(list, t) => t.time <= list[k].time
      BY <1>1, <2>3 DEF Ordered
    <2> QED
      BY <1>1, <2>3, <2>4, <2>5
  <1> QED
    BY <1>2, <1>3

(* The list after an insertion, position by position.                       *)
LEMMA Inserted ==
    ASSUME NEW S, NEW list \in Seq(S), NEW t \in S, NEW p \in 1 .. Len(list) + 1
    PROVE  /\ InsertAt(list, p, t) \in Seq(S)
           /\ Len(InsertAt(list, p, t)) = Len(list) + 1
           /\ \A k \in 1 .. Len(list) + 1 : InsertAt(list, p, t)[k] =
                  IF k < p THEN list[k] ELSE IF k = p THEN t ELSE list[k - 1]
  <1> DEFINE a == SubSeq(list, 1, p - 1)
             b == SubSeq(list, p, Len(list))
  <1>1. Len(list) \in Nat /\ \A k \in 1 .. Len(list) : list[k] \in S
    BY ElementOfSeq, LenProperties
  <1>2. a \in Seq(S) /\ Len(a) = p - 1 /\ \A k \in 1 .. p - 1 : a[k] = list[k]
    <2>1. \A i \in 1 .. p - 1 : list[i] \in S
      BY <1>1
    <2> QED
      BY <1>1, <2>1, SubSeqProperties
  <1>3. b \in Seq(S) /\ Len(b) = Len(list) - p + 1
        /\ \A k \in 1 .. Len(list) - p + 1 : b[k] = list[p + k - 1]
    <2>1. \A i \in p .. Len(list) : list[i] \in S
      BY <1>1
    <2> QED
      BY <1>1, <2>1, SubSeqProperties
  <1>4. <<t>> \in Seq(S) /\ Len(<<t>>) = 1 /\ <<t>>[1] = t
    OBVIOUS
  <1>5. InsertAt(list, p, t) = (a \o <<t>>) \o b
    BY DEF InsertAt
  <1> HIDE DEF a, b
  <1>6. /\ a \o <<t>> \in Seq(S) /\ Len(a \o <<t>>) = p
        /\ \A k \in 1 .. p : (a \o <<t>>)[k] = IF k < p THEN list[k] ELSE t
    BY <1>1, <1>2, <1>4, ConcatProperties
  <1>7. /\ (a \o <<t>>) \o b \in Seq(S) /\ Len((a \o <<t>>) \o b) = Len(list) + 1
        /\ \A k \in 1 .. Len(list) + 1 : ((a \o <<t>>) \o b)[k] =
               IF k <= p THEN (a \o <<t>>)[k] ELSE b[k - p]
    <2> DEFINE c == a \o <<t>>
    <2>1. c \in Seq(S) /\ Len(c) = p
      BY <1>6
    <2> HIDE DEF c
    <2>2. c \o b \in Seq(S) /\ Len(c \o b) = Len(c) + Len(b)
          /\ \A k \in 1 .. Len(c) + Len(b) : (c \o b)[k] = IF k <= Len(c) THEN c[k] ELSE b[k - Len(c)]
      BY <1>3, <2>1, ConcatProperties
    <2>3. Len(c) + Len(b) = Len(list) + 1
      BY <1>1, <1>3, <2>1
    <2> QED
      BY <2>1, <2>2, <2>3 DEF c
  <1>8. ASSUME NEW k \in 1 .. Len(list) + 1
        PROVE  InsertAt(list, p, t)[k] =
                   IF k < p THEN list[k] ELSE IF k = p THEN t ELSE list[k - 1]
    <2>1. CASE k <= p
      BY <2>1, <1>1, <1>6, <1>7, <1>5
    <2>2. CASE k > p
      <3>1. k - p \in 1 .. Len(list) - p + 1 /\ p + (k - p) - 1 = k - 1
        BY <2>2, <1>1
      <3>2. b[k - p] = list[k - 1]
        BY <3>1, <1>3
      <3> QED
        BY <2>2, <3>2, <1>1, <1>7, <1>5, SMTT(30)
    <2> QED
      BY <2>1, <2>2, <1>1
  <1> QED
    BY <1>7, <1>5, <1>8
(* The list after a removal.                                                *)
LEMMA Removed ==
    ASSUME NEW S, NEW list \in Seq(S), NEW p \in 1 .. Len(list)
    PROVE  /\ RemoveAt(list, p) \in Seq(S)
           /\ Len(RemoveAt(list, p)) = Len(list) - 1
           /\ \A k \in 1 .. Len(list) - 1 : RemoveAt(list, p)[k] =
                  IF k < p THEN list[k] ELSE list[k + 1]
  <1> DEFINE a == SubSeq(list, 1, p - 1)
             b == SubSeq(list, p + 1, Len(list))
  <1>1. Len(list) \in Nat /\ \A k \in 1 .. Len(list) : list[k] \in S
    BY ElementOfSeq, LenProperties
  <1>2. a \in Seq(S) /\ Len(a) = p - 1 /\ \A k \in 1 .. p - 1 : a[k] = list[k]
    <2>1. \A i \in 1 .. p - 1 : list[i] \in S
      BY <1>1
    <2> QED
      BY <1>1, <2>1, SubSeqProperties
  <1>3. b \in Seq(S) /\ Len(b) = Len(list) - p
        /\ \A k \in 1 .. Len(list) - p : b[k] = list[p + k]
    <2>1. \A i \in p + 1 .. Len(list) : list[i] \in S
      BY <1>1
    <2> QED
      BY <1>1, <2>1, SubSeqProperties
  <1>4. RemoveAt(list, p) = a \o b
    BY DEF RemoveAt
  <1> HIDE DEF a, b
  <1>5. /\ a \o b \in Seq(S) /\ Len(a \o b) = Len(list) - 1
        /\ \A k \in 1 .. Len(list) - 1 : (a \o b)[k] =
               IF k < p THEN a[k] ELSE b[k - p + 1]
    BY <1>1, <1>2, <1>3, ConcatProperties
  <1>6. \A k \in 1 .. Len(list) - 1 :
            k >= p => k - p + 1 \in 1 .. Len(list) - p /\ b[k - p + 1] = list[k + 1]
    BY <1>1, <1>3
  <1>7. \A k \in 1 .. Len(list) - 1 : k < p => k \in 1 .. p - 1 /\ a[k] = list[k]
    BY <1>1, <1>2
  <1> QED
    BY <1>4, <1>5, <1>6, <1>7

\* A list has a length, and each of its timers a time.
LEMMA Times ==
    ASSUME NEW list \in Seq(Timer)
    PROVE  Len(list) \in Nat /\ \A k \in 1 .. Len(list) : list[k].time \in Int
  <1>1. Len(list) \in Nat /\ \A k \in 1 .. Len(list) : list[k] \in Timer
    BY ElementOfSeq, LenProperties
  <1> QED
    BY <1>1 DEF Timer

(* schedule_timer keeps the order, and puts nothing on the list but t.      *)
LEMMA ScheduledOrdered ==
    ASSUME NEW S \in SUBSET Timer, NEW list \in Seq(S), Ordered(list), NEW t \in S
    PROVE  Scheduled(list, t) \in Seq(S) /\ Ordered(Scheduled(list, t))
  <1> DEFINE p == Slot(list, t)
             new == InsertAt(list, p, t)
  <1>1. list \in Seq(Timer) /\ t \in Timer
    BY SeqMonotonic
  <1>2. /\ p \in 1 .. Len(list) + 1
        /\ \A k \in 1 .. Len(list) : k < p => list[k].time <= t.time
        /\ \A k \in 1 .. Len(list) : k >= p => t.time <= list[k].time
    BY <1>1, SlotPlace
  <1>3. Scheduled(list, t) = new
    BY DEF Scheduled, Slot
  <1> HIDE DEF p
  <1>4. /\ new \in Seq(S) /\ Len(new) = Len(list) + 1
        /\ \A k \in 1 .. Len(list) + 1 :
               new[k] = IF k < p THEN list[k] ELSE IF k = p THEN t ELSE list[k - 1]
    BY <1>2, Inserted
  <1>5. Len(list) \in Nat /\ t.time \in Int
        /\ \A k \in 1 .. Len(list) : list[k].time \in Int
    BY <1>1, Times DEF Timer
  <1> HIDE DEF new
  <1>6. ASSUME NEW i \in 1 .. Len(new), NEW j \in 1 .. Len(new), i < j
        PROVE  new[i].time <= new[j].time
    <2>1. CASE j < p
      <3>1. new[i] = list[i] /\ new[j] = list[j]
        BY <2>1, <1>6, <1>4, <1>2, <1>5
      <3> QED
        BY <2>1, <3>1, <1>6, <1>4, <1>2, <1>5 DEF Ordered
    <2>2. CASE j = p
      <3>1. new[i] = list[i] /\ new[j] = t /\ i \in 1 .. Len(list)
        BY <2>2, <1>6, <1>4, <1>2, <1>5
      <3> QED
        BY <2>2, <3>1, <1>6, <1>2
    <2>3. CASE j > p /\ i = p
      <3>1. new[i] = t /\ new[j] = list[j - 1] /\ j - 1 \in 1 .. Len(list)
        BY <2>3, <1>4, <1>2, <1>5
      <3> QED
        BY <2>3, <3>1, <1>2
    <2>4. CASE j > p /\ i < p
      <3>1. new[i] = list[i] /\ new[j] = list[j - 1]
            /\ i \in 1 .. Len(list) /\ j - 1 \in 1 .. Len(list) /\ i <= j - 1
        BY <2>4, <1>4, <1>2, <1>5
      <3> QED
        BY <3>1 DEF Ordered
    <2>5. CASE j > p /\ i > p
      <3>1. new[i] = list[i - 1] /\ new[j] = list[j - 1]
            /\ i - 1 \in 1 .. Len(list) /\ j - 1 \in 1 .. Len(list) /\ i - 1 <= j - 1
        BY <2>5, <1>6, <1>4, <1>2, <1>5
      <3> QED
        BY <3>1 DEF Ordered
    <2> QED
      BY <2>1, <2>2, <2>3, <2>4, <2>5, <1>2, <1>4, <1>5
  <1>7. new \in Seq(Timer)
    BY <1>4, SeqMonotonic
  <1>8. Ordered(new)
    BY <1>6, <1>7, Times DEF Ordered
  <1> QED
    BY <1>3, <1>4, <1>8

----------------------------------------------------------------------------
(* The inductive invariant: TypeOK and Sorted, and two facts they need, that *)
(* each timer is on its schedule and that ExecuteTimers works with a time    *)
(* that has been.                                                            *)
Timely == {t \in Timer : t.interval > 0 => Punctual(t)}

IInv == /\ PendingTimers \in Seq(Timely)
        /\ running \in Timely \cup {NoTimer}
        /\ now \in Int /\ clock \in Nat /\ hung \in BOOLEAN
        /\ now <= clock
        /\ Ordered(PendingTimers)

\* create_timer_ref returns a number.
LEMMA NextRefOK ==
    ASSUME PendingTimers \in Seq(Timer)
    PROVE  NextRef \in Nat
  <1> DEFINE refs == {PendingTimers[k].ref : k \in Pending}
  <1>1. Len(PendingTimers) \in Nat /\ \A k \in Pending : PendingTimers[k] \in Timer
    BY ElementOfSeq, LenProperties DEF Pending
  <1>2. refs \in SUBSET (0 .. MaxRef)
    BY <1>1 DEF Timer
  <1>3. CASE PendingTimers = <<>>
    BY <1>3 DEF NextRef
  <1>4. CASE PendingTimers # <<>>
    <2>1. refs # {}
      <3>1. Len(PendingTimers) \in Nat \ {0}
        BY <1>4, EmptySeq
      <3>2. 1 \in Pending
        BY <3>1 DEF Pending
      <3> QED
        BY <3>2
    <2> HIDE DEF refs
    <2>2. Max(refs) \in 0 .. MaxRef
      BY <2>1, <1>2, MaxOfRefs
    <2>3. NextRef = 1 + Max(refs)
      BY <1>4 DEF NextRef, refs
    <2> QED
      BY <2>2, <2>3, BoundsAssumption
  <1> QED
    BY <1>3, <1>4

\* A new timer is punctual.
LEMMA NewIsTimely ==
    ASSUME NEW ref \in 0 .. MaxRef, NEW when \in Waits, NEW events \in Int \ {0},
           events > 0 \/ events = -1, clock \in Nat
    PROVE  [ref |-> ref, time |-> Later(clock, when), interval |-> when, events |-> events,
            start |-> clock, total |-> events] \in Timely
  <1> DEFINE t == [ref |-> ref, time |-> Later(clock, when), interval |-> when,
                   events |-> events, start |-> clock,
                   total |-> events]
  <1>1. when \in Int \ {0} /\ Earliest \in Int /\ Earliest < 0
    BY WaitsAssumption, BoundsAssumption
  <1>2. Later(clock, when) \in Int
    BY <1>1 DEF Later
  <1>3. t \in Timer
    BY <1>1, <1>2 DEF Timer
  <1>4. ASSUME when > 0 PROVE Punctual(t)
    <2>1. t.time = clock + when
      BY <1>1, <1>4 DEF Later
    <2>2. CASE events > 0
      BY <2>1, <2>2, <1>1 DEF Punctual
    <2>3. CASE events = -1
      <3>1. (clock + when) - clock = when /\ when % when = 0
        BY <1>1, <1>4
      <3> QED
        BY <2>1, <2>3, <3>1, <1>1, <1>4 DEF Punctual
    <2> QED
      BY <2>2, <2>3
  <1> QED
    BY <1>3, <1>4 DEF Timely

\* A multiple of the wait and one more wait is the next multiple.
LEMMA NextMultiple ==
    ASSUME NEW a \in Nat, NEW n \in Nat \ {0}, a % n = 0
    PROVE  (a + n) % n = 0
  <1>1. a = n * (a \div n) + (a % n) /\ a \div n \in Int
    OBVIOUS
  <1>2. \A q \in Int : (n * q) % n = 0
    OBVIOUS
  <1>3. a + n = n * (a \div n + 1)
    BY <1>1
  <1> QED
    BY <1>1, <1>2, <1>3

\* A timer that is put back is punctual.
LEMMA RescheduledIsTimely ==
    ASSUME NEW t \in Timely, t.events # 1
    PROVE  [t EXCEPT !.events = IF @ < 0 THEN @ ELSE @ - 1,
                     !.time = Later(@, t.interval)] \in Timely
  <1> DEFINE u == [t EXCEPT !.events = IF @ < 0 THEN @ ELSE @ - 1,
                            !.time = Later(@, t.interval)]
  <1>1. /\ t.ref \in 0 .. MaxRef /\ t.time \in Int /\ t.interval \in Int \ {0}
        /\ t.events \in Int \ {0} /\ t.start \in Nat /\ t.total \in Int \ {0}
    BY DEF Timely, Timer
  <1>2. Earliest \in Int /\ Earliest < 0
    BY BoundsAssumption
  <1>3. Later(t.time, t.interval) \in Int
    BY <1>1, <1>2 DEF Later
  <1>4. (IF t.events < 0 THEN t.events ELSE t.events - 1) \in Int \ {0}
    BY <1>1
  <1>5. u \in Timer
    BY <1>3, <1>4 DEF Timely, Timer
  <1>6. ASSUME t.interval > 0 PROVE Punctual(u)
    <2>1. Punctual(t)
      BY <1>6 DEF Timely
    <2>2. u.interval = t.interval /\ u.start = t.start /\ u.total = t.total
          /\ u.events = (IF t.events < 0 THEN t.events ELSE t.events - 1)
          /\ u.time = Later(t.time, t.interval)
      BY DEF Timely, Timer
    <2>3. CASE t.total > 0
      <3>1. t.events \in 1 .. t.total /\ t.time = t.start + t.interval * (t.total - t.events + 1)
        BY <2>1, <2>3 DEF Punctual
      <3>2. \A a, b \in Nat : a * b \in Nat
        OBVIOUS
      <3>3. t.time >= 0
        <4>1. t.interval * (t.total - t.events + 1) \in Nat
          BY <3>1, <3>2, <1>1, <1>6
        <4> QED
          BY <4>1, <3>1, <1>1
      <3>4. u.time = t.time + t.interval
        BY <3>3, <2>2, <1>1, <1>2, <1>6 DEF Later
      <3>5. \A a, b \in Int : a * b + a = a * (b + 1)
        OBVIOUS
      <3>6. u.time = t.start + t.interval * ((t.total - t.events + 1) + 1)
        BY <3>1, <3>4, <3>5, <1>1
      <3>7. u.events = t.events - 1 /\ u.events \in 1 .. t.total
        BY <2>2, <3>1, <1>1
      <3>8. (t.total - t.events + 1) + 1 = t.total - u.events + 1
        BY <3>7, <1>1
      <3> QED
        BY <2>2, <2>3, <3>6, <3>7, <3>8 DEF Punctual
    <2>4. CASE ~(t.total > 0)
      <3>1. t.events = t.total /\ t.time > t.start /\ (t.time - t.start) % t.interval = 0
        BY <2>1, <2>4 DEF Punctual
      <3>2. u.time = t.time + t.interval
        BY <3>1, <2>2, <1>1, <1>2, <1>6 DEF Later
      <3>3. t.time - t.start \in Nat /\ t.interval \in Nat \ {0}
        BY <3>1, <1>1, <1>6
      <3>4. u.time - u.start = (t.time - t.start) + t.interval
        BY <2>2, <3>2, <1>1
      <3>5. (u.time - u.start) % u.interval = 0
        BY <3>1, <3>3, <3>4, <2>2, NextMultiple
      <3>6. u.events = t.events /\ u.time > u.start
        BY <2>2, <2>4, <3>1, <3>2, <1>1, <1>6
      <3> QED
        BY <2>2, <2>4, <3>1, <3>5, <3>6 DEF Punctual
    <2> QED
      BY <2>3, <2>4
  <1>7. u.interval = t.interval
    BY DEF Timely, Timer
  <1> HIDE DEF u
  <1>8. u \in Timely
    BY <1>5, <1>6, <1>7 DEF Timely
  <1> QED
    BY <1>8 DEF u

\* The timers of the list, one by one.
LEMMA ListFacts ==
    ASSUME IInv
    PROVE  /\ Timely \subseteq Timer /\ PendingTimers \in Seq(Timer)
           /\ Len(PendingTimers) \in Nat
           /\ \A k \in Pending : PendingTimers[k] \in Timely /\ PendingTimers[k].time \in Int
  <1>1. Timely \subseteq Timer
    BY DEF Timely
  <1>2. PendingTimers \in Seq(Timely)
    BY DEF IInv
  <1>3. PendingTimers \in Seq(Timer)
    BY <1>1, <1>2, SeqMonotonic
  <1>4. \A k \in Pending : PendingTimers[k] \in Timely
    BY <1>2, ElementOfSeq DEF Pending
  <1> QED
    BY <1>1, <1>3, <1>4, Times DEF Pending

(* Taking the first timer off the list, or any other.                       *)
LEMMA TailOrdered ==
    ASSUME NEW list \in Seq(Timely), Ordered(list), list # <<>>
    PROVE  Head(list) \in Timely /\ Tail(list) \in Seq(Timely) /\ Ordered(Tail(list))
  <1>1. Head(list) \in Timely /\ Tail(list) \in Seq(Timely)
        /\ Len(Tail(list)) = Len(list) - 1
        /\ \A i \in 1 .. Len(Tail(list)) : Tail(list)[i] = list[i + 1]
    BY HeadTailProperties
  <1>2. Len(list) \in Nat
    BY LenProperties
  <1> QED
    BY <1>1, <1>2 DEF Ordered

\* Taking any timer off leaves the others in order.
LEMMA RemovedOrdered ==
    ASSUME NEW list \in Seq(Timely), Ordered(list), NEW p \in 1 .. Len(list)
    PROVE  RemoveAt(list, p) \in Seq(Timely) /\ Ordered(RemoveAt(list, p))
  <1> DEFINE new == RemoveAt(list, p)
  <1>1. /\ new \in Seq(Timely) /\ Len(new) = Len(list) - 1
        /\ \A k \in 1 .. Len(list) - 1 : new[k] = IF k < p THEN list[k] ELSE list[k + 1]
    BY Removed
  <1>2. Len(list) \in Nat
    BY LenProperties
  <1> HIDE DEF new
  <1>3. \A k \in 1 .. Len(new) : \E m \in 1 .. Len(list) :
            m = (IF k < p THEN k ELSE k + 1) /\ new[k] = list[m]
    BY <1>1, <1>2
  <1>4. Ordered(new)
    <2> SUFFICES ASSUME NEW i \in 1 .. Len(new), NEW j \in 1 .. Len(new), i <= j
                 PROVE  new[i].time <= new[j].time
      BY DEF Ordered
    <2>1. PICK m \in 1 .. Len(list) :
              m = (IF i < p THEN i ELSE i + 1) /\ new[i] = list[m]
      BY <1>3
    <2>2. PICK o \in 1 .. Len(list) :
              o = (IF j < p THEN j ELSE j + 1) /\ new[j] = list[o]
      BY <1>3
    <2>3. m <= o
      BY <2>1, <2>2
    <2> QED
      BY <2>1, <2>2, <2>3 DEF Ordered
  <1> QED
    BY <1>1, <1>4 DEF new

\* The invariant holds of the empty list.
LEMMA InitIInv == Init => IInv
  <1> SUFFICES ASSUME Init PROVE IInv
    OBVIOUS
  <1>1. PendingTimers = <<>> /\ <<>> \in Seq(Timely) /\ Len(<<>>) = 0
    BY EmptySeq DEF Init
  <1>2. Ordered(PendingTimers)
    BY <1>1 DEF Ordered
  <1>3. now \in Int /\ clock \in Nat /\ now <= clock
    BY DEF Init, None
  <1>4. running = NoTimer /\ hung \in BOOLEAN
    BY DEF Init
  <1> QED
    BY <1>1, <1>2, <1>3, <1>4 DEF IInv

\* add_timer keeps it.
LEMMA AddKeeps ==
    ASSUME IInv, NEW ref \in Nat, NEW when \in Waits, NEW events \in Int \ {0},
           events > 0 \/ events = -1, AddTimer(ref, when, events)
    PROVE  IInv'
  <1> DEFINE t == [ref |-> ref, time |-> Later(clock, when), interval |-> when,
                   events |-> events, start |-> clock,
                   total |-> events]
  <1>1. t \in Timely
    <2>1. ref \in 0 .. MaxRef
      BY BoundsAssumption DEF AddTimer
    <2>2. clock \in Nat
      BY DEF IInv
    <2> QED
      BY <2>1, <2>2, NewIsTimely
  <1>2. PendingTimers' = Scheduled(PendingTimers, t)
    BY DEF AddTimer
  <1> HIDE DEF t
  <1>3. PendingTimers' \in Seq(Timely) /\ Ordered(PendingTimers')
    BY <1>1, <1>2, ListFacts, ScheduledOrdered DEF IInv
  <1> QED
    BY <1>3 DEF IInv, AddTimer, Ordered

\* Every action keeps it.
LEMMA NextIInv == IInv /\ [Next]_vars => IInv'
  <1> SUFFICES ASSUME IInv, [Next]_vars PROVE IInv'
    OBVIOUS
  <1>1. CASE \E want \in Wanted, when \in Waits : AddWanted(want, when)
    <2>1. PICK want \in Wanted, when \in Waits : AddTimer(want, when, 1)
      BY <1>1 DEF AddWanted
    <2>2. want \in Nat /\ 1 \in Int \ {0} /\ 1 > 0
      BY WantedAssumption
    <2> QED
      BY <2>1, <2>2, AddKeeps, Zenon
  <1>2. CASE \E when \in Waits, events \in Counts : AddUser(when, events)
    <2>1. PICK when \in Waits, events \in Counts : AddTimer(NextRef, when, events)
      BY <1>2 DEF AddUser
    <2>2. events \in Int \ {0} /\ (events > 0 \/ events = -1)
      BY CountsAssumption
    <2> QED
      BY <2>1, <2>2, AddKeeps, NextRefOK, ListFacts
  <1>4. CASE \E k \in Pending : DeleteTimer(PendingTimers[k].ref)
    <2>1. PICK r : DeleteTimer(r)
      BY <1>4
    <2> DEFINE same == {k \in Pending : PendingTimers[k].ref = r}
    <2>2. same \in SUBSET Nat /\ same # {} /\ same \subseteq Pending
      BY <2>1, ListFacts DEF DeleteTimer, Pending
    <2>3. PendingTimers' = RemoveAt(PendingTimers, Min(same))
      BY <2>1 DEF DeleteTimer
    <2> HIDE DEF same
    <2>4. Min(same) \in 1 .. Len(PendingTimers)
      BY <2>2, MinOfNaturals DEF Pending
    <2>5. PendingTimers' \in Seq(Timely) /\ Ordered(PendingTimers')
      BY <2>3, <2>4, RemovedOrdered DEF IInv
    <2> QED
      BY <2>1, <2>5 DEF IInv, DeleteTimer
  <1>5. CASE DeleteAllTimers
    <2>1. <<>> \in Seq(Timely) /\ Ordered(<<>>)
      BY EmptySeq DEF Ordered
    <2>2. hung' \in BOOLEAN
      BY <1>5 DEF DeleteAllTimers, IInv
    <2>3. PendingTimers' = <<>> \/ PendingTimers' = PendingTimers
      BY <1>5 DEF DeleteAllTimers
    <2>4. PendingTimers' \in Seq(Timely) /\ Ordered(PendingTimers')
      BY <2>1, <2>3 DEF IInv
    <2> QED
      BY <1>5, <2>2, <2>4 DEF IInv, DeleteAllTimers
  <1>6. CASE StartPass
    BY <1>6 DEF IInv, StartPass
  <1>7. CASE Fire
    <2>1. Head(PendingTimers) \in Timely /\ Tail(PendingTimers) \in Seq(Timely)
          /\ Ordered(Tail(PendingTimers))
      BY <1>7, TailOrdered DEF IInv, Fire, Due
    <2>2. PendingTimers' \in Seq(Timely) /\ Ordered(PendingTimers') /\ running' \in Timely
      BY <1>7, <2>1 DEF Fire
    <2> QED
      BY <1>7, <2>2 DEF IInv, Fire
  <1>8. CASE Reschedule
    <2> DEFINE u == [running EXCEPT !.events = IF @ < 0 THEN @ ELSE @ - 1,
                                    !.time = Later(@, running.interval)]
    <2>1. running \in Timely /\ running.events # 1
      BY <1>8 DEF IInv, Reschedule
    <2>2. u \in Timely
      BY <2>1, RescheduledIsTimely
    <2>3. PendingTimers' = Scheduled(PendingTimers, u)
      BY <1>8 DEF Reschedule
    <2> HIDE DEF u
    <2>4. PendingTimers' \in Seq(Timely) /\ Ordered(PendingTimers')
      BY <2>2, <2>3, ListFacts, ScheduledOrdered DEF IInv
    <2> QED
      BY <1>8, <2>4 DEF IInv, Reschedule
  <1>9. CASE Free
    BY <1>9 DEF IInv, Free
  <1>10. CASE EndPass
    BY <1>10 DEF IInv, EndPass, None
  <1>11. CASE Tick
    BY <1>11 DEF IInv, Tick
  <1>12. CASE UNCHANGED vars
    BY <1>12 DEF IInv, vars
  <1> QED
    BY <1>1, <1>2, <1>4, <1>5, <1>6, <1>7, <1>8, <1>9, <1>10, <1>11, <1>12
    DEF Next, ExecuteTimers

(* Every reachable list is a list of timers with an execution to come.      *)
THEOREM TypeCorrect == Spec => []TypeOK
  <1>1. IInv => TypeOK
    BY ListFacts DEF IInv, TypeOK
  <1> QED
    BY <1>1, InitIInv, NextIInv, PTL DEF Spec

(* schedule_timer and the rescheduling in ExecuteTimers keep the list in    *)
(* the order of the times.                                                  *)
THEOREM ListSorted == Spec => []Sorted
  <1>1. IInv => Sorted
    BY DEF IInv, Ordered, Sorted, Pending
  <1> QED
    BY <1>1, InitIInv, NextIInv, PTL DEF Spec

(* ExecuteTimers counts the next time from the last one that was due, so a  *)
(* repeating timer does not drift, however late its executions are.         *)
THEOREM OnSchedule == Spec => []OnTime
  <1>1. IInv => OnTime
    <2> SUFFICES ASSUME IInv PROVE OnTime
      OBVIOUS
    <2>1. \A k \in Pending : PendingTimers[k] \in Timely
      BY ListFacts
    <2>2. running \in Timely \cup {NoTimer}
      BY DEF IInv
    <2> QED
      BY <2>1, <2>2 DEF OnTime, Timely
  <1> QED
    BY <1>1, InitIInv, NextIInv, PTL DEF Spec

(* The timer ExecuteTimers runs is due, and no other was due before it.     *)
THEOREM EarliestRuns == Spec => EarliestFirst
  <1> DEFINE A == running = NoTimer /\ running' # NoTimer =>
                     /\ running'.time <= clock
                     /\ \A k \in Pending : running'.time <= PendingTimers[k].time
  <1>1. IInv /\ [Next]_vars => [A]_vars
    <2> SUFFICES ASSUME IInv, Next, running = NoTimer, running' # NoTimer
                 PROVE  /\ running'.time <= clock
                        /\ \A k \in Pending : running'.time <= PendingTimers[k].time
      OBVIOUS
    <2>1. Fire
      BY DEF Next, ExecuteTimers, AddWanted, AddUser, AddTimer, DeleteTimer,
             DeleteAllTimers, StartPass, Reschedule, Free, EndPass, Tick
    <2>2. running' = PendingTimers[1] /\ PendingTimers[1].time <= now /\ 1 \in Pending
      <3>1. Len(PendingTimers) \in Nat \ {0}
        BY <2>1, ListFacts, EmptySeq DEF Fire, Due
      <3>2. Head(PendingTimers) = PendingTimers[1]
        OBVIOUS
      <3> QED
        BY <2>1, <3>1, <3>2 DEF Fire, Due, Pending
    <2>3. running'.time <= clock
      BY <2>2, ListFacts DEF IInv
    <2>4. \A k \in Pending : PendingTimers[1].time <= PendingTimers[k].time
      BY <2>2, ListFacts DEF IInv, Ordered, Pending
    <2> QED
      BY <2>2, <2>3, <2>4
  <1>2. Spec => []IInv
    BY InitIInv, NextIInv, PTL DEF Spec
  <1> QED
    BY <1>1, <1>2, PTL DEF Spec, EarliestFirst
=============================================================================

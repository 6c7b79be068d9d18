---------------------------- MODULE QueueProofs -----------------------------
(***************************************************************************)
(* Proofs about module Queue, for every number of threads, every buffer    *)
(* size and every bound on the entries.                                    *)
(***************************************************************************)
EXTENDS Queue, SequenceTheorems, FiniteSetTheorems, TLAPS

\* A buffer_size of zero still leaves room for one entry (queue.rs:70).
LEMMA CapacityPositive == Capacity \in Nat /\ Capacity > 0
  BY SizeAssumption DEF Capacity

\* A queue that is full has an oldest entry, which is what pop_front takes.
LEMMA FullNonempty ==
  ASSUME items \in Seq(Entries), Full
  PROVE  /\ items # <<>>
         /\ Head(items) \in Entries /\ Tail(items) \in Seq(Entries)
         /\ Oldest = {Head(items)} /\ Younger = Tail(items)
  BY CapacityPositive DEF Full, Oldest, Younger

\* Reporting a total is typed whoever does it.
LEMMA ReportTyped ==
  ASSUME owed \in [Reporters -> Nat], reports \subseteq Nat \ {0},
         NEW t \in Reporters, Report(t)
  PROVE  owed' \in [Reporters -> Nat] /\ reports' \subseteq Nat \ {0}
  BY DEF Report

\* A step of the queue keeps every variable of its kind.
LEMMA TypeStep ==
  ASSUME TypeOK, [Next]_vars
  PROVE  TypeOK'
<1> USE DEF TypeOK, state, worker, outcome
<1>1. ASSUME NEW l \in Loggers, Push(l) PROVE TypeOK'
  <2> DEFINE n == logged + 1
  <2>1. n \in Entries /\ logged' = n /\ n \in 0 .. MaxLogged
    BY <1>1, SizeAssumption DEF Push, Entries
  <2>2. CASE Refuse(l, n)
    BY <1>1, <2>1, <2>2 DEF Push, Refuse, CountDrop, Reporters
  <2>3. CASE Evict(l, n)
    <3>1. /\ Oldest \subseteq Entries /\ Younger \in Seq(Entries)
          /\ items' = Append(Younger, n) /\ CountDrop(l, Oldest)
          /\ logger' = [logger EXCEPT ![l] = "notify"]
      BY <2>3, FullNonempty DEF Evict
    <3>2. items' \in Seq(Entries)
      <4> HIDE DEF n
      <4> QED BY <2>1, <3>1
    <3> HIDE DEF n
    <3> QED BY <1>1, <2>1, <3>1, <3>2 DEF Push, CountDrop, Reporters
  <2>4. CASE Admit(l, n)
    BY <1>1, <2>1, <2>4 DEF Push, Admit
  <2> QED BY <1>1, <2>2, <2>3, <2>4 DEF Push
<1>2. ASSUME NEW l \in Loggers, PushNotify(l) PROVE TypeOK'
  BY <1>2 DEF PushNotify, NotifyWork
<1>11. ASSUME NEW l \in Loggers, LogReport(l) PROVE TypeOK'
  BY <1>11, ReportTyped DEF LogReport, Reporters
<1>3. CASE PopWait \/ PopNothing \/ SleepWait \/ SleepReturn \/ WaitEnds
  BY <1>3 DEF PopWait, PopNothing, SleepWait, SleepReturn, WaitEnds, Return
<1>4. CASE PopItem
  BY <1>4 DEF PopItem, Return
<1>5. CASE Holding /\ Send
  BY <1>5 DEF Send, Holding
<1>12. CASE Holding /\ Discard
  BY <1>12 DEF Discard, Holding
<1>6. CASE Holding /\ PushFront
  <2>1. held \in Entries
    BY <1>6 DEF PushFront, Holding
  <2>2. CASE Full /\ CountDrop(Worker, {held}) /\ UNCHANGED items
    BY <1>6, <2>1, <2>2 DEF PushFront, CountDrop, Reporters
  <2>3. CASE items' = Requeued /\ UNCHANGED <<dropped, owed, lost>>
    <3>1. items' \in Seq(Entries)
      BY <2>1, <2>3 DEF Requeued
    <3> QED BY <1>6, <2>3, <3>1 DEF PushFront
  <2> QED BY <1>6, <2>2, <2>3 DEF PushFront
<1>7. CASE Finish
  BY <1>7 DEF Finish
<1>13. CASE FinishNotify
  BY <1>13 DEF FinishNotify, NotifyDrained
<1>14. CASE WorkerReport
  BY <1>14, ReportTyped DEF WorkerReport, Reporters
<1>8. ASSUME NEW f \in Flushers, Flush(f) PROVE TypeOK'
  <2>1. CASE FlushCall(f)
    <3>1. Pending \subseteq Entries
      BY DEF Pending, Hand, Range
    <3> QED BY <2>1, <3>1 DEF FlushCall
  <2>2. CASE FlushWaitEnds(f)
    BY <2>2 DEF FlushWaitEnds
  <2>3. CASE FlushWake(f)
    BY <2>3 DEF FlushWake
  <2> QED BY <1>8, <2>1, <2>2, <2>3 DEF Flush
<1>9. ASSUME NEW c \in Closers, Close(c) PROVE TypeOK'
  BY <1>9 DEF Close, Shutdown, ShutdownNotifyWork, ShutdownNotifyDrained,
       NotifyWork, NotifyDrained
<1>10. CASE UNCHANGED vars
  BY <1>10 DEF vars
<1> QED
  BY <1>1, <1>2, <1>3, <1>4, <1>5, <1>6, <1>7, <1>8, <1>9, <1>10,
     <1>11, <1>12, <1>13, <1>14
  DEF Next, Log, Work

\* The queue starts well typed.
LEMMA TypeInit == Init => TypeOK
<1> SUFFICES ASSUME Init PROVE TypeOK
  OBVIOUS
<1>1. items \in Seq(Entries) /\ sent \in Seq(Entries)
  BY DEF Init
<1>2. logged \in 0 .. MaxLogged /\ dropped \in Nat
  BY SizeAssumption DEF Init
<1> QED BY <1>1, <1>2 DEF Init, TypeOK

\* Every variable keeps its kind, and an entry is one that was logged.
THEOREM TypeCorrect == Spec => []TypeOK
  BY TypeInit, TypeStep, PTL DEF Spec
-----------------------------------------------------------------------------
(* Sequences of entries: what is in one, and in which order.               *)

\* Appending adds one element to what a sequence holds.
LEMMA RangeAppend ==
  ASSUME NEW s \in Seq(Nat), NEW n \in Nat
  PROVE  Range(Append(s, n)) = Range(s) \union {n}
<1>1. /\ DOMAIN Append(s, n) = 1 .. Len(s) + 1 /\ DOMAIN s = 1 .. Len(s)
      /\ \A i \in 1 .. Len(s) : Append(s, n)[i] = s[i]
      /\ Append(s, n)[Len(s) + 1] = n /\ Len(s) \in Nat
  OBVIOUS
<1>2. ASSUME NEW m \in Range(Append(s, n)) PROVE m \in Range(s) \union {n}
  BY <1>1, <1>2 DEF Range
<1>3. ASSUME NEW m \in Range(s) \union {n} PROVE m \in Range(Append(s, n))
  BY <1>1, <1>3 DEF Range
<1> QED BY <1>2, <1>3

\* So does putting one at the head, as push_front does.
LEMMA RangeCons ==
  ASSUME NEW s \in Seq(Nat), NEW n \in Nat
  PROVE  Range(<<n>> \o s) = Range(s) \union {n}
<1>1. /\ DOMAIN (<<n>> \o s) = 1 .. Len(s) + 1 /\ DOMAIN s = 1 .. Len(s)
      /\ \A i \in 1 .. Len(s) : (<<n>> \o s)[i + 1] = s[i]
      /\ (<<n>> \o s)[1] = n /\ Len(s) \in Nat
  OBVIOUS
<1>2. ASSUME NEW m \in Range(<<n>> \o s) PROVE m \in Range(s) \union {n}
  <2>1. PICK i \in 1 .. Len(s) + 1 : m = (<<n>> \o s)[i]
    BY <1>1, <1>2 DEF Range
  <2>2. CASE i = 1
    BY <1>1, <2>1, <2>2
  <2>3. CASE i # 1
    <3>1. i - 1 \in 1 .. Len(s) /\ m = s[i - 1]
      BY <1>1, <2>1, <2>3
    <3> QED BY <1>1, <3>1 DEF Range
  <2> QED BY <2>2, <2>3
<1>3. ASSUME NEW m \in Range(s) \union {n} PROVE m \in Range(<<n>> \o s)
  <2>1. CASE m = n
    BY <1>1, <2>1 DEF Range
  <2>2. CASE m \in Range(s)
    <3>1. PICK i \in 1 .. Len(s) : m = s[i]
      BY <1>1, <2>2 DEF Range
    <3>2. i + 1 \in 1 .. Len(s) + 1 /\ (<<n>> \o s)[i + 1] = m
      BY <1>1, <3>1
    <3> QED BY <1>1, <3>2 DEF Range
  <2> QED BY <1>3, <2>1, <2>2
<1> QED BY <1>2, <1>3

\* What is left when the head is taken from an ascending sequence: all the
\* rest, and nothing that is not above the head.
LEMMA RangeTail ==
  ASSUME NEW s \in Seq(Nat), s # <<>>, Ascending(s)
  PROVE  /\ Head(s) \in Nat /\ Tail(s) \in Seq(Nat)
         /\ Range(s) = Range(Tail(s)) \union {Head(s)}
         /\ \A m \in Range(Tail(s)) : Head(s) < m
         /\ Ascending(Tail(s))
<1>1. /\ Len(s) \in Nat /\ Len(s) >= 1 /\ DOMAIN s = 1 .. Len(s)
      /\ Head(s) = s[1] /\ Head(s) \in Nat /\ Tail(s) \in Seq(Nat)
      /\ Len(Tail(s)) = Len(s) - 1 /\ DOMAIN Tail(s) = 1 .. Len(s) - 1
      /\ \A i \in 1 .. Len(s) - 1 : Tail(s)[i] = s[i + 1]
  OBVIOUS
<1>2. ASSUME NEW m \in Range(s) PROVE m \in Range(Tail(s)) \union {Head(s)}
  <2>1. PICK i \in 1 .. Len(s) : m = s[i]
    BY <1>1, <1>2 DEF Range
  <2>2. CASE i # 1
    <3>1. i - 1 \in 1 .. Len(s) - 1 /\ Tail(s)[i - 1] = m
      BY <1>1, <2>1, <2>2
    <3> QED BY <1>1, <3>1 DEF Range
  <2> QED BY <1>1, <2>1, <2>2
<1>3. ASSUME NEW m \in Range(Tail(s)) PROVE m \in Range(s) /\ Head(s) < m
  <2>1. PICK i \in 1 .. Len(s) - 1 : m = Tail(s)[i]
    BY <1>1, <1>3 DEF Range
  <2>2. i + 1 \in DOMAIN s /\ m = s[i + 1] /\ 1 \in DOMAIN s /\ 1 < i + 1
    BY <1>1, <2>1
  <2> QED BY <1>1, <2>2 DEF Range, Ascending
<1>4. Head(s) \in Range(s)
  BY <1>1 DEF Range
<1>5. ASSUME NEW i \in DOMAIN Tail(s), NEW j \in DOMAIN Tail(s), i < j
      PROVE  Tail(s)[i] < Tail(s)[j]
  <2>1. i + 1 \in DOMAIN s /\ j + 1 \in DOMAIN s /\ i + 1 < j + 1
    BY <1>1, <1>5
  <2> QED BY <1>1, <2>1 DEF Ascending
<1> QED BY <1>1, <1>2, <1>3, <1>4, <1>5 DEF Ascending

\* An ascending sequence stays so when a larger element joins its end.
LEMMA AscendingAppend ==
  ASSUME NEW s \in Seq(Nat), NEW n \in Nat, Ascending(s),
         \A m \in Range(s) : m < n
  PROVE  Ascending(Append(s, n))
<1>1. /\ DOMAIN Append(s, n) = 1 .. Len(s) + 1 /\ DOMAIN s = 1 .. Len(s)
      /\ \A i \in 1 .. Len(s) : Append(s, n)[i] = s[i]
      /\ Append(s, n)[Len(s) + 1] = n /\ Len(s) \in Nat
  OBVIOUS
<1>2. \A i \in 1 .. Len(s) : s[i] < n
  BY <1>1 DEF Range
<1>3. SUFFICES ASSUME NEW i \in 1 .. Len(s) + 1, NEW j \in 1 .. Len(s) + 1, i < j
               PROVE  Append(s, n)[i] < Append(s, n)[j]
  BY <1>1 DEF Ascending
<1>4. CASE j = Len(s) + 1
  BY <1>1, <1>2, <1>3, <1>4
<1>5. CASE j # Len(s) + 1
  <2>1. i \in DOMAIN s /\ j \in DOMAIN s
    BY <1>1, <1>3, <1>5
  <2> QED BY <1>1, <1>3, <2>1 DEF Ascending
<1> QED BY <1>4, <1>5

\* An ascending sequence stays so when a smaller element joins its head.
LEMMA AscendingCons ==
  ASSUME NEW s \in Seq(Nat), NEW n \in Nat, Ascending(s),
         \A m \in Range(s) : n < m
  PROVE  Ascending(<<n>> \o s)
<1>1. /\ DOMAIN (<<n>> \o s) = 1 .. Len(s) + 1 /\ DOMAIN s = 1 .. Len(s)
      /\ \A i \in 2 .. Len(s) + 1 : (<<n>> \o s)[i] = s[i - 1]
      /\ (<<n>> \o s)[1] = n /\ Len(s) \in Nat
  OBVIOUS
<1>2. \A i \in 1 .. Len(s) : n < s[i]
  BY <1>1 DEF Range
<1>3. SUFFICES ASSUME NEW i \in 1 .. Len(s) + 1, NEW j \in 1 .. Len(s) + 1, i < j
               PROVE  (<<n>> \o s)[i] < (<<n>> \o s)[j]
  BY <1>1 DEF Ascending
<1>4. j - 1 \in DOMAIN s /\ (<<n>> \o s)[j] = s[j - 1]
  BY <1>1, <1>3
<1>5. CASE i = 1
  BY <1>1, <1>2, <1>4, <1>5
<1>6. CASE i # 1
  <2>1. i - 1 \in DOMAIN s /\ (<<n>> \o s)[i] = s[i - 1] /\ i - 1 < j - 1
    BY <1>1, <1>3, <1>6
  <2> QED BY <1>4, <2>1 DEF Ascending
<1> QED BY <1>5, <1>6
-----------------------------------------------------------------------------
(* The inductive invariant behind the safety properties of Queue.          *)

\* An entry in hand keeps the queue busy, and the worker is inside no call of
\* the queue while it is.
Control == (held # None => busy) /\ (call # "none" => ~busy)

\* OneFate, place by place.
Partition ==
  /\ Range(items) \union Hand \union Range(sent) \union discarded \union lost
       = 1 .. logged
  /\ Range(items) \intersect Hand = {} /\ Range(items) \intersect Range(sent) = {}
  /\ Range(items) \intersect discarded = {} /\ Range(items) \intersect lost = {}
  /\ Hand \intersect Range(sent) = {} /\ Hand \intersect discarded = {}
  /\ Hand \intersect lost = {} /\ Range(sent) \intersect discarded = {}
  /\ Range(sent) \intersect lost = {} /\ discarded \intersect lost = {}

\* The five disjointness facts, written out, are OneFate.
LEMMA PartitionIsOneFate == Partition <=> OneFate
<1> DEFINE F == Fates
<1>1. /\ DOMAIN F = 1 .. 5
      /\ F[1] = Range(items) /\ F[2] = Hand /\ F[3] = Range(sent)
      /\ F[4] = discarded /\ F[5] = lost
  BY DEF Fates
<1>2. 1 .. 5 = {1, 2, 3, 4, 5}
  OBVIOUS
<1>3. Range(F) = {Range(items), Hand, Range(sent), discarded, lost}
  BY <1>1, <1>2 DEF Range
<1>4. UNION Range(F)
        = Range(items) \union Hand \union Range(sent) \union discarded \union lost
  BY <1>3
<1>5. ASSUME Partition PROVE OneFate
  <2>1. ASSUME NEW i \in 1 .. 5, NEW j \in 1 .. 5, i # j
        PROVE  F[i] \intersect F[j] = {}
    BY <1>1, <1>2, <1>5, <2>1 DEF Partition
  <2> QED BY <1>1, <1>4, <1>5, <2>1 DEF OneFate, Partition
<1>6. ASSUME OneFate PROVE Partition
  <2>1. \A i, j \in 1 .. 5 : i # j => F[i] \intersect F[j] = {}
    BY <1>1, <1>6 DEF OneFate
  <2>2. /\ F[1] \intersect F[2] = {} /\ F[1] \intersect F[3] = {}
        /\ F[1] \intersect F[4] = {} /\ F[1] \intersect F[5] = {}
        /\ F[2] \intersect F[3] = {} /\ F[2] \intersect F[4] = {}
        /\ F[2] \intersect F[5] = {} /\ F[3] \intersect F[4] = {}
        /\ F[3] \intersect F[5] = {} /\ F[4] \intersect F[5] = {}
    BY <2>1
  <2> QED BY <1>1, <1>4, <1>6, <2>2 DEF OneFate, Partition
<1> QED BY <1>5, <1>6

Placed == Partition /\ InOrder

\* Entries are numbers, and so the queue and what was sent are sequences of them.
LEMMA EntriesAreNumbers ==
  ASSUME TypeOK
  PROVE  /\ items \in Seq(Nat) /\ sent \in Seq(Nat)
         /\ held \in Nat /\ logged \in Nat /\ Range(sent) \subseteq Nat
<1>1. Entries \subseteq Nat
  BY DEF Entries
<1>2. items \in Seq(Nat) /\ sent \in Seq(Nat)
  BY <1>1, SeqMonotonic DEF TypeOK
<1>3. Range(sent) \subseteq Nat
  BY <1>2 DEF Range
<1>4. held \in Nat
  BY <1>1 DEF TypeOK, None
<1>5. logged \in Nat
  BY DEF TypeOK
<1> QED BY <1>2, <1>3, <1>4, <1>5

\* A step that moves no entry.
LEMMA NothingMoved ==
  ASSUME Placed, UNCHANGED <<items, held, sent, discarded, lost, logged>>
  PROVE  Placed'
  BY DEF Placed, Partition, InOrder, Hand, Ascending

\* An entry enters at the end, and room is made for it at the front.
LEMMA PushPlaces ==
  ASSUME TypeOK, Placed, NEW l \in Loggers, Push(l)
  PROVE  Placed'
<1> DEFINE n == logged + 1
<1>1. /\ items \in Seq(Nat) /\ n \in Nat /\ logged' = n
      /\ UNCHANGED <<held, sent, discarded>> /\ Hand' = Hand
      /\ held \in Nat /\ logged \in Nat /\ Range(sent) \subseteq Nat
      /\ 1 .. n = 1 .. logged \union {n} /\ n \notin 1 .. logged
  <2>1. logged' = n /\ UNCHANGED <<held, sent, discarded>> /\ Hand' = Hand
    BY DEF Push, worker, Hand
  <2>2. 1 .. n = 1 .. logged \union {n} /\ n \notin 1 .. logged /\ n \in Nat
    BY EntriesAreNumbers
  <2> QED BY <2>1, <2>2, EntriesAreNumbers
<1>2. /\ \A m \in Range(items) \union Range(sent) \union Hand : m \in 1 .. logged
      /\ discarded \subseteq 1 .. logged /\ lost \subseteq 1 .. logged
  BY DEF Placed, Partition
<1>3. CASE Refuse(l, n)
  <2>1. items' = items /\ lost' = lost \union {n}
    BY <1>3 DEF Refuse, CountDrop
  <2>2. Partition'
    BY <1>1, <1>2, <2>1 DEF Placed, Partition
  <2>3. InOrder'
    BY <1>1, <2>1 DEF Placed, InOrder, Ascending
  <2> QED BY <2>2, <2>3 DEF Placed
<1>4. CASE Evict(l, n)
  <2> DEFINE h == Head(items)
             t == Tail(items)
  <2>1. items' = Append(t, n) /\ lost' = lost \union {h} /\ items # <<>>
    BY <1>1, <1>4, FullNonempty DEF Evict, CountDrop, TypeOK
  <2>2. /\ h \in Nat /\ t \in Seq(Nat) /\ Ascending(t)
        /\ Range(items) = Range(t) \union {h} /\ \A m \in Range(t) : h < m
    BY <1>1, <2>1, RangeTail DEF Placed, InOrder
  <2>3. Range(items') = Range(t) \union {n}
    BY <1>1, <2>1, <2>2, RangeAppend
  <2>4. h \notin Range(t) /\ Range(t) \subseteq 1 .. logged /\ h \in 1 .. logged
    BY <1>2, <2>2
  <2>5. Partition'
    <3>1. /\ Range(items) = Range(t) \union {h} /\ h \notin Range(t)
          /\ Range(items)' = Range(t) \union {n} /\ lost' = lost \union {h}
      BY <2>1, <2>2, <2>3, <2>4
    <3> HIDE DEF h, t, n
    <3> QED BY <1>1, <1>2, <3>1 DEF Placed, Partition
  <2>6. Ascending(items')
    <3>1. \A m \in Range(t) : m < n
      BY <1>1, <2>4
    <3> QED BY <1>1, <2>1, <2>2, <3>1, AscendingAppend
  <2>7. InOrder'
    <3>1. \A m \in Range(sent) \union Hand : m < n
      BY <1>1, <1>2
    <3> HIDE DEF h, t, n
    <3> QED BY <1>1, <2>2, <2>3, <2>6, <3>1 DEF Placed, InOrder, Hand
  <2> QED BY <2>5, <2>7 DEF Placed
<1>5. CASE Admit(l, n)
  <2>1. items' = Append(items, n) /\ lost' = lost
    BY <1>5 DEF Admit
  <2>2. Range(items)' = Range(items) \union {n}
    BY <1>1, <2>1, RangeAppend
  <2>3. Partition'
    BY <1>1, <1>2, <2>1, <2>2 DEF Placed, Partition
  <2>4. \A m \in Range(items) \union Range(sent) \union Hand : m < n
    BY <1>1, <1>2
  <2>5. Ascending(items')
    BY <1>1, <2>1, <2>4, AscendingAppend DEF Placed, InOrder
  <2>6. InOrder'
    BY <1>1, <2>2, <2>4, <2>5 DEF Placed, InOrder, Hand
  <2> QED BY <2>3, <2>6 DEF Placed
<1> QED BY <1>3, <1>4, <1>5 DEF Push

\* The worker takes the oldest entry into an empty hand.
LEMMA PopPlaces ==
  ASSUME TypeOK, Placed, MayCall, PopItem
  PROVE  Placed'
<1> DEFINE h == Head(items)
           t == Tail(items)
<1>1. /\ held = None /\ Hand = {}
  BY DEF MayCall, Hand
<1>2. /\ items \in Seq(Nat) /\ items # <<>> /\ held' = h /\ items' = t
      /\ UNCHANGED <<sent, discarded, lost, logged>>
  BY EntriesAreNumbers DEF PopItem, outcome
<1>3. /\ Range(items) = Range(t) \union {h} /\ \A m \in Range(t) : h < m
      /\ Ascending(t) /\ h \in Nat /\ t \in Seq(Nat)
  BY <1>2, RangeTail DEF Placed, InOrder
<1>4. h # None /\ Hand' = {h} /\ h \notin Range(t)
  BY <1>2, <1>3 DEF Placed, Partition, Hand, None
<1>5. Partition'
  <2> HIDE DEF h, t
  <2> QED BY <1>1, <1>2, <1>3, <1>4 DEF Placed, Partition
<1>6. InOrder'
  <2> HIDE DEF h, t
  <2> QED BY <1>2, <1>3, <1>4 DEF Placed, InOrder
<1> QED BY <1>5, <1>6 DEF Placed

\* The entry in hand goes on the wire, is discarded, or goes back.
LEMMA HandPlaces ==
  ASSUME TypeOK, Placed, Holding, Send \/ Discard \/ PushFront
  PROVE  Placed'
<1>1. /\ held \in Nat /\ held # None /\ Hand = {held} /\ held' = None
      /\ Hand' = {} /\ items \in Seq(Nat) /\ sent \in Seq(Nat) /\ logged' = logged
  BY EntriesAreNumbers DEF Send, Discard, PushFront, Hand, Holding
<1>2. /\ \A m \in Range(sent) : m < held
      /\ \A m \in Range(items) : held < m
      /\ Ascending(items) /\ Ascending(sent)
      /\ \A m \in Range(sent), k \in Range(items) : m < k
  BY <1>1 DEF Placed, InOrder
<1>3. CASE Send
  <2>1. sent' = Append(sent, held) /\ UNCHANGED <<items, discarded, lost>>
    BY <1>3 DEF Send, state
  <2>2. Range(sent)' = Range(sent) \union {held} /\ Ascending(sent')
    BY <1>1, <1>2, <2>1, RangeAppend, AscendingAppend
  <2>3. Partition'
    BY <1>1, <2>1, <2>2 DEF Placed, Partition
  <2>4. InOrder'
    BY <1>1, <1>2, <2>1, <2>2 DEF InOrder
  <2> QED BY <2>3, <2>4 DEF Placed
<1>4. CASE Discard
  <2>1. discarded' = discarded \union {held} /\ UNCHANGED <<items, sent, lost>>
    BY <1>4 DEF Discard, state
  <2>2. Partition'
    BY <1>1, <2>1 DEF Placed, Partition
  <2>3. InOrder'
    BY <1>1, <1>2, <2>1 DEF InOrder
  <2> QED BY <2>2, <2>3 DEF Placed
<1>5. CASE PushFront
  <2>1. UNCHANGED <<sent, discarded>>
    BY <1>5 DEF PushFront
  <2>2. CASE items' = items /\ lost' = lost \union {held}
    <3>1. Partition'
      BY <1>1, <2>1, <2>2 DEF Placed, Partition
    <3>2. InOrder'
      BY <1>1, <1>2, <2>1, <2>2 DEF InOrder
    <3> QED BY <3>1, <3>2 DEF Placed
  <2>3. CASE items' = <<held>> \o items /\ lost' = lost
    <3>1. Range(items)' = Range(items) \union {held} /\ Ascending(items')
      BY <1>1, <1>2, <2>3, RangeCons, AscendingCons
    <3>2. Partition'
      BY <1>1, <2>1, <2>3, <3>1 DEF Placed, Partition
    <3>3. InOrder'
      BY <1>1, <1>2, <2>1, <2>3, <3>1 DEF InOrder
    <3> QED BY <3>2, <3>3 DEF Placed
  <2> QED BY <1>5, <2>2, <2>3 DEF PushFront, CountDrop, Requeued
<1> QED BY <1>3, <1>4, <1>5
\* The actions that move no entry.
LEMMA QuietSteps ==
  ASSUME TypeOK, Control, Next,
         \A l \in Loggers : ~Push(l), ~(MayCall /\ PopItem),
         ~(Holding /\ (Send \/ Discard \/ PushFront))
  PROVE  /\ UNCHANGED <<items, held, sent, discarded, lost, logged>>
         /\ Control'
<1> USE DEF state, worker, outcome, Control
<1>1. ASSUME NEW l \in Loggers, PushNotify(l) \/ LogReport(l)
      PROVE  UNCHANGED <<items, held, sent, discarded, lost, logged>> /\ Control'
  BY <1>1 DEF PushNotify, LogReport
<1>2. ASSUME NEW f \in Flushers, Flush(f)
      PROVE  UNCHANGED <<items, held, sent, discarded, lost, logged>> /\ Control'
  BY <1>2 DEF Flush, FlushCall, FlushWaitEnds, FlushWake
<1>3. ASSUME NEW c \in Closers, Close(c)
      PROVE  UNCHANGED <<items, held, sent, discarded, lost, logged>> /\ Control'
  BY <1>3 DEF Close, Shutdown, ShutdownNotifyWork, ShutdownNotifyDrained
<1>4. ASSUME \/ MayCall /\ (PopWait \/ PopNothing \/ SleepWait \/ SleepReturn)
             \/ WaitEnds
      PROVE  UNCHANGED <<items, held, sent, discarded, lost, logged>> /\ Control'
  BY <1>4 DEF PopWait, PopNothing, SleepWait, SleepReturn, WaitEnds, Return,
       MayCall
<1>5. ASSUME (MustFinish /\ Finish) \/ FinishNotify \/ WorkerReport
      PROVE  UNCHANGED <<items, held, sent, discarded, lost, logged>> /\ Control'
  BY <1>5 DEF Finish, FinishNotify, WorkerReport, MustFinish
<1> QED BY <1>1, <1>2, <1>3, <1>4, <1>5 DEF Next, Log, Work

\* Every step keeps the agreement of busy, hand and call.
LEMMA ControlStep ==
  ASSUME TypeOK, Control, [Next]_vars
  PROVE  Control'
<1>1. ASSUME NEW l \in Loggers, Push(l) PROVE Control'
  BY <1>1 DEF Push, worker, Control
<1>2. CASE PopItem \/ (Holding /\ (Send \/ Discard \/ PushFront))
  BY <1>2 DEF PopItem, Send, Discard, PushFront, Return, Holding, state, Control
<1>3. CASE UNCHANGED vars
  BY <1>3 DEF vars, state, worker, Control
<1> QED BY <1>1, <1>2, <1>3, QuietSteps

\* Every step keeps each entry in one place and in order.
LEMMA PlacedStep ==
  ASSUME TypeOK, Control, Placed, [Next]_vars
  PROVE  Placed'
<1>1. CASE UNCHANGED vars
  BY <1>1, NothingMoved DEF vars, state, worker, outcome
<1> QED BY <1>1, PushPlaces, PopPlaces, HandPlaces, QuietSteps, NothingMoved

SafeInv == TypeOK /\ Control /\ Placed

\* The inductive invariant of the queue holds throughout.
LEMMA SafeInvHolds == Spec => []SafeInv
<1>1. Init => SafeInv
  <2> SUFFICES ASSUME Init PROVE Control /\ Placed
    BY TypeInit DEF SafeInv
  <2>1. Range(items) = {} /\ Range(sent) = {} /\ Hand = {}
    BY DEF Init, Range, Hand
  <2>2. Partition
    BY <2>1 DEF Init, Partition
  <2>3. InOrder
    BY <2>1 DEF Init, InOrder, Ascending
  <2> QED BY <2>2, <2>3 DEF Init, Control, Placed
<1>2. SafeInv /\ [Next]_vars => SafeInv'
  BY TypeStep, ControlStep, PlacedStep DEF SafeInv
<1> QED BY <1>1, <1>2, PTL DEF Spec

\* Entries reach the connection in the order in which they were logged, and
\* none twice, whatever failed, was evicted or was put back on the way.
THEOREM OrderKept == Spec => []InOrder
<1>1. SafeInv => InOrder
  BY DEF SafeInv, Placed
<1> QED BY <1>1, SafeInvHolds, PTL

\* Every entry that was logged is in exactly one place: queued, in hand,
\* written, reported unsendable or counted as dropped.
THEOREM NothingVanishes == Spec => []OneFate
<1>1. SafeInv => OneFate
  BY PartitionIsOneFate DEF SafeInv, Placed
<1> QED BY <1>1, SafeInvHolds, PTL
-----------------------------------------------------------------------------
(* What else follows: capacity, drops, the backlog at close, flush.        *)

\* No step takes the queue over its capacity: push makes room, push_front gives up.
LEMMA CapacityStep ==
  ASSUME TypeOK, Control, WithinCapacity, [Next]_vars
  PROVE  WithinCapacity'
<1> USE CapacityPositive DEF WithinCapacity, TypeOK
<1>1. ASSUME NEW l \in Loggers, Push(l) PROVE WithinCapacity'
  <2> DEFINE n == logged + 1
  <2>1. n \in Entries
    <3>1. n \in Nat /\ 1 <= n /\ n <= MaxLogged
      BY <1>1, SizeAssumption DEF Push
    <3> QED BY <3>1 DEF Entries
  <2>2. CASE Refuse(l, n)
    BY <2>2 DEF Refuse
  <2>3. CASE Evict(l, n)
    <3>1. /\ items' = Append(Tail(items), n) /\ Tail(items) \in Seq(Entries)
          /\ Len(Tail(items)) = Len(items) - 1
      BY <2>3, FullNonempty DEF Evict
    <3>2. Len(items') = Len(Tail(items)) + 1
      BY <2>1, <3>1
    <3> QED BY <3>1, <3>2
  <2>4. CASE Admit(l, n)
    BY <2>1, <2>4 DEF Admit, Full
  <2> QED BY <1>1, <2>2, <2>3, <2>4 DEF Push
<1>2. CASE PopItem
  BY <1>2 DEF PopItem
<1>3. CASE Send \/ Discard
  BY <1>3 DEF Send, Discard, state
<1>4. CASE Holding /\ PushFront
  <2>1. CASE items' = items
    BY <2>1
  <2>2. CASE items' = <<held>> \o items /\ ~Full
    <3>1. Len(items') = Len(items) + 1
      BY <1>4, <2>2 DEF PushFront, Holding
    <3> QED BY <2>2, <3>1 DEF Full
  <2> QED BY <1>4, <2>1, <2>2 DEF PushFront, Requeued
<1>5. CASE UNCHANGED vars
  BY <1>5 DEF vars, state
<1> QED BY <1>1, <1>2, <1>3, <1>4, <1>5, QuietSteps

\* The queue never holds more than its capacity, also when a failed write puts
\* an entry back while logging threads refill it.
THEOREM CapacityKept == Spec => []WithinCapacity
<1>1. Init => WithinCapacity
  BY CapacityPositive DEF Init, WithinCapacity
<1>2. SafeInv /\ WithinCapacity /\ [Next]_vars => WithinCapacity'
  BY CapacityStep DEF SafeInv
<1> QED BY <1>1, <1>2, SafeInvHolds, PTL DEF Spec

\* How a step may change what is pending.
LEMMA PendingStep ==
  ASSUME SafeInv, [Next]_vars
  PROVE  \/ Pending' \subseteq Pending
         \/ ~shutdown
<1>1. ASSUME NEW l \in Loggers, Push(l), shutdown PROVE Pending' \subseteq Pending
  BY <1>1 DEF Push, Refuse, Evict, Admit, worker, Pending, Hand
<1>2. CASE MayCall /\ PopItem
  <2>1. items \in Seq(Nat) /\ items # <<>> /\ Ascending(items)
    BY <1>2, EntriesAreNumbers DEF SafeInv, Placed, InOrder, PopItem
  <2>2. Range(items) = Range(Tail(items)) \union {Head(items)}
    BY <2>1, RangeTail
  <2> QED BY <1>2, <2>2 DEF PopItem, Pending, Hand
<1>3. CASE Send \/ Discard
  BY <1>3 DEF Send, Discard, state, Pending, Hand
<1>4. CASE Holding /\ PushFront
  <2>1. /\ items \in Seq(Nat) /\ held \in Nat /\ held # None
        /\ held' = None /\ (items' = items \/ items' = <<held>> \o items)
    BY <1>4, EntriesAreNumbers DEF SafeInv, PushFront, Requeued, Holding
  <2>2. Range(<<held>> \o items) = Range(items) \union {held}
    BY <2>1, RangeCons
  <2> QED BY <1>4, <2>1, <2>2 DEF PushFront, Pending, Hand
<1>5. CASE UNCHANGED vars
  BY <1>5 DEF vars, state, worker, Pending, Hand
<1>6. CASE UNCHANGED <<items, held>>
  BY <1>6 DEF Pending, Hand
<1> QED BY <1>1, <1>2, <1>3, <1>4, <1>5, <1>6, QuietSteps DEF SafeInv

\* After shutdown the backlog only shrinks, however much is logged since.
THEOREM BacklogShrinks == Spec => BacklogOnlyShrinks
<1>1. SafeInv /\ [Next]_vars => [shutdown => Pending' \subseteq Pending]_vars
  BY PendingStep
<1> QED BY <1>1, SafeInvHolds, PTL DEF Spec, BacklogOnlyShrinks

\* A step drops nothing but the oldest entry or one that came after shutdown.
LEMMA DropStep ==
  ASSUME SafeInv, [Next]_vars, NEW n \in lost' \ lost
  PROVE  IF n > logged THEN shutdown ELSE \A m \in Range(items') : n < m
<1>1. /\ items \in Seq(Nat) /\ held \in Nat /\ logged \in Nat
      /\ Ascending(items) /\ \A m \in Range(items) : m \in 1 .. logged
  BY EntriesAreNumbers DEF SafeInv, Placed, InOrder, Partition
<1>2. ASSUME NEW l \in Loggers, Push(l)
      PROVE  IF n > logged THEN shutdown ELSE \A m \in Range(items') : n < m
  <2> DEFINE k == logged + 1
  <2>1. CASE Refuse(l, k)
    BY <1>1, <2>1 DEF Refuse, CountDrop
  <2>2. CASE Evict(l, k)
    <3>1. items # <<>> /\ items' = Append(Tail(items), k) /\ n = Head(items)
      BY <2>2, FullNonempty DEF Evict, CountDrop, SafeInv, TypeOK
    <3>2. /\ Tail(items) \in Seq(Nat) /\ \A m \in Range(Tail(items)) : n < m
          /\ n \in Range(items)
      BY <1>1, <3>1, RangeTail
    <3>3. Range(items') = Range(Tail(items)) \union {k}
      <4>1. k \in Nat
        BY <1>1
      <4> HIDE DEF k
      <4> QED BY <3>1, <3>2, <4>1, RangeAppend
    <3>4. n \in 1 .. logged
      BY <1>1, <3>2
    <3>5. n < k /\ ~(n > logged)
      BY <1>1, <3>4
    <3>6. \A m \in Range(items') : n < m
      <4> HIDE DEF k
      <4> QED BY <3>2, <3>3, <3>5
    <3> QED BY <3>5, <3>6
  <2>3. CASE Admit(l, k)
    BY <2>3 DEF Admit
  <2> QED BY <1>2, <2>1, <2>2, <2>3 DEF Push
<1>3. CASE Holding /\ PushFront
  <2>1. n = held /\ items' = items /\ held # None
    BY <1>3 DEF PushFront, CountDrop, Holding
  <2>2. n \in 1 .. logged /\ \A m \in Range(items) : n < m
    BY <2>1 DEF SafeInv, Placed, InOrder, Partition, Hand
  <2> QED BY <1>1, <2>1, <2>2
<1>4. lost' = lost \/ (Holding /\ PushFront) \/ \E l \in Loggers : Push(l)
  <2>1. PopItem \/ Send \/ Discard => lost' = lost
    BY DEF PopItem, Send, Discard, outcome
  <2>2. UNCHANGED vars => lost' = lost
    BY DEF vars, outcome
  <2> QED BY <2>1, <2>2, QuietSteps DEF SafeInv
<1> QED BY <1>2, <1>3, <1>4

\* Only the oldest entry is dropped, unless it is one that arrives after
\* shutdown.
THEOREM OldestDropped == Spec => DropsOldest
<1>1. SafeInv /\ [Next]_vars =>
        [\A n \in lost' \ lost :
           IF n > logged THEN shutdown ELSE \A m \in Range(items') : n < m]_vars
  BY DropStep
<1> QED BY <1>1, SafeInvHolds, PTL DEF Spec, DropsOldest

Settled == Range(sent) \union discarded \union lost

\* What was written, discarded or dropped stays so, and the count of the logged
\* never falls.
LEMMA SettledGrows ==
  ASSUME SafeInv, [Next]_vars
  PROVE  Settled \subseteq Settled' /\ 1 .. logged \subseteq 1 .. logged'
<1>1. sent \in Seq(Nat) /\ held \in Nat /\ logged \in Nat
  BY EntriesAreNumbers DEF SafeInv
<1>2. ASSUME NEW l \in Loggers, Push(l)
      PROVE  Settled \subseteq Settled' /\ 1 .. logged \subseteq 1 .. logged'
  <2>1. sent' = sent /\ discarded' = discarded /\ lost \subseteq lost'
    BY <1>2 DEF Push, Refuse, Evict, Admit, CountDrop
  <2>2. 1 .. logged \subseteq 1 .. logged'
    BY <1>1, <1>2 DEF Push
  <2> QED BY <2>1, <2>2 DEF Settled
<1>3. CASE Send
  <2>1. Range(Append(sent, held)) = Range(sent) \union {held}
    BY <1>1, RangeAppend
  <2> QED BY <1>3, <2>1 DEF Send, Settled
<1>4. CASE Discard \/ PushFront
  BY <1>4 DEF Discard, PushFront, CountDrop, Settled
<1>5. CASE PopItem \/ UNCHANGED vars
  BY <1>5 DEF PopItem, outcome, vars, Settled
<1>6. CASE UNCHANGED <<sent, discarded, lost, logged>>
  BY <1>6 DEF Settled
<1> QED BY <1>2, <1>3, <1>4, <1>5, <1>6, QuietSteps DEF SafeInv

Marks == \A f \in Flushers : mark[f] \subseteq 1 .. logged

FlushInv == Marks /\ FlushSound

\* Where there is nothing queued and nothing in hand, all is settled.
LEMMA DrainedIsSettled ==
  ASSUME SafeInv, Drained
  PROVE  1 .. logged = Settled
<1>1. Range(items) = {} /\ Hand = {}
  BY DEF Drained, SafeInv, Control, Range, Hand
<1> QED BY <1>1 DEF SafeInv, Placed, Partition, Settled

\* Every step keeps what a finished flush was promised.
LEMMA FlushStep ==
  ASSUME SafeInv, FlushInv, [Next]_vars
  PROVE  FlushInv'
<1>1. /\ \A f \in Flushers : mark[f] \subseteq 1 .. logged'
      /\ \A f \in Flushers : flusher[f] = "drained" => mark[f] \subseteq Settled'
  BY SettledGrows DEF FlushInv, Marks, FlushSound, Settled
<1>2. /\ mark \in [Flushers -> SUBSET Entries]
      /\ flusher \in [Flushers -> {"idle", "waiting", "notified", "timeout",
                                   "drained", "undrained"}]
  BY DEF SafeInv, TypeOK
<1>3. ASSUME mark' = mark,
             \A f \in Flushers : flusher'[f] = "drained" => flusher[f] = "drained"
      PROVE  FlushInv'
  BY <1>1, <1>3 DEF FlushInv, Marks, FlushSound, Settled
<1>4. ASSUME NEW g \in Flushers, FlushCall(g) PROVE FlushInv'
  <2>1. /\ logged' = logged /\ Settled' = Settled
        /\ mark' = [mark EXCEPT ![g] = Pending]
        /\ flusher' = [flusher EXCEPT ![g] = IF Drained THEN "drained" ELSE "waiting"]
    BY <1>4 DEF FlushCall, outcome, Settled
  <2>2. Pending \subseteq 1 .. logged
    BY DEF SafeInv, Placed, Partition, Pending
  <2>3. Drained => Pending \subseteq Settled
    BY <2>2, DrainedIsSettled
  <2>4. Marks'
    BY <1>1, <1>2, <2>1, <2>2 DEF Marks
  <2>5. ASSUME NEW f \in Flushers, flusher'[f] = "drained"
        PROVE  mark'[f] \subseteq Settled'
    BY <1>1, <1>2, <2>1, <2>3, <2>5
  <2> QED BY <2>4, <2>5 DEF FlushInv, FlushSound, Settled
<1>5. ASSUME NEW g \in Flushers, FlushWake(g) PROVE FlushInv'
  <2>1. /\ logged' = logged /\ Settled' = Settled /\ mark' = mark
        /\ \A f \in Flushers \ {g} : flusher'[f] = flusher[f]
        /\ flusher'[g] = "drained" => Drained
    BY <1>2, <1>5 DEF FlushWake, outcome, Settled
  <2>2. Drained => mark[g] \subseteq Settled
    BY DrainedIsSettled DEF FlushInv, Marks
  <2>3. Marks'
    BY <1>1, <2>1 DEF Marks
  <2>4. ASSUME NEW f \in Flushers, flusher'[f] = "drained"
        PROVE  mark'[f] \subseteq Settled'
    BY <1>1, <2>1, <2>2, <2>4
  <2> QED BY <2>3, <2>4 DEF FlushInv, FlushSound, Settled
<1>6. ASSUME NEW g \in Flushers, FlushWaitEnds(g) PROVE FlushInv'
  BY <1>2, <1>3, <1>6 DEF FlushWaitEnds
<1>7. ASSUME NEW l \in Loggers, Log(l) PROVE FlushInv'
  BY <1>3, <1>7 DEF Log, Push, PushNotify, LogReport
<1>8. CASE FinishNotify
  BY <1>2, <1>3, <1>8 DEF FinishNotify, NotifyDrained
<1>9. CASE Work /\ ~FinishNotify
  BY <1>3, <1>9 DEF Work, PopWait, PopItem, PopNothing, SleepWait, SleepReturn,
       WaitEnds, Send, Discard, PushFront, Finish, WorkerReport
<1>10. ASSUME NEW c \in Closers, Close(c) PROVE FlushInv'
  BY <1>2, <1>3, <1>10 DEF Close, Shutdown, ShutdownNotifyWork,
       ShutdownNotifyDrained, NotifyDrained
<1>11. CASE UNCHANGED vars
  BY <1>3, <1>11 DEF vars
<1> QED
  BY <1>4, <1>5, <1>6, <1>7, <1>8, <1>9, <1>10, <1>11 DEF Next, Flush

\* A flush that answers true left nothing behind of what was queued or in hand
\* when it began.
THEOREM FlushIsSound == Spec => []FlushSound
<1>1. Init => FlushInv
  BY DEF Init, FlushInv, Marks, FlushSound
<1>2. SafeInv /\ FlushInv /\ [Next]_vars => FlushInv'
  BY FlushStep
<1>3. FlushInv => FlushSound
  BY DEF FlushInv
<1> QED BY <1>1, <1>2, <1>3, SafeInvHolds, PTL DEF Spec
-----------------------------------------------------------------------------
(* Every drop is counted, and its total reported once.                     *)

\* A thread owes no report when it is about to have one more to make.
Owing ==
  /\ \A l \in Loggers : logger[l] = "idle" => owed[l] = 0
  /\ held # None \/ call \in {"pop", "sleep"} => owed[Worker] = 0

\* DropsReported, with the totals owed named one by one.
Totals ==
  /\ IsFiniteSet(lost) /\ Cardinality(lost) = dropped
  /\ reports \subseteq 1 .. dropped
  /\ \A t \in Reporters : owed[t] \in 0 .. dropped /\ owed[t] \notin reports
  /\ \A k \in 1 .. dropped : k \in reports \/ \E t \in Reporters : owed[t] = k
  /\ \A t, u \in Reporters : owed[t] = owed[u] => t = u \/ owed[t] = 0

\* Totals, said thread by thread, is DropsReported.
LEMMA TotalsAreReported ==
  ASSUME TypeOK, Totals
  PROVE  DropsReported
<1>1. {owed[t] : t \in Reporters} \ {0} \subseteq 1 .. dropped
  BY DEF Totals, TypeOK
<1>2. 1 .. dropped \subseteq reports \union ({owed[t] : t \in Reporters} \ {0})
  BY DEF Totals
<1> QED BY <1>1, <1>2 DEF Totals, DropsReported

\* One more drop, by a thread that owes nothing.
LEMMA CountDropTotals ==
  ASSUME TypeOK, Totals, NEW t \in Reporters, NEW n, n \notin lost,
         owed[t] = 0, CountDrop(t, {n}), reports' = reports
  PROVE  Totals'
<1>1. /\ dropped \in Nat /\ dropped' = dropped + 1
      /\ owed \in [Reporters -> Nat]
      /\ owed' = [owed EXCEPT ![t] = dropped + 1] /\ lost' = lost \union {n}
  BY DEF TypeOK, CountDrop
<1>2. IsFiniteSet(lost') /\ Cardinality(lost') = dropped'
  BY <1>1, FS_AddElement DEF Totals
<1>3. reports' \subseteq 1 .. dropped'
  BY <1>1 DEF Totals
<1>4. ASSUME NEW u \in Reporters
      PROVE  owed'[u] \in 0 .. dropped' /\ owed'[u] \notin reports'
  BY <1>1 DEF Totals
<1>5. ASSUME NEW k \in 1 .. dropped'
      PROVE  k \in reports' \/ \E u \in Reporters : owed'[u] = k
  <2>1. CASE k = dropped + 1
    BY <1>1, <2>1
  <2>2. CASE k # dropped + 1
    <3>1. k \in 1 .. dropped
      BY <1>1, <2>2
    <3>2. CASE k \in reports
      BY <3>2
    <3>3. CASE k \notin reports
      <4>1. PICK u \in Reporters : owed[u] = k
        BY <3>1, <3>3 DEF Totals
      <4>2. u # t
        BY <3>1, <4>1
      <4> QED BY <1>1, <4>1, <4>2
    <3> QED BY <3>2, <3>3
  <2> QED BY <2>1, <2>2
<1>6. ASSUME NEW u \in Reporters, NEW v \in Reporters, owed'[u] = owed'[v]
      PROVE  u = v \/ owed'[u] = 0
  <2>1. \A w \in Reporters : owed[w] # dropped + 1
    BY <1>1 DEF Totals
  <2> QED BY <1>1, <1>6, <2>1 DEF Totals
<1> QED BY <1>2, <1>3, <1>4, <1>5, <1>6 DEF Totals

\* One report made.
LEMMA ReportTotals ==
  ASSUME TypeOK, Totals, NEW t \in Reporters, Report(t),
         UNCHANGED <<dropped, lost>>
  PROVE  Totals'
<1>1. /\ owed \in [Reporters -> Nat] /\ owed[t] # 0
      /\ owed' = [owed EXCEPT ![t] = 0] /\ reports' = reports \union {owed[t]}
      /\ dropped \in Nat
  BY DEF TypeOK, Report
<1>2. reports' \subseteq 1 .. dropped'
  <2>1. owed[t] \in 1 .. dropped
    BY <1>1 DEF Totals
  <2> QED BY <1>1, <2>1 DEF Totals
<1>3. ASSUME NEW u \in Reporters
      PROVE  owed'[u] \in 0 .. dropped' /\ owed'[u] \notin reports'
  <2>1. CASE u = t
    BY <1>1, <2>1 DEF Totals
  <2>2. CASE u # t
    BY <1>1, <2>2 DEF Totals
  <2> QED BY <2>1, <2>2
<1>4. ASSUME NEW k \in 1 .. dropped'
      PROVE  k \in reports' \/ \E u \in Reporters : owed'[u] = k
  <2>1. k \in reports \/ \E u \in Reporters : owed[u] = k
    BY DEF Totals
  <2>2. CASE k \in reports
    BY <1>1, <2>2
  <2>3. CASE k \notin reports
    <3>1. PICK u \in Reporters : owed[u] = k
      BY <2>1, <2>3
    <3> QED BY <1>1, <3>1
  <2> QED BY <2>2, <2>3
<1>5. ASSUME NEW u \in Reporters, NEW v \in Reporters, owed'[u] = owed'[v]
      PROVE  u = v \/ owed'[u] = 0
  BY <1>1, <1>5 DEF Totals
<1> QED BY <1>2, <1>3, <1>4, <1>5 DEF Totals

OweInv == Owing /\ Totals

\* Every step keeps each total reported or owed once.
LEMMA OweStep ==
  ASSUME SafeInv, OweInv, [Next]_vars
  PROVE  OweInv'
<1> USE DEF Reporters
<1>1. /\ owed \in [Reporters -> Nat] /\ TypeOK
      /\ logger \in [Loggers -> {"idle", "notify", "report"}]
      /\ Range(items) \intersect lost = {} /\ Hand \intersect lost = {}
      /\ lost \subseteq 1 .. logged /\ logged \in Nat
  BY EntriesAreNumbers DEF SafeInv, TypeOK, Placed, Partition
<1>2. ASSUME NEW l \in Loggers, Push(l) PROVE OweInv'
  <2> DEFINE n == logged + 1
  <2>1. /\ owed[l] = 0 /\ reports' = reports /\ held' = held /\ call' = call
        /\ n \notin lost
    BY <1>1, <1>2 DEF OweInv, Owing, Push, worker
  <2>2. CASE Refuse(l, n)
    <3>1. Totals'
      BY <1>1, <2>1, <2>2, CountDropTotals DEF Refuse, OweInv
    <3>2. Owing'
      BY <1>1, <2>1, <2>2, WorkerAssumption DEF Refuse, CountDrop, OweInv, Owing
    <3> QED BY <3>1, <3>2 DEF OweInv
  <2>3. CASE Evict(l, n)
    <3>1. Head(items) \notin lost
      <4>1. items # <<>> /\ items \in Seq(Nat) /\ Ascending(items)
        BY <2>3, EntriesAreNumbers, FullNonempty
        DEF Evict, SafeInv, TypeOK, Placed, InOrder
      <4> QED BY <1>1, <4>1, RangeTail
    <3>2. Totals'
      <4>1. CountDrop(l, {Head(items)})
        BY <1>1, <2>3, FullNonempty DEF Evict, TypeOK
      <4> QED BY <1>1, <2>1, <3>1, <4>1, CountDropTotals DEF OweInv
    <3>3. Owing'
      BY <1>1, <2>1, <2>3, WorkerAssumption DEF Evict, CountDrop, OweInv, Owing
    <3> QED BY <3>2, <3>3 DEF OweInv
  <2>4. CASE Admit(l, n)
    <3>1. Totals'
      BY <2>1, <2>4 DEF Admit, OweInv, Totals
    <3>2. Owing'
      BY <1>1, <2>1, <2>4 DEF Admit, OweInv, Owing
    <3> QED BY <3>1, <3>2 DEF OweInv
  <2> QED BY <1>2, <2>2, <2>3, <2>4 DEF Push
<1>3. ASSUME NEW l \in Loggers, PushNotify(l) PROVE OweInv'
  BY <1>1, <1>3 DEF PushNotify, state, outcome, OweInv, Owing, Totals
<1>4. ASSUME NEW l \in Loggers, LogReport(l) PROVE OweInv'
  <2>1. Totals'
    BY <1>1, <1>4, ReportTotals DEF LogReport, state, outcome, OweInv
  <2>2. Owing'
    BY <1>1, <1>4, WorkerAssumption DEF LogReport, Report, worker, OweInv, Owing
  <2> QED BY <2>1, <2>2 DEF OweInv
<1>5. CASE MayCall /\ (PopWait \/ SleepWait)
  BY <1>5 DEF PopWait, SleepWait, MayCall, state, outcome, OweInv, Owing, Totals
<1>6. CASE MayCall /\ PopItem
  BY <1>6 DEF PopItem, MayCall, Return, outcome, OweInv, Owing, Totals
<1>7. CASE PopNothing \/ SleepReturn \/ WaitEnds
  BY <1>7 DEF PopNothing, SleepReturn, WaitEnds, Return, state, outcome,
       OweInv, Owing, Totals
<1>8. CASE Holding /\ (Send \/ Discard)
  BY <1>8 DEF Send, Discard, Holding, state, OweInv, Owing, Totals
<1>9. CASE Holding /\ PushFront
  <2>1. /\ owed[Worker] = 0 /\ held \notin lost /\ held' = None
        /\ reports' = reports /\ logger' = logger /\ call' = call
    BY <1>1, <1>9 DEF PushFront, Holding, OweInv, Owing, Hand
  <2>2. call \notin {"pop", "sleep"}
    BY <1>9 DEF PushFront
  <2>3. CASE CountDrop(Worker, {held})
    <3>1. Totals'
      BY <1>1, <2>1, <2>3, CountDropTotals DEF OweInv
    <3>2. Owing'
      BY <1>1, <2>1, <2>2, <2>3, WorkerAssumption DEF CountDrop, OweInv, Owing
    <3> QED BY <3>1, <3>2 DEF OweInv
  <2>4. CASE UNCHANGED <<dropped, owed, lost>>
    BY <2>1, <2>4 DEF OweInv, Owing, Totals
  <2> QED BY <1>9, <2>3, <2>4 DEF PushFront
<1>10. CASE Finish \/ FinishNotify
  BY <1>10 DEF Finish, FinishNotify, state, outcome, OweInv, Owing, Totals
<1>11. CASE WorkerReport
  <2>1. Totals'
    BY <1>1, <1>11, ReportTotals DEF WorkerReport, state, outcome, OweInv
  <2>2. Owing'
    BY <1>1, <1>11 DEF WorkerReport, Report, worker, OweInv, Owing
  <2> QED BY <2>1, <2>2 DEF OweInv
<1>12. ASSUME NEW f \in Flushers, Flush(f) PROVE OweInv'
  BY <1>12 DEF Flush, FlushCall, FlushWaitEnds, FlushWake, state, worker, outcome,
       OweInv, Owing, Totals
<1>13. ASSUME NEW c \in Closers, Close(c) PROVE OweInv'
  BY <1>13 DEF Close, Shutdown, ShutdownNotifyWork, ShutdownNotifyDrained,
       state, worker, outcome, OweInv, Owing, Totals
<1>14. CASE UNCHANGED vars
  BY <1>14 DEF vars, state, worker, outcome, OweInv, Owing, Totals
<1> QED
  BY <1>2, <1>3, <1>4, <1>5, <1>6, <1>7, <1>8, <1>9, <1>10, <1>11, <1>12, <1>13,
     <1>14
  DEF Next, Log, Work

\* Every drop has a total of its own, passed to on_error once or owed by the
\* one thread that is about to.
THEOREM DropsAreReported == Spec => []DropsReported
<1>1. Init => OweInv
  <2> SUFFICES ASSUME Init PROVE OweInv
    OBVIOUS
  <2>1. IsFiniteSet(lost) /\ Cardinality(lost) = 0
    BY FS_EmptySet DEF Init
  <2>2. \A t \in Reporters : owed[t] = 0
    BY DEF Init
  <2>3. Totals
    BY <2>1, <2>2 DEF Init, Totals
  <2>4. Owing
    BY <2>2 DEF Init, Owing, Reporters
  <2> QED BY <2>3, <2>4 DEF OweInv
<1>2. SafeInv /\ OweInv /\ [Next]_vars => OweInv'
  BY OweStep
<1>3. SafeInv /\ OweInv => DropsReported
  BY TotalsAreReported DEF SafeInv, OweInv
<1> QED BY <1>1, <1>2, <1>3, SafeInvHolds, PTL DEF Spec
-----------------------------------------------------------------------------
(* Notifications.                                                          *)

WakeInv == PushWakes /\ ShutdownWakes /\ FinishWakes

\* No step of a logging thread takes back the notification it owes, or leaves
\* the worker asleep when it has sent it.
LEMMA LogWakes ==
  ASSUME TypeOK, WakeInv, NEW l \in Loggers, Log(l)
  PROVE  WakeInv'
<1> USE DEF WakeInv
<1>1. UNCHANGED <<call, busy, shutdown, closer, flusher>>
  BY DEF Log, Push, PushNotify, LogReport, worker, state
<1>2. CASE Push(l)
  <2>1. UNCHANGED wake /\ logger[l] = "idle"
    BY <1>2 DEF Push, worker
  <2>2. CASE Refuse(l, logged + 1)
    <3>1. /\ UNCHANGED items
          /\ \A k \in Loggers : logger[k] = "notify" => logger'[k] = "notify"
      BY <2>1, <2>2 DEF Refuse, TypeOK
    <3> QED BY <1>1, <2>1, <3>1 DEF PushWakes, ShutdownWakes, FinishWakes, Drained
  <2>3. CASE Evict(l, logged + 1) \/ Admit(l, logged + 1)
    <3>1. logger'[l] = "notify"
      BY <2>3 DEF Evict, Admit, TypeOK
    <3>2. items' # <<>>
      BY <2>3, FullNonempty DEF Evict, Admit, TypeOK
    <3> QED BY <1>1, <2>1, <3>1, <3>2 DEF PushWakes, ShutdownWakes, FinishWakes, Drained
  <2> QED BY <1>2, <2>2, <2>3 DEF Push
<1>3. CASE PushNotify(l)
  <2>1. /\ call \in {"pop", "sleep"} => wake' # "asleep"
        /\ UNCHANGED items
    BY <1>3 DEF PushNotify, NotifyWork, state
  <2> QED BY <1>1, <2>1 DEF PushWakes, ShutdownWakes, FinishWakes, Drained
<1>4. CASE LogReport(l)
  <2>1. /\ UNCHANGED <<items, wake>>
        /\ \A k \in Loggers : logger[k] = "notify" => logger'[k] = "notify"
    BY <1>4 DEF LogReport, state, worker, TypeOK
  <2> QED BY <1>1, <2>1 DEF PushWakes, ShutdownWakes, FinishWakes, Drained
<1> QED BY <1>2, <1>3, <1>4 DEF Log

\* The worker goes to sleep only over an empty queue that is open.
LEMMA WorkWakes ==
  ASSUME TypeOK, Control, WakeInv, Work
  PROVE  WakeInv'
<1> USE DEF WakeInv, PushWakes, ShutdownWakes, FinishWakes, Drained
<1>1. CASE PopWait \/ SleepWait
  BY <1>1 DEF PopWait, SleepWait, PopAwake, SleepAwake, state
<1>2. CASE PopItem \/ PopNothing \/ SleepReturn
  BY <1>2 DEF PopItem, PopNothing, SleepReturn, PopAwake, SleepAwake, Return,
       state
<1>3. CASE WaitEnds
  BY <1>3 DEF WaitEnds, state
<1>4. CASE Send \/ Discard \/ WorkerReport
  BY <1>4 DEF Send, Discard, WorkerReport, state, worker
<1>5. CASE Holding /\ PushFront
  BY <1>5 DEF PushFront, Holding
<1>6. CASE Finish
  BY <1>6 DEF Finish
<1>7. CASE FinishNotify
  BY <1>7 DEF FinishNotify, NotifyDrained, TypeOK, state
<1> QED BY <1>1, <1>2, <1>3, <1>4, <1>5, <1>6, <1>7 DEF Work

\* A flush goes to sleep only while something is queued or in hand, and a
\* shutdown that was requested has not yet, or has, woken the worker.
LEMMA FlushAndCloseWake ==
  ASSUME TypeOK, WakeInv
  PROVE  /\ \A f \in Flushers : Flush(f) => WakeInv'
         /\ \A c \in Closers : Close(c) => WakeInv'
<1> USE DEF WakeInv, PushWakes, ShutdownWakes, FinishWakes, Drained, TypeOK
<1>1. ASSUME NEW f \in Flushers, Flush(f) PROVE WakeInv'
  BY <1>1 DEF Flush, FlushCall, FlushWaitEnds, FlushWake, state, worker
<1>2. ASSUME NEW c \in Closers, Shutdown(c) PROVE WakeInv'
  BY <1>2 DEF Shutdown, worker
<1>3. ASSUME NEW c \in Closers, ShutdownNotifyWork(c) PROVE WakeInv'
  BY <1>3 DEF ShutdownNotifyWork, NotifyWork, state
<1>4. ASSUME NEW c \in Closers, ShutdownNotifyDrained(c) PROVE WakeInv'
  BY <1>4 DEF ShutdownNotifyDrained, NotifyDrained, state, worker
<1> QED BY <1>1, <1>2, <1>3, <1>4 DEF Close

\* No notification is missed, however many threads log, flush and close.
LEMMA WakeInvHolds == Spec => []WakeInv
<1>1. Init => WakeInv
  BY DEF Init, WakeInv, PushWakes, ShutdownWakes, FinishWakes
<1>2. ASSUME SafeInv, WakeInv, [Next]_vars PROVE WakeInv'
  <2>1. TypeOK /\ Control
    BY <1>2 DEF SafeInv
  <2>2. CASE UNCHANGED vars
    BY <1>2, <2>2 DEF vars, state, worker, WakeInv, PushWakes, ShutdownWakes,
         FinishWakes, Drained
  <2> QED
    BY <1>2, <2>1, <2>2, LogWakes, WorkWakes, FlushAndCloseWake DEF Next
<1> QED BY <1>1, <1>2, SafeInvHolds, PTL DEF Spec

\* An entry that was pushed finds no worker asleep without its notification.
THEOREM NoMissedWakeup == Spec => []PushWakes
<1>1. WakeInv => PushWakes
  BY DEF WakeInv
<1> QED BY <1>1, WakeInvHolds, PTL

\* Nor does a shutdown that was requested, be the worker in pop or in a reconnect
\* delay.
THEOREM ShutdownIsNoticed == Spec => []ShutdownWakes
<1>1. WakeInv => ShutdownWakes
  BY DEF WakeInv
<1> QED BY <1>1, WakeInvHolds, PTL

\* Nor does the end of the last entry find a flush call asleep that was waiting
\* for it: finish_entry's notification is on its way to each.
THEOREM FinishIsNoticed == Spec => []FinishWakes
<1>1. WakeInv => FinishWakes
  BY DEF WakeInv
<1> QED BY <1>1, WakeInvHolds, PTL
=============================================================================

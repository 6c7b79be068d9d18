---------------------------- MODULE HandoffProofs ----------------------------
(***************************************************************************)
(* Queue implements Handoff, for every number of threads and every buffer  *)
(* size: threads, locks, notifications and put-backs are invisible to the  *)
(* callers of Client.                                                      *)
(***************************************************************************)
EXTENDS QueueProofs

\* An element put before a sequence is its head, and nothing else is changed.
LEMMA Cons ==
  ASSUME NEW s \in Seq(Nat), NEW h \in Nat
  PROVE  /\ <<h>> \o s \in Seq(Nat) /\ <<h>> \o s # <<>>
         /\ Len(<<h>> \o s) = Len(s) + 1
         /\ Head(<<h>> \o s) = h /\ Tail(<<h>> \o s) = s
  OBVIOUS

\* It stays there whatever is appended.
LEMMA ConsAppend ==
  ASSUME NEW s \in Seq(Nat), NEW h \in Nat, NEW n \in Nat
  PROVE  <<h>> \o Append(s, n) = Append(<<h>> \o s, n)
<1>1. /\ <<h>> \o Append(s, n) \in Seq(Nat) /\ Append(<<h>> \o s, n) \in Seq(Nat)
      /\ Len(<<h>> \o Append(s, n)) = Len(s) + 2
      /\ Len(Append(<<h>> \o s, n)) = Len(s) + 2
      /\ \A i \in 1 .. Len(s) + 2 :
           (<<h>> \o Append(s, n))[i] = Append(<<h>> \o s, n)[i]
  OBVIOUS
<1> QED BY <1>1, SeqEqual

\* A sequence is its head and its tail.
LEMMA HeadAndTail ==
  ASSUME NEW s \in Seq(Nat), s # <<>>
  PROVE  <<Head(s)>> \o Tail(s) = s
<1>1. /\ <<Head(s)>> \o Tail(s) \in Seq(Nat)
      /\ Len(<<Head(s)>> \o Tail(s)) = Len(s)
      /\ \A i \in 1 .. Len(s) : (<<Head(s)>> \o Tail(s))[i] = s[i]
  OBVIOUS
<1> QED BY <1>1, SeqEqual

\* What is in flight is what is pending, at most one more than is queued.
LEMMA InFlightIsPending ==
  ASSUME TypeOK
  PROVE  /\ items \in Seq(Nat) /\ held \in Nat /\ InFlight \in Seq(Nat)
         /\ held = None => InFlight = items
         /\ held # None =>
              /\ InFlight # <<>> /\ Len(InFlight) = Len(items) + 1
              /\ Head(InFlight) = held /\ Tail(InFlight) = items
         /\ H!Members(InFlight) = Pending
<1>1. items \in Seq(Nat) /\ held \in Nat
  BY EntriesAreNumbers
<1>2. CASE held = None
  BY <1>1, <1>2 DEF InFlight, H!Members, Pending, Hand, Range
<1>3. CASE held # None
  <2>1. InFlight = <<held>> \o items
    BY <1>3 DEF InFlight
  <2>2. H!Members(InFlight) = Range(InFlight)
    BY DEF H!Members, Range
  <2>3. Range(InFlight) = Pending
    BY <1>1, <1>3, <2>1, RangeCons DEF Pending, Hand
  <2> QED BY <1>1, <1>3, <2>1, <2>2, <2>3, Cons
<1> QED BY <1>2, <1>3

\* A push is Log: it accepts, displaces one of the two oldest, or refuses.
LEMMA PushIsLog ==
  ASSUME TypeOK, NEW l \in Loggers, Push(l)
  PROVE  H!Log
<1> DEFINE n == logged + 1
<1>1. /\ logged' = n /\ n \in Nat
      /\ UNCHANGED <<held, sent, discarded, shutdown, mark, Answers>>
  BY EntriesAreNumbers DEF Push, worker, Answers
<1>2. Capacity \in Nat /\ Capacity > 0 /\ Len(items) \in Nat
  BY CapacityPositive, InFlightIsPending
<1>3. CASE Refuse(l, n)
  <2>1. UNCHANGED InFlight /\ dropped' = dropped + 1 /\ shutdown
    BY <1>1, <1>3 DEF Refuse, CountDrop, InFlight
  <2> QED BY <1>1, <2>1 DEF H!Log, H!Refuse
<1>4. CASE Evict(l, n)
  <2>1. /\ items # <<>> /\ Len(items) >= Capacity /\ ~shutdown
        /\ items' = Append(Tail(items), n) /\ dropped' = dropped + 1
        /\ Tail(items) \in Seq(Nat)
    <3>1. Younger = Tail(items) /\ Tail(items) \in Seq(Entries) /\ items # <<>>
      BY <1>4, FullNonempty DEF Evict, TypeOK
    <3>2. Tail(items) \in Seq(Nat)
      BY <3>1, InFlightIsPending
    <3> HIDE DEF n
    <3> QED BY <1>4, <3>1, <3>2 DEF Evict, CountDrop, Full
  <2>2. CASE held = None
    <3>1. InFlight = items /\ InFlight' = Append(Tail(InFlight), n)
      BY <1>1, <2>1, <2>2 DEF InFlight
    <3> QED BY <1>1, <2>1, <3>1 DEF H!Log, H!Displace, H!WithoutOldest
  <2>3. CASE held # None
    <3>1. InFlight' = <<held>> \o Append(Tail(items), n)
      BY <1>1, <2>1, <2>3 DEF InFlight
    <3>2. InFlight' = Append(<<Head(InFlight)>> \o Tail(Tail(InFlight)), n)
      <4>1. Head(InFlight) = held /\ Tail(InFlight) = items /\ held \in Nat
        BY <2>3, InFlightIsPending
      <4>2. <<held>> \o Append(Tail(items), n) = Append(<<held>> \o Tail(items), n)
        BY <1>1, <2>1, <4>1, ConsAppend
      <4> QED BY <3>1, <4>1, <4>2
    <3>3. InFlight # <<>> /\ Len(InFlight) > Capacity
      BY <1>2, <2>1, <2>3, InFlightIsPending
    <3> QED
      BY <1>1, <1>2, <2>1, <3>2, <3>3 DEF H!Log, H!Displace, H!WithoutSecond
  <2> QED BY <2>2, <2>3
<1>5. CASE Admit(l, n)
  <2>1. /\ Len(items) < Capacity /\ ~shutdown /\ UNCHANGED dropped
        /\ items' = Append(items, n)
    BY <1>2, <1>5 DEF Admit, Full
  <2>2. Len(InFlight) <= Capacity
    BY <1>2, <2>1, InFlightIsPending
  <2>3. CASE held = None
    <3>1. InFlight' = Append(InFlight, n)
      BY <1>1, <2>1, <2>3 DEF InFlight
    <3> QED BY <1>1, <2>1, <2>2, <3>1 DEF H!Log, H!Accept
  <2>4. CASE held # None
    <3>1. InFlight' = Append(InFlight, n)
      BY <1>1, <2>1, <2>4, ConsAppend, InFlightIsPending DEF InFlight
    <3> QED BY <1>1, <2>1, <2>2, <3>1 DEF H!Log, H!Accept
  <2> QED BY <2>3, <2>4
<1> QED BY <1>3, <1>4, <1>5 DEF Push

\* Taking an entry out is no step: it is still the oldest in flight.
LEMMA PopIsNothing ==
  ASSUME TypeOK, MayCall, PopItem
  PROVE  UNCHANGED InFlight
<1>1. held = None /\ items # <<>> /\ held' = Head(items) /\ items' = Tail(items)
  BY DEF PopItem, MayCall
<1>2. Head(items) \in Entries
  BY <1>1 DEF TypeOK
<1>3. held' # None
  BY <1>1, <1>2 DEF Entries, None
<1> QED BY <1>1, <1>3, HeadAndTail, InFlightIsPending DEF InFlight

\* A put-back is no step either, unless the entry finds no room.
LEMMA PutBackIsNothing ==
  ASSUME TypeOK, Holding, PushFront
  PROVE  H!GiveUp \/ UNCHANGED <<InFlight, dropped, sent, discarded, logged, shutdown, mark,
                         Answers>>
<1>1. /\ held # None /\ held' = None
      /\ UNCHANGED <<sent, discarded, logged, shutdown, mark, Answers>>
  BY DEF PushFront, Holding, Answers
<1>2. CASE Full /\ CountDrop(Worker, {held}) /\ UNCHANGED items
  <2>1. InFlight # <<>> /\ InFlight' = Tail(InFlight)
    BY <1>1, <1>2, InFlightIsPending DEF InFlight
  <2>2. Len(InFlight) > Capacity /\ dropped' = dropped + 1
    BY <1>1, <1>2, InFlightIsPending, CapacityPositive DEF Full, CountDrop
  <2> QED BY <1>1, <2>1, <2>2 DEF H!GiveUp
<1>3. CASE items' = Requeued /\ UNCHANGED <<dropped, owed, lost>>
  BY <1>1, <1>3 DEF InFlight, Requeued
<1> QED BY <1>2, <1>3 DEF PushFront

\* Writing an entry is Deliver, finding it unsendable SetAside.
LEMMA SendIsDeliver ==
  ASSUME TypeOK, Holding
  PROVE  (Send => H!Deliver) /\ (Discard => H!SetAside)
<1>1. ASSUME Send \/ Discard
      PROVE  /\ InFlight # <<>> /\ Head(InFlight) = held
             /\ InFlight' = Tail(InFlight)
             /\ UNCHANGED <<dropped, logged, shutdown, mark, Answers>>
  BY <1>1, InFlightIsPending DEF Send, Discard, Holding, InFlight, state, Answers
<1>2. ASSUME Send PROVE H!Deliver
  BY <1>1, <1>2 DEF Send, H!Deliver
<1>3. ASSUME Discard PROVE H!SetAside
  BY <1>1, <1>3 DEF Discard, H!SetAside
<1> QED BY <1>2, <1>3

\* A flush asks once, and answers true only when nothing is in flight.
LEMMA FlushIsAnswered ==
  ASSUME TypeOK, Control, NEW f \in Flushers, Flush(f)
  PROVE  H!Ask(f) \/ H!Answer(f) \/
           UNCHANGED <<InFlight, dropped, sent, discarded, logged, shutdown, mark,
                         Answers>>
<1>1. UNCHANGED <<InFlight, dropped, sent, discarded, logged, shutdown>>
  BY DEF Flush, FlushCall, FlushWaitEnds, FlushWake, InFlight, state, worker, outcome
<1>2. Drained => H!Members(InFlight) = {}
  BY InFlightIsPending DEF Drained, Control, Pending, Hand, Range
<1>3. flusher \in [Flushers -> {"idle", "waiting", "notified", "timeout",
                                "drained", "undrained"}]
  BY DEF TypeOK
<1>4. CASE FlushCall(f)
  <2>1. Answers[f] = "idle" /\ mark' = [mark EXCEPT ![f] = H!Members(InFlight)]
    BY <1>3, <1>4, InFlightIsPending DEF FlushCall, Answers
  <2>2. Answers' = [Answers EXCEPT ![f] = IF Drained THEN "drained" ELSE "waiting"]
    BY <1>3, <1>4 DEF FlushCall, Answers
  <2> QED BY <1>1, <1>2, <2>1, <2>2 DEF H!Ask, H!Settled
<1>5. CASE FlushWaitEnds(f)
  BY <1>1, <1>3, <1>5 DEF FlushWaitEnds, Answers
<1>6. CASE FlushWake(f)
  <2>1. Answers[f] = "waiting" /\ UNCHANGED mark
    BY <1>3, <1>6 DEF FlushWake, Answers
  <2>2. CASE Drained
    <3>1. Answers' = [Answers EXCEPT ![f] = "drained"]
      BY <1>3, <1>6, <2>2 DEF FlushWake, Answers
    <3> QED BY <1>1, <1>2, <2>1, <2>2, <3>1 DEF H!Answer, H!Settled
  <2>3. CASE ~Drained /\ flusher[f] = "timeout"
    <3>1. Answers' = [Answers EXCEPT ![f] = "undrained"]
      BY <1>3, <1>6, <2>3 DEF FlushWake, Answers
    <3> QED BY <1>1, <2>1, <3>1 DEF H!Answer
  <2>4. CASE ~Drained /\ flusher[f] # "timeout"
    <3>1. UNCHANGED Answers
      BY <1>3, <1>6, <2>4 DEF FlushWake, Answers
    <3> QED BY <1>1, <2>1, <3>1
  <2> QED BY <2>2, <2>3, <2>4
<1> QED BY <1>4, <1>5, <1>6 DEF Flush

\* Notifying those who wait in flush answers none of them.
LEMMA NotifyIsNothing ==
  ASSUME TypeOK, NotifyDrained
  PROVE  UNCHANGED Answers
  BY DEF TypeOK, NotifyDrained, Answers

\* Every step of the queue is a step of the buffer or none.
LEMMA HandoffStep ==
  ASSUME TypeOK, Control, [Next]_vars
  PROVE  [H!Next]_(H!handoffVars)
<1> DEFINE Same == UNCHANGED <<InFlight, dropped, sent, discarded, logged, shutdown, mark,
                         Answers>>
<1> SUFFICES H!Next \/ Same
  BY DEF H!handoffVars
<1>1. ASSUME NEW l \in Loggers, Log(l) PROVE H!Next \/ Same
  <2>1. CASE PushNotify(l) \/ LogReport(l)
    BY <2>1 DEF PushNotify, LogReport, InFlight, Answers, state, worker, outcome
  <2> QED BY <1>1, <2>1, PushIsLog DEF Log, H!Next
<1>2. CASE Work
  <2>1. CASE PopWait \/ PopNothing \/ SleepWait \/ SleepReturn \/ WaitEnds
    BY <2>1 DEF PopWait, PopNothing, SleepWait, SleepReturn, WaitEnds, InFlight,
         Answers, state, outcome
  <2>2. CASE Finish \/ WorkerReport
    BY <2>2 DEF Finish, WorkerReport, InFlight, Answers, state, worker, outcome
  <2>3. CASE FinishNotify
    BY <2>3, NotifyIsNothing DEF FinishNotify, InFlight, state, outcome
  <2>4. CASE MayCall /\ PopItem
    <3>1. UNCHANGED <<dropped, sent, discarded, logged, shutdown, mark, Answers>>
      BY <2>4 DEF PopItem, outcome, Answers
    <3> QED BY <2>4, <3>1, PopIsNothing
  <2>5. CASE Holding /\ PushFront
    BY <2>5, PutBackIsNothing DEF H!Next
  <2>6. CASE Holding /\ (Send \/ Discard)
    BY <2>6, SendIsDeliver DEF H!Next
  <2> QED BY <1>2, <2>1, <2>2, <2>3, <2>4, <2>5, <2>6 DEF Work
<1>3. ASSUME NEW f \in Flushers, Flush(f) PROVE H!Next \/ Same
  BY <1>3, FlushIsAnswered DEF H!Next
<1>4. ASSUME NEW c \in Closers, Close(c) PROVE H!Next \/ Same
  <2>1. CASE Shutdown(c)
    BY <2>1 DEF Shutdown, H!Next, H!Close, InFlight, Answers, worker, outcome
  <2>2. CASE ShutdownNotifyWork(c)
    BY <2>2 DEF ShutdownNotifyWork, InFlight, Answers, state, outcome
  <2>3. CASE ShutdownNotifyDrained(c)
    BY <2>3, NotifyIsNothing DEF ShutdownNotifyDrained, InFlight, state, worker, outcome
  <2> QED BY <1>4, <2>1, <2>2, <2>3 DEF Close
<1>5. CASE UNCHANGED vars
  BY <1>5 DEF vars, state, worker, outcome, InFlight, Answers
<1> QED BY <1>1, <1>2, <1>3, <1>4, <1>5 DEF Next

\* The queue implements the buffer.
THEOREM QueueImplementsHandoff == Spec => ImplementsHandoff
<1>1. Init => H!Init
  BY DEF Init, H!Init, InFlight, Answers
<1>2. SafeInv /\ [Next]_vars => [H!Next]_(H!handoffVars)
  BY HandoffStep DEF SafeInv
<1> QED BY <1>1, <1>2, SafeInvHolds, PTL DEF Spec, H!Spec, ImplementsHandoff
=============================================================================

------------------------------- MODULE Queue --------------------------------
(***************************************************************************)
(* The bounded, drop-oldest hand-off between logging threads and the       *)
(* worker (src/src/queue.rs), under its most general callers: any number   *)
(* of logging, flushing and closing threads, and one worker.  The          *)
(* operations do what the code does whoever calls them and however; that   *)
(* the worker follows each entry it takes with finish is no test of theirs *)
(* but the rule the code states for it, and is a part of Work alone.       *)
(*                                                                         *)
(* A step is one critical section of the mutex, or one notification sent   *)
(* after the mutex was released.  An entry is the number of the push that  *)
(* brought it: entry n is the n-th to reach push's critical section.       *)
(***************************************************************************)
EXTENDS Integers, Sequences, FiniteSets, Functions

CONSTANTS
  Loggers,     \* threads that call Client::log
  Flushers,    \* threads that call Client::flush, once each
  Closers,     \* threads that call Client::close (or drop the last clone)
  Worker,      \* the worker thread
  BufferSize,  \* ClientBuilder::buffer_size
  MaxLogged    \* bound on the entries logged in one behaviour

ASSUME SizeAssumption == BufferSize \in Nat /\ MaxLogged \in Nat
ASSUME WorkerAssumption == Worker \notin Loggers

None == 0

CapacityAsGiven == BufferSize         \* mutant: takes zero at its word

\* A buffer_size of zero is taken for a mistake and raised to one.
Capacity == IF BufferSize = 0 THEN 1 ELSE BufferSize

VARIABLES
  items,       \* State.items, oldest first
  busy,        \* State.busy
  shutdown,    \* State.shutdown
  dropped,     \* Queue.dropped, read by dropped_count
  call,        \* the queue call the worker is in: none, pop, sleep or finish
  wake,        \* the worker in a wait on `work`: asleep, notified or timeout
  logger,      \* each logging thread: idle, notify (push unlocked) or report
  flusher,     \* each flush call: idle, waiting, notified, timeout, and its
               \* result drained or undrained
  closer,      \* each call of shutdown: idle, work, drained or done
  owed,        \* a drop total a thread returned and has yet to report
  \* History, read by no action of the code.
  held,        \* the entry in the worker's hand, or None
  logged,      \* entries that have reached push
  sent,        \* entries handed to the operating system, in that order
  discarded,   \* entries found unsendable and reported
  lost,        \* entries the queue dropped
  reports,     \* drop totals that reached on_error
  mark         \* per flush call, the entries that were pending when it began

state == <<items, busy, shutdown, dropped>>
worker == <<call, wake, held>>
outcome == <<sent, discarded, lost>>
vars == <<state, worker, outcome, logger, flusher, closer, owed,
          logged, reports, mark>>

Reporters == Loggers \union {Worker}
Entries == 1 .. MaxLogged
Hand == IF held = None THEN {} ELSE {held}
Pending == Range(items) \union Hand

Init ==
  /\ items = <<>> /\ busy = FALSE /\ shutdown = FALSE /\ dropped = 0
  /\ call = "none" /\ wake = "asleep" /\ held = None
  /\ logger = [l \in Loggers |-> "idle"]
  /\ flusher = [f \in Flushers |-> "idle"]
  /\ closer = [c \in Closers |-> "idle"]
  /\ owed = [t \in Reporters |-> 0]
  /\ logged = 0 /\ sent = <<>> /\ discarded = {} /\ lost = {} /\ reports = {}
  /\ mark = [f \in Flushers |-> {}]

-----------------------------------------------------------------------------
(* The conditions the code tests under the lock.                           *)

FullOneLate == Len(items) > Capacity  \* mutant: an off-by-one at the bound
Full == Len(items) >= Capacity

DrainedIfEmpty == items = <<>>        \* mutant: forgets the entry in hand
Drained == items = <<>> /\ ~busy

\* mutant: a push or a shutdown that notifies nobody
NotifyNobody == UNCHANGED wake

\* A notification reaches the worker only if it is asleep on `work`.  It is
\* the only thread that ever waits there, so notify_one and notify_all agree.
NotifyWork ==
  wake' = IF call \in {"pop", "sleep"} /\ wake = "asleep"
          THEN "notified" ELSE wake

NotifyDrained ==
  flusher' = [f \in Flushers |-> IF flusher[f] = "waiting"
                                 THEN "notified" ELSE flusher[f]]

\* mutant: counts down
CountDropDown(t, gone) ==
  /\ dropped' = dropped - 1
  /\ owed' = [owed EXCEPT ![t] = dropped + 1]
  /\ lost' = lost \union gone

\* mutant: returns fetch_add's result as it is, the total before this drop
CountDropBefore(t, gone) ==
  /\ dropped' = dropped + 1
  /\ owed' = [owed EXCEPT ![t] = dropped]
  /\ lost' = lost \union gone

\* fetch_add(1) + 1 for the entry that is gone, returned to thread t, which owes
\* a report of it.
CountDrop(t, gone) ==
  /\ dropped' = dropped + 1
  /\ owed' = [owed EXCEPT ![t] = dropped + 1]
  /\ lost' = lost \union gone

Report(t) ==
  /\ owed[t] # 0
  /\ reports' = reports \union {owed[t]}
  /\ owed' = [owed EXCEPT ![t] = 0]

-----------------------------------------------------------------------------
(* Logging threads: Client::log.                                           *)

\* What pop_front takes from the queue, which is nothing if it is empty, and
\* what it leaves.
Oldest == IF items = <<>> THEN {} ELSE {Head(items)}
Younger == IF items = <<>> THEN <<>> ELSE Tail(items)

Refuse(l, n) ==
  /\ shutdown
  /\ CountDrop(l, {n})
  /\ logger' = [logger EXCEPT ![l] = "report"]
  /\ UNCHANGED items

\* mutant: makes room by discarding the newest queued entry
EvictNewest(l, n) ==
  /\ ~shutdown /\ Full
  /\ items' = Append(SubSeq(items, 1, Len(items) - 1), n)
  /\ CountDrop(l, {items[Len(items)]})
  /\ logger' = [logger EXCEPT ![l] = "notify"]

\* mutant: makes room without counting the entry it discards
EvictUncounted(l, n) ==
  /\ ~shutdown /\ Full
  /\ items' = Append(Tail(items), n)
  /\ logger' = [logger EXCEPT ![l] = "notify"]
  /\ UNCHANGED <<dropped, owed, lost>>

Evict(l, n) ==
  /\ ~shutdown /\ Full
  /\ items' = Append(Younger, n)
  /\ CountDrop(l, Oldest)
  /\ logger' = [logger EXCEPT ![l] = "notify"]

\* mutant: admits an entry whether or not shutdown was requested
AdmitAlways(l, n) ==
  /\ ~Full
  /\ items' = Append(items, n)
  /\ logger' = [logger EXCEPT ![l] = "notify"]
  /\ UNCHANGED <<dropped, owed, lost>>

Admit(l, n) ==
  /\ ~shutdown /\ ~Full
  /\ items' = Append(items, n)
  /\ logger' = [logger EXCEPT ![l] = "notify"]
  /\ UNCHANGED <<dropped, owed, lost>>

Push(l) ==
  /\ logger[l] = "idle" /\ logged < MaxLogged
  /\ logged' = logged + 1
  /\ \/ Refuse(l, logged + 1)
     \/ Evict(l, logged + 1)
     \/ Admit(l, logged + 1)
  /\ UNCHANGED <<busy, shutdown, worker, sent, discarded, flusher, closer,
                 reports, mark>>

PushNotify(l) ==
  /\ logger[l] = "notify"
  /\ NotifyWork
  /\ logger' = [logger EXCEPT ![l] = IF owed[l] = 0 THEN "idle" ELSE "report"]
  /\ UNCHANGED <<state, call, held, outcome, flusher, closer, owed, logged,
                 reports, mark>>

LogReport(l) ==
  /\ logger[l] = "report"
  /\ Report(l)
  /\ logger' = [logger EXCEPT ![l] = "idle"]
  /\ UNCHANGED <<state, worker, outcome, flusher, closer, logged, mark>>

-----------------------------------------------------------------------------
(* The worker: pop, the fate of the entry, finish, and the reconnect sleep. *)

\* A call begins, or its wait is over and it has the lock again.
PopAwake == call = "none" \/ (call = "pop" /\ wake # "asleep")
SleepAwake == call = "none" \/ (call = "sleep" /\ wake # "asleep")

Return == call' = "none" /\ wake' = "asleep"

PopWait ==
  /\ PopAwake /\ wake # "timeout"
  /\ items = <<>> /\ ~shutdown
  /\ call' = "pop" /\ wake' = "asleep"
  /\ UNCHANGED <<state, held, outcome, logger, flusher, closer, owed, logged,
                 reports, mark>>

PopItem ==
  /\ PopAwake
  /\ items # <<>>
  /\ held' = Head(items) /\ items' = Tail(items) /\ busy' = TRUE
  /\ Return
  /\ UNCHANGED <<shutdown, dropped, outcome, logger, flusher, closer, owed,
                 logged, reports, mark>>

\* mutant: honours shutdown before the entries that are still queued
PopNothingFirst ==
  /\ PopAwake
  /\ shutdown \/ (items = <<>> /\ wake = "timeout")
  /\ Return
  /\ UNCHANGED <<state, held, outcome, logger, flusher, closer, owed, logged,
                 reports, mark>>

PopNothing ==
  /\ PopAwake
  /\ items = <<>> /\ (shutdown \/ wake = "timeout")
  /\ Return
  /\ UNCHANGED <<state, held, outcome, logger, flusher, closer, owed, logged,
                 reports, mark>>

SleepWait ==
  /\ SleepAwake /\ wake # "timeout"
  /\ ~shutdown
  /\ call' = "sleep" /\ wake' = "asleep"
  /\ UNCHANGED <<state, held, outcome, logger, flusher, closer, owed, logged,
                 reports, mark>>

SleepReturn ==
  /\ SleepAwake
  /\ shutdown \/ wake = "timeout"
  /\ Return
  /\ UNCHANGED <<state, held, outcome, logger, flusher, closer, owed, logged,
                 reports, mark>>

\* The wait the worker is in ends by itself: its timeout elapses, or the
\* condition variable wakes it spuriously.
WaitEnds ==
  /\ call \in {"pop", "sleep"} /\ wake = "asleep"
  /\ wake' \in {"timeout", "notified"}
  /\ UNCHANGED <<state, call, held, outcome, logger, flusher, closer, owed,
                 logged, reports, mark>>

\* The entry in hand is written, or found unsendable.
Send ==
  /\ sent' = Append(sent, held) /\ held' = None
  /\ UNCHANGED <<state, call, wake, discarded, lost, logger, flusher, closer,
                 owed, logged, reports, mark>>

Discard ==
  /\ discarded' = discarded \union {held} /\ held' = None
  /\ UNCHANGED <<state, call, wake, sent, lost, logger, flusher, closer, owed,
                 logged, reports, mark>>

RequeuedLast == Append(items, held)   \* mutant: puts it behind the others
Requeued == <<held>> \o items

\* push_front, after a failed write.  Its own notify_one finds nobody asleep.
PushFront ==
  /\ call = "none"
  /\ held' = None
  /\ \/ /\ Full
        /\ CountDrop(Worker, {held})
        /\ UNCHANGED items
     \/ /\ ~Full
        /\ items' = Requeued
        /\ UNCHANGED <<dropped, owed, lost>>
  /\ UNCHANGED <<busy, shutdown, call, wake, sent, discarded, logger, flusher,
                 closer, logged, reports, mark>>

\* mutant: decides whether to notify before it clears busy
FinishEarly ==
  /\ call = "none"
  /\ busy' = FALSE
  /\ call' = IF Drained THEN "finish" ELSE "none"
  /\ UNCHANGED <<items, shutdown, dropped, wake, held, outcome, logger,
                 flusher, closer, owed, logged, reports, mark>>

Finish ==
  /\ call = "none"
  /\ busy' = FALSE
  /\ call' = IF items = <<>> THEN "finish" ELSE "none"
  /\ UNCHANGED <<items, shutdown, dropped, wake, held, outcome, logger,
                 flusher, closer, owed, logged, reports, mark>>

FinishNotify ==
  /\ call = "finish"
  /\ call' = "none"
  /\ NotifyDrained
  /\ UNCHANGED <<state, wake, held, outcome, logger, closer, owed, logged,
                 reports, mark>>

WorkerReport ==
  /\ call = "none"
  /\ Report(Worker)
  /\ UNCHANGED <<state, worker, outcome, logger, flusher, closer, logged, mark>>

-----------------------------------------------------------------------------
(* Flushing and closing threads.                                           *)

FlushCall(f) ==
  /\ flusher[f] = "idle"
  /\ mark' = [mark EXCEPT ![f] = Pending]
  /\ flusher' = [flusher EXCEPT ![f] = IF Drained THEN "drained" ELSE "waiting"]
  /\ UNCHANGED <<state, worker, outcome, logger, closer, owed, logged, reports>>

FlushWaitEnds(f) ==
  /\ flusher[f] = "waiting"
  /\ \E w \in {"timeout", "notified"} : flusher' = [flusher EXCEPT ![f] = w]
  /\ UNCHANGED <<state, worker, outcome, logger, closer, owed, logged, reports,
                 mark>>

\* The waiter has the lock again: the wait's predicate, and after a timeout
\* the final reading of the same predicate.
FlushWake(f) ==
  /\ flusher[f] \in {"notified", "timeout"}
  /\ flusher' = [flusher EXCEPT ![f] =
       IF Drained THEN "drained"
       ELSE IF @ = "timeout" THEN "undrained" ELSE "waiting"]
  /\ UNCHANGED <<state, worker, outcome, logger, closer, owed, logged, reports,
                 mark>>

\* mutant: notifies only the flush calls
ShutdownForFlushes(c) ==
  /\ closer[c] = "idle"
  /\ shutdown' = TRUE
  /\ closer' = [closer EXCEPT ![c] = "drained"]
  /\ UNCHANGED <<items, busy, dropped, worker, outcome, logger, flusher, owed,
                 logged, reports, mark>>

Shutdown(c) ==
  /\ closer[c] = "idle"
  /\ shutdown' = TRUE
  /\ closer' = [closer EXCEPT ![c] = "work"]
  /\ UNCHANGED <<items, busy, dropped, worker, outcome, logger, flusher, owed,
                 logged, reports, mark>>

ShutdownNotifyWork(c) ==
  /\ closer[c] = "work"
  /\ NotifyWork
  /\ closer' = [closer EXCEPT ![c] = "drained"]
  /\ UNCHANGED <<state, call, held, outcome, logger, flusher, owed, logged,
                 reports, mark>>

ShutdownNotifyDrained(c) ==
  /\ closer[c] = "drained"
  /\ NotifyDrained
  /\ closer' = [closer EXCEPT ![c] = "done"]
  /\ UNCHANGED <<state, worker, outcome, logger, owed, logged, reports, mark>>

-----------------------------------------------------------------------------
Log(l) == Push(l) \/ PushNotify(l) \/ LogReport(l)

\* The rule the code states for the worker and tests nowhere: whoever takes an
\* entry with pop settles it or puts it back once, then calls finish, and
\* reports the drop it was told of, before the next pop or sleep.
MayCall == ~busy /\ held = None /\ owed[Worker] = 0
Holding == busy /\ held # None
MustFinish == busy /\ held = None

Work ==
  \/ MayCall /\ (PopWait \/ PopItem \/ PopNothing \/ SleepWait \/ SleepReturn)
  \/ Holding /\ (Send \/ Discard \/ PushFront)
  \/ MustFinish /\ Finish
  \/ WaitEnds \/ FinishNotify \/ WorkerReport

Flush(f) == FlushCall(f) \/ FlushWaitEnds(f) \/ FlushWake(f)

Close(c) ==
  Shutdown(c) \/ ShutdownNotifyWork(c) \/ ShutdownNotifyDrained(c)

Next ==
  \/ \E l \in Loggers : Log(l)
  \/ \E f \in Flushers : Flush(f)
  \/ \E c \in Closers : Close(c)
  \/ Work

Spec == Init /\ [][Next]_vars

-----------------------------------------------------------------------------
(* Safety.                                                                 *)

\* Every variable keeps its kind, and an entry is one that was logged.
TypeOK ==
  /\ items \in Seq(Entries) /\ sent \in Seq(Entries)
  /\ busy \in BOOLEAN /\ shutdown \in BOOLEAN
  /\ dropped \in Nat /\ logged \in 0 .. MaxLogged
  /\ call \in {"none", "pop", "sleep", "finish"}
  /\ wake \in {"asleep", "notified", "timeout"}
  /\ held \in Entries \union {None}
  /\ logger \in [Loggers -> {"idle", "notify", "report"}]
  /\ flusher \in [Flushers -> {"idle", "waiting", "notified", "timeout",
                               "drained", "undrained"}]
  /\ closer \in [Closers -> {"idle", "work", "drained", "done"}]
  /\ owed \in [Reporters -> Nat]
  /\ discarded \subseteq Entries /\ lost \subseteq Entries
  /\ reports \subseteq Nat \ {0}
  /\ mark \in [Flushers -> SUBSET Entries]

\* The queue never holds more than its capacity, also when a failed write
\* puts an entry back while logging threads refill the queue behind it.
WithinCapacity == Len(items) <= Capacity

Ascending(s) == \A i, j \in DOMAIN s : i < j => s[i] < s[j]

\* What was written, what the worker holds and what is queued are in the
\* order in which the entries were logged, so entries reach the connection in
\* that order and none twice, whatever was put back or evicted on the way.
InOrder ==
  /\ Ascending(sent) /\ Ascending(items)
  /\ \A m \in Range(sent), n \in Range(items) : m < n
  /\ held # None => /\ \A m \in Range(sent) : m < held
                    /\ \A n \in Range(items) : held < n

Fates == <<Range(items), Hand, Range(sent), discarded, lost>>

\* Every entry that was logged is in exactly one place: queued, in the
\* worker's hand, written, reported unsendable, or counted as dropped.  No
\* failure, eviction or shutdown makes one vanish or doubles one.
OneFate ==
  /\ UNION Range(Fates) = 1 .. logged
  /\ \A i, j \in DOMAIN Fates : i # j => Fates[i] \intersect Fates[j] = {}

\* Every drop has a total of its own, and each total was either passed to
\* on_error or is owed by the one thread that is about to: no two reports say
\* the same total and none is skipped, though they run outside the lock.
DropsReported ==
  /\ Cardinality(lost) = dropped
  /\ reports \union ({owed[t] : t \in Reporters} \ {0}) = 1 .. dropped
  /\ \A t \in Reporters : owed[t] \notin reports
  /\ \A t, u \in Reporters : owed[t] = owed[u] => t = u \/ owed[t] = 0

\* A flush that answers true left nothing behind: every entry that was queued
\* or in the worker's hand when it began was written, reported unsendable or
\* counted as dropped, whatever was logged or put back while it waited.
FlushSound ==
  \A f \in Flushers : flusher[f] = "drained" =>
    mark[f] \subseteq Range(sent) \union discarded \union lost

\* What the documentation of flush says of true: every queued entry "has been
\* written" (client.rs:328), "reached the operating system" (queue.rs:163), the
\* unsendable ones aside.  The code does not keep it: an entry evicted while the
\* flush waits, or one that finds no room after a failed write, is gone when
\* flush answers true.
DrainedMeansWritten ==
  \A f \in Flushers : flusher[f] = "drained" =>
    mark[f] \subseteq Range(sent) \union discarded

\* Only the oldest entry is ever dropped, unless it is one that arrives after
\* shutdown: what a full queue gives up is older than all it keeps, for an
\* evicted entry and for one that could not be put back.
DropsOldest ==
  [][\A n \in lost' \ lost :
       IF n > logged THEN shutdown ELSE \A m \in Range(items') : n < m]_vars

\* After shutdown the backlog only shrinks: what the worker has left to send
\* is what was queued when close was called, however much is logged since.
BacklogOnlyShrinks == [][shutdown => Pending' \subseteq Pending]_vars

-----------------------------------------------------------------------------
(* No notification is missed.  Whoever sleeps with nothing left to wait for *)
(* has a notification on its way, though all are sent after the unlock.     *)

\* The worker does not sleep in pop over a queued entry: the poll interval is
\* the safety net its comment says it is, and no more.
PushWakes ==
  call = "pop" /\ wake = "asleep" /\ items # <<>> =>
    \E l \in Loggers : logger[l] = "notify"

\* The worker does not sleep through a shutdown, be it in pop or in a reconnect
\* delay.
ShutdownWakes ==
  call \in {"pop", "sleep"} /\ wake = "asleep" /\ shutdown =>
    \E c \in Closers : closer[c] = "work"

\* A flush does not sleep while nothing is queued or in hand.
FinishWakes ==
  \A f \in Flushers : flusher[f] = "waiting" /\ Drained => call = "finish"

-----------------------------------------------------------------------------
(* What the callers of Client see of it.                                   *)

InFlight == IF held = None THEN items ELSE <<held>> \o items

Answers ==
  [f \in Flushers |-> IF flusher[f] \in {"notified", "timeout"}
                      THEN "waiting" ELSE flusher[f]]

H == INSTANCE Handoff WITH
       Bound <- Capacity, pending <- InFlight, out <- sent, spoilt <- discarded,
       count <- dropped, open <- ~shutdown, asked <- mark, answer <- Answers

\* The queue is the simple buffer of module Handoff: a put-back keeps its
\* entry's place, only one of the two oldest is ever given up, what leaves was
\* delivered, found unsendable or counted, and flush answers true only once all
\* it found is settled.
ImplementsHandoff == H!Spec
=============================================================================

# ecapplog-rust in TLA+

A verification development of the `ecapplog` crate, the Rust client of the
ECAppLog GUI: TLA+ models of its queue, its worker, its wire format, its
records, its date arithmetic and its adapters, TLC configurations that check
them on small instances, and TLAPS proofs of every safety property they check, for
every number of threads, capacity, entry, timeout, payload, span and field.

    tlc -config Queue.cfg MCQueue          # one line per run, see "Runs"
    tlapm ClientProofs.tla                 # and the other *Proofs modules

Source paths below are relative to `src/` of the crate.

## The system

Any number of threads call `Client::log`; entries go into a bounded queue; one
worker thread connects to the GUI over TCP, sends a banner, then one frame per
entry. The GUI never answers. The crate's parts:

| Part | State | Operations | Modelled by |
|---|---|---|---|
| Queue (`queue.rs`) | `items`, `busy`, `shutdown` under a mutex; two condition variables; atomic `dropped` | `push`, `push_front`, `pop`, `finish`, `flush`, `shutdown`, `sleep_or_shutdown`, the readers | `Queue`; `Handoff` is its abstract specification |
| Worker (`client.rs:363-532`) | its position, the flush deadline, the socket | connect, banner, pop and write, requeue, reconnect delay, leave | `Client`; `CloseBudget` adds a clock |
| Client handle (`client.rs:161-353`) | the `JoinHandle`, shared by all clones | `build`, `log`, `flush`, `dropped_count`, `close`, `Drop` | `Queue` (`Log`, `Flush`, `Close`), `Client` (`TakeHandle`, `Join`, `JoinItself`) |
| Builder (`client.rs:46-159`) | the configuration | setters | constants of `Queue`, `Client`, `CloseBudget` |
| Errors and `on_error` (`error.rs`) | none | the callback, on the worker or a logging thread | `Client` (on the worker), `Facade` (on any thread) |
| Wire protocol (`proto.rs`) | the worker's frame buffer | `encode_frame`, `banner_payload`, the size limit, `LogPayload` | `Wire` (bytes), `Payload` (keys) |
| Record, Priority | none | the builder, names, classes, parsing | `Payload` |
| Timestamps (`timestamp.rs`) | none | `format_utc`, `civil_from_days` | `Timestamp` |
| `log` adapter (`adapter_log.rs`) | the process's logger and level | `build`, `init`, `enabled`, `log` | `Facade`; what `log` makes of a record: `LogEntry` in `Tracing` |
| `tracing` adapter (`adapter_tracing.rs`) | fields kept with each span | `on_new_span`, `on_record`, `on_event` | `Tracing` |
| Examples, tests, CI | | the mock server's reader is the server of `Wire` and of `ReadBack` | otherwise outside |

How they interact: logging threads and the worker share the mutex and the two
condition variables; `on_error` is called back outside the lock, by the worker or
by the thread that logs, and may call the client in turn; `close` joins the
worker; the worker and the GUI share a socket, whose failures the worker learns
of late or never; the adapters call `Client::log` from any thread.

What is hard here, and a test hardly reaches: notifications are sent after the
unlock, so every one of them can come before the wait it should end; an entry
put back after a failed write meets the entries that refilled the queue; `flush`
infers from emptiness and one flag that everything was written; the worker
re-reads `shutdown` at four places, under separate lockings; drop totals are
reported by several threads outside the lock; `close` waits for the worker
without a timeout of its own; a callback may log, close or panic in the middle
of all this; several threads may install a logger. PROJECT.json lists each
hazard at its line, with the properties that cover it, and says of the ones not
covered why not.

What makes each part correct:

* Queue: capacity; order over evictions and put-backs; exactly one fate per
  entry; each drop counted and reported once, and of the oldest; `flush` true
  only when all it found is settled; the backlog only shrinks after shutdown;
  no missed notification. In one sentence: it is the buffer of `Handoff`.
* Worker: one `finish` per `pop` on every path; the banner first and once per
  connection; leaving, and abandoning entries, only when allowed; reconnecting
  until every entry has met its fate.
* Client handle: `close` returns, and the first one to be called returns with the
  worker gone and within a bounded time. (A second one, called meanwhile, finds no
  handle and returns at once.)
* Wire: the server finds the frames that were written, whatever pieces the
  transport makes of them, and has no reason to hang up.
* Records: what the GUI reads is what the program built.
* Timestamps: the Gregorian date of every day; monotonic.
* Adapters: the level and the client in force are the installed logger's; a call
  of the facade ends; an entry shows what its spans held while the event was
  handled; nothing the program wrote goes missing; a `log` record looks the same
  on both of its ways.

## The modules

**Queue** is `queue.rs` under its most general callers: threads that log, flush and close,
and a worker. The operations themselves do what the code does whoever calls them: none of
them tests that the worker finished the entry it took before. The rule of `queue.rs:126`,
that `finish` follows `pop`, is stated once, in `Work` (`MayCall`, `Holding`,
`MustFinish`), and binds Queue's own worker only. One action is one critical section or
one notification sent after the unlock; `Push`, `PushNotify` and `LogReport` are the three
steps of one `Client::log`. A thread in a condition wait is `asleep`, then `notified` or
`timeout`, and takes a later step to get the lock back and test its condition; a
notification to a thread that is not asleep is lost, as in the code. A spurious wakeup is
a `notified` that nobody sent (`WaitEnds`, `FlushWaitEnds`). Entries are the numbers of
the pushes in the order they got the lock. `held`, `sent`, `discarded`, `lost`, `reports`,
`mark` and `logged` are history variables, except that `held` also stands for the `Record`
the worker owns. The mutex itself is not a variable: a critical section is one step.

**Handoff** is what the callers of `Client` may rely on, in a page: a buffer that
never blocks, gives up one of its two oldest entries when full (which of the two
depends on whether the oldest is on its way out just then), delivers in order,
counts each drop (`Displace`, `Refuse`, `GiveUp`), keeps what nobody could send apart
from the drops (`SetAside`), and answers a flush only when what it found is settled. `Queue`
implements it under the mapping at its end: the entry in hand is the oldest of the
pending ones, so popping it and putting it back are no steps at all, and neither
are notifications, wakeups or reports.

**Client** EXTENDS Queue and adds the worker's program counter `pc`, one value per
place where it may be overtaken, and the actions it takes there: each conjoins an
operation of Queue (or none) with its effect on the deadline, the socket and `pc`.
They do not conjoin `Work`: when the worker calls what is decided by `pc` alone, and
that it keeps the rule of `Work` is a property (`ImplementsQueue`), which a worker that
forgets `finish` on one path breaks.
`TakeHandle` and `Join` finish `Inner::close`. Wherever the code calls
`Config::report` on the worker, `reporting` is set, and until the callback returns
(`CallbackReturns`), panics (`CallbackPanics`) or joins its own thread
(`JoinItself`) the worker goes nowhere; meanwhile the callback may make the calls of
`onWorker`, which are ordinary calls of `log` and `close` confined to that time; the
set is one of `Callbacks`, chosen as the client is built. The
GUI is the external part: reading, hung or absent, closing connections when it
likes; a write into a closed connection may succeed or fail until the worker drops
it. `handle` may be false from the start: `build` ignores a failed spawn.

**CloseBudget** EXTENDS Client with a clock that starts when shutdown is requested
and runs only while the worker is in a system call on the network (`Tick`). `TellsTime`
makes each look at the deadline truthful; `StartsCall` gives each call the longest it
may take: `connect_timeout`, or what is left of the flush timeout but at least a tick,
for each address; and `WriteTime` for a banner or a frame, which may be several times
`connect_timeout` because `write_all` may need several writes. `TimeAssumption` wants a
`connect_timeout` above zero. The builder accepts zero too; then no connection succeeds
until a flush on close raises its timeout to a millisecond, the socket refuses the write
timeout, `connect` ignores that (`client.rs:491`), and a write to a GUI that stopped
reading has no bound, nor has `close`. `Client` assumes the same where a write to a hung
GUI fails in the end (`WriteFails`).

**Wire** is the byte stream: the worker's frame buffer, what `write_all` has handed
over, what is under way, and the server's buffer and offset. `Base` stands for 256.
`HandOver` and `Break` are external: any number of bytes at a time, and a break at any
byte. The server is `handle` of `examples/mock_server.rs:39-154`, one step per `read`,
per frame decoded and per `drain`, with its three reasons to disconnect; a new
connection has a new `handle`.

**Payload** is an entry's content on its way: `NewRecord` and `Call` build a `Record`,
`FromRecord` makes the JSON object of it (a function whose domain is the keys that are
emitted), and `ReadBack` is what the mock server reads of that. Priorities are the
eight names or `Custom`, parsed or given as they are (`PriorityOf` in `Tracing`); the GUI
(`InErrorTab`, external) sees their text only.

**Tracing** is the tracing layer with the program's spans: `slot` is the `SpanFields`
extension of each, `past` (history) what the program has recorded on it. `on_event` is
three actions, because each span is read under its own lock (`EventBegin`, `EventRead`
for each span, `EventLog`), and other threads open spans and record in between. What an
event's own fields and metadata become is the operator `Entry`; `Bridged` is the
external `tracing-log` bridge, and `LogEntry` what the log adapter makes of the same
record. What the layer gives to the client goes through `Payload` and is judged by what
the GUI reads; records that a program builds itself (`DirectLog`) go the same way. An
event changes nothing that another one reads, so one event at a time is enough.

**Facade** is `LogLogger` as the process's logger. Each thread may run `init` (`Build`,
`Install`, then `SetLevel` or, if another was first, `DropLogger`), and log; clients are
counted by their clones, and shut with the last one. A call of the facade goes through the
macro's level test and the logger's, `push` with the queue's mutex explicit (`Push`,
`Unlock`), the report, and back. The program may close the client it shares with its
loggers at any time (`ProgramCloses`), after which `push` refuses; the callback may log
through the facade, on the logging thread and on the worker, which is what `depth` counts.
The queue is only a length here. A client that `init` built for itself has no callback,
since the log adapter's builder has no way to set one.

**Timestamp** is the arithmetic of `timestamp.rs` as operators on integers.
**Calendar** is its specification: one behaviour that walks the days and holds the
civil date of each, kept by the rules of the calendar alone.

**MCQueue**, **MCFacade**, **MCWire** and **MCTracing** instantiate for
TLC (thread names are model values; the symmetry set is used for safety only).
**QueueProofs**, **HandoffProofs**, **ClientProofs**, **CloseProofs**,
**FacadeProofs**, **WireProofs**, **TracingProofs** and **CalendarProofs** hold the
theorems; those of the client build on those of the queue, as the modules do.

Operators marked `mutant:` beside a definition are plausible bugs of the same
code. No specification uses them; each is there to show that the property
PROJECT.json pairs it with would notice.

## Runs

| Run | Expected | What it shows |
|---|---|---|
| `Queue` | pass | every interleaving of 2 logging threads, a flush, a close and the worker, capacity 2, 4 entries: `InOrder`, `OneFate`, `DropsReported`, `FlushSound`, `PushWakes`, `ShutdownWakes`, `FinishWakes`, `DropsOldest`, `BacklogOnlyShrinks`, and `ImplementsHandoff`, the refinement |
| `Client` | pass | the worker with both values of `flush_on_close`, a `buffer_size` of zero, an unsendable entry, a fault of the GUI and a callback that logs, closes or panics, under two application threads that close or one and the callback: `StreamsWellFormed`, `WithinCapacity` (of the queue), `AbandonsOnlyWhenAllowed`, and `ImplementsQueue`, the refinement; `CloseReturns` without any timeout of a wait; `EventuallySettled` with timeouts and a GUI that comes back |
| `CloseBudget` | pass | `CloseWithin`, `ConnectWithin`: how long the worker may still be in the network after `close`; `LeavesPromptly`: what it still writes when it is not to flush |
| `Facade` | pass | three threads installing, two of them around one client and logging, a callback that logs but not inside itself, and a program that may close that client: `LevelOfInstalled`, `LoserLeavesNothing`, `InstalledOpen`, `CalledUnlocked`, `LogReturns` |
| `Wire` | pass | two connections, two records, breaks at every byte and reads of every size: `Framed`, `AllFound`, `NeverRefused` |
| `Tracing` | pass | two nested or separate spans, records on them during an event, three configurations; forty records built directly, of parsed priorities and of `Custom`: `SpansCurrent`, `OpeningTextKept`, `SameEitherWay`, `UserFieldsKept`, `ReadAsBuilt`, `ErrorTabForeseen` |
| `Calendar` | pass | `civil_from_days` agrees with the calendar on all days from 1597 to 2002, two ends of an era and all century rules included; the rendering is monotonic across the epoch |
| `QueueFlush` | violation | `flush` answers true although an entry it waited for was evicted unwritten |
| `CloseBudgetDoc` | violation | `close` outlasts the flush timeout |
| `FacadeRecursion` | violation | a callback that logs without a guard of its own never returns while the queue is full |
| `TracingCustom` | violation | `Custom("ERROR")` reaches the ERROR tab, though the client says it does not |
| `CalendarEra` | violation | before 0000-03-01 `doe` leaves its stated range: the era is adjusted twice |

The last five are disagreements of the code with its own comments; PROJECT.json
"findings" quotes them. `CloseWithin` says what holds instead of `CloseBudgetDoc`'s
claim, `FlushSound` what holds instead of `QueueFlush`'s, `ErrorTabForeseen` what holds
instead of `TracingCustom`'s, for parsed priorities, and `Facade` with `Guarded`
that the callback is free to log as far as locks go.

**Bounds.** `MaxLogged` bounds the entries of a behaviour, `MaxFaults` the times the GUI
fails, `MaxCalls` the program's calls of the facade, `MaxDepth` how deep callbacks are
counted (beyond it they go on, uncounted). A capacity of 2 is the least with an entry in
the middle; with 4 entries it is filled, evicted from and refilled while one entry is in
hand. Two logging threads race each other's notifications and reports, and a third would
add a copy of one of them; there is only ever one worker. `Client` has two configurations
of the callback in one run: one in which both loggers are the callback's and both closers
the application's, so that two threads close at once, and one in which the callback logs
and closes while the application does both. Its `buffer_size` is zero, which makes a queue
of one: two entries then give one in hand and one queued, or one evicted by the other, or
one refused a put-back; the second cannot be sent, so that the path without a write is
taken after each other path. One fault allows a failed write, a failed banner or a failed
reconnect; a GUI that is absent or hung from the start is not counted as one. More of each
is left to the proofs, which hold for all. `CloseBudget` has three entries, so that more
than one could be written late, two addresses and a flush timeout below `connect_timeout`,
so that each of the bound's terms is used up. `Facade` has three threads because two can
be given one client and a third has to win or lose against both; one call of each of the
two suffices, since a call's record can be the last to fill a queue of one. `Wire` takes
bytes of base 3, so that the length 4 has two digits, and payloads that read like headers;
a payload of five bytes is over its limit. Reads of up to 20 bytes are all a pipe of two
records and a banner holds. `Tracing` needs two spans for order and nesting, and four
changes (openings and records, together `MaxChanges`) for a record before an event and one
during it on the same span. The proofs remove the bounds for all safety properties; what
rests on them is liveness.

**Fairness.** `ThreadsRun` (Client) says that a thread that can take a step inside a
call takes it: the scheduler runs it, and system calls return. A callback ends in some
way, since the worker is weakly fair and returning is one of its steps; the calls it
makes are calls like the application's. No timeout has to elapse, no wakeup is
spurious, no thread has to call anything, the GUI need never appear. The liveness of
close holds under that alone. `EventuallySettled` has `WorldRuns` as its premise: a
wait times out when it keeps being restarted (strong fairness, because
`wait_timeout_while` keeps account of the time already waited, so notifications do not
postpone the timeout for ever), and a GUI that is away comes back. With the number of
faults bounded it then stays. `FacadeSpec` has weak fairness of every thread inside a
call, no more: the mutex is not assumed fair, and need not be, because the number of
calls that could compete for it is bounded.

`CHECK_DEADLOCK FALSE` is set for the calendar's walk, which ends, for `Wire`, whose
worker has nothing more to send once the bounds are reached, and for `Tracing` and
`Facade`, whose programs stop likewise. A client that is closed with its worker gone
has come to its end: `Over` is that state's step.

## Proofs

Every safety property of a passing run, invariant or action property, is a theorem of
its specification, and so are the two refinements. PROJECT.json "theorems" pairs each
theorem with the property it states, under the name the run checks it by.

**Queue.** `QueueProofs` assumes `SizeAssumption` (sizes are natural numbers) and
`WorkerAssumption` (the worker is no logging thread), nothing of how many threads there
are. `SafeInv == TypeOK /\ Control /\ Placed` is inductive. `Control` says that an entry
in hand means `busy` and that the worker is in no call while busy; without it a `pop`
could overwrite the entry in hand. `Placed` is order and `Partition`, which is `OneFate`
written out place by place, proved equivalent. Order alone is not inductive: an eviction
is only harmless because the entries' places are disjoint and what is queued is above
what was sent. `PushPlaces`, `PopPlaces` and `HandPlaces` are the three ways entries
move; every other action moves none. `FlushSound` needs `Marks` in addition (a flush
waits only for what was logged), and `DropsReported` needs `Owing` (a thread about to
drop owes no report). The three properties of notifications are inductive only together
(`WakeInv`), given `Control`: a put-back finds the worker awake because it holds the
entry.

**Handoff.** `HandoffProofs` proves `QueueImplementsHandoff`: the initial states map to
the initial state, and under `SafeInv` and `FlushSound` each action maps to the abstract
step of its name or to none. That a put-back is no step, and that an eviction with an
entry in hand gives up the second oldest, is where the mapping earns its keep (`Cons`,
`ConsAppend`, `InFlightIsPending`).

**Client.** `ClientProofs` shows that each step of `ClientNext` is a step of `Next` or
leaves the queue's variables alone (`ClientImplementsQueue`). That is a fact about the
worker's control, not about the operations, which would let it pop twice: it rests on
the inductive invariant `Contract`, which says for each `pc` whether the worker is `busy`
(`InHand`), holds an entry, and may owe a report, over callbacks that log or close and a
worker that died of one. `ContractStep` shows that every action keeps it;
`ClientStepIsQueueStep`, that under it every call the worker makes is one that `Work`
permits. So everything above holds
of the client (`ClientSafe`), which is the buffer of `Handoff` to its callers
(`ClientImplementsHandoff`). Then, with the invariant `Leaving` (at most one late
write, and where it was made), `LeavesPromptly` and
`AbandonsOnlyWhenAllowed`; and with `Framing` (nothing was written before the banner, and
something since) `StreamsFramed`. The type invariant is an invariant of the pieces
(`Kinds`), except that the count of late writes is bounded by the number of entries. That
needs `LateWritten`: no more was written late than was written, and since entries are
written in order the n-th of them is the n-th logged or a later one.

**Time.** `CloseProofs` assumes `TimeAssumption`, a `connect_timeout` above zero
included. `TimeInv` says for each place of the loop how much
time may have passed there: none at the heads of the loop and in `pop` before the first
look, a connection's time while connecting, a banner's more before the deadline is set,
less than the deadline in `pop` after a look, and one write more in a write. `Moves`
reduces the client's steps to the places they join, so that the arithmetic is separate
from the client. `CloseIsBounded` and `LateConnectIsBounded` follow for all durations and
numbers of addresses.

**Facade.** `FacadeProofs` assumes `FacadeAssumption`: any finite set of threads, shared
clients and levels. Its inductive invariant adds to `LevelOfInstalled`,
`LoserLeavesNothing`, `InstalledOpen` and `CalledUnlocked` that one init at most is past
installing (`OneWins`) and that a client's clones are exactly the program's own and those
of the loggers not yet dropped (`RefsCounted`, by cardinality), so that a loser never
takes the last one while the winner has its own; the shared client is shut just when it
has no clone left or the program closed it. That the counts stay within the type is
a matter of that cardinality too (`RefsBounded`); the rest of the type is `Bounds`.

**Wire.** `WireProofs` first proves of framing, for every base above 1 and every payload
whose length fits the four-digit field, `FrameFound` (a whole frame decodes to what it was
made of and leaves exactly what follows it) and `CutFrameWaits` (no proper prefix is taken
for a frame); `LengthKept` is the arithmetic of the length field under both. Then
`FramesFound`, `NothingLeftOver` and `NoHangUp`, for every base, limit, prefix, name and
set of payloads that satisfy the assumptions of `Wire`, and any number of records, breaks
and connections. `StreamInv` says that there is a stream, all bytes of all frames begun on
the connection, of which the bytes drained, the reader's buffer, the pipe and the rest of
the frame being written are pieces that follow one another; the frames found end where the
reader's offset is. Nothing in the state holds that stream once its bytes are drained,
which is why the invariant quantifies over it. Each action moves bytes from one piece to
the next (`PieceMoves`, `PieceAfter`, `PieceBefore`) or adds a frame at the end (`Extend`),
and what the reader decodes is the stream's next frame (`NextFrame`), so its length is
within the limit and it is a banner only if it is the first.

**Tracing.** `TracingProofs` is about any spans, fields, events, records, configurations
and texts. `TracingInv` has three parts. `SpansInv`: a span is opened inside an earlier
one, has a history, and keeps in its slot what the program set last, apart from the
message, and the text it was opened with while no other message was recorded
(`Reflects`). Of the message no more can be said: one that is recorded later is thrown
away. `EventInv`: the event being handled has read the spans around it in order, and what
it has of each is a state since the event began (`Shows`), which later records do not
change, since histories only grow (`ShowsGrows`, `EventKept`). `EntryInv`: an entry is
what `Entry` makes of such an event, or what `BuildRecord` makes of a program's calls. The
theorems then follow state by state. `BridgeAgrees` compares the two ways of a record key
by key. `BuiltIsRead` is an induction over the calls (`BuiltBy`: every tab named in the
first n calls, and of the rest what was set last in them), carried out by a least
counterexample (`Least`), which is also how the recursive functions are shown to exist and
to satisfy their equations (`PathExists`, `ChainExists`).

Its assumptions are what the code's types say: `LogAssumption`, a record's message is
text; `EventAssumption`, only events that the bridge made carry a record of the facade
(`record` marks them, as the bridge's call sites do in the code); `DirectAssumption`, a
program builds its records with the builder's calls; `UpperAssumption`, what is in
capitals stays as it is. Three theorems have `NoneIsNoObject` as a hypothesis: `None`, the
empty text, is no JSON object. A value that is left open may be anything in TLA+, an
object of the adapter's included; TLC's model value is none.

**Calendar.** `CalendarProofs` proves `EveryDay`: `CivilIsGregorian` on every day from
0000-03-01 on, with no bound on how far the walk goes. The hypothesis that it goes back no
further is what the code needs: before that day the era is wrong (`CalendarEra`). The
invariant is that the day and its date come from the same four numbers, an era, a year, a
month and a day counted from March. `DayLater` and `DayEarlier` are the calendar's rules on
them, and `Decoded` says that the code's divisions find them: `YearFound` for the year,
where the three corrections take off the leap days, and `MonthFound` for the month.
`RenderingIsMonotonic` proves `Monotonic` for any steps of the clock and any instants from
that day on. Each day has such numbers (`DayExists`), so the next day's date is the
calendar's next, and dates grow with the days (`KeysGrow`); the time of day is the
milliseconds since midnight, written in mixed radix (`Instant`, `PlaceValue`); and the
order of what is printed is the order of the two (`EarlierFacts`).

**Model-checked only.** The liveness properties `CloseReturns`, `EventuallySettled` and
`LogReturns`: their proofs would need fairness and ENABLED, which are out of the prover's
reach. The runs that expect a violation show one behaviour each, and need no proof.

## What is abstracted or left out

* Time: in `Client` the deadline may pass at any look at the clock and a wait may end
  at any moment. `CloseBudget` counts time in calls on the network only: resolving the
  name, which no timeout bounds, callbacks and the scheduler count as instantaneous.
* In `Client` frames are whole. A write cut off in the middle counts as not written, as the
  GUI never completes such a frame; that is `Framed` in `Wire`, and proved of it. The first write into a
  connection the GUI has closed may succeed and be lost: nothing in the protocol could
  tell.
* When the callback panics on the worker, the record in its hand is dropped with the
  thread; nothing in the code counts it, and the model leaves it `held` for ever.
* Where a thread joins itself, `join` panics or waits for ever, depending on the
  system; the model takes the panic. A worker that waits for ever returns no
  application's `close` either.
* The banner is within the size limit: the code does not test it.
* The server is not part of the crate. That it compares a priority's text literally is
  what `priority.rs:9-10` and the tests there say of it, and `InErrorTab` assumes.
* A `connect_timeout` of zero (see **CloseBudget** above).
* One tracing layer, which has seen every span open. A second layer on the same registry
  would use the same extension slot; what `insert` does then is the registry's.
* `flush` does not look at `shutdown`: woken by it with entries queued, it waits on, and
  ends by its own timeout if the worker left entries behind. An entry logged after
  shutdown is counted and reported as an overflow. Entries still queued when the worker
  leaves are not reported. All this is in `Queue` and `Client` as the code has it.
* A name that resolves to several addresses is one connection attempt in `Client`.
* Mutex poisoning: every lock recovers from it, and no critical section can panic.
* The drop counter's 64 bits are not reached.
* `Relaxed` ordering of the counter: every increment happens under the mutex, and each
  increment's own result is what is reported.
* An era before year 0 is checked only to refute the comment.

### Not modelled

The texts of errors, JSON's syntax, the reserved category names (a matter of the GUI),
the examples other than the mock server, and the tests.

## Plan

What could still be added: `Tracing` with two layers and with spans a per-layer filter
hid; of `flush`, what it may wait for when the worker has left.

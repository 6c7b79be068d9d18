------------------------------- MODULE Facade --------------------------------
(***************************************************************************)
(* LogLogger as the process's logger (src/src/adapter_log.rs): threads     *)
(* that race to install one each, threads that log through whichever won,  *)
(* and an on_error callback that itself logs through the facade, from a    *)
(* logging thread and from the worker.  Here the queue's mutex is explicit *)
(* and the queue no more than a length; module Queue has the rest of it.   *)
(*                                                                         *)
(* A thread's stack is where its innermost call of the facade is, and how  *)
(* many callbacks it is inside, counted up to MaxDepth.                    *)
(***************************************************************************)
EXTENDS Integers, FiniteSets

CONSTANTS
  Initers,        \* threads that call LogLoggerBuilder::init
  Loggers,        \* those of them that log
  Worker,         \* the worker of the installed logger's client
  Supplied,       \* those of Initers whose builder was given the shared client
  Shared,         \* that client
  Level,          \* for each of Initers, its builder's max_level, 0 for Off
  CallLevels,     \* levels of the program's own records
  CallbackLevel,  \* level at which the callback logs
  Guarded,        \* whether the callback refrains from logging inside itself
  BufferSize, MaxCalls, MaxDepth, None

Threads == Initers \union {Worker}
Clients == (Initers \ Supplied) \union {Shared}

ASSUME FacadeAssumption ==
  /\ IsFiniteSet(Initers) /\ Loggers \subseteq Initers /\ Shared \notin Initers
  /\ Supplied \subseteq Initers /\ Level \in [Initers -> 0 .. 5]
  /\ CallLevels \subseteq 1 .. 5 /\ CallbackLevel \in 1 .. 5 /\ Guarded \in BOOLEAN
  /\ BufferSize \in Nat \ {0} /\ MaxCalls \in Nat /\ MaxDepth \in Nat \ {0}
  /\ None \notin Threads /\ Worker \notin Initers

VARIABLES
  installed,  \* the thread whose logger is the global one, or None
  maxLevel,   \* log::max_level()
  init,       \* each call of init: idle, built, installed, lost, ok or err
  refs,       \* clones of each client
  shut,       \* whether it was shut down, by close or with its last clone
  dropped,    \* whether the program has dropped its own clone of Shared
  closed,     \* whether it has called close on it (history: no action reads it)
  lock,       \* who holds the mutex of the installed client's queue, or None
  queued,     \* how many entries are in it
  at,         \* each thread's innermost log call: out, lock, unlock, report,
              \* return
  owes,       \* whether that call's push returned a drop total
  depth,      \* callbacks the thread is inside
  calls       \* log calls of the program, to bound them

global == <<installed, maxLevel>>
clients == <<refs, shut, dropped, closed>>
queue == <<lock, queued>>
stack == <<at, owes, depth>>
facadeVars == <<global, init, clients, queue, stack, calls>>

Init ==
  /\ installed = None /\ maxLevel = 0
  /\ init = [i \in Initers |-> "idle"]
  /\ refs = [c \in Clients |-> IF c = Shared THEN 1 + Cardinality(Supplied) ELSE 0]
  /\ shut = [c \in Clients |-> FALSE] /\ dropped = FALSE /\ closed = FALSE
  /\ lock = None /\ queued = 0
  /\ at = [t \in Threads |-> "out"] /\ owes = [t \in Threads |-> FALSE]
  /\ depth = [t \in Threads |-> 0] /\ calls = [t \in Threads |-> 0]

ClientOf(i) == IF i \in Supplied THEN Shared ELSE i

-----------------------------------------------------------------------------
(* Installing a logger.                                                    *)

\* build: a client of its own, with its worker, unless one was supplied.
Build(i) ==
  /\ init[i] = "idle" /\ at[i] = "out"
  /\ init' = [init EXCEPT ![i] = "built"]
  /\ refs' = IF i \in Supplied THEN refs ELSE [refs EXCEPT ![i] = 1]
  /\ UNCHANGED <<global, shut, dropped, closed, queue, stack, calls>>

\* mutant: sets the level before it knows whether its logger is taken
InstallAfterLevel(i) ==
  /\ init[i] = "built"
  /\ maxLevel' = Level[i]
  /\ IF installed = None
     THEN installed' = i /\ init' = [init EXCEPT ![i] = "installed"]
     ELSE init' = [init EXCEPT ![i] = "lost"] /\ UNCHANGED installed
  /\ UNCHANGED <<clients, queue, stack, calls>>

\* set_boxed_logger takes the first logger it is given.
Install(i) ==
  /\ init[i] = "built"
  /\ IF installed = None
     THEN installed' = i /\ init' = [init EXCEPT ![i] = "installed"]
     ELSE init' = [init EXCEPT ![i] = "lost"] /\ UNCHANGED installed
  /\ UNCHANGED <<maxLevel, clients, queue, stack, calls>>

SetLevel(i) ==
  /\ init[i] = "installed"
  /\ maxLevel' = Level[i]
  /\ init' = [init EXCEPT ![i] = "ok"]
  /\ UNCHANGED <<installed, clients, queue, stack, calls>>

\* A clone of c is gone; with the last one, the client closes.
DropClone(c) ==
  /\ refs' = [refs EXCEPT ![c] = @ - 1]
  /\ shut' = [shut EXCEPT ![c] = @ \/ refs'[c] = 0]

\* mutant: the logger was leaked, as set_logger would have it
LeakLogger(i) ==
  /\ init[i] = "lost"
  /\ init' = [init EXCEPT ![i] = "err"]
  /\ UNCHANGED <<global, clients, queue, stack, calls>>

\* mutant: a logger that closes its client when it is dropped
CloseAndDropLogger(i) ==
  /\ init[i] = "lost"
  /\ init' = [init EXCEPT ![i] = "err"]
  /\ refs' = [refs EXCEPT ![ClientOf(i)] = @ - 1]
  /\ shut' = [shut EXCEPT ![ClientOf(i)] = TRUE]
  /\ UNCHANGED <<global, dropped, closed, queue, stack, calls>>

\* The logger that came too late is dropped, and with it its client.
DropLogger(i) ==
  /\ init[i] = "lost"
  /\ init' = [init EXCEPT ![i] = "err"]
  /\ DropClone(ClientOf(i))
  /\ UNCHANGED <<global, dropped, closed, queue, stack, calls>>

\* The program drops its own clone of the shared client.
ProgramDrops ==
  /\ ~dropped /\ dropped' = TRUE
  /\ DropClone(Shared)
  /\ UNCHANGED <<global, init, closed, queue, stack, calls>>

\* The program calls close on it, while loggers may be writing to it: shutdown,
\* under the lock of its queue.
ProgramCloses ==
  /\ ~dropped /\ closed' = TRUE
  /\ installed \in Supplied => lock = None
  /\ shut' = [shut EXCEPT ![Shared] = TRUE]
  /\ UNCHANGED <<global, init, refs, dropped, queue, stack, calls>>

InitCall(i) == Build(i) \/ Install(i) \/ SetLevel(i) \/ DropLogger(i)

-----------------------------------------------------------------------------
(* Logging.                                                                *)

Enabled(level) ==
  /\ installed # None
  /\ level <= maxLevel         \* the macro's test
  /\ level <= Level[installed] \* LogLogger::enabled

\* log::log!: the call ends at once, or goes on to the queue.
Enter(t, level) == at' = [at EXCEPT ![t] = IF Enabled(level) THEN "lock" ELSE "return"]

LogCall(t) ==
  /\ at[t] = "out" /\ init[t] \in {"idle", "ok", "err"}
  /\ calls[t] < MaxCalls /\ calls' = [calls EXCEPT ![t] = @ + 1]
  /\ \E level \in CallLevels : Enter(t, level)
  /\ UNCHANGED <<global, init, clients, queue, owes, depth>>

\* mutant: counts the drop and forgets to make room
PushOver(t) ==
  /\ at[t] = "lock" /\ lock = None
  /\ lock' = t
  /\ LET refuses == shut[ClientOf(installed)]
     IN  /\ queued' = IF refuses THEN queued ELSE queued + 1
         /\ owes' = [owes EXCEPT ![t] = refuses \/ queued >= BufferSize]
  /\ at' = [at EXCEPT ![t] = "unlock"]
  /\ UNCHANGED <<global, init, clients, depth, calls>>

\* push, up to the end of its critical section.
Push(t) ==
  /\ at[t] = "lock" /\ lock = None
  /\ lock' = t
  /\ LET refuses == shut[ClientOf(installed)]
         full == queued >= BufferSize
     IN  /\ queued' = IF refuses \/ full THEN queued ELSE queued + 1
         /\ owes' = [owes EXCEPT ![t] = refuses \/ full]
  /\ at' = [at EXCEPT ![t] = "unlock"]
  /\ UNCHANGED <<global, init, clients, depth, calls>>

\* mutant: keeps the lock until the callback has returned
KeepLock(t) ==
  /\ at[t] = "unlock"
  /\ lock' = IF owes[t] THEN lock ELSE None
  /\ at' = [at EXCEPT ![t] = IF owes[t] THEN "report" ELSE "return"]
  /\ UNCHANGED <<global, init, clients, queued, owes, depth, calls>>

Unlock(t) ==
  /\ at[t] = "unlock"
  /\ lock' = None
  /\ at' = [at EXCEPT ![t] = IF owes[t] THEN "report" ELSE "return"]
  /\ UNCHANGED <<global, init, clients, queued, owes, depth, calls>>

\* A client that init built for itself has no on_error callback.
HasCallback == ClientOf(installed) = Shared

\* Config::report: the callback logs, or finds itself called by itself.
Report(t) ==
  /\ at[t] = "report"
  /\ IF ~HasCallback \/ (Guarded /\ depth[t] > 0)
     THEN at' = [at EXCEPT ![t] = "return"] /\ UNCHANGED depth
     ELSE /\ Enter(t, CallbackLevel)
          /\ depth' = [depth EXCEPT ![t] = IF @ < MaxDepth THEN @ + 1 ELSE @]
  /\ UNCHANGED <<global, init, clients, queue, owes, calls>>

\* Reporting is the last thing log does, so what called back returns too.
Return(t) ==
  /\ at[t] = "return"
  /\ IF depth[t] = 0 THEN at' = [at EXCEPT ![t] = "out"] /\ UNCHANGED depth
                     ELSE depth' = [depth EXCEPT ![t] = @ - 1] /\ UNCHANGED at
  /\ owes' = [owes EXCEPT ![t] = FALSE]
  /\ UNCHANGED <<global, init, clients, queue, calls>>

InLog(t) == Push(t) \/ Unlock(t) \/ Report(t) \/ Return(t)

\* The worker takes an entry, or has something of its own to report.
WorkerPops ==
  /\ installed # None /\ at[Worker] = "out"
  /\ lock = None /\ queued > 0 /\ queued' = queued - 1
  /\ UNCHANGED <<global, init, clients, lock, stack, calls>>

WorkerFails ==
  /\ installed # None /\ at[Worker] = "out"
  /\ calls[Worker] < MaxCalls /\ calls' = [calls EXCEPT ![Worker] = @ + 1]
  /\ at' = [at EXCEPT ![Worker] = "report"]
  /\ UNCHANGED <<global, init, clients, queue, owes, depth>>

-----------------------------------------------------------------------------
Next ==
  \/ \E i \in Initers : InitCall(i)
  \/ \E l \in Loggers : LogCall(l)
  \/ \E t \in Threads : InLog(t)
  \/ ProgramDrops \/ ProgramCloses \/ WorkerPops \/ WorkerFails

\* Threads that are inside a call run.
FacadeSpec ==
  Init /\ [][Next]_facadeVars /\ \A t \in Threads : WF_facadeVars(InLog(t))

-----------------------------------------------------------------------------
\* Every variable keeps its kind.
FacadeTypeOK ==
  /\ installed \in Initers \union {None} /\ maxLevel \in 0 .. 5
  /\ init \in [Initers -> {"idle", "built", "installed", "lost", "ok", "err"}]
  /\ refs \in [Clients -> 0 .. 1 + Cardinality(Initers)]
  /\ shut \in [Clients -> BOOLEAN]
  /\ dropped \in BOOLEAN /\ closed \in BOOLEAN
  /\ lock \in Threads \union {None} /\ queued \in 0 .. BufferSize
  /\ at \in [Threads -> {"out", "lock", "unlock", "report", "return"}]
  /\ owes \in [Threads -> BOOLEAN]
  /\ depth \in [Threads -> 0 .. MaxDepth] /\ calls \in [Threads -> 0 .. MaxCalls]

\* The level in force is the installed logger's, from the moment its init has
\* returned, whoever else tried and when (adapter_log.rs:131-137).
LevelOfInstalled ==
  /\ installed = None => maxLevel = 0
  /\ \A i \in Initers :
       init[i] = "ok" => installed = i /\ maxLevel = Level[i]

\* An init that failed leaves nothing behind: the client it built for itself,
\* worker and connection included, is gone when it returns.
LoserLeavesNothing ==
  \A i \in Initers \ Supplied : init[i] = "err" => refs[i] = 0 /\ shut[i]

\* Nor does it take anything away: the client that the installed logger writes
\* through stays open until the program itself calls close, also if it is the
\* one the loser was given and the program has dropped its own clone of it.
InstalledOpen ==
  installed # None /\ shut[ClientOf(installed)] => closed /\ installed \in Supplied

\* The callback is never entered by a thread that holds the queue's lock
\* (error.rs:79: "never while a lock is held, so it is free to log").
CalledUnlocked == \A t \in Threads : at[t] = "report" => lock # t

\* A call of the facade comes to its end, also on a full queue and after close,
\* if the callback does not log on its own account for ever: it finds no lock held that its own thread holds
\* (queue.rs:10-12, error.rs:79).
LogReturns == \A t \in Threads : at[t] # "out" ~> at[t] = "out"
=============================================================================

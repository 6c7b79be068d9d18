------------------------------- MODULE Client -------------------------------
(***************************************************************************)
(* The client of src/src/client.rs: the worker thread and its connection,  *)
(* closing, and the GUI at the other end, around the queue of module       *)
(* Queue.  What the worker does to the queue are Queue's operations; its   *)
(* own control alone decides which of them it takes and when.              *)
(*                                                                         *)
(* Time is abstract.  The flush deadline starts to run when the worker     *)
(* first observes the shutdown and may have passed at any later look at    *)
(* the clock; a wait may end by timeout at any moment.  Frames are whole:  *)
(* a write that fails halfway leaves a cut-off frame that the GUI never    *)
(* completes, and so counts as not written.                                *)
(***************************************************************************)
EXTENDS Queue

CONSTANTS
  Unsendable,    \* entries that do not serialise, or to more than 16 MiB
  Callbacks,     \* what on_error may do: of these calls, the sets it makes
  MaxFaults      \* bound on the times the GUI stops or drops a connection

ASSUME ConfigAssumption ==
  /\ Unsendable \subseteq Nat \ {0} /\ MaxFaults \in Nat
  /\ Callbacks \subseteq SUBSET (Loggers \union Closers)

VARIABLES
  pc,        \* where the worker is; absent if its thread could not be spawned,
             \* dead if on_error panicked on it
  reporting, \* whether the worker is inside on_error
  deadline,  \* flush_deadline: unset, running or passed
  stream,    \* the worker's socket: none, open, or closed by the GUI
  wire,      \* the frames the operating system took on the last connection
  handle,    \* whether Inner.handle still holds the worker's JoinHandle
  closing,   \* each call of close, past shutdown(): pending, joining, returned
  peer,      \* the GUI: reading, hung (alive but not reading) or absent
  faults,    \* times the GUI has stopped or dropped a connection
  flushOnClose,  \* Config.flush_on_close, as the client was built
  onWorker,  \* Config.on_error: the calls it makes, on the worker's own thread
  \* History, read by no action of the code.
  late       \* entries written after shutdown was requested

conn == <<stream, wire>>
own == <<pc, reporting, deadline, conn, late>>
config == <<flushOnClose, onWorker>>
rest == <<peer, faults, config>>
join == <<handle, closing>>
clientVars == <<own, join, rest>>
all == <<vars, clientVars>>

Banner == 0

ClientInit ==
  /\ Init
  /\ handle \in BOOLEAN /\ pc = IF handle THEN "top" ELSE "absent"
  /\ reporting = FALSE
  /\ deadline = "unset" /\ stream = "none" /\ wire = <<>>
  /\ closing = [c \in Closers |-> "pending"]
  /\ peer \in {"reading", "hung", "absent"} /\ faults = 0
  /\ flushOnClose \in BOOLEAN /\ onWorker \in Callbacks
  /\ late = 0

-----------------------------------------------------------------------------
(* The worker.                                                             *)

\* The worker is at pc p, and inside no call of the queue and no callback.
At(p) == pc = p /\ call = "none" /\ ~reporting

Goto(p) == pc' = p /\ UNCHANGED reporting

\* Calls on_error, and goes on from p when it returns.
ReportThen(p) == pc' = p /\ reporting' = TRUE

\* Leaving the reconnect loop drops the socket.
Exit == Goto("exited") /\ stream' = "none" /\ UNCHANGED wire

\* One look at the clock.  The deadline is set at the first one, and from the
\* moment it is seen to have passed it has passed.
LookAtDeadline ==
  deadline' \in IF deadline = "passed" THEN {"passed"} ELSE {"running", "passed"}

\* is_shutdown at the head of the reconnect loop.
Top ==
  /\ At("top")
  /\ \/ ~shutdown /\ Goto("connect") /\ UNCHANGED conn
     \/ shutdown /\ flushOnClose /\ Goto("empty") /\ UNCHANGED conn
     \/ shutdown /\ ~flushOnClose /\ Exit
  /\ UNCHANGED <<vars, deadline, late, join, rest>>

\* is_empty, a second locking of the queue, and the deadline.
TopEmpty ==
  /\ At("empty")
  /\ \/ items = <<>> /\ Exit /\ UNCHANGED deadline
     \/ /\ items # <<>>
        /\ LookAtDeadline
        /\ IF deadline' = "passed" THEN Exit ELSE Goto("connect") /\ UNCHANGED conn
  /\ UNCHANGED <<vars, late, join, rest>>

\* The system completes a connection to a GUI that hangs, while it has room.
ConnectOk ==
  /\ At("connect") /\ peer # "absent"
  /\ stream' = "open" /\ wire' = <<>>
  /\ Goto("banner")
  /\ UNCHANGED <<vars, deadline, late, join, rest>>

\* Refused, unresolvable or timed out.  The deadline cuts the timeout short.
ConnectFail ==
  /\ At("connect") /\ (peer # "reading" \/ deadline # "unset")
  /\ ReportThen("delay")
  /\ UNCHANGED <<vars, deadline, conn, late, join, rest>>

\* The system takes a frame into its send buffer, also after the GUI closed
\* the connection, until it has learnt of it.
Hand2System(frame) ==
  /\ stream # "none"
  /\ wire' = Append(wire, frame)
  /\ UNCHANGED stream

\* A write fails on a closed connection, or on one that the GUI no longer reads,
\* by the write timeout, which a connect_timeout above zero sets.
WriteFails == stream = "closed" \/ (stream = "open" /\ peer # "reading")

BannerOk ==
  /\ At("banner")
  /\ Hand2System(Banner)
  /\ Goto("check")
  /\ UNCHANGED <<vars, deadline, late, join, rest>>

\* mutant: ignores the error and goes on
BannerFailIgnored ==
  /\ At("banner") /\ WriteFails
  /\ ReportThen("check")
  /\ UNCHANGED <<vars, deadline, conn, late, join, rest>>

BannerFail ==
  /\ At("banner") /\ WriteFails
  /\ ReportThen("delay")
  /\ UNCHANGED <<vars, deadline, conn, late, join, rest>>

\* mutant: drains whether or not flush_on_close is set
CheckDrains ==
  /\ At("check")
  /\ \/ ~shutdown /\ Goto("pop") /\ UNCHANGED <<conn, deadline>>
     \/ /\ shutdown
        /\ LookAtDeadline
        /\ IF deadline' = "passed" THEN Exit ELSE Goto("pop") /\ UNCHANGED conn
  /\ UNCHANGED <<vars, late, join, rest>>

\* mutant: the inner loop drains without a deadline
CheckUntimed ==
  /\ At("check")
  /\ \/ ~shutdown /\ Goto("pop") /\ UNCHANGED <<conn, deadline>>
     \/ shutdown /\ ~flushOnClose /\ Exit /\ UNCHANGED deadline
     \/ shutdown /\ flushOnClose /\ deadline' = "unset" /\ Goto("pop") /\ UNCHANGED conn
  /\ UNCHANGED <<vars, late, join, rest>>

\* is_shutdown and the deadline at the head of the inner loop.
Check ==
  /\ At("check")
  /\ \/ ~shutdown /\ Goto("pop") /\ UNCHANGED <<conn, deadline>>
     \/ shutdown /\ ~flushOnClose /\ Exit /\ UNCHANGED deadline
     \/ /\ shutdown /\ flushOnClose
        /\ LookAtDeadline
        /\ IF deadline' = "passed" THEN Exit ELSE Goto("pop") /\ UNCHANGED conn
  /\ UNCHANGED <<vars, late, join, rest>>

\* pop(POLL_INTERVAL): Item, Shutdown or Idle.
PopCall ==
  /\ pc = "pop"
  /\ \/ PopWait /\ UNCHANGED <<pc, reporting, conn>>
     \/ PopItem /\ Goto("write") /\ UNCHANGED conn
     \/ PopNothing /\ shutdown /\ Exit
     \/ PopNothing /\ ~shutdown /\ Goto("check") /\ UNCHANGED conn
  /\ UNCHANGED <<deadline, late, join, rest>>

WriteOk ==
  /\ At("write") /\ held \notin Unsendable
  /\ Send
  /\ Hand2System(held)
  /\ late' = IF shutdown THEN late + 1 ELSE late
  /\ Goto("finish")
  /\ UNCHANGED <<deadline, join, rest>>

\* mutant: goes on to the next entry without finish
DiscardUnfinished ==
  /\ At("write") /\ held \in Unsendable
  /\ Discard
  /\ ReportThen("check")
  /\ UNCHANGED <<deadline, conn, late, join, rest>>

WriteDiscard ==
  /\ At("write") /\ held \in Unsendable
  /\ Discard
  /\ ReportThen("finish")
  /\ UNCHANGED <<deadline, conn, late, join, rest>>

WriteFail ==
  /\ At("write") /\ held \notin Unsendable /\ WriteFails
  /\ ReportThen("requeue")
  /\ UNCHANGED <<vars, deadline, conn, late, join, rest>>

FinishCall ==
  /\ At("finish")
  /\ Finish
  /\ Goto("check")
  /\ UNCHANGED <<deadline, conn, late, join, rest>>

Requeue ==
  /\ At("requeue")
  /\ PushFront
  /\ Goto("requeued")
  /\ UNCHANGED <<deadline, conn, late, join, rest>>

FinishRequeued ==
  /\ At("requeued")
  /\ Finish
  /\ Goto(IF owed[Worker] = 0 THEN "delay" ELSE "report")
  /\ UNCHANGED <<deadline, conn, late, join, rest>>

ReportDrop ==
  /\ At("report")
  /\ WorkerReport
  /\ ReportThen("delay")
  /\ UNCHANGED <<deadline, conn, late, join, rest>>

\* The last thing finish does, wherever it was called.
FinishCallEnds == FinishNotify /\ UNCHANGED clientVars

\* mutant: goes back to the connection that failed
DelayThenSameSocket ==
  /\ pc = "delay" /\ ~reporting
  /\ \/ SleepWait /\ UNCHANGED <<pc, reporting, conn>>
     \/ SleepReturn /\ Goto(IF shutdown THEN "exited" ELSE "check") /\ UNCHANGED conn
  /\ UNCHANGED <<deadline, late, join, rest>>

\* sleep_or_shutdown(reconnect_delay).  The broken socket is dropped after it.
Delay ==
  /\ pc = "delay" /\ ~reporting
  /\ \/ SleepWait /\ UNCHANGED <<pc, reporting, conn>>
     \/ /\ SleepReturn
        /\ Goto(IF shutdown THEN "exited" ELSE "top")
        /\ stream' = "none" /\ UNCHANGED wire
  /\ UNCHANGED <<deadline, late, join, rest>>

WaitOver == WaitEnds /\ UNCHANGED clientVars

-----------------------------------------------------------------------------
(* on_error, on the worker.  It may log and close the client meanwhile,    *)
(* before it returns or panics.                                            *)

\* No call that on_error made is still running.
CallsReturned ==
  /\ \A l \in onWorker \intersect Loggers : logger[l] = "idle"
  /\ \A c \in onWorker \intersect Closers :
       closer[c] = "idle" \/ closing[c] = "returned"

CallbackReturns ==
  /\ reporting /\ CallsReturned
  /\ reporting' = FALSE
  /\ UNCHANGED <<vars, pc, deadline, conn, late, join, rest>>

\* The thread ends, and its socket, its queue and the record in its hand with
\* it.  The record counts as in hand for ever: nothing says what became of it.
Unwind ==
  /\ pc' = "dead" /\ reporting' = FALSE
  /\ stream' = "none" /\ UNCHANGED wire

CallbackPanics ==
  /\ reporting /\ CallsReturned
  /\ Unwind
  /\ UNCHANGED <<vars, deadline, late, join, rest>>

Step ==
  \/ Top \/ TopEmpty \/ ConnectOk \/ ConnectFail \/ BannerOk \/ BannerFail
  \/ Check \/ PopCall \/ WriteOk \/ WriteDiscard \/ WriteFail
  \/ FinishCall \/ Requeue \/ FinishRequeued \/ ReportDrop \/ FinishCallEnds
  \/ Delay \/ CallbackReturns \/ CallbackPanics

Gone == pc \in {"exited", "dead"}

-----------------------------------------------------------------------------
(* Closing threads: Inner::close, from Client::close and from Drop.        *)

\* A call made by on_error on the worker runs while the worker is in it.
Runs(t) == t \in onWorker => reporting

\* mutant: keeps the lock of the handle while it joins
TakeHandleLocked(c) ==
  /\ closer[c] = "done" /\ closing[c] = "pending"
  /\ \A d \in Closers : closing[d] # "joining"
  /\ closing' = [closing EXCEPT ![c] = IF handle THEN "joining" ELSE "returned"]
  /\ handle' = FALSE
  /\ UNCHANGED <<vars, own, rest>>

TakeHandle(c) ==
  /\ closer[c] = "done" /\ closing[c] = "pending"
  /\ closing' = [closing EXCEPT ![c] = IF handle THEN "joining" ELSE "returned"]
  /\ handle' = FALSE
  /\ UNCHANGED <<vars, own, rest>>

\* A panic of the worker comes back from join as a result close ignores.
Join(c) ==
  /\ closing[c] = "joining" /\ Gone
  /\ closing' = [closing EXCEPT ![c] = "returned"]
  /\ UNCHANGED <<vars, own, handle, rest>>

\* The worker joins itself, on close or on dropping the last clone in on_error:
\* join panics where the system sees it, and waits for ever where not.
JoinItself(c) ==
  /\ c \in onWorker /\ reporting /\ closing[c] = "joining"
  /\ closing' = [closing EXCEPT ![c] = "returned"]
  /\ Unwind
  /\ UNCHANGED <<vars, deadline, late, handle, rest>>

CloseCall(c) ==
  /\ Runs(c)
  /\ (Close(c) /\ UNCHANGED clientVars) \/ TakeHandle(c) \/ Join(c)

-----------------------------------------------------------------------------
(* The GUI, the other end of the connection.                               *)

GuiStart ==
  /\ peer # "reading" /\ peer' = "reading"
  /\ UNCHANGED <<vars, own, join, faults, config>>

Fault == faults < MaxFaults /\ faults' = faults + 1

Broken == IF stream = "open" THEN "closed" ELSE stream

GuiHang ==
  /\ Fault
  /\ peer = "reading" /\ peer' = "hung"
  /\ UNCHANGED <<vars, own, join, config>>

\* It goes away and takes the connection with it.
GuiStop ==
  /\ Fault
  /\ peer # "absent" /\ peer' = "absent"
  /\ stream' = Broken
  /\ UNCHANGED <<vars, pc, reporting, deadline, wire, late, join, config>>

GuiHangUp ==
  /\ Fault
  /\ peer = "reading" /\ stream = "open" /\ stream' = Broken
  /\ UNCHANGED <<vars, pc, reporting, deadline, wire, late, join, peer, config>>

Gui == GuiStart \/ GuiHang \/ GuiStop \/ GuiHangUp

-----------------------------------------------------------------------------
\* Nothing is left to do: every close returned and the worker is gone.
Over ==
  /\ Gone \/ pc = "absent"
  /\ \A c \in Closers \ onWorker : closing[c] = "returned"
  /\ UNCHANGED all

ClientNext ==
  \/ \E l \in Loggers : Runs(l) /\ Log(l) /\ UNCHANGED clientVars
  \/ \E f \in Flushers : Flush(f) /\ UNCHANGED clientVars
  \/ \E c \in Closers : CloseCall(c) \/ JoinItself(c)
  \/ Step \/ WaitOver
  \/ Gui
  \/ Over

ClientSpec == ClientInit /\ [][ClientNext]_all

\* The worker's thread runs and every system call it makes comes back, and so
\* do the threads inside log and close.  on_error ends, in some way, unless it
\* joins its own thread.  No wait is assumed to time out, the flush deadline
\* never has to pass, and the GUI need never appear.
ThreadsRun ==
  /\ WF_all(Step)
  /\ \A l \in Loggers :
       WF_all(Runs(l) /\ (PushNotify(l) \/ LogReport(l)) /\ UNCHANGED clientVars)
  /\ \A c \in Closers :
       WF_all(closer[c] # "idle" /\ CloseCall(c))
  /\ \A f \in Flushers : WF_all(FlushWake(f) /\ UNCHANGED clientVars)

\* Time passes, however often a wait is cut short, and the GUI comes back.
WorldRuns ==
  /\ SF_all(WaitOver /\ wake' = "timeout")
  /\ WF_all(GuiStart)

FairClientSpec == ClientSpec /\ ThreadsRun

-----------------------------------------------------------------------------
(* Safety.                                                                 *)

\* Every variable of the client keeps its kind.
ClientTypeOK ==
  /\ TypeOK
  /\ pc \in {"absent", "top", "empty", "connect", "banner", "check", "pop",
            "write", "finish", "requeue", "requeued", "report", "delay", "exited",
            "dead"}
  /\ reporting \in BOOLEAN
  /\ deadline \in {"unset", "running", "passed"}
  /\ stream \in {"none", "open", "closed"}
  /\ wire \in Seq(Entries \union {Banner})
  /\ handle \in BOOLEAN /\ peer \in {"reading", "hung", "absent"}
  /\ closing \in [Closers -> {"pending", "joining", "returned"}]
  /\ faults \in 0 .. MaxFaults
  /\ flushOnClose \in BOOLEAN /\ onWorker \in Callbacks
  /\ late \in 0 .. MaxLogged

\* The worker keeps the rule of queue.rs:126, which no operation of the queue
\* tests: between an entry it took and the next pop or sleep it settles the entry
\* or puts it back once, calls finish once and reports the drop it was told of,
\* whether the write succeeded, failed or was not tried, a callback logged or
\* closed the client meanwhile, or shutdown or a panic cut it short.  Whatever is
\* shown of Queue under that rule therefore holds of the client.
ImplementsQueue == Spec

\* A connection carries its banner first and once, and no oversized frame,
\* whatever was sent on the one before and however that one ended.
StreamsWellFormed ==
  /\ \A k \in DOMAIN wire : wire[k] = Banner <=> k = 1
  /\ Range(wire) \intersect Unsendable = {}

\* The worker leaves only after a shutdown, and leaves entries behind only if
\* it was told not to flush, ran out of the flush timeout, or has just failed
\* to connect or to write.
AbandonsOnlyWhenAllowed ==
  [][pc # "exited" /\ pc' = "exited" =>
       /\ shutdown
       /\ \/ Pending = {}
          \/ ~flushOnClose \/ deadline' = "passed" \/ pc = "delay"]_all

\* Without flush_on_close, at most the one entry the worker was about to take
\* when close was called is still written.
LeavesPromptly == flushOnClose \/ late <= 1

-----------------------------------------------------------------------------
(* Liveness.                                                               *)

\* Every close the application makes returns, also when several threads close at
\* once, with no timeout elapsing to help but those of connecting and writing:
\* shutdown reaches the worker in whichever wait it is, draining comes to an
\* end, and a callback that logs, panics or closes the client itself does not
\* stand in the way.
CloseReturns ==
  \A c \in Closers :
    closer[c] # "idle" /\ c \notin onWorker ~> closing[c] = "returned"

\* While the client is open no entry stays queued for ever: if time passes and
\* the GUI is back each time it goes, the worker reconnects and each entry meets
\* its fate, unless on_error killed the worker.
EventuallySettled ==
  WorldRuns /\ pc # "absent" =>
    \A n \in Entries : n \in Pending ~> n \notin Pending \/ shutdown \/ pc = "dead"

=============================================================================

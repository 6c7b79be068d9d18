---------------------------- MODULE ClientProofs ----------------------------
(***************************************************************************)
(* Proofs about module Client, for every configuration.  The worker's own  *)
(* control keeps the rule that Queue's operations rely on and do not test, *)
(* so what QueueProofs and HandoffProofs show of Queue holds here.         *)
(***************************************************************************)
EXTENDS Client, HandoffProofs

\* Where the worker has taken an entry and has not yet called finish for it.
InHand == {"write", "finish", "requeue", "requeued"}

\* What each place in the worker's code means to the queue, for as long as the
\* worker lives: whether it owes it a finish, has yet to settle the entry in its
\* hand, or has a drop to report.
Contract ==
  pc # "dead" =>
    /\ busy <=> pc \in InHand
    /\ held # None <=> pc \in {"write", "requeue"}
    /\ owed[Worker] # 0 => pc \in {"requeued", "report"}

\* At such a place, whatever the worker, a thread or the GUI does is a step of
\* the queue under its rule, or leaves the queue alone.
LEMMA ClientStepIsQueueStep ==
  ASSUME Contract, [ClientNext]_all
  PROVE  [Next]_vars
<1> USE DEF vars
<1>1. ASSUME NEW l \in Loggers, Log(l) PROVE Next
  BY <1>1 DEF Next
<1>2. ASSUME NEW f \in Flushers, Flush(f) PROVE Next
  BY <1>2 DEF Next
<1>3. ASSUME NEW c \in Closers, CloseCall(c) \/ JoinItself(c) PROVE [Next]_vars
  BY <1>3 DEF CloseCall, TakeHandle, Join, JoinItself, Next
<1>4. CASE Step
  <2>1. CASE Top \/ TopEmpty \/ ConnectOk \/ ConnectFail \/ BannerOk
             \/ BannerFail \/ Check \/ WriteFail
             \/ CallbackReturns \/ CallbackPanics
    BY <2>1 DEF Top, TopEmpty, ConnectOk, ConnectFail, BannerOk, BannerFail,
         Check, WriteFail, CallbackReturns, CallbackPanics
  <2>2. CASE PopCall \/ Delay
    <3>1. MayCall
      BY <2>2 DEF Contract, InHand, MayCall, PopCall, Delay
    <3> QED BY <2>2, <3>1 DEF PopCall, Delay, Next, Work
  <2>3. CASE WriteOk \/ WriteDiscard \/ Requeue
    <3>1. Holding
      BY <2>3 DEF Contract, InHand, Holding, WriteOk, WriteDiscard, Requeue, At
    <3> QED BY <2>3, <3>1 DEF WriteOk, WriteDiscard, Requeue, Next, Work
  <2>4. CASE FinishCall \/ FinishRequeued
    <3>1. MustFinish
      BY <2>4 DEF Contract, InHand, MustFinish, FinishCall, FinishRequeued, At
    <3> QED BY <2>4, <3>1 DEF FinishCall, FinishRequeued, Next, Work
  <2>5. CASE ReportDrop \/ FinishCallEnds
    BY <2>5 DEF ReportDrop, FinishCallEnds, Next, Work
  <2> QED BY <1>4, <2>1, <2>2, <2>3, <2>4, <2>5 DEF Step
<1>5. CASE WaitOver
  BY <1>5 DEF WaitOver, Next, Work
<1>6. CASE Gui
  BY <1>6 DEF Gui, GuiStart, GuiHang, GuiStop, GuiHangUp, Fault, Broken
<1>7. CASE Over \/ UNCHANGED all
  BY <1>7 DEF Over, all
<1> QED BY <1>1, <1>2, <1>3, <1>4, <1>5, <1>6, <1>7 DEF ClientNext

\* No step of the worker takes it to a place that means something else, and no
\* other thread changes what its place means.
LEMMA ContractStep ==
  ASSUME TypeOK, Contract, [ClientNext]_all
  PROVE  Contract'
<1> USE DEF Contract, InHand
<1>0. ASSUME UNCHANGED <<busy, held>>, owed'[Worker] = owed[Worker],
             \/ pc' \in {pc, "dead"}
             \/ /\ pc \notin InHand \union {"report", "dead"}
                /\ pc' \notin InHand
             \/ pc = "write" /\ pc' = "requeue"
      PROVE  Contract'
  BY <1>0
<1>1. ASSUME NEW l \in Loggers, Log(l) /\ UNCHANGED clientVars PROVE Contract'
  <2>1. UNCHANGED <<busy, held, pc>>
    BY <1>1 DEF Log, Push, PushNotify, LogReport, state, worker, clientVars, own
  <2>2. owed'[Worker] = owed[Worker]
    BY <1>1, WorkerAssumption DEF TypeOK, Log, Push, Refuse, Evict, Admit, CountDrop,
         PushNotify, LogReport, Report, Reporters
  <2> QED BY <1>0, <2>1, <2>2
<1>2. ASSUME NEW f \in Flushers, Flush(f) /\ UNCHANGED clientVars PROVE Contract'
  BY <1>0, <1>2 DEF Flush, FlushCall, FlushWaitEnds, FlushWake, state, worker, clientVars,
       own
<1>3. ASSUME NEW c \in Closers, CloseCall(c) \/ JoinItself(c) PROVE Contract'
  BY <1>0, <1>3 DEF CloseCall, Close, Shutdown, ShutdownNotifyWork, Unwind,
       ShutdownNotifyDrained, TakeHandle, Join, JoinItself, state, worker, vars,
       clientVars, own
<1>4. CASE Top \/ TopEmpty \/ ConnectOk \/ ConnectFail \/ BannerOk \/ BannerFail \/ Check
  BY <1>0, <1>4 DEF Top, TopEmpty, ConnectOk, ConnectFail, BannerOk, BannerFail, Check,
       Exit, Goto, ReportThen, At, vars, state, worker
<1>5. CASE PopCall
  <2>1. CASE PopItem /\ pc' = "write"
    <3>1. Head(items) # None
      <4>1. items \in Seq(Entries) /\ items # <<>>
        BY <2>1 DEF PopItem, TypeOK
      <4>2. Head(items) \in Entries
        BY <4>1
      <4> QED BY <4>2 DEF Entries, None
    <3> QED BY <1>5, <2>1, <3>1 DEF PopItem, PopCall
  <2>2. CASE (PopWait \/ PopNothing) /\ pc' \in {"pop", "check", "exited"}
    BY <1>0, <1>5, <2>2 DEF PopCall, PopWait, PopNothing, state
  <2> QED BY <1>5, <2>1, <2>2 DEF PopCall, Goto, Exit
<1>6. CASE WriteOk \/ WriteDiscard
  BY <1>6 DEF WriteOk, WriteDiscard, Send, Discard, Goto, ReportThen, At, state
<1>7. CASE WriteFail
  BY <1>0, <1>7 DEF WriteFail, ReportThen, At, vars, state, worker
<1>8. CASE FinishCall \/ FinishRequeued
  BY <1>8 DEF FinishCall, FinishRequeued, Finish, Goto, At
<1>9. CASE Requeue
  BY <1>9 DEF Requeue, PushFront, Goto, At
<1>10. CASE ReportDrop
  <2>1. owed'[Worker] = 0
    BY <1>10 DEF ReportDrop, WorkerReport, Report, TypeOK, Reporters
  <2> QED BY <1>10, <2>1 DEF ReportDrop, WorkerReport, ReportThen, At, state, worker
<1>11. CASE FinishCallEnds \/ CallbackReturns \/ CallbackPanics \/ WaitOver
  BY <1>0, <1>11 DEF FinishCallEnds, FinishNotify, CallbackReturns, CallbackPanics, Unwind,
       WaitOver, WaitEnds, vars, state, worker, clientVars, own
<1>12. CASE Delay
  BY <1>0, <1>12 DEF Delay, SleepWait, SleepReturn, Goto, state
<1>13. CASE Gui
  BY <1>0, <1>13 DEF Gui, GuiStart, GuiHang, GuiStop, GuiHangUp, vars, state, worker, own
<1>14. CASE Over \/ UNCHANGED all
  BY <1>0, <1>14 DEF Over, all, vars, state, worker, clientVars, own
<1> QED
  BY <1>1, <1>2, <1>3, <1>4, <1>5, <1>6, <1>7, <1>8, <1>9, <1>10, <1>11, <1>12, <1>13,
     <1>14
  DEF ClientNext, Step

\* The worker is never at a place that does not tell its dealings with the queue.
LEMMA ContractHolds == ClientSpec => [](TypeOK /\ Contract)
<1>1. ClientInit => Init /\ Contract
  <2>1. (pc = IF handle THEN "top" ELSE "absent") => pc = "top" \/ pc = "absent"
    BY Zenon
  <2> QED BY <2>1 DEF ClientInit, Init, Contract, InHand, Reporters
<1>2. TypeOK /\ Contract /\ [ClientNext]_all => (TypeOK /\ Contract)'
  BY ClientStepIsQueueStep, TypeStep, ContractStep
<1> QED BY <1>1, <1>2, TypeInit, PTL DEF ClientSpec

\* The client implements the queue's specification: on every path, the failing
\* and the panicking ones included, the worker settles or puts back what it took,
\* finishes once and reports its drop before it calls pop or sleep again.
THEOREM ClientImplementsQueue == ClientSpec => ImplementsQueue
<1>1. ClientInit => Init
  BY DEF ClientInit
<1>2. TypeOK /\ Contract /\ [ClientNext]_all => [Next]_vars
  BY ClientStepIsQueueStep
<1> QED BY <1>1, <1>2, ContractHolds, PTL DEF ClientSpec, Spec, ImplementsQueue

\* To its callers a client is the drop-oldest buffer of Handoff, whatever the
\* worker, the callbacks and the GUI are doing: they show only in which entries
\* are delivered, given up or left behind.
THEOREM ClientImplementsHandoff == ClientSpec => ImplementsHandoff
  BY ClientImplementsQueue, QueueImplementsHandoff, PTL DEF ImplementsQueue

\* What the queue's theorems say of a client, with its own worker and an
\* on_error callback that may log, close or panic in the middle of a call.
THEOREM ClientSafe ==
  ClientSpec =>
    /\ [](InOrder /\ OneFate /\ WithinCapacity /\ DropsReported /\ FlushSound)
    /\ [](PushWakes /\ ShutdownWakes /\ FinishWakes)
    /\ DropsOldest /\ BacklogOnlyShrinks
<1>1. Spec => [](InOrder /\ OneFate /\ WithinCapacity /\ DropsReported /\ FlushSound)
  BY OrderKept, NothingVanishes, CapacityKept, DropsAreReported, FlushIsSound, PTL
<1>2. Spec => [](PushWakes /\ ShutdownWakes /\ FinishWakes)
  BY NoMissedWakeup, ShutdownIsNoticed, FinishIsNoticed, PTL
<1> QED
  BY <1>1, <1>2, ClientImplementsQueue, OldestDropped, BacklogShrinks, PTL
  DEF ImplementsQueue

\* The queue's inductive invariant holds of the client.
LEMMA ClientSafeInv == ClientSpec => []SafeInv
  BY ClientImplementsQueue, SafeInvHolds, PTL DEF ImplementsQueue

-----------------------------------------------------------------------------
(* Leaving.                                                                *)

\* The worker writes at most once after shutdown if it was told not to flush, and
\* knows of the shutdown when it decides whether to drain.
Leaving ==
  /\ pc = "empty" => shutdown
  /\ \/ flushOnClose \/ late = 0
     \/ late = 1 /\ shutdown /\ pc \in {"finish", "check", "exited", "dead"}

\* Every step keeps the count of late writes within one.
LEMMA LeavingStep ==
  ASSUME SafeInv, Leaving, [ClientNext]_all
  PROVE  Leaving'
<1> USE DEF Leaving, rest, config
<1>1. ASSUME NEW l \in Loggers, Log(l) /\ UNCHANGED clientVars PROVE Leaving'
  BY <1>1 DEF Log, Push, PushNotify, LogReport, state, clientVars, own
<1>2. ASSUME NEW f \in Flushers, Flush(f) /\ UNCHANGED clientVars PROVE Leaving'
  BY <1>2 DEF Flush, FlushCall, FlushWaitEnds, FlushWake, state, clientVars, own
<1>3. ASSUME NEW c \in Closers, CloseCall(c) \/ JoinItself(c) PROVE Leaving'
  BY <1>3 DEF CloseCall, Close, Shutdown, ShutdownNotifyWork, Unwind,
       ShutdownNotifyDrained, TakeHandle, Join, JoinItself, state, vars, clientVars, own
<1>4. CASE Top \/ TopEmpty
  BY <1>4 DEF Top, TopEmpty, Goto, Exit, At, vars, state
<1>5. CASE ConnectOk \/ ConnectFail \/ BannerOk \/ BannerFail
           \/ CallbackReturns \/ CallbackPanics
  BY <1>5 DEF ConnectOk, ConnectFail, BannerOk, BannerFail, CallbackReturns,
       CallbackPanics, Unwind, Goto, ReportThen, At, vars, state
<1>6. CASE Check
  BY <1>6 DEF Check, Goto, Exit, At, vars, state
<1>7. CASE PopCall
  <2>1. CASE PopWait /\ UNCHANGED pc
    BY <1>7, <2>1 DEF PopCall, PopWait, state
  <2>2. CASE PopItem /\ pc' = "write"
    BY <1>7, <2>2 DEF PopCall, PopItem
  <2>3. CASE PopNothing /\ ((shutdown /\ pc' = "exited") \/ pc' = "check")
    BY <1>7, <2>3 DEF PopCall, PopNothing, state
  <2> QED BY <1>7, <2>1, <2>2, <2>3 DEF PopCall, Goto, Exit
<1>8. CASE WriteOk
  BY <1>8 DEF WriteOk, Send, Goto, At, state
<1>9. CASE WriteDiscard \/ WriteFail
  BY <1>9 DEF WriteDiscard, WriteFail, Discard, ReportThen, At, vars, state
<1>10. CASE FinishCall \/ FinishRequeued
  BY <1>10 DEF FinishCall, FinishRequeued, Finish, Goto, At
<1>11. CASE Requeue
  BY <1>11 DEF Requeue, PushFront, Goto, At
<1>12. CASE ReportDrop \/ FinishCallEnds
  BY <1>12 DEF ReportDrop, FinishCallEnds, WorkerReport, FinishNotify, ReportThen,
       At, state, clientVars, own
<1>13. CASE Delay \/ WaitOver
  BY <1>13 DEF Delay, WaitOver, SleepWait, SleepReturn, WaitEnds, Goto, state,
       clientVars, own
<1>14. CASE Gui
  BY <1>14 DEF Gui, GuiStart, GuiHang, GuiStop, GuiHangUp, Fault, Broken, vars, state, own
<1>15. CASE Over \/ UNCHANGED all
  BY <1>15 DEF Over, all, vars, state, clientVars, own
<1> QED
  BY <1>1, <1>2, <1>3, <1>4, <1>5, <1>6, <1>7, <1>8, <1>9, <1>10, <1>11, <1>12,
     <1>13, <1>14, <1>15
  DEF ClientNext, Step

\* The invariant behind the late writes holds throughout.
LEMMA LeavingHolds == ClientSpec => []Leaving
<1>1. ClientInit => Leaving
  BY DEF ClientInit, Init, Leaving
<1>2. SafeInv /\ Leaving /\ [ClientNext]_all => Leaving'
  BY LeavingStep
<1> QED BY <1>1, <1>2, ClientSafeInv, PTL DEF ClientSpec

\* Without flush_on_close, at most one entry is written after shutdown.
THEOREM LateWrites == ClientSpec => []LeavesPromptly
<1>1. Leaving => LeavesPromptly
  BY DEF Leaving, LeavesPromptly
<1> QED BY <1>1, LeavingHolds, PTL

\* An idle worker with an empty queue leaves nothing pending.
LEMMA NothingPending ==
  ASSUME Contract, items = <<>>, pc \notin InHand \union {"dead"}
  PROVE  Pending = {}
<1>1. held = None
  BY DEF Contract, InHand
<1> QED BY <1>1 DEF Pending, Hand, Range

\* A step by which the worker leaves is one of the allowed ones.
LEMMA AbandonStep ==
  ASSUME Contract, Leaving, [ClientNext]_all, pc # "exited", pc' = "exited"
  PROVE  /\ shutdown
         /\ Pending = {} \/ ~flushOnClose \/ deadline' = "passed" \/ pc = "delay"
<1>1. CASE Top
  BY <1>1 DEF Top, Goto
<1>2. CASE TopEmpty
  BY <1>2, NothingPending DEF TopEmpty, Goto, At, Leaving, InHand
<1>3. CASE Check
  BY <1>3 DEF Check, Goto
<1>4. CASE PopCall
  BY <1>4, NothingPending DEF PopCall, PopNothing, Goto, InHand
<1>5. CASE Delay
  BY <1>5 DEF Delay, Goto
<1>6. CASE UNCHANGED pc
  BY <1>6
<1>7. CASE Step
  BY <1>1, <1>2, <1>3, <1>4, <1>5, <1>7
  DEF Step, ConnectOk, ConnectFail, BannerOk, BannerFail, WriteOk, WriteDiscard,
      WriteFail, FinishCall, Requeue, FinishRequeued, ReportDrop, FinishCallEnds,
      CallbackReturns, CallbackPanics, Unwind, Goto, ReportThen, clientVars, own
<1>8. ASSUME NEW c \in Closers, CloseCall(c) \/ JoinItself(c)
      PROVE  pc' = pc \/ pc' = "dead"
  BY <1>8 DEF CloseCall, TakeHandle, Join, JoinItself, Unwind, clientVars, own
<1>9. Gui => UNCHANGED pc
  BY DEF Gui, GuiStart, GuiHang, GuiStop, GuiHangUp, Fault, Broken, own
<1> QED
  BY <1>6, <1>7, <1>8, <1>9 DEF ClientNext, WaitOver, Over, all, clientVars, own

\* The worker leaves only after a shutdown, and leaves entries behind only if
\* it was told not to flush, ran out of time, or has just failed.
THEOREM AbandonsWhenAllowed == ClientSpec => AbandonsOnlyWhenAllowed
<1>1. Contract /\ Leaving /\ [ClientNext]_all =>
        [pc # "exited" /\ pc' = "exited" =>
           /\ shutdown
           /\ \/ Pending = {}
              \/ ~flushOnClose \/ deadline' = "passed" \/ pc = "delay"]_all
  BY AbandonStep
<1> QED
  BY <1>1, ContractHolds, LeavingHolds, PTL DEF ClientSpec, AbandonsOnlyWhenAllowed

-----------------------------------------------------------------------------
(* Streams.                                                                *)

\* The banner is the first thing written on a connection, and nothing else is
\* written before it.
Framing ==
  /\ wire \in Seq(Nat)
  /\ StreamsWellFormed
  /\ pc = "banner" => wire = <<>>
  /\ pc \in {"check", "pop", "write", "finish"} => wire # <<>>

\* A frame after the banner is an entry, and one that can be sent.
LEMMA FrameAppended ==
  ASSUME wire \in Seq(Nat), StreamsWellFormed,
         NEW n \in Nat, n \notin Unsendable, wire = <<>> <=> n = Banner,
         wire' = Append(wire, n)
  PROVE  wire' \in Seq(Nat) /\ StreamsWellFormed' /\ wire' # <<>>
<1>1. wire' \in Seq(Nat) /\ wire' # <<>>
  OBVIOUS
<1>2. Range(wire') = Range(wire) \union {n}
  BY RangeAppend
<1>3. Range(wire') \intersect Unsendable = {}
  BY <1>2 DEF StreamsWellFormed
<1>4. ASSUME NEW k \in DOMAIN wire' PROVE wire'[k] = Banner <=> k = 1
  <2>1. Len(wire) \in Nat /\ k \in 1 .. Len(wire) + 1
    BY <1>4
  <2>2. CASE k \in 1 .. Len(wire)
    <3>1. wire'[k] = wire[k] /\ k \in DOMAIN wire
      BY <2>1, <2>2
    <3> QED
      BY <3>1 DEF StreamsWellFormed
  <2>3. CASE k = Len(wire) + 1
    <3>1. wire'[k] = n
      BY <2>1, <2>3
    <3>2. k = 1 <=> wire = <<>>
      BY <2>1, <2>3
    <3> QED
      BY <3>1, <3>2
  <2> QED
    BY <2>1, <2>2, <2>3
<1> QED
  BY <1>1, <1>3, <1>4 DEF StreamsWellFormed

\* Only connecting and writing touch the stream.
LEMMA FramingStep ==
  ASSUME SafeInv, Contract, Framing, [ClientNext]_all
  PROVE  Framing'
<1>0. wire' = wire => StreamsWellFormed'
  BY DEF Framing, StreamsWellFormed
<1>1. CASE ConnectOk
  <2>1. wire' = <<>> /\ pc' = "banner"
    BY <1>1 DEF ConnectOk, Goto
  <2> QED
    BY <2>1 DEF Framing, StreamsWellFormed, Range
<1>2. CASE BannerOk
  <2>1. pc = "banner" /\ pc' = "check" /\ wire' = Append(wire, Banner)
    BY <1>2 DEF BannerOk, At, Goto, Hand2System
  <2>2. Banner \in Nat /\ Banner \notin Unsendable
    BY ConfigAssumption DEF Banner
  <2>3. wire' \in Seq(Nat) /\ StreamsWellFormed' /\ wire' # <<>>
    BY <2>1, <2>2, FrameAppended DEF Framing
  <2> QED
    BY <2>1, <2>3 DEF Framing
<1>3. CASE WriteOk
  <2>1. /\ pc = "write" /\ pc' = "finish" /\ wire' = Append(wire, held)
        /\ held \notin Unsendable /\ held # None
    BY <1>3 DEF Contract, WriteOk, At, Goto, Hand2System, Send
  <2>2. held \in Nat /\ held # Banner
    BY <2>1, EntriesAreNumbers DEF SafeInv, TypeOK, Entries, Banner, None
  <2>3. wire' \in Seq(Nat) /\ StreamsWellFormed' /\ wire' # <<>>
    BY <2>1, <2>2, FrameAppended DEF Framing
  <2> QED
    BY <2>1, <2>3 DEF Framing
<1>4. ASSUME wire' = wire,
             \/ pc' = pc
             \/ pc' \notin {"banner", "check", "pop", "write", "finish"}
             \/ /\ pc \in {"check", "pop", "write", "finish"}
                /\ pc' \in {"check", "pop", "write", "finish"}
      PROVE  Framing'
  BY <1>0, <1>4 DEF Framing
<1>5. CASE Step /\ ~(ConnectOk \/ BannerOk \/ WriteOk)
  <2>1. CASE Top \/ TopEmpty \/ ConnectFail \/ BannerFail \/ Check
    BY <1>4, <2>1 DEF Top, TopEmpty, ConnectFail, BannerFail, Check, Exit, Goto, ReportThen,
         At, conn
  <2>2. CASE PopCall
    BY <1>4, <2>2 DEF PopCall, Exit, Goto, conn
  <2>3. CASE WriteDiscard \/ WriteFail \/ FinishCall
    BY <1>4, <2>3 DEF WriteDiscard, WriteFail, FinishCall, Goto, ReportThen, At, conn
  <2>4. CASE Requeue \/ FinishRequeued \/ ReportDrop
    BY <1>4, <2>4 DEF Requeue, FinishRequeued, ReportDrop, Goto, ReportThen, At, conn
  <2>5. CASE FinishCallEnds \/ CallbackReturns
    BY <1>4, <2>5 DEF FinishCallEnds, CallbackReturns, clientVars, own, conn
  <2>6. CASE Delay
    BY <1>4, <2>6 DEF Delay, Goto, conn
  <2>7. CASE CallbackPanics
    BY <1>4, <2>7 DEF CallbackPanics, Unwind
  <2> QED
    BY <1>5, <2>1, <2>2, <2>3, <2>4, <2>5, <2>6, <2>7 DEF Step
<1>6. ASSUME NEW c \in Closers, CloseCall(c) \/ JoinItself(c) PROVE Framing'
  BY <1>4, <1>6 DEF CloseCall, TakeHandle, Join, JoinItself, Unwind, clientVars, own, conn
<1>7. CASE Gui
  BY <1>4, <1>7 DEF Gui, GuiStart, GuiHang, GuiStop, GuiHangUp, own, conn
<1>8. CASE UNCHANGED clientVars
  BY <1>4, <1>8 DEF clientVars, own, conn
<1> QED
  BY <1>1, <1>2, <1>3, <1>5, <1>6, <1>7, <1>8 DEF ClientNext, WaitOver, Over, all

\* On every connection, however many there were before and however they ended,
\* the banner comes first and once, and no oversized frame is written.
THEOREM StreamsFramed == ClientSpec => []StreamsWellFormed
<1>1. ClientInit => Framing
  BY DEF ClientInit, Framing, StreamsWellFormed, Range
<1>2. SafeInv /\ Contract /\ Framing /\ [ClientNext]_all => Framing'
  BY FramingStep
<1>3. Framing => StreamsWellFormed
  BY DEF Framing
<1> QED
  BY <1>1, <1>2, <1>3, ClientSafeInv, ContractHolds, PTL DEF ClientSpec

-----------------------------------------------------------------------------
(* The type of the client's state.                                         *)

Places ==
  {"absent", "top", "empty", "connect", "banner", "check", "pop", "write", "finish",
   "requeue", "requeued", "report", "delay", "exited", "dead"}

Kinds ==
  /\ pc \in Places /\ reporting \in BOOLEAN
  /\ deadline \in {"unset", "running", "passed"}
  /\ stream \in {"none", "open", "closed"}
  /\ wire \in Seq(Entries \union {Banner})
  /\ handle \in BOOLEAN /\ peer \in {"reading", "hung", "absent"}
  /\ closing \in [Closers -> {"pending", "joining", "returned"}]
  /\ faults \in 0 .. MaxFaults /\ flushOnClose \in BOOLEAN /\ onWorker \in Callbacks

\* Every variable but the count of late writes keeps its kind.
LEMMA KindsStep ==
  ASSUME TypeOK, Contract, Kinds, [ClientNext]_all
  PROVE  Kinds'
<1> USE DEF Kinds, Places, conn, own, rest, config, join, Goto, At
<1>1. CASE UNCHANGED clientVars
  BY <1>1 DEF clientVars
<1>2. ASSUME NEW c \in Closers, CloseCall(c) \/ JoinItself(c) PROVE Kinds'
  BY <1>1, <1>2 DEF CloseCall, TakeHandle, Join, JoinItself, Unwind
<1>3. CASE Top \/ TopEmpty
  BY <1>3 DEF Top, TopEmpty, Exit, LookAtDeadline
<1>4. CASE ConnectOk \/ ConnectFail \/ BannerFail
  <2>1. <<>> \in Seq(Entries \union {Banner})
    OBVIOUS
  <2> QED
    BY <1>4, <2>1 DEF ConnectOk, ConnectFail, BannerFail, ReportThen
<1>5. CASE BannerOk
  <2>1. Append(wire, Banner) \in Seq(Entries \union {Banner})
    OBVIOUS
  <2> QED
    BY <1>5, <2>1 DEF BannerOk, Hand2System
<1>6. CASE Check
  BY <1>6 DEF Check, Exit, LookAtDeadline
<1>7. CASE PopCall
  BY <1>7 DEF PopCall, Exit
<1>8. CASE WriteOk
  <2>1. held \in Entries
    BY <1>8 DEF Contract, WriteOk, TypeOK
  <2>2. Append(wire, held) \in Seq(Entries \union {Banner})
    BY <2>1
  <2> QED
    BY <1>8, <2>2 DEF WriteOk, Hand2System
<1>9. CASE WriteDiscard \/ WriteFail \/ FinishCall \/ Requeue \/ FinishRequeued
           \/ ReportDrop
  BY <1>9 DEF WriteDiscard, WriteFail, FinishCall, Requeue, FinishRequeued, ReportDrop,
       ReportThen
<1>10. CASE Delay
  BY <1>10 DEF Delay
<1>11. CASE CallbackReturns \/ CallbackPanics
  BY <1>11 DEF CallbackReturns, CallbackPanics, Unwind
<1>12. CASE Gui
  BY <1>12, ConfigAssumption DEF Gui, GuiStart, GuiHang, GuiStop, GuiHangUp, Fault, Broken
<1> QED
  BY <1>1, <1>2, <1>3, <1>4, <1>5, <1>6, <1>7, <1>8, <1>9, <1>10, <1>11, <1>12
  DEF ClientNext, Step, FinishCallEnds, WaitOver, Over, all, clientVars

\* No more was written late than was written, and since what is written is in
\* the order of logging, the n-th entry written is the n-th logged or a later one.
LateWritten ==
  /\ late \in 0 .. Len(sent)
  /\ sent # <<>> => Len(sent) <= sent[Len(sent)]

\* Only a write counts, and what it writes was logged after all that went before.
LEMMA LateStep ==
  ASSUME SafeInv, Contract, LateWritten, [ClientNext]_all
  PROVE  LateWritten'
<1>1. CASE WriteOk
  <2>1. /\ held # None /\ sent' = Append(sent, held)
        /\ late' = IF shutdown THEN late + 1 ELSE late
    BY <1>1 DEF Contract, WriteOk, At, Send
  <2>2. sent \in Seq(Nat) /\ held \in Nat /\ held > 0
    BY <2>1, EntriesAreNumbers DEF SafeInv, TypeOK, None
  <2>3. /\ Len(sent') = Len(sent) + 1 /\ sent'[Len(sent')] = held /\ sent' # <<>>
    BY <2>1, <2>2
  <2>4. CASE sent = <<>>
    BY <2>1, <2>2, <2>3, <2>4 DEF LateWritten
  <2>5. CASE sent # <<>>
    <3>1. sent[Len(sent)] < held
      BY <2>1, <2>2, <2>5 DEF SafeInv, Placed, InOrder, Range
    <3>2. Len(sent) \in Nat /\ sent[Len(sent)] \in Nat
      BY <2>2, <2>5
    <3> QED
      BY <2>1, <2>2, <2>3, <2>5, <3>1, <3>2 DEF LateWritten
  <2> QED
    BY <2>4, <2>5
<1>2. CASE UNCHANGED <<sent, late>>
  BY <1>2 DEF LateWritten
<1>3. CASE Step /\ ~WriteOk
  <2>1. CASE Top \/ TopEmpty \/ ConnectOk \/ ConnectFail \/ BannerOk \/ BannerFail \/ Check
    BY <1>2, <2>1 DEF Top, TopEmpty, ConnectOk, ConnectFail, BannerOk, BannerFail, Check,
         vars, outcome
  <2>2. CASE PopCall \/ WriteDiscard \/ WriteFail \/ FinishCall \/ Requeue
    BY <1>2, <2>2 DEF PopCall, PopWait, PopItem, PopNothing, WriteDiscard, Discard, WriteFail,
         FinishCall, Finish, Requeue, PushFront, vars, outcome
  <2>3. CASE FinishRequeued \/ ReportDrop \/ FinishCallEnds \/ Delay
    BY <1>2, <2>3 DEF FinishRequeued, Finish, ReportDrop, WorkerReport, FinishCallEnds,
         FinishNotify, Delay, SleepWait, SleepReturn, vars, outcome, clientVars, own
  <2>4. CASE CallbackReturns \/ CallbackPanics
    BY <1>2, <2>4 DEF CallbackReturns, CallbackPanics, vars, outcome
  <2> QED
    BY <1>3, <2>1, <2>2, <2>3, <2>4 DEF Step
<1>4. ASSUME NEW l \in Loggers, Log(l) /\ UNCHANGED clientVars PROVE LateWritten'
  BY <1>2, <1>4 DEF Log, Push, Refuse, Evict, Admit, CountDrop, PushNotify, LogReport, outcome,
       clientVars, own
<1>5. ASSUME NEW f \in Flushers, Flush(f) /\ UNCHANGED clientVars PROVE LateWritten'
  BY <1>2, <1>5 DEF Flush, FlushCall, FlushWaitEnds, FlushWake, outcome, clientVars, own
<1>6. ASSUME NEW c \in Closers, CloseCall(c) \/ JoinItself(c) PROVE LateWritten'
  BY <1>2, <1>6 DEF CloseCall, Close, Shutdown, ShutdownNotifyWork, ShutdownNotifyDrained,
       TakeHandle, Join, JoinItself, vars, outcome, clientVars, own
<1>7. CASE WaitOver \/ Over \/ UNCHANGED all
  BY <1>2, <1>7 DEF WaitOver, WaitEnds, Over, all, vars, outcome, clientVars, own
<1>8. CASE Gui
  BY <1>2, <1>8 DEF Gui, GuiStart, GuiHang, GuiStop, GuiHangUp, vars, outcome, own
<1> QED
  BY <1>1, <1>3, <1>4, <1>5, <1>6, <1>7, <1>8 DEF ClientNext

\* The worker, its socket and its handle, the calls of close and the GUI keep
\* their kinds; and no more entries are written late than were ever logged.
THEOREM ClientTypeCorrect == ClientSpec => []ClientTypeOK
<1>1. ClientInit => Kinds /\ LateWritten
  <2>1. <<>> \in Seq(Entries \union {Banner}) /\ Len(<<>>) = 0
    OBVIOUS
  <2>2. ClientInit => pc \in Places
    <3>1. (pc = IF handle THEN "top" ELSE "absent") => pc = "top" \/ pc = "absent"
      BY Zenon
    <3> QED
      BY <3>1 DEF ClientInit, Places
  <2>3. ClientInit => /\ reporting = FALSE /\ faults = 0 /\ wire = <<>>
                      /\ closing = [c \in Closers |-> "pending"]
    BY Zenon DEF ClientInit
  <2>4. ClientInit => /\ handle \in BOOLEAN /\ flushOnClose \in BOOLEAN
                      /\ onWorker \in Callbacks
                      /\ deadline \in {"unset", "running", "passed"}
                      /\ stream \in {"none", "open", "closed"}
                      /\ peer \in {"reading", "hung", "absent"}
    BY Zenon DEF ClientInit
  <2>5. /\ FALSE \in BOOLEAN /\ 0 \in 0 .. MaxFaults
        /\ [c \in Closers |-> "pending"] \in [Closers -> {"pending", "joining", "returned"}]
    BY ConfigAssumption
  <2>6. ClientInit => LateWritten
    BY <2>1 DEF ClientInit, Init, LateWritten
  <2> QED
    BY <2>1, <2>2, <2>3, <2>4, <2>5, <2>6, Zenon DEF Kinds
<1>2. SafeInv /\ Contract /\ Kinds /\ [ClientNext]_all => Kinds'
  BY KindsStep DEF SafeInv
<1>3. SafeInv /\ Contract /\ LateWritten /\ [ClientNext]_all => LateWritten'
  BY LateStep
<1>4. SafeInv /\ Kinds /\ LateWritten => ClientTypeOK
  <2> SUFFICES ASSUME SafeInv, Kinds, LateWritten PROVE ClientTypeOK
    OBVIOUS
  <2>1. sent \in Seq(1 .. MaxLogged) /\ MaxLogged \in Nat
    BY SizeAssumption DEF SafeInv, TypeOK, Entries
  <2>2. late \in 0 .. MaxLogged
    BY <2>1 DEF LateWritten
  <2> QED
    BY <2>2 DEF SafeInv, Kinds, Places, ClientTypeOK
<1> QED
  BY <1>1, <1>2, <1>3, <1>4, ClientSafeInv, ContractHolds, PTL DEF ClientSpec
=============================================================================

---------------------------- MODULE CloseProofs -----------------------------
(***************************************************************************)
(* How long close may take, for every number of addresses and every        *)
(* timeout: the bound of CloseBudget, from an invariant that says at each  *)
(* place of the worker's loop how much time may have passed by then.       *)
(***************************************************************************)
EXTENDS CloseBudget, TLAPS

\* The longest that connecting takes.
Connecting == Addresses * ConnectTimeout
Flushing == Addresses * FlushTimeout

\* When the worker has its connection; when the last deadline passes; and when
\* a write begun before that is over.
Ready == Connecting + WriteTime
LastDue == Ready + FlushTimeout
End == LastDue + WriteTime

\* With the worker at p, the deadline dl, and the clock at n, u and l.
TimeOK(p, dl, n, u, l) ==
  /\ p \in {"top", "empty"} => n = 0 /\ dl = "unset"
  /\ p = "connect" => n + l <= Connecting
  /\ p = "connect" /\ dl # "unset" => n + l <= Flushing
  /\ p = "banner" => n + l <= Ready
  \* An entry is popped right after a look, or before there was one to take.
  /\ p = "pop" => IF dl = "unset" THEN n = 0 ELSE n < u
  /\ p = "write" => IF dl = "unset" THEN n + l <= WriteTime ELSE n + l < u + WriteTime
  /\ dl = "unset" => n <= Ready
  /\ dl # "unset" => u <= LastDue
  /\ n < End

TimeInv ==
  /\ now \in Nat /\ due \in Nat /\ left \in Nat
  /\ shutdown \in BOOLEAN
  /\ ~shutdown => now = 0 /\ deadline = "unset"
  /\ pc = "empty" => shutdown
  /\ TimeOK(pc, deadline, now, due, left)

-----------------------------------------------------------------------------
(* What a step of the client does to the worker's place, the shutdown and  *)
(* the deadline.                                                           *)

Stays == pc' = pc /\ deadline' = deadline /\ (shutdown => shutdown') /\ shutdown' \in BOOLEAN

Looked == deadline' \in {"running", "passed"}

Moves ==
  \/ /\ pc = "top" /\ deadline' = deadline
     /\ pc' \in (IF shutdown THEN {"empty", "exited"} ELSE {"connect"})
  \/ pc = "empty" /\ deadline' = deadline /\ pc' = "exited" /\ items = <<>>
  \/ /\ pc = "empty" /\ items # <<>> /\ Looked
     /\ pc' = IF deadline' = "passed" THEN "exited" ELSE "connect"
  \/ pc = "connect" /\ deadline' = deadline /\ pc' \in {"banner", "delay"}
  \/ pc = "banner" /\ deadline' = deadline /\ pc' \in {"check", "delay"}
  \/ pc = "check" /\ deadline' = deadline /\ pc' = "pop" /\ ~shutdown
  \/ pc = "check" /\ deadline' = deadline /\ pc' = "exited" /\ ~flushOnClose
  \/ /\ pc = "check" /\ shutdown /\ flushOnClose /\ Looked
     /\ pc' = IF deadline' = "passed" THEN "exited" ELSE "pop"
  \/ pc = "pop" /\ deadline' = deadline /\ pc' \in {"write", "exited", "check"}
  \/ /\ pc \in {"write", "finish", "requeue", "requeued", "report"}
     /\ deadline' = deadline
     /\ pc' \in {"finish", "requeue", "requeued", "report", "delay", "check"}
  \/ pc = "delay" /\ deadline' = deadline /\ pc' = "top" /\ ~shutdown
  \/ pc = "delay" /\ deadline' = deadline /\ pc' = "exited"
  \/ pc' = "dead" /\ deadline' = deadline

LEMMA StepMoves ==
  ASSUME shutdown \in BOOLEAN, pc # "dead", Step
  PROVE  Stays \/ (Moves /\ shutdown' = shutdown)
<1> USE DEF vars, state, own, join, rest, clientVars, conn, At, Goto, Exit, ReportThen
<1>1. CASE Top
  BY <1>1 DEF Top, Moves
<1>2. CASE TopEmpty
  BY <1>2 DEF TopEmpty, Moves, Looked, LookAtDeadline
<1>3. CASE ConnectOk \/ ConnectFail
  BY <1>3 DEF ConnectOk, ConnectFail, Moves
<1>4. CASE BannerOk \/ BannerFail
  BY <1>4 DEF BannerOk, BannerFail, Moves
<1>5. CASE Check
  BY <1>5 DEF Check, Moves, Looked, LookAtDeadline
<1>6. CASE PopCall
  BY <1>6 DEF PopCall, PopWait, PopItem, PopNothing, Moves, Stays
<1>7. CASE WriteOk \/ WriteDiscard \/ WriteFail
  BY <1>7 DEF WriteOk, WriteDiscard, WriteFail, Send, Discard, Moves
<1>8. CASE FinishCall \/ FinishRequeued
  BY <1>8 DEF FinishCall, FinishRequeued, Finish, Moves
<1>9. CASE Requeue \/ ReportDrop
  BY <1>9 DEF Requeue, ReportDrop, PushFront, WorkerReport, Moves
<1>10. CASE FinishCallEnds \/ CallbackReturns
  BY <1>10 DEF FinishCallEnds, CallbackReturns, FinishNotify, Stays
<1>11. CASE Delay
  BY <1>11 DEF Delay, SleepWait, SleepReturn, Moves, Stays
<1>12. CASE CallbackPanics
  BY <1>12 DEF CallbackPanics, Unwind, Moves
<1> QED
  BY <1>1, <1>2, <1>3, <1>4, <1>5, <1>6, <1>7, <1>8, <1>9, <1>10, <1>11, <1>12 DEF Step

LEMMA ClientMoves ==
  ASSUME shutdown \in BOOLEAN, [ClientNext]_all
  PROVE  Stays \/ (Moves /\ shutdown' = shutdown)
<1> USE DEF vars, state, own, join, rest, clientVars, conn
<1>1. ASSUME NEW l \in Loggers, Log(l) /\ UNCHANGED clientVars PROVE Stays
  BY <1>1 DEF Log, Push, PushNotify, LogReport, Stays
<1>2. ASSUME NEW f \in Flushers, Flush(f) /\ UNCHANGED clientVars PROVE Stays
  BY <1>2 DEF Flush, FlushCall, FlushWaitEnds, FlushWake, Stays
<1>3. ASSUME NEW c \in Closers, CloseCall(c) PROVE Stays
  <2>1. CASE Close(c) /\ UNCHANGED clientVars
    <3>1. shutdown' = shutdown \/ shutdown' = TRUE
      BY <2>1 DEF Close, Shutdown, ShutdownNotifyWork, ShutdownNotifyDrained
    <3> QED
      BY <2>1, <3>1 DEF Stays
  <2>2. CASE TakeHandle(c) \/ Join(c)
    BY <2>2 DEF TakeHandle, Join, Stays
  <2> QED
    BY <1>3, <2>1, <2>2 DEF CloseCall
<1>4. ASSUME NEW c \in Closers, JoinItself(c) PROVE Moves /\ shutdown' = shutdown
  BY <1>4 DEF JoinItself, Unwind, Moves
<1>5. CASE Step
  <2>1. CASE pc = "dead"
    BY <1>5, <2>1 DEF Step, Top, TopEmpty, ConnectOk, ConnectFail, BannerOk, BannerFail,
         Check, PopCall, WriteOk, WriteDiscard, WriteFail, FinishCall, Requeue,
         FinishRequeued, ReportDrop, FinishCallEnds, FinishNotify, Delay, CallbackReturns,
         CallbackPanics, Unwind, At, Stays, Moves
  <2> QED
    BY <1>5, <2>1, StepMoves
<1>6. CASE WaitOver
  BY <1>6 DEF WaitOver, WaitEnds, Stays
<1>7. CASE Gui
  BY <1>7 DEF Gui, GuiStart, GuiHang, GuiStop, GuiHangUp, Fault, Broken, Stays
<1>8. CASE Over \/ UNCHANGED all
  BY <1>8 DEF Over, all, Stays
<1> QED
  BY <1>1, <1>2, <1>3, <1>4, <1>5, <1>6, <1>7, <1>8 DEF ClientNext

-----------------------------------------------------------------------------
LEMMA TimesTyped ==
  /\ Addresses \in Nat /\ ConnectTimeout \in Nat /\ WriteTime \in Nat /\ FlushTimeout \in Nat
  /\ Addresses >= 1 /\ ConnectTimeout >= 1 /\ WriteTime >= 1
<1>1. /\ Addresses \in Nat /\ ConnectTimeout \in Nat
      /\ WriteTime \in Nat /\ FlushTimeout \in Nat
  BY TimeAssumption
<1> QED
  BY <1>1, TimeAssumption

\* A smaller timeout per address is a smaller timeout.
LEMMA TimesMonotone ==
  ASSUME NEW a \in Nat, NEW m \in Nat, NEW n \in Nat, m <= n
  PROVE  a * m <= a * n
  OBVIOUS

\* The bounds are numbers, and in this order.
LEMMA BoundsOrdered ==
  /\ Connecting \in Nat /\ Flushing \in Nat
  /\ Ready \in Nat /\ LastDue \in Nat /\ End \in Nat
  /\ Connecting < Ready /\ WriteTime <= Ready /\ Ready <= LastDue /\ LastDue < End
<1>1. Connecting \in Nat /\ Flushing \in Nat
  BY TimesTyped DEF Connecting, Flushing
<1>2. Ready \in Nat /\ Connecting < Ready /\ WriteTime <= Ready
  BY <1>1, TimesTyped DEF Ready
<1>3. LastDue \in Nat /\ Ready <= LastDue
  BY <1>2, TimesTyped DEF LastDue
<1>4. End \in Nat /\ LastDue < End
  BY <1>3, TimesTyped DEF End
<1> QED
  BY <1>1, <1>2, <1>3, <1>4

\* A connection attempt takes at most all its timeouts, and one with a
\* deadline at most what is left until then for each address.
LEMMA SpanBounds ==
  ASSUME now \in Nat, NEW d \in Nat
  PROVE  /\ ConnectSpan(d) \in Nat
         /\ ConnectSpan(d) <= Connecting
         /\ now < d => ConnectSpan(d) <= Addresses * (d - now)
<1> DEFINE each == IF d <= now + 1 THEN 1
                   ELSE IF d - now < ConnectTimeout THEN d - now ELSE ConnectTimeout
<1>0. ConnectTimeout \in Nat /\ 1 <= ConnectTimeout /\ Addresses \in Nat
  BY TimesTyped
<1>1. each \in Nat /\ each <= ConnectTimeout
  BY <1>0
<1>2. now < d => d - now \in Nat /\ each <= d - now
  BY <1>0
<1>3. ConnectSpan(d) = Addresses * each
  BY DEF ConnectSpan
<1> HIDE DEF each
<1>4. Addresses * each \in Nat /\ Addresses * each <= Addresses * ConnectTimeout
  BY <1>0, <1>1, TimesMonotone
<1>5. now < d => Addresses * each <= Addresses * (d - now)
  BY <1>0, <1>1, <1>2, TimesMonotone
<1> QED
  BY <1>3, <1>4, <1>5 DEF Connecting

-----------------------------------------------------------------------------
(* What each place of the loop makes of the times at the one before.       *)

LEMMA TickTimes ==
  ASSUME NEW p \in {"connect", "banner", "write"}, NEW dl,
         NEW n \in Nat, NEW u \in Nat, NEW l \in Nat \ {0}, TimeOK(p, dl, n, u, l)
  PROVE  TimeOK(p, dl, n + 1, u, l - 1)
<1>1. n + l < End
  <2>1. CASE p = "connect"
    BY <2>1, BoundsOrdered DEF TimeOK
  <2>2. CASE p = "banner"
    BY <2>2, BoundsOrdered DEF TimeOK
  <2>3. CASE p = "write" /\ dl = "unset"
    BY <2>3, BoundsOrdered, TimesTyped DEF TimeOK
  <2>4. CASE p = "write" /\ dl # "unset"
    BY <2>4, BoundsOrdered, TimesTyped DEF TimeOK, End
  <2> QED
    BY <2>1, <2>2, <2>3, <2>4
<1>2. dl = "unset" => n + l <= Ready
  BY TimesTyped, BoundsOrdered DEF TimeOK
<1>3. n + 1 <= n + l /\ (n + 1) + (l - 1) = n + l
  OBVIOUS
<1> QED
  BY <1>1, <1>2, <1>3, TimesTyped, BoundsOrdered DEF TimeOK

LEMMA ConnectTimes ==
  ASSUME NEW dl, NEW u \in Nat, NEW l \in Nat, l <= Connecting,
         dl # "unset" => l <= Flushing /\ u <= LastDue
  PROVE  TimeOK("connect", dl, 0, u, l)
  BY BoundsOrdered DEF TimeOK

LEMMA BannerTimes ==
  ASSUME NEW dl, NEW n \in Nat, NEW u \in Nat, NEW l \in Nat,
         TimeOK("connect", dl, n, u, l)
  PROVE  TimeOK("banner", dl, n, u, WriteTime)
<1>1. n + WriteTime <= Ready
  BY BoundsOrdered, TimesTyped DEF TimeOK, Ready
<1> QED
  BY <1>1, BoundsOrdered, TimesTyped DEF TimeOK

LEMMA WriteTimes ==
  ASSUME NEW dl, NEW n \in Nat, NEW u \in Nat, NEW l \in Nat, TimeOK("pop", dl, n, u, l)
  PROVE  TimeOK("write", dl, n, u, WriteTime)
  BY BoundsOrdered, TimesTyped DEF TimeOK

\* Anywhere the worker does not wait for the network.
LEMMA IdleTimes ==
  ASSUME NEW p, NEW q, NEW dl, NEW n \in Nat, NEW u \in Nat, NEW l \in Nat, NEW m \in Nat,
         TimeOK(p, dl, n, u, l),
         \/ q \notin {"top", "empty", "connect", "banner", "pop", "write"}
         \/ q \in {"top", "empty", "pop"} /\ n = 0 /\ dl = "unset"
  PROVE  TimeOK(q, dl, n, u, m)
  BY DEF TimeOK

\* The look at the head of the inner loop.
LEMMA LookTimes ==
  ASSUME NEW dl, NEW dm, NEW n \in Nat, NEW u \in Nat, NEW v \in Nat,
         NEW l \in Nat, NEW m \in Nat,
         TimeOK("check", dl, n, u, l),
         v = IF dl = "unset" THEN n + FlushTimeout ELSE u,
         dm \in {"running", "passed"}, dm = "passed" <=> n >= v
  PROVE  TimeOK(IF dm = "passed" THEN "exited" ELSE "pop", dm, n, v, m)
<1>1. v <= LastDue
  BY BoundsOrdered, TimesTyped DEF TimeOK, LastDue
<1>2. dm # "passed" => n < v
  OBVIOUS
<1> QED
  BY <1>1, <1>2, BoundsOrdered DEF TimeOK

-----------------------------------------------------------------------------
LEMMA TimeInvInit == BudgetInit => TimeInv
<1> SUFFICES ASSUME BudgetInit PROVE TimeInv
  OBVIOUS
<1>1. pc \in {"top", "absent"} /\ deadline = "unset" /\ shutdown = FALSE
  BY DEF BudgetInit, ClientInit, Init
<1>2. now = 0 /\ due = 0 /\ left = 0
  BY DEF BudgetInit
<1>3. TimeOK(pc, "unset", 0, 0, 0)
  BY <1>1, BoundsOrdered DEF TimeOK
<1> QED
  BY <1>1, <1>2, <1>3 DEF TimeInv

LEMMA TickInv ==
  ASSUME TimeInv, Tick PROVE TimeInv'
<1>1. UNCHANGED <<pc, deadline, shutdown, due>>
  BY DEF Tick, all, vars, state, clientVars, own
<1>2. now \in Nat /\ due \in Nat /\ left \in Nat \ {0}
  BY DEF Tick, TimeInv
<1>3. now' = now + 1 /\ left' = left - 1 /\ shutdown
  BY DEF Tick
<1>4. TimeOK(pc, deadline, now + 1, due, left - 1)
  BY <1>2, TickTimes DEF Tick, Calling, TimeInv
<1>5. now + 1 \in Nat /\ left - 1 \in Nat
  BY <1>2
<1> QED
  BY <1>1, <1>2, <1>3, <1>4, <1>5 DEF TimeInv

\* A step that leaves the worker where it is does not concern the clock.
LEMMA StaysInv ==
  ASSUME TimeInv, Stays, TellsTime, StartsCall, now' = now PROVE TimeInv'
<1>1. UNCHANGED <<due, left>>
  BY DEF Stays, TellsTime, StartsCall, Looks
<1> QED
  BY <1>1 DEF Stays, TimeInv

LEMMA MovesInv ==
  ASSUME TimeInv, Moves, shutdown' = shutdown, TellsTime, StartsCall, now' = now
  PROVE  TimeInv'
<1>1. now \in Nat /\ due \in Nat /\ left \in Nat /\ TimeOK(pc, deadline, now, due, left)
  BY DEF TimeInv
<1>2. due' \in Nat
  <2>1. now + FlushTimeout \in Nat
    BY <1>1, TimesTyped
  <2> QED
    BY <1>1, <2>1 DEF TellsTime
<1>3. left' \in Nat
  <2>1. WriteTime \in Nat /\ Addresses * ConnectTimeout \in Nat
    BY TimesTyped, BoundsOrdered DEF Connecting
  <2>2. ConnectSpan(due') \in Nat
    BY <1>1, <1>2, SpanBounds
  <2> QED
    BY <1>1, <2>1, <2>2 DEF StartsCall
<1>4. ~Looks => due' = due
  BY DEF TellsTime
<1> SUFFICES /\ TimeOK(pc', deadline', now, due', left')
             /\ ~shutdown => now = 0 /\ deadline' = "unset"
             /\ pc' = "empty" => shutdown
  BY <1>1, <1>2, <1>3 DEF TimeInv
<1>5. CASE pc = "top"
  <2>1. now = 0 /\ deadline = "unset" /\ deadline' = "unset" /\ due' = due
    BY <1>1, <1>4, <1>5 DEF Moves, TimeOK, Looks
  <2>2. CASE pc' = "connect"
    <3>1. left' = Connecting /\ ~shutdown
      BY <1>5, <2>1, <2>2 DEF StartsCall, Calling, Moves, Connecting
    <3> QED
      BY <1>1, <2>1, <2>2, <3>1, ConnectTimes, BoundsOrdered
  <2>3. CASE pc' # "connect"
    <3>1. pc' \in {"empty", "exited", "dead"} /\ (pc' = "empty" => shutdown)
      BY <1>5, <2>3 DEF Moves
    <3> QED
      BY <1>1, <1>3, <2>1, <3>1, IdleTimes
  <2> QED
    BY <2>2, <2>3
<1>6. CASE pc = "empty" /\ deadline' # "unset"
  <2>1. now = 0 /\ deadline = "unset" /\ shutdown
    BY <1>1, <1>6 DEF TimeInv, TimeOK
  <2>2. Looked /\ items # <<>> /\ pc' = IF deadline' = "passed" THEN "exited" ELSE "connect"
    BY <1>6, <2>1 DEF Moves
  <2>3. Looks
    BY <1>6, <2>2 DEF Looks
  <2>4. due' = FlushTimeout /\ (deadline' = "passed" <=> 0 >= due')
    BY <2>1, <2>3, TimesTyped DEF TellsTime
  <2>5. due' <= LastDue
    BY <2>4, TimesTyped, BoundsOrdered DEF LastDue
  <2>6. CASE pc' = "connect"
    <3>1. left' = ConnectSpan(due') /\ deadline' # "passed"
      BY <1>6, <2>2, <2>6 DEF StartsCall, Calling
    <3>2. 0 < due' /\ due' - 0 = due'
      BY <1>2, <2>4, <3>1, TimesTyped
    <3>3. left' <= Connecting /\ left' <= Flushing
      <4>1. ConnectSpan(due') <= Addresses * (due' - 0) /\ ConnectSpan(due') <= Connecting
        BY <1>1, <1>2, <2>1, <3>2, SpanBounds
      <4> QED
        BY <2>4, <3>1, <3>2, <4>1 DEF Flushing
    <3>4. TimeOK("connect", deadline', 0, due', left')
      BY <1>2, <1>3, <2>5, <3>3, ConnectTimes
    <3> QED
      BY <2>1, <2>6, <3>4
  <2>7. CASE pc' = "exited"
    <3>1. TimeOK("exited", deadline', 0, due', left')
      BY <1>6, <2>5, BoundsOrdered DEF TimeOK
    <3> QED
      BY <2>1, <2>7, <3>1
  <2> QED
    BY <2>2, <2>6, <2>7
<1>7. CASE pc = "empty" /\ deadline' = "unset"
  <2>1. pc' \in {"exited", "dead"} /\ deadline' = deadline /\ due' = due
    BY <1>4, <1>7 DEF Moves, Looked, Looks
  <2> QED
    BY <1>1, <1>3, <2>1, IdleTimes DEF TimeInv
<1>8. CASE pc = "connect"
  <2>1. pc' \in {"banner", "delay", "dead"} /\ deadline' = deadline /\ due' = due
    BY <1>4, <1>8 DEF Moves, Looks
  <2>2. pc' = "banner" => left' = WriteTime
    BY <1>8 DEF StartsCall, Calling
  <2>3. TimeOK(pc', deadline, now, due, left')
    BY <1>1, <1>3, <1>8, <2>1, <2>2, BannerTimes, IdleTimes
  <2> QED
    BY <2>1, <2>3 DEF TimeInv
<1>9. CASE pc = "check" /\ pc' \in {"exited", "pop"} /\ shutdown /\ flushOnClose
  <2>1. Looked /\ pc' = IF deadline' = "passed" THEN "exited" ELSE "pop"
    BY <1>9 DEF Moves
  <2>2. Looks
    BY <1>9, <2>1 DEF Looks, Looked
  <2>3. due' = (IF deadline = "unset" THEN now + FlushTimeout ELSE due)
    BY <2>2 DEF TellsTime
  <2>4. deadline' = "passed" <=> now >= due'
    BY <2>2 DEF TellsTime
  <2>5. TimeOK(IF deadline' = "passed" THEN "exited" ELSE "pop", deadline', now, due', left')
    BY <1>1, <1>2, <1>3, <1>9, <2>1, <2>3, <2>4, LookTimes DEF Looked
  <2> QED
    BY <1>9, <2>1, <2>5
<1>10. CASE pc = "check" /\ ~(pc' \in {"exited", "pop"} /\ shutdown /\ flushOnClose)
  <2>1. /\ deadline' = deadline
        /\ pc' \in {"exited", "dead"} \/ (pc' = "pop" /\ ~shutdown)
    BY <1>10 DEF Moves, Looked
  <2>2. due' = due
    BY <1>4, <2>1 DEF Looks, TellsTime
  <2>3. TimeOK(pc', deadline, now, due, left')
    BY <1>1, <1>3, <2>1, IdleTimes DEF TimeInv
  <2> QED
    BY <2>1, <2>2, <2>3 DEF TimeInv
<1>11. CASE pc = "pop"
  <2>1. pc' \in {"write", "exited", "check", "dead"} /\ deadline' = deadline /\ due' = due
    BY <1>4, <1>11 DEF Moves, Looks
  <2>2. pc' = "write" => left' = WriteTime
    BY <1>11 DEF StartsCall, Calling
  <2>3. TimeOK(pc', deadline, now, due, left')
    BY <1>1, <1>3, <1>11, <2>1, <2>2, WriteTimes, IdleTimes
  <2> QED
    BY <2>1, <2>3 DEF TimeInv
<1>12. CASE pc \notin {"top", "empty", "connect", "check", "pop"}
  <2>1. deadline' = deadline /\ due' = due
    BY <1>4, <1>12 DEF Moves, Looks
  <2>2. \/ pc' \notin {"top", "empty", "connect", "banner", "pop", "write"}
        \/ pc' = "top" /\ ~shutdown
    BY <1>12 DEF Moves
  <2>3. TimeOK(pc', deadline, now, due, left')
    BY <1>1, <1>3, <2>2, IdleTimes DEF TimeInv
  <2> QED
    BY <2>1, <2>2, <2>3 DEF TimeInv
<1> QED
  BY <1>5, <1>6, <1>7, <1>8, <1>9, <1>10, <1>11, <1>12

LEMMA TimeInvNext == TimeInv /\ [BudgetNext]_budgetVars => TimeInv'
<1> SUFFICES ASSUME TimeInv, [BudgetNext]_budgetVars PROVE TimeInv'
  OBVIOUS
<1>1. CASE Act
  <2>1. Stays \/ (Moves /\ shutdown' = shutdown)
    BY <1>1, ClientMoves DEF Act, TimeInv
  <2> QED
    BY <1>1, <2>1, StaysInv, MovesInv DEF Act
<1>2. CASE Tick
  BY <1>2, TickInv
<1>3. CASE UNCHANGED budgetVars
  BY <1>3 DEF budgetVars, clock, all, vars, state, clientVars, own, TimeInv
<1> QED
  BY <1>1, <1>2, <1>3 DEF BudgetNext

LEMMA TimeInvHolds == BudgetSpec => []TimeInv
BY TimeInvInit, TimeInvNext, PTL DEF BudgetSpec

\* Whatever the timeouts, the addresses and the threads: from the request to
\* its end a shutdown takes less than one connection attempt, its banner, the
\* flush timeout and one write.
THEOREM CloseIsBounded == BudgetSpec => []CloseWithin
<1>1. TimeInv => CloseWithin
  BY DEF TimeInv, TimeOK, CloseWithin, Connecting, Flushing, Ready, LastDue, End
<1> QED
  BY <1>1, TimeInvHolds, PTL

\* An attempt to connect that is begun after the request keeps to the flush
\* timeout for each address.
THEOREM LateConnectIsBounded == BudgetSpec => []ConnectWithin
<1>1. TimeInv => ConnectWithin
  BY DEF TimeInv, TimeOK, ConnectWithin, Connecting, Flushing, Ready, LastDue, End
<1> QED
  BY <1>1, TimeInvHolds, PTL
=============================================================================

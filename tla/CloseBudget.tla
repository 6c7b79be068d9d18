----------------------------- MODULE CloseBudget -----------------------------
(***************************************************************************)
(* How long close may take.  Client with a clock that starts when shutdown *)
(* is requested.  Only what waits for the network takes time: connecting,  *)
(* the banner, and writing a frame.  Everything else is instantaneous, and *)
(* shutdown ends every wait of the queue, so that what is counted here is  *)
(* the time the worker spends in system calls while close joins it.        *)
(***************************************************************************)
EXTENDS Client

CONSTANTS
  Addresses,       \* what the address resolves to, tried one after another
  ConnectTimeout,  \* ClientBuilder::connect_timeout, in ticks
  WriteTime,       \* the longest one write_all takes: connect_timeout for
                   \* each write the system splits it into
  FlushTimeout     \* ClientBuilder::flush_timeout, in ticks

\* The builder takes a connect_timeout of zero (client.rs:132), and it is left
\* out here: a socket has no write timeout of zero, connect ignores the error
\* (client.rs:491), and a write to a GUI that does not read then has no bound,
\* nor has close.
ASSUME TimeAssumption ==
  /\ {Addresses, ConnectTimeout, WriteTime, FlushTimeout} \subseteq Nat
  /\ Addresses >= 1 /\ ConnectTimeout >= 1 /\ WriteTime >= ConnectTimeout

VARIABLES
  now,    \* time since shutdown was requested
  due,    \* when flush_deadline is
  left    \* how much longer the system call the worker is in may take

clock == <<now, due, left>>
budgetVars == <<all, clock>>

\* mutant: the connection's own timeout, whatever is left of the budget
ConnectSpanFull(d) == Addresses * ConnectTimeout

\* The timeout of connect when the deadline is d, spent once per address.  One
\* tick is also the least it is: TcpStream::connect_timeout rejects zero.
ConnectSpan(d) ==
  Addresses * (IF d <= now + 1 THEN 1
               ELSE IF d - now < ConnectTimeout THEN d - now ELSE ConnectTimeout)

BudgetInit == ClientInit /\ now = 0 /\ due = 0 /\ left = 0

Calling(p) == p \in {"connect", "banner", "write"}

\* A look at the clock is truthful, and the first one sets the deadline.
Looks ==
  /\ pc' # pc /\ deadline' # "unset"
  /\ \/ pc = "empty" /\ items # <<>>
     \/ pc = "check" /\ shutdown /\ flushOnClose

TellsTime ==
  /\ due' = IF Looks /\ deadline = "unset" THEN now + FlushTimeout ELSE due
  /\ Looks => (deadline' = "passed" <=> now >= due')

\* A system call starts with all its time.
StartsCall ==
  left' = IF pc' = pc \/ ~Calling(pc') THEN left
          ELSE IF pc' # "connect" THEN WriteTime
          ELSE IF deadline' = "unset" THEN Addresses * ConnectTimeout
          ELSE ConnectSpan(due')

Act == ClientNext /\ TellsTime /\ StartsCall /\ UNCHANGED now

\* Time passes while the worker is in a system call.  Before shutdown it does
\* not matter how much.
Tick ==
  /\ shutdown /\ Calling(pc) /\ left > 0
  /\ now' = now + 1 /\ left' = left - 1
  /\ UNCHANGED <<all, due>>

BudgetNext == Act \/ Tick

BudgetSpec == BudgetInit /\ [][BudgetNext]_budgetVars

-----------------------------------------------------------------------------
\* What close really takes, unless connect_timeout is zero: at most one
\* connection attempt and its banner, or one write, begun before the worker
\* could see the shutdown; then the flush timeout; and one last write begun just
\* within it.
CloseWithin ==
  now < Addresses * ConnectTimeout + WriteTime + FlushTimeout + WriteTime

\* A connection attempt begun in the knowledge of the shutdown keeps to the
\* flush timeout, though to all of it for each address.
ConnectWithin ==
  pc = "connect" /\ deadline # "unset" =>
    now + left <= Addresses * FlushTimeout

\* What the code says of it: "`close()` can never take longer than the
\* configured flush timeout" (client.rs:368-370).
CloseWithinFlushTimeout == now <= FlushTimeout
=============================================================================

------------------------------- MODULE Handoff -------------------------------
(***************************************************************************)
(* What the queue and its worker promise the callers of Client: a buffer   *)
(* that never blocks, delivers in order and, when it is full, gives up the *)
(* oldest entry it is not just delivering.  Threads, locks, notifications, *)
(* connections and retries are not seen here; that an entry was taken out, *)
(* failed to be written and was put back is no step at all.  Module Queue  *)
(* implements it.                                                          *)
(***************************************************************************)
EXTENDS Naturals, Sequences

CONSTANTS
  Bound,     \* the entries that may wait behind the one being delivered
  Flushers   \* callers of flush, once each

VARIABLES
  pending,   \* the entries with no fate yet, oldest first
  out,       \* the entries delivered, in that order
  spoilt,    \* the entries that could not be sent by anyone
  count,     \* dropped_count
  logged,    \* how many entries were logged; each is its number
  open,      \* whether close was never called
  asked,     \* per flush call, the entries that were pending when it began
  answer     \* per flush call: idle, waiting, drained or undrained

handoffVars == <<pending, out, spoilt, count, logged, open, asked, answer>>

Members(s) == {s[k] : k \in DOMAIN s}

Init ==
  /\ pending = <<>> /\ out = <<>> /\ spoilt = {} /\ count = 0
  /\ logged = 0 /\ open = TRUE
  /\ asked = [f \in Flushers |-> {}] /\ answer = [f \in Flushers |-> "idle"]

\* The two oldest entries are the one that may be on its way out and the one
\* behind it.
WithoutOldest == Tail(pending)
WithoutSecond == <<Head(pending)>> \o Tail(Tail(pending))

Accept ==
  /\ open /\ Len(pending) <= Bound
  /\ pending' = Append(pending, logged')
  /\ UNCHANGED count

Displace ==
  /\ open /\ Len(pending) >= Bound /\ pending # <<>>
  /\ \/ pending' = Append(WithoutOldest, logged')
     \/ Len(pending) > Bound /\ pending' = Append(WithoutSecond, logged')
  /\ count' = count + 1

Refuse ==
  /\ ~open
  /\ count' = count + 1
  /\ UNCHANGED pending

Log ==
  /\ logged' = logged + 1
  /\ Accept \/ Displace \/ Refuse
  /\ UNCHANGED <<out, spoilt, open, asked, answer>>

Deliver ==
  /\ pending # <<>>
  /\ out' = Append(out, Head(pending))
  /\ pending' = Tail(pending)
  /\ UNCHANGED <<spoilt, count, logged, open, asked, answer>>

\* An entry that cannot be sent is set aside, and is no drop.
SetAside ==
  /\ pending # <<>>
  /\ spoilt' = spoilt \union {Head(pending)}
  /\ pending' = Tail(pending)
  /\ UNCHANGED <<out, count, logged, open, asked, answer>>

\* An entry whose delivery failed with the buffer full behind it is dropped.
GiveUp ==
  /\ Len(pending) > Bound
  /\ pending' = Tail(pending)
  /\ count' = count + 1
  /\ UNCHANGED <<out, spoilt, logged, open, asked, answer>>

Close ==
  /\ open' = FALSE
  /\ UNCHANGED <<pending, out, spoilt, count, logged, asked, answer>>

Settled(f) == asked'[f] \intersect Members(pending) = {}

Ask(f) ==
  /\ answer[f] = "idle"
  /\ asked' = [asked EXCEPT ![f] = Members(pending)]
  /\ \/ answer' = [answer EXCEPT ![f] = "waiting"]
     \/ Settled(f) /\ answer' = [answer EXCEPT ![f] = "drained"]
  /\ UNCHANGED <<pending, out, spoilt, count, logged, open>>

Answer(f) ==
  /\ answer[f] = "waiting"
  /\ \/ answer' = [answer EXCEPT ![f] = "undrained"]
     \/ Settled(f) /\ answer' = [answer EXCEPT ![f] = "drained"]
  /\ UNCHANGED <<pending, out, spoilt, count, logged, open, asked>>

Next ==
  \/ Log \/ Deliver \/ SetAside \/ GiveUp \/ Close
  \/ \E f \in Flushers : Ask(f) \/ Answer(f)

Spec == Init /\ [][Next]_handoffVars
=============================================================================

------------------------------ MODULE Calendar ------------------------------
(***************************************************************************)
(* A clock that walks the Gregorian calendar day by day, forward and back  *)
(* from 1970-01-01, and through the nanoseconds around that midnight, to   *)
(* compare what module Timestamp computes with the calendar's own rules.   *)
(***************************************************************************)
EXTENDS Timestamp

CONSTANTS
  Start,             \* where the walk starts: "epoch" or "era"
  DaysBack, DaysOn,  \* how far it goes
  NanoSteps,         \* the ticks of the clock
  NanoBound          \* the clock runs this long on both sides of the epoch

ASSUME WalkAssumption ==
  /\ Start \in {"epoch", "era"}
  /\ DaysBack \in Nat /\ DaysOn \in Nat
  /\ NanoSteps \subseteq Nat \ {0} /\ NanoBound \in Nat

VARIABLES
  day,    \* days since 1970-01-01
  date,   \* its date, by the rules of the calendar
  now     \* nanoseconds since the epoch

\* Two days whose dates are given: the epoch, and the one that
\* civil_from_days counts its eras from.
FirstDay == IF Start = "epoch" THEN 0 ELSE -719468
FirstDate == IF Start = "epoch" THEN [year |-> 1970, month |-> 1, day |-> 1]
             ELSE [year |-> 0, month |-> 3, day |-> 1]

Leap(y) == y % 4 = 0 /\ (y % 100 # 0 \/ y % 400 = 0)

MonthLength(y, m) ==
  CASE m = 2 -> IF Leap(y) THEN 29 ELSE 28
    [] m \in {4, 6, 9, 11} -> 30
    [] OTHER -> 31

DayAfter(d) ==
  IF d.day < MonthLength(d.year, d.month) THEN [d EXCEPT !.day = @ + 1]
  ELSE IF d.month < 12 THEN [d EXCEPT !.day = 1, !.month = @ + 1]
  ELSE [year |-> d.year + 1, month |-> 1, day |-> 1]

DayBefore(d) ==
  IF d.day > 1 THEN [d EXCEPT !.day = @ - 1]
  ELSE IF d.month > 1
       THEN [d EXCEPT !.day = MonthLength(d.year, d.month - 1), !.month = @ - 1]
  ELSE [year |-> d.year - 1, month |-> 12, day |-> 31]

Init == day = FirstDay /\ date = FirstDate /\ now = -NanoBound

Forward ==
  /\ now = -NanoBound /\ FirstDay <= day /\ day < FirstDay + DaysOn
  /\ day' = day + 1 /\ date' = DayAfter(date)
  /\ UNCHANGED now

Back ==
  /\ now = -NanoBound /\ FirstDay - DaysBack < day /\ day <= FirstDay
  /\ day' = day - 1 /\ date' = DayBefore(date)
  /\ UNCHANGED now

Tick ==
  /\ day = FirstDay /\ now < NanoBound
  /\ \E step \in NanoSteps : now' = now + step
  /\ UNCHANGED <<day, date>>

Next == Forward \/ Back \/ Tick

Spec == Init /\ [][Next]_<<day, date, now>>

-----------------------------------------------------------------------------
\* civil_from_days gives each day its date in the calendar: across leap days,
\* the centuries that have none, and the turn of the 400-year era.
CivilIsGregorian == CivilFromDays(day) = date

\* The comment of civil_from_days on what it computes in between, `doe` in
\* [0, 146096] (timestamp.rs:56).  Of the days before 0000-03-01 it holds for
\* one in each era only, and for the others the date is wrong as well.
DayOfEraInRange == DayOfEra(day + 719468) \in 0 .. 146096

Earlier(a, b) ==
  LET fields(t) == <<t.date.year, t.date.month, t.date.day,
                     t.hour, t.minute, t.second, t.millis>>
  IN  \E k \in 1 .. 7 :
        /\ fields(a)[k] < fields(b)[k]
        /\ \A j \in 1 .. k - 1 : fields(a)[j] = fields(b)[j]

\* timestamp.rs:29: the rendering is monotonic, through the epoch as well: a
\* later instant never prints an earlier time, and a millisecond later prints
\* a later one.
Monotonic ==
  [][IF now' - now >= 1000000 THEN Earlier(FormatUtc(now), FormatUtc(now'))
     ELSE ~Earlier(FormatUtc(now'), FormatUtc(now))]_now
=============================================================================

----------------------------- MODULE Timestamp ------------------------------
(***************************************************************************)
(* The rendering of a SystemTime for the server (src/src/timestamp.rs),    *)
(* up to the fields that are printed.  Euclidean division by a positive    *)
(* number is TLA+'s \div and %.  A u32 cast keeps the values that occur.   *)
(***************************************************************************)
EXTENDS Integers

\* mutant: an era of 400 years without its extra leap day
EraShort(z) == z \div 146096

\* Written `if z >= 0 { z } else { z - 146_096 }.div_euclid(146_097)`, an
\* adjustment that suits a division that truncates, before one that floors.
Era(z) == (IF z >= 0 THEN z ELSE z - 146096) \div 146097

DayOfEra(z) == z - Era(z) * 146097

\* The divisions of i128 below truncate; no dividend is negative.
CivilFromDays(days) ==
  LET z == days + 719468
      doe == DayOfEra(z)
      yoe == (doe - doe \div 1460 + doe \div 36524 - doe \div 146096) \div 365
      doy == doe - (365 * yoe + yoe \div 4 - yoe \div 100)
      mp == (5 * doy + 2) \div 153
      month == IF mp < 10 THEN mp + 3 ELSE mp - 9
  IN  [ year  |-> yoe + Era(z) * 400 + (IF month <= 2 THEN 1 ELSE 0),
        month |-> month,
        day   |-> doy - (153 * mp + 2) \div 5 + 1 ]

\* mutant: a division that truncates, the day before the epoch included
MillisTruncated(nanos) ==
  IF nanos >= 0 THEN nanos \div 1000000 ELSE -((-nanos) \div 1000000)

Millis(nanos) == nanos \div 1000000

\* What format_utc prints, from signed nanoseconds since the epoch.
FormatUtc(nanos) ==
  LET secs == Millis(nanos) \div 1000
      secsOfDay == secs % 86400
  IN  [ date   |-> CivilFromDays(secs \div 86400),
        hour   |-> secsOfDay \div 3600,
        minute |-> (secsOfDay % 3600) \div 60,
        second |-> secsOfDay % 60,
        millis |-> Millis(nanos) % 1000 ]
=============================================================================

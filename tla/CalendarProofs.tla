--------------------------- MODULE CalendarProofs ----------------------------
(***************************************************************************)
(* civil_from_days is right on every day from 0000-03-01 on.  A day is     *)
(* given four numbers as the code counts it, from March: an era, a year of *)
(* it, a month and a day.  The calendar's rules move from one such day to  *)
(* the next and back (Lengths, DayLater, DayEarlier), and the code's       *)
(* divisions find the four numbers again (YearFound, MonthFound, Decoded). *)
(* And what is printed of an instant is in the order of the instants: the  *)
(* dates of the days grow, by the calendar's own rules (KeysGrow), and the *)
(* time of a day is its milliseconds written out (Instant, EarlierFacts).  *)
(***************************************************************************)
EXTENDS Calendar, WellFoundedInduction, TLAPS

\* Years of an era, months and days, counted from March.
Years == {y \in Nat : y < 400}
Months == {m \in Nat : m < 12}

\* The days of an era before its year y, and of a year before its month m.
YearStart(y) == 365 * y + y \div 4 - y \div 100
MonthStart(m) == (153 * m + 2) \div 5

YearLength(y) ==
  IF (y + 1) % 4 = 0 /\ ((y + 1) % 100 # 0 \/ y = 399) THEN 366 ELSE 365

\* The last month of such a year is February.
Length(y, m) ==
  IF m = 11 THEN YearLength(y) - MonthStart(11) ELSE MonthStart(m + 1) - MonthStart(m)

\* The number, from the epoch, of day d of month m of year y of era e.
Number(e, y, m, d) == 146097 * e + YearStart(y) + MonthStart(m) + d - 1 - 719468

Written(e, y, m, d) ==
  [ year  |-> y + 400 * e + (IF m >= 10 THEN 1 ELSE 0),
    month |-> IF m < 10 THEN m + 3 ELSE m - 9,
    day   |-> d ]

\* The four-, hundred- and four-hundred-year rules, digit by digit.
LEMMA Digits ==
  ASSUME NEW y \in Years
  PROVE  \E c \in Nat, q \in Nat, r \in Nat :
           /\ c < 4 /\ q < 25 /\ r < 4 /\ y = 100 * c + 4 * q + r
           /\ y \div 4 = 25 * c + q /\ y \div 100 = c
<1>1. PICK c, q, r : c = y \div 100 /\ q = (y - 100 * c) \div 4 /\ r = y - 100 * c - 4 * q
  OBVIOUS
<1>0. y \in Nat /\ y < 400
  BY DEF Years
<1>2. c \in Nat /\ c < 4 /\ y - 100 * c \in Nat /\ y - 100 * c < 100
  BY <1>0, <1>1
<1>3. q \in Nat /\ q < 25 /\ r \in Nat /\ r < 4
  BY <1>0, <1>1, <1>2
<1>4. y = 100 * c + 4 * q + r
  BY <1>0, <1>1, <1>2, <1>3
<1>5. y \div 4 = 25 * c + q
  BY <1>2, <1>3, <1>4
<1>6. y \div 100 = c
  BY <1>1
<1> QED BY <1>2, <1>3, <1>4, <1>5, <1>6

\* `yoe`, and `doe`, which stays in its era: the three corrections take off the
\* leap days before it, and on an era's last day no more than that.
LEMMA YearFound ==
  ASSUME NEW y \in Years, NEW doy \in Nat, doy < YearLength(y),
         NEW doe, doe = YearStart(y) + doy
  PROVE  /\ doe \in Nat /\ doe < 146097
         /\ (doe - doe \div 1460 + doe \div 36524 - doe \div 146096) \div 365 = y
<1>1. PICK c \in Nat, q \in Nat, r \in Nat :
        /\ c < 4 /\ q < 25 /\ r < 4 /\ y = 100 * c + 4 * q + r
        /\ y \div 4 = 25 * c + q /\ y \div 100 = c
  BY Digits, Zenon
<1>2. doe = 36524 * c + 1461 * q + 365 * r + doy
  BY <1>1, SMT DEF YearStart
<1>3. doy < 366 /\ (doy = 365 => r = 3 /\ (q < 24 \/ c = 3))
  <2>1. CASE YearLength(y) = 365
    BY <2>1, SMT
  <2>2. CASE YearLength(y) # 365
    <3>1. YearLength(y) = 366 /\ (y + 1) % 4 = 0 /\ ((y + 1) % 100 # 0 \/ y = 399)
      BY <2>2, SMT DEF YearLength
    <3>2. r = 3
      BY <1>1, <3>1, SMT
    <3>3. q < 24 \/ c = 3
      BY <1>1, <3>1, <3>2, SMT
    <3> QED BY <3>1, <3>2, <3>3, SMT
  <2> QED BY <2>1, <2>2, SMT
<1>4. PICK b : b = IF 24 * c + q + 365 * r + doy >= 1460 THEN 1 ELSE 0
  BY SMT
<1>5. b \in Nat /\ doy - b \in Nat /\ doy - b < 365
  BY <1>1, <1>3, <1>4, SMT
<1>6. doe \div 1460 = 25 * c + q + b
  <2>1. PICK x : x = 24 * c + q + 365 * r + doy - 1460 * b
    BY SMT
  <2>2. x \in Nat /\ x < 1460
    BY <1>1, <1>3, <1>4, <2>1, SMT
  <2>3. doe = 1460 * (25 * c + q + b) + x
    BY <1>2, <1>5, <2>1, SMT
  <2>4. PICK w \in Nat : w = 25 * c + q + b
    BY <1>5, SMT
  <2>5. doe = 1460 * w + x
    BY <2>3, <2>4, SMT
  <2>6. doe \div 1460 = w
    BY <2>2, <2>5, SMT
  <2> QED BY <2>4, <2>6, SMT
<1>7. doe \in Nat /\ doe < 146097
  BY <1>1, <1>2, <1>3, SMT
<1>8. /\ doe \div 36524 \in Int /\ doe \div 146096 \in Int
      /\ doe \div 36524 - doe \div 146096 = c
  <2>1. CASE doe = 146096
    <3>1. doe \div 146096 = 1 /\ doe \div 36524 = 4
      BY <2>1, SMT
    <3>2. c = 3
      BY <1>1, <1>2, <1>3, <2>1, SMT
    <3> QED BY <3>1, <3>2, SMT
  <2>2. CASE doe # 146096
    <3>1. doe \div 146096 = 0
      BY <1>7, <2>2, SMT
    <3>2. PICK x : x = 1461 * q + 365 * r + doy
      BY SMT
    <3>3. x \in Nat /\ x <= 36524 /\ doe = 36524 * c + x
      BY <1>1, <1>2, <1>3, <3>2, SMT
    <3>4. x # 36524
      <4>1. SUFFICES ASSUME x = 36524 PROVE FALSE
        BY SMT
      <4>2. q = 24 /\ doy = 365
        BY <1>1, <1>3, <3>2, <4>1, SMT
      <4>3. c = 3
        BY <1>3, <4>2, SMT
      <4> QED BY <2>2, <3>3, <4>1, <4>3, SMT
    <3>5. doe \div 36524 = c
      BY <3>3, <3>4, SMT
    <3> QED BY <3>1, <3>5, SMT
  <2> QED BY <2>1, <2>2, SMT
<1>9. PICK m : m = doe - doe \div 1460 + doe \div 36524 - doe \div 146096
  BY SMT
<1>10. m = doe - (25 * c + q + b) + c
  BY <1>5, <1>6, <1>7, <1>8, <1>9, SMT
<1>11. m = 365 * y + (doy - b)
  BY <1>1, <1>2, <1>5, <1>10, SMT
<1>12. m \div 365 = y
  BY <1>5, <1>11, SMT DEF Years
<1> QED BY <1>7, <1>9, <1>12, SMT

\* `doy` and `mp`: five months are 153 days, and a division by 153 undoes what
\* one by 5 rounded.
LEMMA MonthFound ==
  ASSUME NEW y \in Years, NEW m \in Months, NEW d \in Nat, 1 <= d, d <= Length(y, m),
         NEW doy, doy = MonthStart(m) + d - 1
  PROVE  /\ doy \in Nat /\ doy < YearLength(y)
         /\ (5 * doy + 2) \div 153 = m
<1>1. YearLength(y) = 365 \/ YearLength(y) = 366
  BY SMT DEF YearLength
<1>2. MonthStart(11) = 337
  BY SMT DEF MonthStart
<1>3. \A k \in Months : /\ MonthStart(k) \in Nat
                        /\ 5 * MonthStart(k) >= 153 * k - 2
                        /\ 5 * MonthStart(k) <= 153 * k + 2
  BY SMT DEF MonthStart, Months
<1>4. m \in Nat /\ m < 12
  BY SMT DEF Months
<1>5. CASE m = 11
  <2>1. doy \in Nat /\ doy < YearLength(y) /\ doy >= 337
    BY <1>1, <1>2, <1>5, SMT DEF Length
  <2>2. (5 * doy + 2) \div 153 = 11
    BY <1>1, <2>1, SMT
  <2> QED BY <1>5, <2>1, <2>2, SMT
<1>6. CASE m # 11
  <2>1. m + 1 \in Months /\ d <= MonthStart(m + 1) - MonthStart(m)
    BY <1>4, <1>6, SMT DEF Length, Months
  <2>2. /\ MonthStart(m) \in Nat /\ MonthStart(m + 1) \in Nat
        /\ 5 * MonthStart(m) >= 153 * m - 2 /\ 5 * MonthStart(m + 1) <= 153 * m + 155
    BY <1>3, <1>4, <2>1, SMT
  <2>3. doy \in Nat /\ doy >= MonthStart(m) /\ doy < MonthStart(m + 1)
    BY <2>1, <2>2, SMT
  <2>4. 5 * doy + 2 >= 153 * m /\ 5 * doy + 2 < 153 * m + 153 /\ doy < 365
    BY <1>4, <1>6, <2>2, <2>3, SMT
  <2>5. (5 * doy + 2) \div 153 = m
    BY <1>4, <2>3, <2>4, SMT
  <2> QED BY <1>1, <2>3, <2>4, <2>5, SMT
<1> QED BY <1>5, <1>6, SMT

\* What civil_from_days finds on its way, from the day of the era and from the
\* day of the year.
YearOf(doe) == (doe - doe \div 1460 + doe \div 36524 - doe \div 146096) \div 365
DayOfYear(doe, y) == doe - (365 * y + y \div 4 - y \div 100)
MonthOf(doy) == (5 * doy + 2) \div 153
DayOf(doy, m) == doy - (153 * m + 2) \div 5 + 1

Assembled(e, y, m, d) ==
  LET month == IF m < 10 THEN m + 3 ELSE m - 9
  IN  [ year |-> y + e * 400 + (IF month <= 2 THEN 1 ELSE 0), month |-> month, day |-> d ]

\* civil_from_days goes through them one after the other.
LEMMA Composed ==
  ASSUME NEW n
  PROVE  LET doe == DayOfEra(n + 719468)
             doy == DayOfYear(doe, YearOf(doe))
             m == MonthOf(doy)
         IN  CivilFromDays(n) = Assembled(Era(n + 719468), YearOf(doe), m, DayOf(doy, m))
BY SMT DEF CivilFromDays, YearOf, DayOfYear, MonthOf, DayOf, Assembled

\* civil_from_days finds the era, the year, the month and the day.
LEMMA Decoded ==
  ASSUME NEW e \in Nat, NEW y \in Years, NEW m \in Months,
         NEW d \in Nat, 1 <= d, d <= Length(y, m)
  PROVE  /\ Number(e, y, m, d) \in Int /\ Number(e, y, m, d) >= -719468
         /\ CivilFromDays(Number(e, y, m, d)) = Written(e, y, m, d)
<1>1. PICK doy : doy = MonthStart(m) + d - 1
  BY SMT
<1>2. doy \in Nat /\ doy < YearLength(y) /\ (5 * doy + 2) \div 153 = m
  BY <1>1, MonthFound, SMT
<1>3. PICK doe : doe = YearStart(y) + doy
  BY SMT
<1>4. /\ doe \in Nat /\ doe < 146097
      /\ (doe - doe \div 1460 + doe \div 36524 - doe \div 146096) \div 365 = y
  BY <1>2, <1>3, YearFound, SMT
<1>5. PICK z : z = 146097 * e + doe
  BY SMT
<1>6. z \in Nat /\ Era(z) = e /\ DayOfEra(z) = doe
  <2>1. z \in Nat /\ z \div 146097 = e
    BY <1>4, <1>5, SMT
  <2> QED BY <1>4, <1>5, <2>1, SMT DEF Era, DayOfEra
<1>7. YearStart(y) \in Int /\ MonthStart(m) \in Int
  BY SMT DEF YearStart, MonthStart, Years, Months
<1>8. Number(e, y, m, d) \in Int /\ Number(e, y, m, d) + 719468 = z
  BY <1>1, <1>3, <1>5, <1>7, SMT DEF Number
<1>9. YearOf(doe) = y /\ DayOfYear(doe, y) = doy /\ MonthOf(doy) = m /\ DayOf(doy, m) = d
  <2>1. YearOf(doe) = y /\ MonthOf(doy) = m
    BY <1>2, <1>4, SMT DEF YearOf, MonthOf
  <2>2. DayOfYear(doe, y) = doy
    BY <1>2, <1>3, <1>7, SMT DEF DayOfYear, YearStart
  <2>3. DayOf(doy, m) = d
    BY <1>1, <1>7, SMT DEF DayOf, MonthStart
  <2> QED BY <2>1, <2>2, <2>3, SMT
<1>10. CivilFromDays(Number(e, y, m, d)) = Assembled(e, y, m, d)
  BY <1>6, <1>8, <1>9, Composed, SMT
<1>11. Assembled(e, y, m, d) = Written(e, y, m, d)
  BY SMT DEF Assembled, Written, Years, Months
<1> QED BY <1>6, <1>8, <1>10, <1>11, SMT
-----------------------------------------------------------------------------
\* A day of the calendar, and the date it is.
Valid(e, y, m, d) ==
  e \in Nat /\ y \in Years /\ m \in Months /\ d \in Nat /\ 1 <= d /\ d <= Length(y, m)

\* Where the months start.
LEMMA MonthStarts ==
  /\ MonthStart(0) = 0 /\ MonthStart(1) = 31 /\ MonthStart(2) = 61 /\ MonthStart(3) = 92
  /\ MonthStart(4) = 122 /\ MonthStart(5) = 153 /\ MonthStart(6) = 184
  /\ MonthStart(7) = 214 /\ MonthStart(8) = 245 /\ MonthStart(9) = 275
  /\ MonthStart(10) = 306 /\ MonthStart(11) = 337
BY SMT DEF MonthStart

\* February, at such a year's end, is in the next year: a leap year by the rules
\* of the calendar, whatever the era.
LEMMA LeapYears ==
  ASSUME NEW e \in Nat, NEW y \in Years
  PROVE  YearLength(y) = IF Leap(y + 400 * e + 1) THEN 366 ELSE 365
<1>1. y \in Nat /\ y < 400
  BY DEF Years
<1>2. PICK x : x = y + 400 * e + 1
  OBVIOUS
<1>3. x % 4 = (y + 1) % 4
  BY <1>1, <1>2, SMT
<1>4. x % 100 = (y + 1) % 100
  BY <1>1, <1>2, SMT
<1>5. x % 400 = 0 <=> y = 399
  BY <1>1, <1>2, SMT
<1> QED BY <1>2, <1>3, <1>4, <1>5, SMT DEF Leap, YearLength

\* The months of the formula have the lengths of the calendar's.
LEMMA Lengths ==
  ASSUME NEW e \in Nat, NEW y \in Years, NEW m \in Months, NEW d
  PROVE  /\ Length(y, m) = MonthLength(Written(e, y, m, d).year, Written(e, y, m, d).month)
         /\ Length(y, m) \in Nat /\ Length(y, m) >= 28
         /\ m < 11 => MonthStart(m + 1) = MonthStart(m) + Length(y, m)
         /\ m = 11 => YearLength(y) = MonthStart(m) + Length(y, m)
<1>1. YearLength(y) = IF Leap(y + 400 * e + 1) THEN 366 ELSE 365
  BY LeapYears
<1>2. \/ m = 0 \/ m = 1 \/ m = 2 \/ m = 3 \/ m = 4 \/ m = 5 \/ m = 6
      \/ m = 7 \/ m = 8 \/ m = 9 \/ m = 10 \/ m = 11
  BY SMT DEF Months
<1>3. CASE m = 11
  BY <1>1, <1>3, MonthStarts, SMT DEF Length, MonthLength, Written, Years
<1>4. CASE m # 11
  BY <1>2, <1>4, MonthStarts, SMT DEF Length, MonthLength, Written
<1> QED BY <1>3, <1>4

\* A year starts where the one before it ended, an era too.
LEMMA YearStarts ==
  ASSUME NEW y \in Years
  PROVE  /\ YearStart(y) \in Nat
         /\ y < 399 => YearStart(y + 1) = YearStart(y) + YearLength(y)
         /\ y = 399 => 146097 = YearStart(y) + YearLength(y)
         /\ YearStart(0) = 0
<1>1. y \in Nat /\ y < 400
  BY DEF Years
<1>2. (y + 1) \div 4 = IF (y + 1) % 4 = 0 THEN y \div 4 + 1 ELSE y \div 4
  BY <1>1, SMT
<1>3. (y + 1) \div 100 = IF (y + 1) % 100 = 0 THEN y \div 100 + 1 ELSE y \div 100
  BY <1>1, SMT
<1>4. (y + 1) % 100 = 0 => (y + 1) % 4 = 0
  BY <1>1, SMT
<1>5. y < 399 => YearStart(y + 1) = YearStart(y) + YearLength(y)
  BY <1>1, <1>2, <1>3, <1>4, SMT DEF YearStart, YearLength
<1>6. y = 399 => 146097 = YearStart(y) + YearLength(y)
  BY SMT DEF YearStart, YearLength
<1>7. YearStart(y) \in Nat
  BY <1>1, SMT DEF YearStart
<1>8. YearStart(0) = 0
  BY SMT DEF YearStart
<1> QED BY <1>5, <1>6, <1>7, <1>8

\* The day after one whose three fields are given.
LEMMA FieldsAfter ==
  ASSUME NEW y, NEW m, NEW d
  PROVE  DayAfter([year |-> y, month |-> m, day |-> d]) =
           IF d < MonthLength(y, m) THEN [year |-> y, month |-> m, day |-> d + 1]
           ELSE IF m < 12 THEN [year |-> y, month |-> m + 1, day |-> 1]
           ELSE [year |-> y + 1, month |-> 1, day |-> 1]
<1>1. PICK w : w = [year |-> y, month |-> m, day |-> d]
  OBVIOUS
<1>2. w.year = y /\ w.month = m /\ w.day = d
  BY <1>1
<1>3. \A k : [w EXCEPT !.day = k] = [year |-> y, month |-> m, day |-> k]
  BY <1>1
<1>4. \A j, k : [w EXCEPT !.day = k, !.month = j] = [year |-> y, month |-> j, day |-> k]
  <2>1. \A j, k, v : v = [year |-> y, month |-> m, day |-> k]
                       => [v EXCEPT !.month = j] = [year |-> y, month |-> j, day |-> k]
    OBVIOUS
  <2> QED BY <1>3, <2>1, Zenon
<1>5. DayAfter(w) = IF d < MonthLength(y, m) THEN [w EXCEPT !.day = d + 1]
                    ELSE IF m < 12 THEN [w EXCEPT !.day = 1, !.month = m + 1]
                    ELSE [year |-> y + 1, month |-> 1, day |-> 1]
  BY <1>2, SMT DEF DayAfter
<1> QED BY <1>1, <1>3, <1>4, <1>5, Zenon

\* The day before the first of a month.
LEMMA FirstBefore ==
  ASSUME NEW y, NEW m
  PROVE  DayBefore([year |-> y, month |-> m, day |-> 1]) =
           IF m > 1 THEN [year |-> y, month |-> m - 1, day |-> MonthLength(y, m - 1)]
           ELSE [year |-> y - 1, month |-> 12, day |-> 31]
<1>1. PICK w : w = [year |-> y, month |-> m, day |-> 1]
  OBVIOUS
<1>2. w.year = y /\ w.month = m /\ w.day = 1
  BY <1>1
<1>3. \A j, k : [w EXCEPT !.day = k, !.month = j] = [year |-> y, month |-> j, day |-> k]
  <2>1. \A k : [w EXCEPT !.day = k] = [year |-> y, month |-> m, day |-> k]
    BY <1>1
  <2>2. \A j, k, v : v = [year |-> y, month |-> m, day |-> k]
                       => [v EXCEPT !.month = j] = [year |-> y, month |-> j, day |-> k]
    OBVIOUS
  <2> QED BY <2>1, <2>2, Zenon
<1>4. DayBefore(w) =
        IF m > 1 THEN [w EXCEPT !.day = MonthLength(y, m - 1), !.month = m - 1]
        ELSE [year |-> y - 1, month |-> 12, day |-> 31]
  BY <1>2, SMT DEF DayBefore
<1> QED BY <1>1, <1>3, <1>4, Zenon

\* The calendar's next day is the next number.
LEMMA DayLater ==
  ASSUME NEW e, NEW y, NEW m, NEW d, Valid(e, y, m, d)
  PROVE  \E e2, y2, m2, d2 :
           /\ Valid(e2, y2, m2, d2)
           /\ Number(e2, y2, m2, d2) = Number(e, y, m, d) + 1
           /\ Written(e2, y2, m2, d2) = DayAfter(Written(e, y, m, d))
<1>1. e \in Nat /\ y \in Years /\ m \in Months /\ d \in Nat /\ 1 <= d /\ d <= Length(y, m)
  BY DEF Valid
<1>2. /\ Length(y, m) = MonthLength(Written(e, y, m, d).year, Written(e, y, m, d).month)
      /\ Length(y, m) \in Nat
      /\ m < 11 => MonthStart(m + 1) = MonthStart(m) + Length(y, m)
      /\ m = 11 => YearLength(y) = MonthStart(m) + Length(y, m)
  BY <1>1, Lengths
<1>3. y \in Nat /\ y < 400 /\ m \in Nat /\ m < 12
  BY <1>1 DEF Years, Months
<1>4. MonthStart(m) \in Int /\ MonthStart(0) = 0 /\ MonthStart(11) = 337
  BY <1>3, MonthStarts, SMT DEF MonthStart
<1>5. /\ YearStart(y) \in Nat /\ YearStart(0) = 0
      /\ y < 399 => YearStart(y + 1) = YearStart(y) + YearLength(y)
      /\ y = 399 => 146097 = YearStart(y) + YearLength(y)
  BY <1>1, YearStarts
<1>6. CASE d < Length(y, m)
  <2>1. Valid(e, y, m, d + 1)
    BY <1>1, <1>2, <1>6 DEF Valid
  <2>2. Number(e, y, m, d + 1) = Number(e, y, m, d) + 1
    BY <1>1, <1>4, <1>5, SMT DEF Number
  <2>3. Written(e, y, m, d + 1) = DayAfter(Written(e, y, m, d))
    BY <1>1, <1>2, <1>6, SMT DEF Written, DayAfter
  <2> QED BY <2>1, <2>2, <2>3
<1>7. CASE d = Length(y, m) /\ m < 11
  <2>1. m + 1 \in Months /\ Length(y, m + 1) \in Nat /\ Length(y, m + 1) >= 28
    BY <1>1, <1>3, <1>7, Lengths DEF Months
  <2>2. Valid(e, y, m + 1, 1)
    BY <1>1, <2>1 DEF Valid
  <2>3. Number(e, y, m + 1, 1) = Number(e, y, m, d) + 1
    BY <1>1, <1>2, <1>4, <1>5, <1>7, SMT DEF Number
  <2>4. Written(e, y, m + 1, 1) = DayAfter(Written(e, y, m, d))
    <3>1. PICK w, v : /\ w = y + 400 * e + (IF m >= 10 THEN 1 ELSE 0)
                      /\ v = IF m < 10 THEN m + 3 ELSE m - 9
      OBVIOUS
    <3>2. /\ Written(e, y, m, d) = [year |-> w, month |-> v, day |-> d]
          /\ w \in Int /\ v \in Int /\ ~(d < MonthLength(w, v))
      BY <1>1, <1>2, <1>3, <1>7, <3>1, SMT DEF Written
    <3>3. IF m = 9
          THEN v = 12 /\ Written(e, y, m + 1, 1) = [year |-> w + 1, month |-> 1, day |-> 1]
          ELSE v < 12 /\ Written(e, y, m + 1, 1) = [year |-> w, month |-> v + 1, day |-> 1]
      BY <1>1, <1>3, <1>7, <3>1, SMT DEF Written
    <3>4. DayAfter([year |-> w, month |-> v, day |-> d]) =
            IF v < 12 THEN [year |-> w, month |-> v + 1, day |-> 1]
            ELSE [year |-> w + 1, month |-> 1, day |-> 1]
      BY <3>2, FieldsAfter, Zenon
    <3> QED BY <3>2, <3>3, <3>4, SMT
  <2> QED BY <2>2, <2>3, <2>4
<1>8. CASE d = Length(y, m) /\ m = 11
  <2>1. PICK e2, y2 : /\ e2 = (IF y = 399 THEN e + 1 ELSE e)
                      /\ y2 = (IF y = 399 THEN 0 ELSE y + 1)
    OBVIOUS
  <2>2. e2 \in Nat /\ y2 \in Years /\ 0 \in Months
    BY <1>1, <1>3, <2>1, SMT DEF Years, Months
  <2>3. Length(y2, 0) \in Nat /\ Length(y2, 0) >= 28
    BY <2>2, Lengths
  <2>4. Valid(e2, y2, 0, 1)
    BY <2>2, <2>3 DEF Valid
  <2>5. Number(e2, y2, 0, 1) = Number(e, y, m, d) + 1
    BY <1>1, <1>2, <1>3, <1>4, <1>5, <1>8, <2>1, SMT DEF Number
  <2>6. Written(e2, y2, 0, 1) = DayAfter(Written(e, y, m, d))
    <3>1. PICK w : w = y + 400 * e + 1
      OBVIOUS
    <3>2. /\ Written(e, y, m, d) = [year |-> w, month |-> 2, day |-> d]
          /\ w \in Int /\ ~(d < MonthLength(w, 2))
      BY <1>1, <1>2, <1>3, <1>8, <3>1, SMT DEF Written
    <3>3. Written(e2, y2, 0, 1) = [year |-> w, month |-> 3, day |-> 1]
      BY <1>1, <1>3, <2>1, <3>1, SMT DEF Written
    <3>4. DayAfter([year |-> w, month |-> 2, day |-> d]) =
            IF 2 < 12 THEN [year |-> w, month |-> 2 + 1, day |-> 1]
            ELSE [year |-> w + 1, month |-> 1, day |-> 1]
      BY <3>2, FieldsAfter, Zenon
    <3> QED BY <3>2, <3>3, <3>4, SMT
  <2> QED BY <2>4, <2>5, <2>6
<1> QED BY <1>1, <1>2, <1>3, <1>6, <1>7, <1>8

\* The calendar's day before is the number before, but for 0000-03-01.
LEMMA DayEarlier ==
  ASSUME NEW e, NEW y, NEW m, NEW d, Valid(e, y, m, d), <<e, y, m, d>> # <<0, 0, 0, 1>>
  PROVE  \E e2, y2, m2, d2 :
           /\ Valid(e2, y2, m2, d2)
           /\ Number(e2, y2, m2, d2) = Number(e, y, m, d) - 1
           /\ Written(e2, y2, m2, d2) = DayBefore(Written(e, y, m, d))
<1>1. e \in Nat /\ y \in Years /\ m \in Months /\ d \in Nat /\ 1 <= d /\ d <= Length(y, m)
  BY SMT DEF Valid
<1>2. y \in Nat /\ y < 400 /\ m \in Nat /\ m < 12 /\ Length(y, m) \in Nat
  BY <1>1, Lengths, SMT DEF Years, Months
<1>3. MonthStart(m) \in Int /\ MonthStart(0) = 0 /\ MonthStart(11) = 337
  BY <1>2, MonthStarts, SMT DEF MonthStart
<1>4. YearStart(y) \in Nat /\ YearStart(0) = 0
  BY <1>1, YearStarts, SMT
<1>5. CASE d > 1
  <2>1. Valid(e, y, m, d - 1)
    BY <1>1, <1>2, <1>5, SMT DEF Valid
  <2>2. Number(e, y, m, d - 1) = Number(e, y, m, d) - 1
    BY <1>1, <1>3, <1>4, SMT DEF Number
  <2>3. Written(e, y, m, d - 1) = DayBefore(Written(e, y, m, d))
    BY <1>1, <1>5, SMT DEF Written, DayBefore
  <2> QED BY <2>1, <2>2, <2>3, SMT
<1>6. CASE d = 1 /\ m > 0
  <2>1. m - 1 \in Months /\ m - 1 < 11 /\ (m - 1) + 1 = m
    BY <1>2, <1>6, SMT DEF Months
  <2>2. PICK l : l = Length(y, m - 1)
    BY SMT
  <2>3. /\ l = MonthLength(Written(e, y, m - 1, l).year, Written(e, y, m - 1, l).month)
        /\ l \in Nat /\ l >= 28 /\ MonthStart(m) = MonthStart(m - 1) + l
    BY <1>1, <2>1, <2>2, Lengths, SMT
  <2>4. Valid(e, y, m - 1, l)
    BY <1>1, <2>1, <2>2, <2>3, SMT DEF Valid
  <2>5. MonthStart(m - 1) \in Int
    BY <1>2, SMT DEF MonthStart
  <2>6. Number(e, y, m - 1, l) = Number(e, y, m, d) - 1
    BY <1>1, <1>3, <1>4, <1>6, <2>3, <2>5, SMT DEF Number
  <2>7. Written(e, y, m - 1, l) = DayBefore(Written(e, y, m, d))
    <3>1. CASE m = 10
      <4>1. l = 31
        BY <2>2, <3>1, MonthStarts, SMT DEF Length
      <4>2. PICK w : w = y + 400 * e + 1
        BY SMT
      <4>3. /\ Written(e, y, m, d) = [year |-> w, month |-> 1, day |-> 1]
            /\ Written(e, y, m - 1, l) = [year |-> w - 1, month |-> 12, day |-> 31]
        BY <1>1, <1>2, <1>6, <3>1, <4>1, <4>2, SMT DEF Written
      <4>4. DayBefore([year |-> w, month |-> 1, day |-> 1]) =
              IF 1 > 1 THEN [year |-> w, month |-> 1 - 1, day |-> MonthLength(w, 1 - 1)]
              ELSE [year |-> w - 1, month |-> 12, day |-> 31]
        BY FirstBefore, Zenon
      <4> QED BY <4>3, <4>4, SMT
    <3>2. CASE m # 10
      <4>1. PICK w, v : /\ w = y + 400 * e + (IF m >= 10 THEN 1 ELSE 0)
                        /\ v = IF m < 10 THEN m + 3 ELSE m - 9
        BY SMT
      <4>2. /\ Written(e, y, m, d) = [year |-> w, month |-> v, day |-> 1]
            /\ Written(e, y, m - 1, l) = [year |-> w, month |-> v - 1, day |-> l]
            /\ v > 1
        BY <1>1, <1>2, <1>6, <3>2, <4>1, SMT DEF Written
      <4>3. l = MonthLength(w, v - 1)
        BY <2>3, <4>2, SMT
      <4>4. DayBefore([year |-> w, month |-> v, day |-> 1]) =
              IF v > 1 THEN [year |-> w, month |-> v - 1, day |-> MonthLength(w, v - 1)]
              ELSE [year |-> w - 1, month |-> 12, day |-> 31]
        BY FirstBefore, Zenon
      <4> QED BY <4>2, <4>3, <4>4, SMT
    <3> QED BY <3>1, <3>2, SMT
  <2> QED BY <2>4, <2>6, <2>7, SMT
<1>7. CASE d = 1 /\ m = 0
  <2>1. PICK e2, y2 : /\ e2 = (IF y = 0 THEN e - 1 ELSE e)
                      /\ y2 = (IF y = 0 THEN 399 ELSE y - 1)
    BY SMT
  <2>2. y = 0 => e > 0
    BY <1>1, <1>7, SMT
  <2>3. e2 \in Nat /\ y2 \in Years /\ 11 \in Months
    BY <1>1, <1>2, <2>1, <2>2, SMT DEF Years, Months
  <2>4. PICK l : l = Length(y2, 11)
    BY SMT
  <2>5. /\ l = MonthLength(Written(e2, y2, 11, l).year, Written(e2, y2, 11, l).month)
        /\ l \in Nat /\ l >= 28 /\ YearLength(y2) = MonthStart(11) + l
    BY <2>3, <2>4, Lengths, SMT
  <2>6. Valid(e2, y2, 11, l)
    BY <2>3, <2>4, <2>5, SMT DEF Valid
  <2>7. /\ YearStart(y2) \in Nat
        /\ y2 < 399 => YearStart(y2 + 1) = YearStart(y2) + YearLength(y2)
        /\ y2 = 399 => 146097 = YearStart(y2) + YearLength(y2)
    BY <2>3, YearStarts, SMT
  <2>8. IF y = 0 THEN y2 = 399 ELSE y2 < 399 /\ y2 + 1 = y
    BY <1>2, <2>1, SMT
  <2>9. Number(e2, y2, 11, l) = Number(e, y, m, d) - 1
    BY <1>1, <1>3, <1>4, <1>7, <2>1, <2>5, <2>7, <2>8, SMT DEF Number
  <2>10. PICK w : w = y + 400 * e
    BY SMT
  <2>11. /\ Written(e, y, m, d) = [year |-> w, month |-> 3, day |-> 1]
         /\ Written(e2, y2, 11, l) = [year |-> w, month |-> 2, day |-> l]
    BY <1>1, <1>2, <1>7, <2>1, <2>10, SMT DEF Written
  <2>12. l = MonthLength(w, 2)
    BY <2>5, <2>11, SMT
  <2>13. DayBefore([year |-> w, month |-> 3, day |-> 1]) =
           IF 3 > 1 THEN [year |-> w, month |-> 3 - 1, day |-> MonthLength(w, 3 - 1)]
           ELSE [year |-> w - 1, month |-> 12, day |-> 31]
    BY FirstBefore, Zenon
  <2>14. Written(e2, y2, 11, l) = DayBefore(Written(e, y, m, d))
    BY <2>11, <2>12, <2>13, SMT
  <2> QED BY <2>6, <2>9, <2>14, SMT
<1> QED BY <1>1, <1>2, <1>5, <1>6, <1>7, SMT

-----------------------------------------------------------------------------
\* The day and its date are one and the same day, and civil_from_days reads it.
DayInv ==
  /\ day \in Int /\ day >= FirstDay - DaysBack
  /\ \E e, y, m, d :
       /\ Valid(e, y, m, d)
       /\ day = Number(e, y, m, d) /\ date = Written(e, y, m, d)

\* The walk starts on such a day, 1970-01-01 or 0000-03-01.
LEMMA DayBegins == Init => DayInv
<1> SUFFICES ASSUME Init PROVE DayInv
  BY SMT
<1>1. FirstDay \in Int /\ DaysBack \in Nat /\ day = FirstDay /\ date = FirstDate
  BY WalkAssumption, SMT DEF Init, FirstDay
<1>2. CASE Start = "epoch"
  <2>1. 4 \in Nat /\ 369 \in Years /\ 10 \in Months /\ Length(369, 10) = 31
    BY MonthStarts, SMT DEF Length, Years, Months
  <2>2. Valid(4, 369, 10, 1)
    BY <2>1, SMT DEF Valid
  <2>3. Number(4, 369, 10, 1) = 0
    BY MonthStarts, SMT DEF Number, YearStart
  <2>4. Written(4, 369, 10, 1) = [year |-> 1970, month |-> 1, day |-> 1]
    BY SMT DEF Written
  <2> QED BY <1>1, <1>2, <2>2, <2>3, <2>4, SMT DEF DayInv, FirstDay, FirstDate
<1>3. CASE Start = "era"
  <2>1. 0 \in Years /\ 0 \in Months /\ Length(0, 0) = 31
    BY MonthStarts, SMT DEF Length, Years, Months
  <2>2. Valid(0, 0, 0, 1)
    BY <2>1, SMT DEF Valid
  <2>3. Number(0, 0, 0, 1) = -719468
    BY MonthStarts, SMT DEF Number, YearStart
  <2>4. Written(0, 0, 0, 1) = [year |-> 0, month |-> 3, day |-> 1]
    BY SMT DEF Written
  <2> QED BY <1>1, <1>3, <2>2, <2>3, <2>4, SMT DEF DayInv, FirstDay, FirstDate
<1> QED BY <1>2, <1>3, WalkAssumption, SMT

\* A step takes it to another.
LEMMA DayStep ==
  ASSUME FirstDay - DaysBack >= -719468
  PROVE  DayInv /\ [Next]_<<day, date, now>> => DayInv'
<1> SUFFICES ASSUME DayInv, [Next]_<<day, date, now>> PROVE DayInv'
  BY SMT
<1>1. PICK e, y, m, d : /\ Valid(e, y, m, d)
                        /\ day = Number(e, y, m, d) /\ date = Written(e, y, m, d)
  BY SMT DEF DayInv
<1>2. FirstDay \in Int /\ DaysBack \in Nat /\ day \in Int /\ day >= FirstDay - DaysBack
  BY WalkAssumption, SMT DEF DayInv, FirstDay
<1>3. CASE Forward
  <2>1. day' = day + 1 /\ date' = DayAfter(date)
    BY <1>3, SMT DEF Forward
  <2>2. PICK e2, y2, m2, d2 : /\ Valid(e2, y2, m2, d2)
                              /\ Number(e2, y2, m2, d2) = Number(e, y, m, d) + 1
                              /\ Written(e2, y2, m2, d2) = DayAfter(Written(e, y, m, d))
    BY <1>1, DayLater, SMT
  <2>3. day' \in Int /\ day' >= FirstDay - DaysBack
    BY <1>2, <2>1, SMT
  <2>4. day' = Number(e2, y2, m2, d2) /\ date' = Written(e2, y2, m2, d2)
    BY <1>1, <2>1, <2>2, SMT
  <2> QED BY <2>2, <2>3, <2>4, SMT DEF DayInv, FirstDay
<1>4. CASE Back
  <2>1. day' = day - 1 /\ date' = DayBefore(date) /\ FirstDay - DaysBack < day
    BY <1>4, SMT DEF Back
  <2>2. <<e, y, m, d>> # <<0, 0, 0, 1>>
    <3>1. Number(0, 0, 0, 1) = -719468
      BY MonthStarts, SMT DEF Number, YearStart
    <3>2. Number(e, y, m, d) # Number(0, 0, 0, 1)
      BY <1>1, <1>2, <2>1, <3>1, SMT
    <3> QED BY <3>2
  <2>3. PICK e2, y2, m2, d2 : /\ Valid(e2, y2, m2, d2)
                              /\ Number(e2, y2, m2, d2) = Number(e, y, m, d) - 1
                              /\ Written(e2, y2, m2, d2) = DayBefore(Written(e, y, m, d))
    BY <1>1, <2>2, DayEarlier, SMT
  <2>4. day' \in Int /\ day' >= FirstDay - DaysBack
    BY <1>2, <2>1, SMT
  <2>5. day' = Number(e2, y2, m2, d2) /\ date' = Written(e2, y2, m2, d2)
    BY <1>1, <2>1, <2>3, SMT
  <2> QED BY <2>3, <2>4, <2>5, SMT DEF DayInv, FirstDay
<1>5. CASE UNCHANGED <<day, date>>
  BY <1>1, <1>2, <1>5, SMT DEF DayInv, FirstDay
<1> QED BY <1>3, <1>4, <1>5, SMT DEF Next, Tick

\* civil_from_days is right on every day there is, from 0000-03-01 on and
\* without an end, not on those a run walks through: however far the clock
\* goes on, and however far back it goes if no further than that day.
THEOREM EveryDay ==
  ASSUME FirstDay - DaysBack >= -719468
  PROVE  Spec => []CivilIsGregorian
<1>1. Init => DayInv
  BY DayBegins, SMT
<1>2. DayInv /\ [Next]_<<day, date, now>> => DayInv'
  BY DayStep, SMT
<1>3. DayInv => CivilIsGregorian
  <2> SUFFICES ASSUME DayInv PROVE CivilIsGregorian
    BY SMT
  <2>1. PICK e, y, m, d : /\ Valid(e, y, m, d)
                          /\ day = Number(e, y, m, d) /\ date = Written(e, y, m, d)
    BY SMT DEF DayInv
  <2>2. CivilFromDays(Number(e, y, m, d)) = Written(e, y, m, d)
    BY <2>1, Decoded, SMT DEF Valid
  <2> QED BY <2>1, <2>2, SMT DEF CivilIsGregorian
<1> QED BY <1>1, <1>2, <1>3, PTL DEF Spec

-----------------------------------------------------------------------------
(* The order of instants and of what is printed of them.                   *)

\* A set of natural numbers that is not empty has a least member.
LEMMA Least ==
  ASSUME NEW S \in SUBSET Nat, S # {}
  PROVE  \E n \in S : \A m \in S : n <= m
<1>1. PICK n \in S : \A m \in S : <<m, n>> \notin OpToRel(<, Nat)
  BY NatLessThanWellFounded, WFMin
<1>2. \A m \in S : ~(m < n)
  BY <1>1 DEF OpToRel
<1> QED BY <1>2

\* The day 0000-03-01, from which civil_from_days counts.
MarchZero == -719468

\* Every day from then on has an era, a year, a month and a day.
LEMMA DayExists ==
  ASSUME NEW n \in Nat
  PROVE  \E e, y, m, d : Valid(e, y, m, d) /\ Number(e, y, m, d) = MarchZero + n
<1> DEFINE Has(k) == \E e, y, m, d : Valid(e, y, m, d) /\ Number(e, y, m, d) = MarchZero + k
           Without == {k \in Nat : ~Has(k)}
<1>1. Has(0)
  <2>1. 0 \in Years /\ 0 \in Months /\ Length(0, 0) = 31
    BY MonthStarts, SMT DEF Length, Years, Months
  <2>2. Valid(0, 0, 0, 1)
    BY <2>1, SMT DEF Valid
  <2>3. Number(0, 0, 0, 1) = MarchZero + 0
    BY MonthStarts, SMT DEF Number, YearStart, MarchZero
  <2> QED BY <2>2, <2>3, Zenon
<1>2. ASSUME NEW k \in Nat, Has(k) PROVE Has(k + 1)
  <2>1. PICK e, y, m, d : Valid(e, y, m, d) /\ Number(e, y, m, d) = MarchZero + k
    BY <1>2, Zenon
  <2>2. PICK e2, y2, m2, d2 : /\ Valid(e2, y2, m2, d2)
                              /\ Number(e2, y2, m2, d2) = Number(e, y, m, d) + 1
                              /\ Written(e2, y2, m2, d2) = DayAfter(Written(e, y, m, d))
    BY <2>1, DayLater, SMT
  <2>3. Number(e2, y2, m2, d2) = MarchZero + (k + 1)
    BY <2>1, <2>2, SMT DEF MarchZero
  <2> QED BY <2>2, <2>3, Zenon
<1> HIDE DEF Has
<1>3. ASSUME Without # {} PROVE FALSE
  <2>1. PICK k \in Without : \A j \in Without : k <= j
    BY <1>3, Least
  <2>2. k \in Nat /\ ~Has(k) /\ k # 0
    BY <1>1, <2>1
  <2>3. k - 1 \in Nat /\ k - 1 \notin Without /\ (k - 1) + 1 = k
    BY <2>1, <2>2
  <2> QED BY <1>2, <2>2, <2>3
<1>4. Has(n)
  BY <1>3
<1> QED BY <1>4, Zenon DEF Has

\* A date as one number, in the order of its three fields.
Key(d) == 31 * (12 * d.year + d.month - 1) + d.day - 1

IsDate(d) ==
  /\ d = [year |-> d.year, month |-> d.month, day |-> d.day]
  /\ d.year \in Int
  /\ d.month \in Int /\ d.month - 1 \in Nat /\ d.month - 1 < 12
  /\ d.day \in Int /\ d.day - 1 \in Nat /\ d.day - 1 < 31

\* The next day's date is a date, and a later one.
LEMMA KeyLater ==
  ASSUME NEW n \in Nat
  PROVE  /\ IsDate(CivilFromDays(MarchZero + n))
         /\ Key(CivilFromDays(MarchZero + n)) \in Int
         /\ Key(CivilFromDays(MarchZero + n)) < Key(CivilFromDays(MarchZero + (n + 1)))
<1>1. PICK e, y, m, d : Valid(e, y, m, d) /\ Number(e, y, m, d) = MarchZero + n
  BY DayExists, Zenon
<1>2. PICK e2, y2, m2, d2 : /\ Valid(e2, y2, m2, d2)
                            /\ Number(e2, y2, m2, d2) = Number(e, y, m, d) + 1
                            /\ Written(e2, y2, m2, d2) = DayAfter(Written(e, y, m, d))
  BY <1>1, DayLater, SMT
<1> DEFINE w == Written(e, y, m, d)
           yr == w.year
           mo == w.month
<1>3. CivilFromDays(MarchZero + n) = w
  BY <1>1, Decoded, SMT DEF Valid
<1>4. CivilFromDays(MarchZero + (n + 1)) = DayAfter(w)
  <2>1. Number(e2, y2, m2, d2) = MarchZero + (n + 1)
    BY <1>1, <1>2, SMT DEF MarchZero
  <2> QED BY <1>2, <2>1, Decoded, SMT DEF Valid
<1>5. /\ w = [year |-> yr, month |-> mo, day |-> d]
      /\ yr \in Int /\ mo \in 1 .. 12
  BY <1>1, SMT DEF Valid, Written, Years, Months
<1>6. Length(y, m) = MonthLength(yr, mo) /\ d \in 1 .. MonthLength(yr, mo)
  BY <1>1, Lengths, SMT DEF Valid
<1>7. MonthLength(yr, mo) \in 28 .. 31
  BY SMT DEF MonthLength
<1> HIDE DEF w, yr, mo
<1>8. w.year = yr /\ w.month = mo /\ w.day = d
  BY <1>5, SMT
<1>9. DayAfter(w) = IF d < MonthLength(yr, mo) THEN [year |-> yr, month |-> mo, day |-> d + 1]
                    ELSE IF mo < 12 THEN [year |-> yr, month |-> mo + 1, day |-> 1]
                    ELSE [year |-> yr + 1, month |-> 1, day |-> 1]
  BY <1>5, FieldsAfter, Zenon
<1>10. IsDate(w)
  BY <1>5, <1>6, <1>7, <1>8, SMT DEF IsDate
<1>11. Key(w) = 31 * (12 * yr + mo - 1) + d - 1
  BY <1>8, SMT DEF Key
<1>12. \A a, b, c : Key([year |-> a, month |-> b, day |-> c]) = 31 * (12 * a + b - 1) + c - 1
  BY SMT DEF Key
<1>13. Key(w) \in Int /\ Key(w) < Key(DayAfter(w))
  BY <1>5, <1>6, <1>7, <1>9, <1>11, <1>12, SMT
<1> QED BY <1>3, <1>4, <1>10, <1>13, Zenon

\* So is every later day's.
LEMMA KeysGrow ==
  ASSUME NEW a \in Nat, NEW b \in Nat, a < b
  PROVE  Key(CivilFromDays(MarchZero + a)) < Key(CivilFromDays(MarchZero + b))
<1> DEFINE K(n) == Key(CivilFromDays(MarchZero + n))
           Not == {k \in Nat : ~(K(a) < K(a + 1 + k))}
<1>1. \A n \in Nat : K(n) \in Int /\ K(n) < K(n + 1)
  BY KeyLater, Zenon
<1> HIDE DEF K
<1>2. ASSUME Not # {} PROVE FALSE
  <2>1. PICK k \in Not : \A j \in Not : k <= j
    BY <1>2, Least
  <2>2. k \in Nat /\ ~(K(a) < K(a + 1 + k))
    BY <2>1
  <2>3. k # 0
    BY <1>1, <2>2
  <2>4. k - 1 \in Nat /\ k - 1 \notin Not
    BY <2>1, <2>2, <2>3
  <2>5. K(a) < K(a + 1 + (k - 1))
    BY <2>4
  <2>6. a + 1 + (k - 1) = a + k /\ a + k \in Nat /\ a + k + 1 = a + 1 + k
    BY <2>2
  <2>7. K(a + k) < K(a + 1 + k) /\ K(a) \in Int /\ K(a + k) \in Int /\ K(a + 1 + k) \in Int
    BY <1>1, <2>2, <2>6
  <2> QED BY <2>2, <2>5, <2>6, <2>7
<1>3. b - a - 1 \in Nat /\ a + 1 + (b - a - 1) = b
  OBVIOUS
<1>4. K(a) < K(b)
  BY <1>2, <1>3
<1> QED BY <1>4, Zenon DEF K

\* Division with remainder, and the order of numbers written with a quotient
\* and a remainder: the quotient decides, then the remainder.
LEMMA Divided ==
  ASSUME NEW x \in Int, NEW k \in Nat, k > 0
  PROVE  \E q \in Int, r \in Nat :
           q = x \div k /\ r = x % k /\ r < k /\ x = k * q + r
<1>1. PICK q \in Int : q = x \div k
  BY SMT
<1>2. PICK r \in Int : r = x % k
  BY SMT
<1>3. r \in Nat /\ r < k
  BY <1>2, SMT
<1>4. x = k * q + r
  BY <1>1, <1>2, SMT
<1> QED BY <1>1, <1>2, <1>3, <1>4

LEMMA PlaceValue ==
  ASSUME NEW k \in Nat, NEW a \in Int, NEW b \in Int,
         NEW u \in Nat, NEW v \in Nat, u < k, v < k
  PROVE  /\ k * a + u \in Int /\ k * b + v \in Int
         /\ k * a + u < k * b + v <=> a < b \/ (a = b /\ u < v)
         /\ k * a + u = k * b + v <=> a = b /\ u = v
<1>1. ASSUME NEW c \in Int, NEW d \in Int, c < d PROVE k * c + k <= k * d
  <2>1. PICK j \in Nat : d = c + 1 + j
    <3>1. d - c - 1 \in Nat /\ d = c + 1 + (d - c - 1)
      BY <1>1, SMT
    <3> QED BY <3>1
  <2>2. k * d = k * c + k + k * j /\ k * j \in Nat /\ k * c \in Int
    BY <2>1, SMT
  <2> QED BY <2>2, SMT
<1>2. k * a \in Int /\ k * b \in Int
  BY SMT
<1>3. CASE a < b
  BY <1>1, <1>2, <1>3, SMT
<1>4. CASE b < a
  BY <1>1, <1>2, <1>4, SMT
<1>5. CASE a = b
  BY <1>2, <1>5, SMT
<1> QED BY <1>3, <1>4, <1>5, SMT

\* The milliseconds of a day that are printed of an instant.
Clock(t) == 1000 * (60 * (60 * t.hour + t.minute) + t.second) + t.millis

DayMillis == 86400000

DayOfInstant(nanos) == (Millis(nanos) \div 1000) \div 86400

Printed(t) ==
  /\ IsDate(t.date)
  /\ t.hour \in Nat /\ t.minute \in Nat /\ t.minute < 60
  /\ t.second \in Nat /\ t.second < 60 /\ t.millis \in Nat /\ t.millis < 1000

LEMMA Instant ==
  ASSUME NEW x \in Int, DayOfInstant(x) >= MarchZero
  PROVE  /\ Printed(FormatUtc(x))
         /\ FormatUtc(x).date = CivilFromDays(DayOfInstant(x)) /\ DayOfInstant(x) \in Int
         /\ Clock(FormatUtc(x)) \in Nat /\ Clock(FormatUtc(x)) < DayMillis
         /\ Millis(x) = DayMillis * DayOfInstant(x) + Clock(FormatUtc(x))
<1>1. PICK ms : ms = Millis(x)
  OBVIOUS
<1>2. ms \in Int
  BY <1>1, SMT DEF Millis
<1>3. PICK secs, mil : secs = ms \div 1000 /\ mil = ms % 1000
  OBVIOUS
<1>4. secs \in Int /\ mil \in Nat /\ mil < 1000 /\ ms = 1000 * secs + mil
  BY <1>2, <1>3, Divided, SMT
<1>5. PICK dd, sd : dd = secs \div 86400 /\ sd = secs % 86400
  BY SMT
<1>6. dd \in Int /\ sd \in Nat /\ sd < 86400 /\ secs = 86400 * dd + sd
  BY <1>4, <1>5, Divided, SMT
<1>7. PICK h, rm : h = sd \div 3600 /\ rm = sd % 3600
  BY SMT
<1>8. h \in Int /\ rm \in Nat /\ rm < 3600 /\ sd = 3600 * h + rm
  BY <1>6, <1>7, Divided, SMT
<1>9. PICK mi, s : mi = rm \div 60 /\ s = rm % 60
  BY SMT
<1>10. mi \in Int /\ s \in Nat /\ s < 60 /\ rm = 60 * mi + s
  BY <1>8, <1>9, Divided, SMT
<1>11. mi >= 0 /\ mi < 60 /\ h >= 0 /\ h < 24 /\ s = sd % 60
  <2>1. mi >= 0 /\ mi < 60
    BY <1>8, <1>10, SMT
  <2>2. h >= 0 /\ h < 24
    BY <1>6, <1>8, SMT
  <2>3. PICK w, z : w = sd \div 60 /\ z = sd % 60
    BY SMT
  <2>4. w \in Int /\ z \in Nat /\ z < 60 /\ sd = 60 * w + z
    BY <1>6, <2>3, Divided, SMT
  <2>5. PICK v : v = 60 * h + mi
    OBVIOUS
  <2>6. v \in Int /\ 60 * v + s = 60 * w + z
    BY <1>8, <1>10, <2>4, <2>5, SMT
  <2>7. s = z
    BY <1>10, <2>4, <2>6, PlaceValue, SMT
  <2> QED BY <2>1, <2>2, <2>3, <2>7, SMT
<1>12. sd = 60 * (60 * h + mi) + s
  BY <1>8, <1>10, SMT
<1>13. FormatUtc(x) = [date |-> CivilFromDays(dd), hour |-> h, minute |-> mi,
                       second |-> s, millis |-> mil]
  BY <1>1, <1>3, <1>5, <1>7, <1>9, <1>11, SMT DEF FormatUtc
<1>14. DayOfInstant(x) = dd
  BY <1>1, <1>3, <1>5, SMT DEF DayOfInstant
<1>15. IsDate(CivilFromDays(dd))
  <2>1. dd - MarchZero \in Nat /\ MarchZero + (dd - MarchZero) = dd
    BY <1>6, <1>14, SMT DEF MarchZero
  <2>2. IsDate(CivilFromDays(MarchZero + (dd - MarchZero)))
    BY <2>1, KeyLater, Zenon
  <2> QED BY <2>1, <2>2
<1> DEFINE t == FormatUtc(x)
<1>16. /\ t.date = CivilFromDays(dd) /\ t.hour = h /\ t.minute = mi
       /\ t.second = s /\ t.millis = mil
  BY <1>13, SMT
<1> HIDE DEF t
<1>17. Clock(t) = 1000 * sd + mil
  BY <1>12, <1>16, SMT DEF Clock
<1>18. Clock(t) \in Nat /\ Clock(t) < DayMillis
  BY <1>4, <1>6, <1>17, SMT DEF DayMillis
<1>19. ms = DayMillis * dd + Clock(t)
  BY <1>4, <1>6, <1>17, SMT DEF DayMillis
<1>20. h \in Nat /\ mi \in Nat /\ mi < 60 /\ s \in Nat /\ s < 60 /\ mil \in Nat /\ mil < 1000
  BY <1>4, <1>8, <1>10, <1>11, SMT
<1>21. Printed(t)
  BY <1>15, <1>16, <1>20, Zenon DEF Printed
<1>22. /\ t.date = CivilFromDays(DayOfInstant(x)) /\ DayOfInstant(x) \in Int
       /\ Millis(x) = DayMillis * DayOfInstant(x) + Clock(t)
  BY <1>1, <1>6, <1>14, <1>16, <1>19
<1> QED BY <1>18, <1>21, <1>22, Zenon DEF t

\* What is printed first decides: the date, then the time of the day.
LEMMA EarlierFacts ==
  ASSUME NEW a, NEW b, Printed(a), Printed(b)
  PROVE  Earlier(a, b) <=> \/ Key(a.date) < Key(b.date)
                           \/ a.date = b.date /\ Clock(a) < Clock(b)
<1> DEFINE p == <<a.date.year, a.date.month, a.date.day, a.hour, a.minute, a.second, a.millis>>
           q == <<b.date.year, b.date.month, b.date.day, b.hour, b.minute, b.second, b.millis>>
<1>1. Earlier(a, b) <=> \E k \in 1 .. 7 : p[k] < q[k] /\ \A j \in 1 .. k - 1 : p[j] = q[j]
  BY Zenon DEF Earlier
<1>2. /\ p[1] = a.date.year /\ p[2] = a.date.month /\ p[3] = a.date.day
      /\ p[4] = a.hour /\ p[5] = a.minute /\ p[6] = a.second /\ p[7] = a.millis
  OBVIOUS
<1>3. /\ q[1] = b.date.year /\ q[2] = b.date.month /\ q[3] = b.date.day
      /\ q[4] = b.hour /\ q[5] = b.minute /\ q[6] = b.second /\ q[7] = b.millis
  OBVIOUS
<1> HIDE DEF p, q
<1>4. (\E k \in 1 .. 7 : p[k] < q[k] /\ \A j \in 1 .. k - 1 : p[j] = q[j])
        <=> \/ p[1] < q[1]
            \/ p[1] = q[1] /\ p[2] < q[2]
            \/ p[1] = q[1] /\ p[2] = q[2] /\ p[3] < q[3]
            \/ p[1] = q[1] /\ p[2] = q[2] /\ p[3] = q[3] /\ p[4] < q[4]
            \/ p[1] = q[1] /\ p[2] = q[2] /\ p[3] = q[3] /\ p[4] = q[4] /\ p[5] < q[5]
            \/ /\ p[1] = q[1] /\ p[2] = q[2] /\ p[3] = q[3] /\ p[4] = q[4] /\ p[5] = q[5]
               /\ p[6] < q[6]
            \/ /\ p[1] = q[1] /\ p[2] = q[2] /\ p[3] = q[3] /\ p[4] = q[4] /\ p[5] = q[5]
               /\ p[6] = q[6] /\ p[7] < q[7]
  OBVIOUS
<1>5. a.date = b.date <=> p[1] = q[1] /\ p[2] = q[2] /\ p[3] = q[3]
  BY <1>2, <1>3, SMT DEF Printed, IsDate
<1>6. /\ p[1] \in Int /\ p[2] - 1 \in Nat /\ p[2] - 1 < 12 /\ p[2] \in Int
      /\ p[3] - 1 \in Nat /\ p[3] - 1 < 31 /\ p[3] \in Int
      /\ p[4] \in Int /\ p[5] \in Nat /\ p[5] < 60 /\ p[6] \in Nat /\ p[6] < 60
      /\ p[7] \in Nat /\ p[7] < 1000
  BY <1>2, SMT DEF Printed, IsDate
<1>7. /\ q[1] \in Int /\ q[2] - 1 \in Nat /\ q[2] - 1 < 12 /\ q[2] \in Int
      /\ q[3] - 1 \in Nat /\ q[3] - 1 < 31 /\ q[3] \in Int
      /\ q[4] \in Int /\ q[5] \in Nat /\ q[5] < 60 /\ q[6] \in Nat /\ q[6] < 60
      /\ q[7] \in Nat /\ q[7] < 1000
  BY <1>3, SMT DEF Printed, IsDate
<1>8. PICK m, n : m = 12 * p[1] + (p[2] - 1) /\ n = 12 * q[1] + (q[2] - 1)
  OBVIOUS
<1>9. m \in Int /\ n \in Int /\ (m < n <=> p[1] < q[1] \/ (p[1] = q[1] /\ p[2] < q[2]))
  BY <1>6, <1>7, <1>8, PlaceValue, SMT
<1>10. m = n <=> p[1] = q[1] /\ p[2] = q[2]
  BY <1>6, <1>7, <1>8, PlaceValue, SMT
<1>11. Key(a.date) = 31 * m + (p[3] - 1) /\ Key(b.date) = 31 * n + (q[3] - 1)
  BY <1>2, <1>3, <1>6, <1>7, <1>8, SMT DEF Key
<1>12. Key(a.date) < Key(b.date) <=> m < n \/ (m = n /\ p[3] < q[3])
  BY <1>6, <1>7, <1>9, <1>11, PlaceValue, SMT
<1>13. PICK h, i : h = 60 * p[4] + p[5] /\ i = 60 * q[4] + q[5]
  OBVIOUS
<1>14. h \in Int /\ i \in Int /\ (h < i <=> p[4] < q[4] \/ (p[4] = q[4] /\ p[5] < q[5]))
  BY <1>6, <1>7, <1>13, PlaceValue, SMT
<1>15. h = i <=> p[4] = q[4] /\ p[5] = q[5]
  BY <1>6, <1>7, <1>13, PlaceValue, SMT
<1>16. PICK s, t : s = 60 * h + p[6] /\ t = 60 * i + q[6]
  OBVIOUS
<1>17. s \in Int /\ t \in Int /\ (s < t <=> h < i \/ (h = i /\ p[6] < q[6]))
  BY <1>6, <1>7, <1>14, <1>16, PlaceValue, SMT
<1>18. s = t <=> h = i /\ p[6] = q[6]
  BY <1>6, <1>7, <1>14, <1>16, PlaceValue, SMT
<1>19. Clock(a) = 1000 * s + p[7] /\ Clock(b) = 1000 * t + q[7]
  BY <1>2, <1>3, <1>13, <1>16, SMT DEF Clock
<1>20. Clock(a) < Clock(b) <=> s < t \/ (s = t /\ p[7] < q[7])
  BY <1>6, <1>7, <1>17, <1>19, PlaceValue, SMT
<1> QED BY <1>1, <1>4, <1>5, <1>9, <1>10, <1>12, <1>14, <1>15, <1>17, <1>18, <1>20, Zenon

\* A later millisecond is printed as a later time, and only such a one.
LEMMA PrintedInOrder ==
  ASSUME NEW x \in Int, NEW y \in Int, DayOfInstant(x) >= MarchZero, DayOfInstant(y) >= MarchZero
  PROVE  Earlier(FormatUtc(x), FormatUtc(y)) <=> Millis(x) < Millis(y)
<1> DEFINE s == FormatUtc(x)
           t == FormatUtc(y)
           m == DayOfInstant(x)
           n == DayOfInstant(y)
<1>1. /\ Printed(s) /\ s.date = CivilFromDays(m) /\ m \in Int
      /\ Clock(s) \in Nat /\ Clock(s) < DayMillis /\ Millis(x) = DayMillis * m + Clock(s)
  BY Instant, Zenon
<1>2. /\ Printed(t) /\ t.date = CivilFromDays(n) /\ n \in Int
      /\ Clock(t) \in Nat /\ Clock(t) < DayMillis /\ Millis(y) = DayMillis * n + Clock(t)
  BY Instant, Zenon
<1>3. m >= MarchZero /\ n >= MarchZero
  OBVIOUS
<1> HIDE DEF s, t, m, n
<1>4. Earlier(s, t) <=> \/ Key(s.date) < Key(t.date)
                        \/ s.date = t.date /\ Clock(s) < Clock(t)
  BY <1>1, <1>2, EarlierFacts, Zenon
<1>5. /\ m - MarchZero \in Nat /\ MarchZero + (m - MarchZero) = m
      /\ n - MarchZero \in Nat /\ MarchZero + (n - MarchZero) = n
  BY <1>1, <1>2, <1>3, SMT DEF MarchZero
<1>6. Millis(x) < Millis(y) <=> m < n \/ (m = n /\ Clock(s) < Clock(t))
  <2>1. DayMillis \in Nat
    BY SMT DEF DayMillis
  <2>2. DayMillis * m + Clock(s) < DayMillis * n + Clock(t)
          <=> m < n \/ (m = n /\ Clock(s) < Clock(t))
    BY <1>1, <1>2, <2>1, PlaceValue, SMT
  <2> QED BY <1>1, <1>2, <2>2, Zenon
<1>7. Key(s.date) \in Int /\ Key(t.date) \in Int
  <2>1. /\ Key(CivilFromDays(MarchZero + (m - MarchZero))) \in Int
        /\ Key(CivilFromDays(MarchZero + (n - MarchZero))) \in Int
    BY <1>5, KeyLater, Zenon
  <2> QED BY <1>1, <1>2, <1>5, <2>1
<1>8. m < n => Key(s.date) < Key(t.date)
  <2> SUFFICES ASSUME m < n PROVE Key(s.date) < Key(t.date)
    OBVIOUS
  <2>1. m - MarchZero < n - MarchZero
    BY <1>1, <1>2, SMT DEF MarchZero
  <2>2. Key(CivilFromDays(MarchZero + (m - MarchZero))) < Key(CivilFromDays(MarchZero + (n - MarchZero)))
    BY <1>5, <2>1, KeysGrow, Zenon
  <2> QED BY <1>1, <1>2, <1>5, <2>2
<1>9. n < m => Key(t.date) < Key(s.date)
  <2> SUFFICES ASSUME n < m PROVE Key(t.date) < Key(s.date)
    OBVIOUS
  <2>1. n - MarchZero < m - MarchZero
    BY <1>1, <1>2, SMT DEF MarchZero
  <2>2. Key(CivilFromDays(MarchZero + (n - MarchZero))) < Key(CivilFromDays(MarchZero + (m - MarchZero)))
    BY <1>5, <2>1, KeysGrow, Zenon
  <2> QED BY <1>1, <1>2, <1>5, <2>2
<1>10. /\ Key(t.date) < Key(s.date) => s.date # t.date /\ ~(Key(s.date) < Key(t.date))
       /\ m = n => s.date = t.date /\ ~(Key(s.date) < Key(t.date))
  BY <1>1, <1>2, <1>7
<1>11. m < n \/ n < m \/ m = n
  BY <1>1, <1>2
<1>12. n < m => ~(m < n) /\ m # n
  BY <1>1, <1>2
<1>13. Earlier(s, t) <=> Millis(x) < Millis(y)
  BY <1>4, <1>6, <1>8, <1>9, <1>10, <1>11, <1>12, Zenon
<1> QED BY <1>13, Zenon DEF s, t

MilliNanos == 1000000

\* The millisecond of a later instant is no earlier one, and a millisecond
\* later it is a later one.
LEMMA MillisGrow ==
  ASSUME NEW x \in Int, NEW y \in Int, y > x
  PROVE  /\ y - x >= MilliNanos => Millis(x) < Millis(y)
         /\ ~(Millis(y) < Millis(x))
<1>1. PICK k : k = MilliNanos
  OBVIOUS
<1>2. k \in Nat /\ k > 0
  BY <1>1, SMT DEF MilliNanos
<1>3. PICK a \in Int, u \in Nat : a = x \div k /\ u = x % k /\ u < k /\ x = k * a + u
  BY <1>2, Divided
<1>4. PICK b \in Int, v \in Nat : b = y \div k /\ v = y % k /\ v < k /\ y = k * b + v
  BY <1>2, Divided
<1>5. Millis(x) = a /\ Millis(y) = b
  BY <1>1, <1>3, <1>4, SMT DEF Millis, MilliNanos
<1>6. ~(b < a)
  BY <1>2, <1>3, <1>4, PlaceValue, SMT
<1>7. y - x >= k => a # b
  BY <1>2, <1>3, <1>4, SMT
<1> QED BY <1>1, <1>5, <1>6, <1>7, SMT

Running == now \in Int /\ now >= -NanoBound

\* A later instant never prints an earlier time, and one that is later by a
\* millisecond prints a later one: the rounding of format_utc, on both sides of
\* the epoch, over every end of a day, a month, a year and an era, if the clock
\* starts on a day that civil_from_days is right about.
THEOREM RenderingIsMonotonic ==
  ASSUME DayOfInstant(-NanoBound) >= MarchZero
  PROVE  Spec => Monotonic
<1>1. Init => Running
  BY WalkAssumption DEF Init, Running
<1>2. Running /\ [Next]_<<day, date, now>> => Running' /\ (now' = now \/ now' > now)
  BY WalkAssumption, SMT DEF Running, Next, Forward, Back, Tick
<1>3. \A x \in Int : x >= -NanoBound => DayOfInstant(x) >= MarchZero
  <2> SUFFICES ASSUME NEW x \in Int, x >= -NanoBound PROVE DayOfInstant(x) >= MarchZero
    OBVIOUS
  <2>1. -NanoBound \in Int
    BY WalkAssumption
  <2>2. PICK a, b, c : /\ a = x \div 1000000 /\ b = a \div 1000 /\ c = b \div 86400
    BY SMT
  <2>3. PICK u, v, w : /\ u = (-NanoBound) \div 1000000 /\ v = u \div 1000 /\ w = v \div 86400
    BY SMT
  <2>4. a \in Int /\ u \in Int /\ u <= a
    BY <2>1, <2>2, <2>3, SMT
  <2>5. b \in Int /\ v \in Int /\ v <= b
    BY <2>2, <2>3, <2>4, SMT
  <2>6. c \in Int /\ w \in Int /\ w <= c
    BY <2>2, <2>3, <2>5, SMT
  <2>7. w >= MarchZero
    BY <2>3, SMT DEF DayOfInstant, Millis
  <2>8. DayOfInstant(x) = c
    BY <2>2, SMT DEF DayOfInstant, Millis
  <2> QED BY <2>6, <2>7, <2>8, SMT DEF MarchZero
<1> DEFINE Later == now' - now >= 1000000
           Printing == IF Later
                       THEN Earlier(FormatUtc(now), FormatUtc(now'))
                       ELSE ~Earlier(FormatUtc(now'), FormatUtc(now))
<1>4. Running /\ Running' /\ now' > now => Printing
  <2> SUFFICES ASSUME Running, Running', now' > now PROVE Printing
    BY SMT
  <2>1. now \in Int /\ now' \in Int /\ now >= -NanoBound /\ now' >= -NanoBound
    BY DEF Running
  <2>2. DayOfInstant(now) >= MarchZero /\ DayOfInstant(now') >= MarchZero
    BY <1>3, <2>1
  <2>3. Earlier(FormatUtc(now), FormatUtc(now')) <=> Millis(now) < Millis(now')
    BY <2>1, <2>2, PrintedInOrder, Zenon
  <2>4. Earlier(FormatUtc(now'), FormatUtc(now)) <=> Millis(now') < Millis(now)
    BY <2>1, <2>2, PrintedInOrder, Zenon
  <2>5. (Later => Millis(now) < Millis(now')) /\ ~(Millis(now') < Millis(now))
    <3>1. /\ now' - now >= MilliNanos => Millis(now) < Millis(now')
          /\ ~(Millis(now') < Millis(now))
      BY <2>1, MillisGrow, Zenon
    <3>2. Later => now' - now >= MilliNanos
      BY SMT DEF MilliNanos
    <3> HIDE DEF Later
    <3> QED BY <3>1, <3>2, Zenon
  <2> HIDE DEF Later
  <2> QED BY <2>3, <2>4, <2>5, Zenon
<1>5. Running /\ [Next]_<<day, date, now>> => [Printing]_now
  <2> HIDE DEF Printing
  <2> QED BY <1>2, <1>4
<1> QED BY <1>1, <1>2, <1>5, PTL DEF Spec, Monotonic
=============================================================================

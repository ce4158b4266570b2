--------------------------- MODULE PureCalls_proofs ---------------------------
(***************************************************************************)
(* Proofs about PureCalls: every day has its date on the log, and every    *)
(* range request the right answer.                                         *)
(*                                                                         *)
(* The arithmetic of the calendar is proved with SMT alone: Zenon does not *)
(* come back from its large numbers.                                       *)
(***************************************************************************)
EXTENDS PureCalls, ByteRange_proofs

-----------------------------------------------------------------------------
(* The calendar.                                                           *)

\* A day of an era, by century, span of four years, year and day of that year.
\* Only the last year of a span may have a 366th day, and in the first three
\* centuries not that of the last span.
IsDayOfEra(c, f, g, d) ==
    /\ c \in Nat /\ c <= 3 /\ f \in Nat /\ f <= 24
    /\ g \in Nat /\ g <= 3 /\ d \in Nat /\ d <= 365
    /\ d = 365 => g = 3 /\ (f < 24 \/ c = 3)

DayOfEra(c, f, g, d) == 36524 * c + 1461 * f + 365 * g + d
YearOfEra(c, f, g) == 100 * c + 4 * f + g

\* Every day of an era is one of these.
LEMMA DaysSplit ==
    ASSUME NEW doe \in Nat, doe < 146097
    PROVE  \E c, f, g, d : IsDayOfEra(c, f, g, d) /\ doe = DayOfEra(c, f, g, d)
<1>1. PICK c \in Nat, rest \in Nat :
        /\ c <= 3 /\ rest <= 36524 /\ doe = 36524 * c + rest
        /\ rest = 36524 => c = 3
  <2>1. CASE doe = 146096
    BY <2>1, SMT
  <2>2. CASE doe # 146096
    BY <2>2, SMT
  <2> QED
    BY <2>1, <2>2
<1>2. PICK f \in Nat, more \in Nat :
        /\ f <= 24 /\ more <= 1460 /\ rest = 1461 * f + more
        /\ more = 1460 => f < 24 \/ rest = 36524
  <2>1. /\ rest \div 1461 \in Nat /\ rest \div 1461 <= 24
        /\ rest - 1461 * (rest \div 1461) \in Nat
        /\ rest - 1461 * (rest \div 1461) <= 1460
        /\ rest = 1461 * (rest \div 1461) + (rest - 1461 * (rest \div 1461))
    BY <1>1, SMT
  <2> QED
    BY <1>1, <2>1, SMT
<1>3. PICK g \in Nat, d \in Nat :
        /\ g <= 3 /\ d <= 365 /\ more = 365 * g + d
        /\ d = 365 => more = 1460 /\ g = 3
  <2>1. CASE more = 1460
    BY <2>1, SMT
  <2>2. CASE more # 1460
    <3>1. more < 365 * 4
      BY <1>2, <2>2, SMT
    <3> QED
      BY <3>1, SMT
  <2> QED
    BY <2>1, <2>2
<1>4. IsDayOfEra(c, f, g, d) /\ doe = DayOfEra(c, f, g, d)
  BY <1>1, <1>2, <1>3, SMT DEF IsDayOfEra, DayOfEra
<1> QED
  BY <1>4

\* The corrections of year_of_era find the year.
LEMMA YearsAreFound ==
    ASSUME NEW c, NEW f, NEW g, NEW d, IsDayOfEra(c, f, g, d)
    PROVE  year_of_era(DayOfEra(c, f, g, d)) = YearOfEra(c, f, g)
<1>1. PICK e \in {0, 1} :
        e = (IF 24 * c + f + 365 * g + d >= 1460 THEN 1 ELSE 0)
  BY SMT
<1>2. PICK doe \in Nat : doe = DayOfEra(c, f, g, d) /\ doe < 146097
  BY SMT DEF DayOfEra, IsDayOfEra
<1>3. doe \div 36524 - doe \div 146096 = c
  BY <1>2, SMT DEF DayOfEra, IsDayOfEra
<1>4. doe \div 1460 = 25 * c + f + e
  BY <1>1, <1>2, SMT DEF DayOfEra, IsDayOfEra
<1>5. 0 <= d - e /\ d - e < 365 /\ YearOfEra(c, f, g) \in Nat
  BY <1>1, SMT DEF YearOfEra, IsDayOfEra
<1>6. doe - (25 * c + f + e) + c = 365 * YearOfEra(c, f, g) + (d - e)
  BY <1>1, <1>2, SMT DEF YearOfEra, DayOfEra, IsDayOfEra
<1>7. (365 * YearOfEra(c, f, g) + (d - e)) \div 365 = YearOfEra(c, f, g)
  BY <1>1, <1>5, SMT DEF IsDayOfEra
<1>8. doe - doe \div 1460 + doe \div 36524 - doe \div 146096
        = doe - (25 * c + f + e) + c
  BY <1>1, <1>2, <1>3, <1>4, SMT DEF IsDayOfEra
<1> QED
  BY <1>2, <1>6, <1>7, <1>8 DEF year_of_era

\* So the date of a day is the one of its year and its day of the year.
LEMMA DateOfDay ==
    ASSUME NEW era \in Int, NEW c, NEW f, NEW g, NEW d, IsDayOfEra(c, f, g, d),
           NEW days \in Int, days + 719468 = 146097 * era + DayOfEra(c, f, g, d)
    PROVE  civil_from_days(days) = MarchDate(400 * era + YearOfEra(c, f, g), d)
<1>1. PICK z \in Int, doe \in Int, yoe \in Int :
        /\ z = days + 719468 /\ doe = DayOfEra(c, f, g, d)
        /\ yoe = YearOfEra(c, f, g)
  BY SMT DEF DayOfEra, YearOfEra, IsDayOfEra
<1>2. z \div 146097 = era /\ z - era * 146097 = doe
  BY <1>1, SMT DEF DayOfEra, IsDayOfEra
<1>3. year_of_era(doe) = yoe
  BY <1>1, YearsAreFound
<1>4. yoe \div 4 = 25 * c + f /\ yoe \div 100 = c
  BY <1>1, SMT DEF YearOfEra, IsDayOfEra
<1>5. doe - (365 * yoe + yoe \div 4 - yoe \div 100) = d
  BY <1>1, <1>4, SMT DEF YearOfEra, DayOfEra, IsDayOfEra
<1>6. /\ (days + 719468) \div 146097 = era
      /\ days + 719468 - era * 146097 = doe
      /\ yoe + era * 400 = 400 * era + yoe
  BY <1>1, <1>2, SMT
<1>7. civil_from_days(days)
        = MarchDate(yoe + era * 400, doe - (365 * yoe + yoe \div 4 - yoe \div 100))
  BY <1>3, <1>6, SMT DEF civil_from_days
<1> QED
  BY <1>1, <1>5, <1>6, <1>7, SMT

\* The months of a year that starts on the 1st of March.
LEMMA Months ==
    ASSUME NEW year \in Int, NEW d \in Nat, d <= 365
    PROVE  /\ d < 31 => MarchDate(year, d) = Date(year, 3, d + 1)
           /\ 31 <= d /\ d < 61 => MarchDate(year, d) = Date(year, 4, d - 30)
           /\ 61 <= d /\ d < 92 => MarchDate(year, d) = Date(year, 5, d - 60)
           /\ 92 <= d /\ d < 122 => MarchDate(year, d) = Date(year, 6, d - 91)
           /\ 122 <= d /\ d < 153 => MarchDate(year, d) = Date(year, 7, d - 121)
           /\ 153 <= d /\ d < 184 => MarchDate(year, d) = Date(year, 8, d - 152)
           /\ 184 <= d /\ d < 214 => MarchDate(year, d) = Date(year, 9, d - 183)
           /\ 214 <= d /\ d < 245 => MarchDate(year, d) = Date(year, 10, d - 213)
           /\ 245 <= d /\ d < 275 => MarchDate(year, d) = Date(year, 11, d - 244)
           /\ 275 <= d /\ d < 306 => MarchDate(year, d) = Date(year, 12, d - 274)
           /\ 306 <= d /\ d < 337 => MarchDate(year, d) = Date(year + 1, 1, d - 305)
           /\ 337 <= d => MarchDate(year, d) = Date(year + 1, 2, d - 336)
BY SMT DEF MarchDate

\* The day after, by the length of the month.
LEMMA SuccessorOf ==
    ASSUME NEW y, NEW m, NEW k
    PROVE  Successor(Date(y, m, k)) =
               IF k < DaysIn(y, m) THEN Date(y, m, k + 1)
               ELSE IF m < 12 THEN Date(y, m + 1, 1) ELSE Date(y + 1, 1, 1)
<1>1. /\ Date(y, m, k).year = y /\ Date(y, m, k).month = m /\ Date(y, m, k).day = k
  BY DEF Date
<1> QED
  BY <1>1, Zenon DEF Successor

\* The lengths of the months.
LEMMA Lengths ==
    ASSUME NEW y
    PROVE  /\ \A m \in {1, 3, 5, 7, 8, 10, 12} : DaysIn(y, m) = 31
           /\ \A m \in {4, 6, 9, 11} : DaysIn(y, m) = 30
           /\ DaysIn(y, 2) = IF IsLeap(y) THEN 29 ELSE 28
BY SMT DEF DaysIn

\* The last day of the year before the 1st of March of `year`.
LastDay(year) == IF IsLeap(year) THEN 365 ELSE 364

\* The day after, inside such a year and at its end.
LEMMA Tomorrow ==
    ASSUME NEW year \in Int, NEW d \in Nat, d <= LastDay(year + 1)
    PROVE  Successor(MarchDate(year, d)) =
               IF d < LastDay(year + 1) THEN MarchDate(year, d + 1)
               ELSE MarchDate(year + 1, 0)
<1>1. d <= 365 /\ LastDay(year + 1) \in {364, 365}
  BY SMT DEF LastDay
<1>2. CASE 0 <= d /\ d < 31
  <2>1. \A n \in Nat : Successor(Date(year, 3, n)) =
          IF n < 31 THEN Date(year, 3, n + 1) ELSE Date(year, 4, 1)
    BY Lengths, SuccessorOf, SMT
  <2> QED
    BY <1>1, <1>2, <2>1, Months, SMT
<1>3. CASE 31 <= d /\ d < 61
  <2>1. \A n \in Nat : Successor(Date(year, 4, n)) =
          IF n < 30 THEN Date(year, 4, n + 1) ELSE Date(year, 5, 1)
    BY Lengths, SuccessorOf, SMT
  <2> QED
    BY <1>1, <1>3, <2>1, Months, SMT
<1>4. CASE 61 <= d /\ d < 92
  <2>1. \A n \in Nat : Successor(Date(year, 5, n)) =
          IF n < 31 THEN Date(year, 5, n + 1) ELSE Date(year, 6, 1)
    BY Lengths, SuccessorOf, SMT
  <2> QED
    BY <1>1, <1>4, <2>1, Months, SMT
<1>5. CASE 92 <= d /\ d < 122
  <2>1. \A n \in Nat : Successor(Date(year, 6, n)) =
          IF n < 30 THEN Date(year, 6, n + 1) ELSE Date(year, 7, 1)
    BY Lengths, SuccessorOf, SMT
  <2> QED
    BY <1>1, <1>5, <2>1, Months, SMT
<1>6. CASE 122 <= d /\ d < 153
  <2>1. \A n \in Nat : Successor(Date(year, 7, n)) =
          IF n < 31 THEN Date(year, 7, n + 1) ELSE Date(year, 8, 1)
    BY Lengths, SuccessorOf, SMT
  <2> QED
    BY <1>1, <1>6, <2>1, Months, SMT
<1>7. CASE 153 <= d /\ d < 184
  <2>1. \A n \in Nat : Successor(Date(year, 8, n)) =
          IF n < 31 THEN Date(year, 8, n + 1) ELSE Date(year, 9, 1)
    BY Lengths, SuccessorOf, SMT
  <2> QED
    BY <1>1, <1>7, <2>1, Months, SMT
<1>8. CASE 184 <= d /\ d < 214
  <2>1. \A n \in Nat : Successor(Date(year, 9, n)) =
          IF n < 30 THEN Date(year, 9, n + 1) ELSE Date(year, 10, 1)
    BY Lengths, SuccessorOf, SMT
  <2> QED
    BY <1>1, <1>8, <2>1, Months, SMT
<1>9. CASE 214 <= d /\ d < 245
  <2>1. \A n \in Nat : Successor(Date(year, 10, n)) =
          IF n < 31 THEN Date(year, 10, n + 1) ELSE Date(year, 11, 1)
    BY Lengths, SuccessorOf, SMT
  <2> QED
    BY <1>1, <1>9, <2>1, Months, SMT
<1>10. CASE 245 <= d /\ d < 275
  <2>1. \A n \in Nat : Successor(Date(year, 11, n)) =
          IF n < 30 THEN Date(year, 11, n + 1) ELSE Date(year, 12, 1)
    BY Lengths, SuccessorOf, SMT
  <2> QED
    BY <1>1, <1>10, <2>1, Months, SMT
<1>11. CASE 275 <= d /\ d < 306
  <2>1. \A n \in Nat : Successor(Date(year, 12, n)) =
          IF n < 31 THEN Date(year, 12, n + 1) ELSE Date(year + 1, 1, 1)
    BY Lengths, SuccessorOf, SMT
  <2> QED
    BY <1>1, <1>11, <2>1, Months, SMT
<1>12. CASE 306 <= d /\ d < 337
  <2>1. \A n \in Nat : Successor(Date(year + 1, 1, n)) =
          IF n < 31 THEN Date(year + 1, 1, n + 1) ELSE Date(year + 1, 2, 1)
    BY Lengths, SuccessorOf, SMT
  <2> QED
    BY <1>1, <1>12, <2>1, Months, SMT
<1>13. CASE 337 <= d
  BY <1>1, <1>13, Months, SuccessorOf, Lengths, SMT DEF LastDay
<1> QED
  BY <1>1, <1>2, <1>3, <1>4, <1>5, <1>6, <1>7, <1>8, <1>9, <1>10, <1>11, <1>12, <1>13, SMT

\* Which years of an era are leap years.
LEMMA LeapYears ==
    ASSUME NEW era \in Int, NEW c, NEW f, NEW g, NEW d, IsDayOfEra(c, f, g, d)
    PROVE  IsLeap(400 * era + YearOfEra(c, f, g) + 1) <=> g = 3 /\ (f < 24 \/ c = 3)
BY SMT DEF IsDayOfEra, YearOfEra, IsLeap

\* The first day of a year in era `e` comes after a day in era `era`.
NewYear(era, c, f, g, d, e, h, i, j) ==
    /\ e \in Int /\ IsDayOfEra(h, i, j, 0)
    /\ 146097 * era + DayOfEra(c, f, g, d) + 1 = 146097 * e + DayOfEra(h, i, j, 0)
    /\ 400 * era + YearOfEra(c, f, g) + 1 = 400 * e + YearOfEra(h, i, j)

\* The last day of its year, which is a 366th in a leap year.
LastDayOfEra(c, f, g) == IF g = 3 /\ (f < 24 \/ c = 3) THEN 365 ELSE 364

\* A day of an era after another.
LEMMA DaysStep ==
    ASSUME NEW c, NEW f, NEW g, NEW d, IsDayOfEra(c, f, g, d),
           d < LastDayOfEra(c, f, g)
    PROVE  IsDayOfEra(c, f, g, d + 1)
BY SMT DEF IsDayOfEra, LastDayOfEra

\* The carry into the year, the span, the century and the era.
LEMMA YearsStep ==
    ASSUME NEW era \in Int, NEW c, NEW f, NEW g, NEW d, IsDayOfEra(c, f, g, d),
           d = LastDayOfEra(c, f, g)
    PROVE  \E e, h, i, j : NewYear(era, c, f, g, d, e, h, i, j)
<1> USE DEF IsDayOfEra, LastDayOfEra
<1>1. CASE g < 3
  <2>1. NewYear(era, c, f, g, d, era, c, f, g + 1)
    BY <1>1, SMT DEF NewYear, DayOfEra, YearOfEra
  <2> QED
    BY <2>1, SMT
<1>2. CASE g = 3 /\ f < 24
  <2>1. NewYear(era, c, f, g, d, era, c, f + 1, 0)
    BY <1>2, SMT DEF NewYear, DayOfEra, YearOfEra
  <2> QED
    BY <2>1, SMT
<1>3. CASE g = 3 /\ f = 24 /\ c < 3
  <2>1. NewYear(era, c, f, g, d, era, c + 1, 0, 0)
    BY <1>3, SMT DEF NewYear, DayOfEra, YearOfEra
  <2> QED
    BY <2>1, SMT
<1>4. CASE g = 3 /\ f = 24 /\ c = 3
  <2>1. NewYear(era, c, f, g, d, era + 1, 0, 0, 0)
    BY <1>4, SMT DEF NewYear, DayOfEra, YearOfEra
  <2> QED
    BY <2>1, SMT
<1> QED
  BY <1>1, <1>2, <1>3, <1>4, SMT

\* Day 0 is the 1st of January 1970.
LEMMA EpochIsDay0 == civil_from_days(0) = Epoch
<1>1. PICK days \in Int, era \in Int, year \in Int : days = 0 /\ era = 4 /\ year = 1969
  BY SMT
<1>2. IsDayOfEra(3, 17, 1, 306)
  BY SMT DEF IsDayOfEra
<1>3. days + 719468 = 146097 * era + DayOfEra(3, 17, 1, 306)
  BY <1>1, SMT DEF DayOfEra
<1>4. civil_from_days(days) = MarchDate(400 * era + YearOfEra(3, 17, 1), 306)
  BY <1>2, <1>3, DateOfDay, SMT
<1>5. 400 * era + YearOfEra(3, 17, 1) = year
  BY <1>1, SMT DEF YearOfEra
<1>6. MarchDate(year, 306) = Date(year + 1, 1, 1)
  BY Months, SMT
<1>7. year + 1 = 1970
  BY <1>1, SMT
<1> QED
  BY <1>1, <1>4, <1>5, <1>6, <1>7 DEF Epoch

\* civil_from_days turns the day after into the date after, for every day there
\* is: it gets the lengths of the months, the leap days and the centuries right.
THEOREM CalendarIsFollowed ==
    ASSUME NEW days \in Int
    PROVE  civil_from_days(days + 1) = Successor(civil_from_days(days))
<1>1. PICK era \in Int, doe \in Nat :
        doe < 146097 /\ days + 719468 = 146097 * era + doe
  <2>1. PICK z \in Int : z = days + 719468
    BY SMT
  <2>2. PICK era \in Int : era = z \div 146097
    BY SMT
  <2>3. PICK doe \in Int : doe = z - 146097 * era
    BY SMT
  <2>4. doe \in Nat /\ doe < 146097 /\ z = 146097 * era + doe
    BY <2>2, <2>3, SMT
  <2> QED
    BY <2>1, <2>4, SMT
<1>2. PICK c, f, g, d : IsDayOfEra(c, f, g, d) /\ doe = DayOfEra(c, f, g, d)
  BY <1>1, DaysSplit, SMT
<1>3. PICK year \in Int : year = 400 * era + YearOfEra(c, f, g)
  BY <1>2, SMT DEF IsDayOfEra, YearOfEra
<1>4. civil_from_days(days) = MarchDate(year, d)
  BY <1>1, <1>2, <1>3, DateOfDay, SMT
<1>5. LastDay(year + 1) = LastDayOfEra(c, f, g)
  BY <1>2, <1>3, LeapYears, SMT DEF LastDay, LastDayOfEra
<1>6. d \in Nat /\ d <= LastDay(year + 1) /\ LastDay(year + 1) \in Nat
  BY <1>2, <1>5, SMT DEF IsDayOfEra, LastDayOfEra
<1>7. CASE d < LastDay(year + 1)
  <2>1. IsDayOfEra(c, f, g, d + 1)
    BY <1>1, <1>2, <1>5, <1>7, DaysStep, SMT
  <2>2. (days + 1) + 719468 = 146097 * era + DayOfEra(c, f, g, d + 1)
    BY <1>1, <1>2, SMT DEF DayOfEra, IsDayOfEra
  <2>3. civil_from_days(days + 1) = MarchDate(year, d + 1)
    BY <1>3, <2>1, <2>2, DateOfDay, SMT
  <2> QED
    BY <1>4, <1>6, <1>7, <2>3, Tomorrow, SMT
<1>8. CASE d = LastDay(year + 1)
  <2>1. PICK e, h, i, j : NewYear(era, c, f, g, d, e, h, i, j)
    BY <1>2, <1>5, <1>8, YearsStep, Zenon
  <2>2. (days + 1) + 719468 = 146097 * e + DayOfEra(h, i, j, 0)
    BY <1>1, <1>2, <2>1, SMT DEF NewYear
  <2>3. civil_from_days(days + 1) = MarchDate(year + 1, 0)
    BY <1>3, <2>1, <2>2, DateOfDay, SMT DEF NewYear
  <2> QED
    BY <1>4, <1>6, <1>8, <2>3, Tomorrow, SMT
<1> QED
  BY <1>5, <1>6, <1>7, <1>8, SMT

-----------------------------------------------------------------------------
(* The properties of PureCalls.                                            *)

\* A call of a range function, or the days counted so far and their date.
CallInv ==
    \/ call \in Range
    \/ call.days \in Nat /\ civil_from_days(call.days) = call.date

\* The inductive invariant of the days.
LEMMA CallsAreRight == Spec => []CallInv
<1>1. Init => CallInv
  BY EpochIsDay0 DEF Init, CallInv
<1>2. ASSUME CallInv, [Next]_call
      PROVE  CallInv'
  <2>1. CASE NextDay
    <3>1. call.days \in Nat /\ civil_from_days(call.days) = call.date
      BY <1>2, <2>1 DEF CallInv, NextDay
    <3>2. call'.days = call.days + 1 /\ call'.date = Successor(call.date)
      BY <2>1 DEF NextDay
    <3>3. civil_from_days(call.days + 1) = Successor(civil_from_days(call.days))
      BY <3>1, CalendarIsFollowed
    <3> QED
      BY <3>1, <3>2, <3>3 DEF CallInv
  <2>2. CASE UNCHANGED call
    BY <1>2, <2>2 DEF CallInv
  <2> QED
    BY <1>2, <2>1, <2>2 DEF Next
<1> QED
  BY <1>1, <1>2, PTL DEF Spec

\* Every day since 1970 has its date on the log.
THEOREM DatesAreRight == Spec => []DateRight
<1>1. CallInv => DateRight
  BY DEF CallInv, DateRight
<1> QED
  BY <1>1, CallsAreRight, PTL

\* Every range request is sent exactly the bytes that its header selects, and
\* none if the parser does not understand it.
THEOREM SelectionsAreSent == Spec => []SendsSelected
<1>1. SendsSelected
  BY SelectedBytesAreSent DEF SendsSelected, Range
<1> QED
  BY <1>1, PTL

\* Every range request gets the right status, and a slice within the plan.
THEOREM StatusesAreRight == Spec => []StatusRight
<1>1. StatusRight
  BY StatusFollowsSelection DEF StatusRight, Range
<1> QED
  BY <1>1, PTL
=============================================================================

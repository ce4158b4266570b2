----------------------------- MODULE CivilDate -----------------------------
(***************************************************************************)
(* The date of a log line: civil_from_days of src/logger.rs turns a count  *)
(* of days since 1970-01-01 into a date.  The count comes from an unsigned *)
(* number of seconds, so it is never negative.                             *)
(***************************************************************************)
EXTENDS Integers

\* Faulty variant: every hundredth year is a leap year.
year_of_era_Julian(doe) == (doe - doe \div 1460) \div 365

\* `doe` is the day of an era of 400 years that starts on a 1st of March.
year_of_era(doe) ==
    (doe - doe \div 1460 + doe \div 36524 - doe \div 146096) \div 365

Date(year, month, day) == [year |-> year, month |-> month, day |-> day]

\* The date of day `doy` of the year that starts on the 1st of March of `year`.
MarchDate(year, doy) ==
    LET mp == (5 * doy + 2) \div 153
        m == IF mp < 10 THEN mp + 3 ELSE mp - 9
    IN  Date(year + (IF m <= 2 THEN 1 ELSE 0), m, doy - (153 * mp + 2) \div 5 + 1)

civil_from_days(days) ==
    LET z == days + 719468
        era == z \div 146097
        doe == z - era * 146097
        yoe == year_of_era(doe)
        doy == doe - (365 * yoe + yoe \div 4 - yoe \div 100)
    IN  MarchDate(yoe + era * 400, doy)

-----------------------------------------------------------------------------
(* The Gregorian calendar.                                                 *)

IsLeap(year) == year % 4 = 0 /\ (year % 100 # 0 \/ year % 400 = 0)

DaysIn(year, month) ==
    CASE month = 2 -> IF IsLeap(year) THEN 29 ELSE 28
      [] month \in {4, 6, 9, 11} -> 30
      [] OTHER -> 31

\* The day after.
Successor(date) ==
    IF date.day < DaysIn(date.year, date.month)
    THEN Date(date.year, date.month, date.day + 1)
    ELSE IF date.month < 12 THEN Date(date.year, date.month + 1, 1)
    ELSE Date(date.year + 1, 1, 1)

\* Day 0.
Epoch == Date(1970, 1, 1)
=============================================================================

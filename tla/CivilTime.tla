----------------------------- MODULE CivilTime ------------------------------
(***************************************************************************)
(* The calendar arithmetic behind the advisory deadlines, and the three    *)
(* date checks of the code (source timestamps, receipts of the backend,    *)
(* function observations).  The reference is a calendar that is turned one *)
(* day at a time from 1970-01-01.  Times of day are left out.              *)
(***************************************************************************)
EXTENDS Integers, Sequences

CONSTANTS DaysBefore, DaysAfter \* how far the calendar is turned

VARIABLES number, date          \* days since 1970-01-01, <<year, month, day>>
vars == <<number, date>>

\* Division of the code: towards zero.
Quotient(a, b) == IF a >= 0 THEN a \div b ELSE -((-a) \div b)

\* Mutant: the year starts in January.
ShiftedYear_january(year, month) == year

\* The computation's year starts in March.
ShiftedYear(year, month) == IF month <= 2 THEN year - 1 ELSE year

\* The code adds 2^32 - 3 in unsigned arithmetic, which is to subtract 3.
days_from_civil(year, month, day) ==
    LET y == ShiftedYear(year, month)
        era == Quotient(IF y >= 0 THEN y ELSE y - 399, 400)
        year_of_era == y - era * 400
        day_of_year ==
            (153 * (IF month > 2 THEN month - 3 ELSE month + 9) + 2) \div 5 + day - 1
        day_of_era ==
            year_of_era * 365 + year_of_era \div 4 - year_of_era \div 100 + day_of_year
    IN  era * 146097 + day_of_era - 719468

\* Mutant: the last day of an era is not taken back.
YearOfEra_era(day) == (day - day \div 1460 + day \div 36524) \div 365

YearOfEra(day) ==
    (day - day \div 1460 + day \div 36524 - day \div 146096) \div 365

\* The date of a day of an era, given the year of the era it is in.
DateInEra(era, day_of_era, year_of_era) ==
    LET day_of_year == day_of_era - (365 * year_of_era + year_of_era \div 4
                                                       - year_of_era \div 100)
        month_prime == (5 * day_of_year + 2) \div 153
        day == day_of_year - (153 * month_prime + 2) \div 5 + 1
        month == IF month_prime < 10 THEN month_prime + 3 ELSE month_prime - 9
        year == year_of_era + era * 400
    IN  <<IF month <= 2 THEN year + 1 ELSE year, month, day>>

civil_from_days(days) ==
    LET shifted == days + 719468
        era == Quotient(IF shifted >= 0 THEN shifted ELSE shifted - 146096, 146097)
        day_of_era == shifted - era * 146097
    IN  DateInEra(era, day_of_era, YearOfEra(day_of_era))

-----------------------------------------------------------------------------
(* The date checks.                                                        *)

leap_year(y) == y % 400 = 0 \/ (y % 4 = 0 /\ y % 100 # 0)

days_per_month == <<31, 28, 31, 30, 31, 30, 31, 31, 30, 31, 30, 31>>

\* Source timestamps and everything derived from them.
is_rfc3339_millisecond_utc(y, m, d) ==
    /\ y # 0 /\ m \in 1..12
    /\ d >= 1
    /\ d <= IF m = 2 /\ leap_year(y) THEN 29 ELSE days_per_month[m]

\* Mutant: a century is a leap year.
ReceiptDate_julian(y, m, d) ==
    /\ y >= 0 /\ m \in 1..12 /\ d >= 1
    /\ d <= days_per_month[m] + IF m = 2 /\ y % 4 = 0 THEN 1 ELSE 0

\* Receipts: date_time().
ReceiptDate(y, m, d) ==
    LET leap == y % 4 = 0 /\ (y % 100 # 0 \/ y % 400 = 0)
    IN  /\ y >= 0 /\ m \in 1..12 /\ d >= 1
        /\ d <= days_per_month[m] + IF m = 2 /\ leap THEN 1 ELSE 0

\* Function observations: instant().
instant(y, m, d) ==
    /\ m \in 1..12 /\ d >= 1
    /\ d <= days_per_month[m]
              + IF m = 2 /\ y % 4 = 0 /\ (y % 100 # 0 \/ y % 400 = 0) THEN 1 ELSE 0

-----------------------------------------------------------------------------
(* The reference calendar.                                                 *)

MonthLength(y, m) ==
    CASE m \in {4, 6, 9, 11} -> 30
      [] m = 2 -> IF y % 400 = 0 \/ (y % 4 = 0 /\ y % 100 # 0) THEN 29 ELSE 28
      [] OTHER -> 31

Init == number = 0 /\ date = <<1970, 1, 1>>

Tomorrow ==
    /\ number >= 0 /\ number < DaysAfter
    /\ number' = number + 1
    /\ LET y == date[1]  m == date[2]  d == date[3]
       IN  date' = IF d < MonthLength(y, m) THEN <<y, m, d + 1>>
                   ELSE IF m < 12 THEN <<y, m + 1, 1>> ELSE <<y + 1, 1, 1>>

Yesterday ==
    /\ number <= 0 /\ number > -DaysBefore
    /\ number' = number - 1
    /\ LET y == date[1]  m == date[2]  d == date[3]
       IN  date' = IF d > 1 THEN <<y, m, d - 1>>
                   ELSE IF m > 1 THEN <<y, m - 1, MonthLength(y, m - 1)>>
                   ELSE <<y - 1, 12, 31>>

Next == Tomorrow \/ Yesterday

Spec == Init /\ [][Next]_vars

-----------------------------------------------------------------------------

\* days_from_civil counts the days of the calendar, and civil_from_days gives
\* back the date a count stands for.
Converts == /\ days_from_civil(date[1], date[2], date[3]) = number
            /\ civil_from_days(number) = date

\* The three checks accept the same days of a month, those of the calendar.
SameDates ==
    \A d \in 0..32 :
        LET y == date[1]  m == date[2]  real == d \in 1..MonthLength(y, m)
        IN  /\ is_rfc3339_millisecond_utc(y, m, d) = real
            /\ ReceiptDate(y, m, d) = real
            /\ instant(y, m, d) = real

\* The deadline computed from two timestamps is the time between them, and a
\* timestamp one part of the service writes is one the other parts read: the
\* conversions and the checks of the three date parsers agree with the
\* calendar on every day.
AgreesWithCalendar == Converts /\ SameDates
=============================================================================

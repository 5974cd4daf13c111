-------------------------------- MODULE Date --------------------------------
(***************************************************************************)
(* toolbox/sys/Date.hpp: conversions between Gregorian dates and Julian    *)
(* days, checked day by day against a calendar.                            *)
(***************************************************************************)
EXTENDS Integers

CONSTANTS Starts,       \* known days: records of year, mon, mday, jd and wday (0 is Monday)
          MaxDays       \* bound on the number of days after them

VARIABLES day,          \* the calendar's day: a record like those of Starts
          days          \* number of days since the start

vars == <<day, days>>

\* Division of C++, which truncates.
Quot(a, b) == IF a >= 0 THEN a \div b ELSE -((-a) \div b)

ymd_to_iso(year, mon, mday) == year * 10000 + mon * 100 + mday

\* Mutant: March counts as a month of the year before, too.
month_shift_march(mon) == Quot(mon - 15, 12)

\* January and February count as months of the year before.
month_shift(mon) == Quot(mon - 14, 12)

ymd_to_jd(i, j, k) ==
    k - 32075 + Quot(1461 * (i + 4800 + month_shift(j)), 4)
        + Quot(367 * (j - 2 - month_shift(j) * 12), 12)
        - Quot(3 * Quot(i + 4900 + month_shift(j), 100), 4)

iso_to_jd(iso) == ymd_to_jd(Quot(iso, 10000), Quot(iso, 100) % 100, iso % 100)

jd_to_iso(jd) ==
    LET l0 == jd + 68569
        n == Quot(4 * l0, 146097)
        l1 == l0 - Quot(146097 * n + 3, 4)
        i == Quot(4000 * (l1 + 1), 1461001)
        l2 == l1 - Quot(1461 * i, 4) + 31
        j == Quot(80 * l2, 2447)
        l3 == Quot(j, 11)
    IN ymd_to_iso(100 * (n - 49) + i + l3, j + 2 - 12 * l3, l2 - Quot(2447 * j, 80))

is_week_day(jd) == jd % 7 < 5

-----------------------------------------------------------------------------
(* The calendar *)

IsLeap(year) == year % 4 = 0 /\ (year % 100 = 0 => year % 400 = 0)
MonthLength(year, mon) ==
    IF mon = 2 THEN IF IsLeap(year) THEN 29 ELSE 28
    ELSE IF mon \in {4, 6, 9, 11} THEN 30 ELSE 31

Init == day \in Starts /\ days = 0

NextDay ==
    LET ends == day.mday = MonthLength(day.year, day.mon)
        yearEnds == ends /\ day.mon = 12
    IN /\ days < MaxDays
       /\ days' = days + 1
       /\ day' = [mday |-> IF ends THEN 1 ELSE day.mday + 1,
                  mon |-> IF yearEnds THEN 1 ELSE IF ends THEN day.mon + 1 ELSE day.mon,
                  year |-> IF yearEnds THEN day.year + 1 ELSE day.year,
                  jd |-> day.jd + 1,
                  wday |-> (day.wday + 1) % 7]

Spec == Init /\ [][NextDay]_vars

\* On every day, over month ends, leap days and the turns of centuries, the conversions give
\* the day's number and the number's day, and they know the weekend.
DatesAgree ==
    LET iso == ymd_to_iso(day.year, day.mon, day.mday) IN
    /\ iso_to_jd(iso) = day.jd
    /\ jd_to_iso(day.jd) = iso
    /\ is_week_day(day.jd) <=> day.wday < 5
=============================================================================

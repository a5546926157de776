------------------------------ MODULE Calendar ------------------------------
(* util-mktime64.c, the seconds since 1970 of a Gregorian date, against a
   calendar that is turned one day at a time. *)
EXTENDS Integers

CONSTANTS FirstYears, Years   \* the days of Years years from each 1 January of FirstYears

\* The years of our era: from the year 0 down, the truncating division of C counts
\* one leap day too many (-1 / 4 is 0).
ASSUME CalendarAssumption == FirstYears \subseteq Nat \ {0}

VARIABLES year, mon, day, turned   \* today, and the days since the first

calendarVars == <<year, mon, day, turned>>

\* Division in C, towards zero.
Quot(a, b) == IF a >= 0 THEN a \div b ELSE -((-a) \div b)

MktimeFeb(y0, m0, d) ==   \* Mutation: February still counts to the new year.
  LET m == IF m0 - 2 <= 0 THEN m0 + 10 ELSE m0 - 2
      y == IF m0 - 2 < 0 THEN y0 - 1 ELSE y0
  IN Quot(y, 4) - Quot(y, 100) + Quot(y, 400) + Quot(367 * m, 12) + d + y * 365 - 719499

\* util_mktime64() in days: hours, minutes and seconds are added to 24, 60 and
\* 60 times this.  March is the first month, so that the leap day comes last.
Mktime64(y0, m0, d) ==
  LET m == IF m0 - 2 <= 0 THEN m0 + 10 ELSE m0 - 2
      y == IF m0 - 2 <= 0 THEN y0 - 1 ELSE y0
  IN Quot(y, 4) - Quot(y, 100) + Quot(y, 400) + Quot(367 * m, 12) + d + y * 365 - 719499

Leap == year % 4 = 0 /\ (year % 100 # 0 \/ year % 400 = 0)
Length == CASE mon = 2 -> IF Leap THEN 29 ELSE 28
            [] mon \in {4, 6, 9, 11} -> 30
            [] OTHER -> 31

CalendarInit == year \in FirstYears /\ mon = 1 /\ day = 1 /\ turned = 0

NextDay ==
  /\ turned < 365 * Years
  /\ turned' = turned + 1
  /\ day'  = IF day = Length THEN 1 ELSE day + 1
  /\ mon'  = IF day # Length THEN mon ELSE IF mon = 12 THEN 1 ELSE mon + 1
  /\ year' = IF day = Length /\ mon = 12 THEN year + 1 ELSE year

CalendarSpec == CalendarInit /\ [][NextDay]_calendarVars

\* Each day counts one more than the day before, over leap days, century
\* years and the turn of the year, and 1 January 1970 is 0 (util_mktime64()).
DaysFollow ==
  [][/\ Mktime64(year', mon', day') = Mktime64(year, mon, day) + 1
     /\ Mktime64(1970, 1, 1) = 0]_calendarVars
=============================================================================

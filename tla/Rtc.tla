-------------------------------- MODULE Rtc ---------------------------------
(***************************************************************************)
(* The dates of twr_rtc.c: the two ways in which it turns one into the     *)
(* seconds since 1970, by the rule for leap years and by its tables.  The  *)
(* clock counts the days.                                                  *)
(*                                                                         *)
(* Seconds are counted in units of 128, of which a day has 675; a 32-bit   *)
(* integer holds 2^25 of them.                                             *)
(***************************************************************************)
EXTENDS Integers

CONSTANT LastYear           \* bound: the last year, at most 99

VARIABLES
    year, month, day,       \* the date registers: a year of the century, a month, a day
    days, yday              \* history: days since January 1st, 1970, and of this year

rtcVars == <<year, month, day, days, yday>>

DAY == 675
INT == 33554432

is_leap == {4 * k : k \in 0 .. 24}

\* Mutant: no century is a leap year.
MutLeapYear(y) == y % 4 = 0 /\ y % 100 # 0

LeapYear(y) == (y % 4 = 0 /\ y % 100 # 0) \/ y % 400 = 0

DaysInYear(y) == IF LeapYear(y) THEN 366 ELSE 365

days_since_new_year(leap) ==
    IF leap THEN <<0, 31, 60, 91, 121, 152, 182, 213, 244, 274, 305, 335>>
    ELSE <<0, 31, 59, 90, 120, 151, 181, 212, 243, 273, 304, 334>>

days_since_epoch ==
    <<10957, 11323, 11688, 12053, 12418, 12784, 13149, 13514, 13879, 14245, 14610, 14975,
      15340, 15706, 16071, 16436, 16801, 17167, 17532, 17897, 18262, 18628, 18993, 19358,
      19723, 20089, 20454, 20819, 21184, 21550, 21915, 22280, 22645, 23011, 23376, 23741,
      24106, 24472, 24837, 25202, 25567, 25933, 26298, 26663, 27028, 27394, 27759, 28124,
      28489, 28855, 29220, 29585, 29950, 30316, 30681, 31046, 31411, 31777, 32142, 32507,
      32872, 33238, 33603, 33968, 34333, 34699, 35064, 35429, 35794, 36160, 36525, 36890,
      37255, 37621, 37986, 38351, 38716, 39082, 39447, 39812, 40177, 40543, 40908, 41273,
      41638, 42004, 42369, 42734, 43099, 43465, 43830, 44195, 44560, 44926, 45291, 45656,
      46021, 46387, 46752, 47117>>

\* The days of the back years: of 1970 and those up to a year.
BackYears[y \in 1970 .. 2099] == IF y = 1970 THEN 0 ELSE BackYears[y - 1] + DaysInYear(y - 1)

\* twr_rtc_datetime_to_timestamp, in unsigned integers.
DatetimeToTimestamp ==
    LET y == 2000 + year
        count == BackYears[y] + days_since_new_year(LeapYear(y))[month] + day - 1
    IN (count * DAY) % INT

\* twr_rtc_get_timestamp at midnight, in integers with a sign.
GetTimestamp ==
    LET seconds == (days_since_epoch[year + 1]
                    + days_since_new_year(year \in is_leap)[month] + day - 1) * DAY
    IN ((seconds + INT \div 2) % INT) - INT \div 2

\* tm_yday of twr_rtc_get_datetime
YearDay == days_since_new_year(year \in is_leap)[month] + day - 1

\* January 1st, 2000
Init == year = 0 /\ month = 1 /\ day = 1 /\ days = 10957 /\ yday = 0

DaysInMonth ==
    IF month = 2 THEN IF year % 4 = 0 THEN 29 ELSE 28
    ELSE IF month \in {4, 6, 9, 11} THEN 30 ELSE 31

\* The clock's next day.
NextDay ==
    /\ days' = days + 1
    /\ \/ /\ day < DaysInMonth
          /\ day' = day + 1
          /\ yday' = yday + 1
          /\ UNCHANGED <<year, month>>
       \/ /\ day = DaysInMonth /\ month < 12
          /\ day' = 1 /\ month' = month + 1 /\ yday' = yday + 1
          /\ UNCHANGED year
       \/ /\ day = DaysInMonth /\ month = 12 /\ year < LastYear
          /\ day' = 1 /\ month' = 1 /\ year' = year + 1 /\ yday' = 0

RtcSpec == Init /\ [][NextDay]_rtcVars

-----------------------------------------------------------------------------
TypeOK ==
    /\ year \in 0 .. LastYear /\ month \in 1 .. 12 /\ day \in 1 .. 31
    /\ days \in Nat /\ yday \in 0 .. 365

\* On each day up to LastYear, both conversions and the day of the year agree
\* with the number of days that have passed.  twr_rtc_get_timestamp multiplies
\* them by 86400 in an int, which ends on January 19th, 2038.
DatesAgree ==
    /\ DatetimeToTimestamp = days * DAY
    /\ days * DAY < INT \div 2 => GetTimestamp = days * DAY
    /\ YearDay = yday

=============================================================================

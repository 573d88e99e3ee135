------------------------------ MODULE Iso8601 ------------------------------
(* format_iso8601 (rust/src/event.rs), which writes created_at, beside a       *)
(* calendar that is turned over day by day.  A timestamp is a pair of a day    *)
(* since 1970-01-01 and the milliseconds into that day: timestamp_ms is        *)
(* day * 86400000 + msec, which is beyond TLC's integers.  The text is the     *)
(* sequence of its numbers; each is printed with leading zeros to the width    *)
(* Width gives it.                                                            *)
EXTENDS Integers, Sequences, FiniteSets

CONSTANTS
    Years,                \* bound: the years the calendar runs through
    Moments               \* the times of day it stops at, in milliseconds

ASSUME CalendarAssumption ==
    /\ \A y \in Years : y \in Nat /\ y >= 1970
    /\ \A m \in Moments : m \in Nat /\ m <= 86399999
    /\ IsFiniteSet(Moments) /\ 0 \in Moments

VARIABLES
    day,                  \* the timestamp: the day,
    msec,                 \* and the milliseconds into it
    date                  \* the calendar's <<year, month, day of the month>>

vars == <<day, msec, date>>

(* MAX_ISO8601_TIMESTAMP_MS is the last millisecond of this day. *)
MAX_DAY == 2932896

(* Days from 1970-01-01 to a day counted from 0000-03-01. *)
EPOCH == 719468

(* The number of digits of year, month, day, hours, minutes, seconds, millis. *)
Width == <<4, 2, 2, 2, 2, 2, 3>>

(* Faulty variant: a year divisible by 100 is a leap year. *)
year_of_era_julian(doe) == (doe - doe \div 1460) \div 365

(* The year, counted from March, of a day of a 400-year era. *)
year_of_era(doe) ==
    (doe - doe \div 1460 + doe \div 36524 - doe \div 146096) \div 365

(* Faulty variant: January and February stay in the year that began in March. *)
civil_year_march(y, month) == y

civil_year(y, month) == IF month <= 2 THEN y + 1 ELSE y

(* Year, month and day of the month of a day since the epoch. *)
civil_from_days(days_since_epoch) ==
    LET z == days_since_epoch + EPOCH
        era == z \div 146097
        doe == z - era * 146097
        yoe == year_of_era(doe)
        y == yoe + era * 400
        doy == doe - (365 * yoe + yoe \div 4 - yoe \div 100)
        mp == (5 * doy + 2) \div 153
        mday == doy - (153 * mp + 2) \div 5 + 1
        month == IF mp < 10 THEN mp + 3 ELSE mp - 9
    IN  <<civil_year(y, month), month, mday>>

time_of_day(ms) ==
    LET day_secs == ms \div 1000
    IN  <<day_secs \div 3600, (day_secs % 3600) \div 60, day_secs % 60, ms % 1000>>

(* Faulty variant: no clamp. *)
format_iso8601_unclamped(d, ms) == civil_from_days(d) \o time_of_day(ms)

(* Timestamps beyond the last one with four digits in the year are clamped. *)
format_iso8601(d, ms) ==
    IF d > MAX_DAY THEN civil_from_days(MAX_DAY) \o time_of_day(86399999)
                   ELSE civil_from_days(d) \o time_of_day(ms)
----------------------------------------------------------------------------
(* The calendar, by the rules everyone knows.                                 *)

Leap(y) == y % 4 = 0 /\ (y % 100 = 0 => y % 400 = 0)

MonthLength(y, m) == CASE m = 2 -> IF Leap(y) THEN 29 ELSE 28
                       [] m \in {4, 6, 9, 11} -> 30
                       [] OTHER -> 31

(* 1 January, in days since 1970-01-01: 365 for each year before, and one more *)
(* for each leap year.                                                         *)
NewYear(y) ==
    LET leaps(n) == n \div 4 - n \div 100 + n \div 400
    IN  365 * (y - 1970) + leaps(y - 1) - leaps(1969)

Tomorrow(d) ==
    IF d[3] < MonthLength(d[1], d[2]) THEN <<d[1], d[2], d[3] + 1>>
    ELSE IF d[2] < 12 THEN <<d[1], d[2] + 1, 1>>
    ELSE <<d[1] + 1, 1, 1>>

Init ==
    /\ \E y \in Years : day = NewYear(y) /\ date = <<y, 1, 1>>
    /\ msec = 0

(* Time passes within the day. *)
Pass ==
    /\ msec' \in {m \in Moments : m > msec /\ \A n \in Moments : n <= msec \/ n >= m}
    /\ UNCHANGED <<day, date>>

(* Midnight. *)
TurnOver ==
    /\ date[1] \in Years
    /\ \A m \in Moments : m <= msec
    /\ msec' = 0
    /\ day' = day + 1
    /\ date' = Tomorrow(date)

(* The end of the years looked at. *)
Stop == date[1] \notin Years /\ (\A m \in Moments : m <= msec) /\ UNCHANGED vars

Next == Pass \/ TurnOver \/ Stop

Spec == Init /\ [][Next]_vars
----------------------------------------------------------------------------

(* Tuples of numbers compare as their texts do when every number has the same  *)
(* width in both.                                                              *)
Before(s, t) ==
    \E n \in 1..Len(s) : s[n] < t[n] /\ \A k \in 1..(n - 1) : s[k] = t[k]

Power == <<10, 100, 1000, 10000>>

FitsWidth(s) == \A n \in 1..Len(Width) : s[n] \in 0..(Power[Width[n]] - 1)

(* What format_iso8601 returns fits its widths, as the ISO8601_LENGTH of       *)
(* AuditEvent and the consumer's limit on created_at suppose, past the end of  *)
(* the year 9999 as well.                                                      *)
TypeOK ==
    /\ day \in Nat /\ msec \in Nat /\ msec <= 86399999 /\ Len(date) = 3
    /\ FitsWidth(format_iso8601(day, msec))

(* The arithmetic agrees with the calendar on every day up to 9999-12-31,      *)
(* across leap days, centuries and the end of the 400-year era, and the time   *)
(* with the milliseconds it is made of.                                        *)
MatchesCalendar ==
    LET s == format_iso8601(day, msec)
    IN  day <= MAX_DAY =>
            /\ SubSeq(s, 1, 3) = date
            /\ ((s[4] * 60 + s[5]) * 60 + s[6]) * 1000 + s[7] = msec

(* created_at sorts as timestamp_ms does: a later timestamp has a later text,  *)
(* or, beyond the end of the year 9999, the same.                              *)
OrderKept ==
    [][LET s == format_iso8601(day, msec)
           t == format_iso8601(day', msec')
       IN  IF day' <= MAX_DAY THEN Before(s, t) ELSE ~Before(t, s)]_vars
============================================================================

------------------------------ MODULE Timestamps ------------------------------
(***************************************************************************)
(* The timestamps of the DETAILS pane (walmisc.rs): fmt_pg_ts turns        *)
(* microseconds since 2000-01-01 into a date and a time of day, with       *)
(* civil_from_days for the date; and what a server stamps a record with,   *)
(* after the calendar.                                                     *)
(***************************************************************************)
EXTENDS Integers, Sequences

CONSTANTS
  Second,            \* microseconds in a second: 1_000_000, scaled down
  Minute, Hour, Day  \* 60, 3600 and 86_400 seconds, scaled down with it

ASSUME ScaleAssumption ==
  /\ Second \in Nat \ {0} /\ Minute \in Nat \ {0} /\ Hour \in Nat \ {0} /\ Day \in Nat \ {0}
  /\ Hour % Minute = 0 /\ Day % Hour = 0

-----------------------------------------------------------------------------
(* The code.  Division of i64 and u64 rounds towards zero; div_euclid and  *)
(* rem_euclid round down.                                                  *)

Quot(a, b) == IF a >= 0 THEN a \div b ELSE -((-a) \div b)

PG_EPOCH_OFFSET == 10957 * Day

\* Faulty: the division of a negative number is left to round towards zero.
civil_from_days_Truncating(days) ==
  LET z   == days + 719468
      era == Quot(z, 146097)
      doe == z - era * 146097
      yoe == Quot(doe - Quot(doe, 1460) + Quot(doe, 36524) - Quot(doe, 146096), 365)
      doy == doe - (365 * yoe + Quot(yoe, 4) - Quot(yoe, 100))
      mp  == Quot(5 * doy + 2, 153)
      m   == IF mp < 10 THEN mp + 3 ELSE mp - 9
      y   == yoe + era * 400
  IN  [year |-> IF m <= 2 THEN y + 1 ELSE y, month |-> m, day |-> doy - Quot(153 * mp + 2, 5) + 1]

civil_from_days(days) ==
  LET z   == days + 719468
      era == Quot(IF z >= 0 THEN z ELSE z - 146096, 146097)
      doe == z - era * 146097
      yoe == Quot(doe - Quot(doe, 1460) + Quot(doe, 36524) - Quot(doe, 146096), 365)
      doy == doe - (365 * yoe + Quot(yoe, 4) - Quot(yoe, 100))
      mp  == Quot(5 * doy + 2, 153)
      m   == IF mp < 10 THEN mp + 3 ELSE mp - 9
      y   == yoe + era * 400
  IN  [year |-> IF m <= 2 THEN y + 1 ELSE y, month |-> m, day |-> doy - Quot(153 * mp + 2, 5) + 1]

\* The date, the hour, the minute, the second and what is left of it.
fmt_pg_ts(us) ==
  LET unix_secs == us \div Second + PG_EPOCH_OFFSET
      rem       == unix_secs % Day
      days      == Quot(unix_secs - rem, Day)
  IN  [date |-> civil_from_days(days), h |-> Quot(rem, Hour), m |-> Quot(rem % Hour, Minute),
       s |-> rem % Minute, us |-> us % Second]

-----------------------------------------------------------------------------
(* The calendar: how long after the beginning of 2000 a moment is.         *)

Leap(year) == year % 4 = 0 /\ (year % 100 = 0 => year % 400 = 0)
DaysIn(year, month) ==
  CASE month = 2              -> IF Leap(year) THEN 29 ELSE 28
    [] month \in {4, 6, 9, 11} -> 30
    [] OTHER                  -> 31

\* Days of a year before each of its months, in a year that is not a leap year.
DaysBeforeMonth == <<0, 31, 59, 90, 120, 151, 181, 212, 243, 273, 304, 334>>

\* Days from the beginning of year 1; the years before it go on as they do after it.
DaysBefore(year, month) ==
  LET past == year - 1
  IN  365 * past + past \div 4 - past \div 100 + past \div 400
        + DaysBeforeMonth[month] + (IF month > 2 /\ Leap(year) THEN 1 ELSE 0)

Moment(year, month, day, h, m, s, us) ==
  [date |-> [year |-> year, month |-> month, day |-> day], h |-> h, m |-> m, s |-> s, us |-> us]

IsMoment(t) ==
  LET date == t.date
  IN  /\ date.year \in Int /\ date.month \in 1..12 /\ date.day \in 1..DaysIn(date.year, date.month)
      /\ t.h \in 0..(Day \div Hour - 1) /\ t.m \in 0..(Hour \div Minute - 1)
      /\ t.s \in 0..(Minute - 1) /\ t.us \in 0..(Second - 1)
      /\ t = Moment(date.year, date.month, date.day, t.h, t.m, t.s, t.us)

TimestampTz(t) ==
  LET days == DaysBefore(t.date.year, t.date.month) - DaysBefore(2000, 1) + t.date.day - 1
  IN  (days * Day + t.h * Hour + t.m * Minute + t.s) * Second + t.us
=============================================================================

-------------------------------- MODULE Clock --------------------------------
(***************************************************************************)
(* The real-time clock, rtc.c, and the calendar, mktime.c.  The registers   *)
(* of the chip are read one after another while the chip goes on counting;  *)
(* rtc.c does not wait for the end of its update.  A call takes less than a *)
(* second, so that the chip ticks once during it at most.  Minutes have     *)
(* SECS seconds and hours MINS minutes (60 in the chip and in mktime.c).    *)
(*                                                                         *)
(* Definitions named Bad... are seeded faults, as in Tty.                   *)
(***************************************************************************)
EXTENDS Integers, Sequences

CONSTANTS
  SECS, MINS,
  TIME_MODULUS,    \* what a time_t counts to
  Mornings         \* days to begin with, [date, days since 1 January 1970], from 00:00:00

HOUR == SECS * MINS
DAY == 24 * HOUR

(* The months of the calendar. *)
LastDay(d) ==
  CASE d.month = 2 ->
         IF d.year % 4 = 0 /\ (d.year % 100 = 0 => d.year % 400 = 0) THEN 29 ELSE 28
    [] d.month \in {4, 6, 9, 11} -> 30
    [] OTHER -> 31

ASSUME ClockAssumption ==
  /\ SECS \in 1..60 /\ MINS \in 1..60 /\ TIME_MODULUS \in Nat \ {0}
  /\ \A m \in Mornings :
       /\ m.date \in [year : 1900..2155, month : 1..12, day : 1..31]
       /\ m.date.day <= LastDay(m.date) /\ m.days \in Int

VARIABLES
  date, second,    \* the chip: the date, and the seconds since midnight
  days,            \* days since 1 January 1970, counted midnight by midnight
  mode,            \* status register B: [bcd, twelve]
  reading,         \* the call under way: "time", "date" or "none"
  raw,             \* the registers it has read
  began, ticked,   \* date and second when it began; the chip has ticked since
  answer           \* what a call has just returned

chip == <<date, second, days>>
call == <<reading, raw, began, ticked, answer>>
clockVars == <<chip, mode, call>>

NoAnswer == << >>

ClockInit ==
  /\ \E m \in Mornings : date = m.date /\ days = m.days
  /\ second \in 0..(DAY - 1)
  /\ mode \in [bcd : BOOLEAN, twelve : BOOLEAN]
  /\ reading = "none" /\ raw = << >> /\ began = [date |-> date, second |-> second]
  /\ ticked = FALSE /\ answer = NoAnswer

(***************************************************************************)
(* mktime.c, of a date with its year and month as the chip's owner sees it. *)
(***************************************************************************)
BadLeap(year) == year % 4 = 0
is_leap_year(year) == year % 4 = 0 /\ (year % 100 # 0 \/ year % 400 = 0)
days_in_month == <<31, 28, 31, 30, 31, 30, 31, 31, 30, 31, 30, 31>>

YearDays == [year \in Nat |-> IF is_leap_year(year) THEN 366 ELSE 365]
MonthDays(year) == [m \in 1..12 |-> IF m = 2 /\ is_leap_year(year) THEN 29 ELSE days_in_month[m]]

(* The loops: what f gives from a to b - 1, added up. *)
Summed(f, a, b) ==
  LET upto[n \in a..b] == IF n = a THEN 0 ELSE upto[n - 1] + f[n - 1] IN upto[b]

mktime(d, s) ==
  LET total_days == Summed(YearDays, 1970, d.year) + Summed(MonthDays(d.year), 1, d.month)
                    + (d.day - 1)
  IN  IF d.year < 1970 THEN TIME_MODULUS - 1
      ELSE (total_days * DAY + (s \div HOUR) * HOUR + ((s % HOUR) \div SECS) * SECS + (s % SECS))
             % TIME_MODULUS
-----------------------------------------------------------------------------
(***************************************************************************)
(* The chip: a day of the calendar after the other.                         *)
(***************************************************************************)
Tomorrow(d) ==
  IF d.day < LastDay(d) THEN [d EXCEPT !.day = @ + 1]
  ELSE IF d.month < 12 THEN [d EXCEPT !.day = 1, !.month = @ + 1]
  ELSE [day |-> 1, month |-> 1, year |-> d.year + 1]

Tick ==
  /\ ~ticked
  /\ second' = (second + 1) % DAY
  /\ date' = IF second' = 0 THEN Tomorrow(date) ELSE date
  /\ days' = IF second' = 0 THEN days + 1 ELSE days
  /\ ticked' = (reading # "none") /\ answer' = NoAnswer
  /\ UNCHANGED <<mode, reading, raw, began>>

Encoded(v) == IF mode.bcd THEN (v \div 10) * 16 + (v % 10) ELSE v
HourOf(s) == s \div HOUR
OnTwelve(h) == IF h % 12 = 0 THEN 12 ELSE h % 12
Register(r) ==
  CASE r = "seconds" -> Encoded(second % SECS)
    [] r = "minutes" -> Encoded((second % HOUR) \div SECS)
    [] r = "hours"   -> IF mode.twelve
                          THEN Encoded(OnTwelve(HourOf(second)))
                                 + (IF HourOf(second) >= 12 THEN 128 ELSE 0)
                          ELSE Encoded(HourOf(second))
    [] r = "year"    -> Encoded(date.year % 100)
    [] r = "month"   -> Encoded(date.month)
    [] r = "day"     -> Encoded(date.day)
    [] r = "weekday" -> Encoded(((days + 4) % 7) + 1)
-----------------------------------------------------------------------------
(***************************************************************************)
(* rtc.c.                                                                  *)
(***************************************************************************)
BadTimeOrder == <<"hours", "minutes", "seconds">>
TimeOrder == <<"seconds", "minutes", "hours">>
BadDateOrder == <<"day", "month", "year", "weekday">>
DateOrder == <<"year", "month", "day", "weekday">>
Order == IF reading = "time" THEN TimeOrder ELSE DateOrder

Call(what) ==
  /\ reading = "none"
  /\ reading' = what /\ answer' = NoAnswer
  /\ began' = [date |-> date, second |-> second]
  /\ UNCHANGED <<chip, mode, raw, ticked>>

rtc_read_register ==
  /\ reading # "none" /\ Len(raw) < Len(Order)
  /\ raw' = Append(raw, Register(Order[Len(raw) + 1]))
  /\ UNCHANGED <<chip, mode, reading, began, ticked, answer>>

bcd_to_binary(b) == ((b \div 16) * 10 + (b % 16)) % 256
Decoded(b) == IF mode.bcd THEN bcd_to_binary(b) ELSE b
Named(r) == Decoded(raw[CHOOSE n \in DOMAIN Order : Order[n] = r])

(* The hours of a 12-hour clock, with the afternoon in bit 7. *)
OfTwelve(h) ==
  LET shifted == IF h >= 128 THEN ((h % 128) + 12) % 256 ELSE h
  IN  IF shifted % 128 # 12 THEN shifted ELSE IF shifted < 128 THEN 0 ELSE 12

Return(r) ==
  /\ answer' = r
  /\ reading' = "none" /\ raw' = << >> /\ ticked' = FALSE
  /\ UNCHANGED <<chip, mode, began>>

rtc_get_time ==
  /\ reading = "time" /\ Len(raw) = Len(Order)
  /\ Return([seconds |-> Named("seconds"), minutes |-> Named("minutes"),
             hours |-> IF mode.twelve THEN OfTwelve(Named("hours")) ELSE Named("hours")])

rtc_get_date ==
  /\ reading = "date" /\ Len(raw) = Len(Order)
  /\ Return([r \in {"year", "month", "day", "weekday"} |-> Named(r)])

ClockNext ==
  \/ Tick \/ Call("time") \/ Call("date")
  \/ rtc_read_register \/ rtc_get_time \/ rtc_get_date

ClockSpec == ClockInit /\ [][ClockNext]_clockVars
-----------------------------------------------------------------------------
ClockTypeOK ==
  /\ second \in 0..(DAY - 1) /\ days \in Int
  /\ date.month \in 1..12 /\ date.day \in 1..LastDay(date)
  /\ reading \in {"none", "time", "date"} /\ ticked \in BOOLEAN
  /\ raw \in Seq(0..255) /\ Len(raw) <= Len(Order)

(* A time that is read while the chip ticks is never behind the moment the  *)
(* call began, and ahead of it by an hour at most (10:59:59 may be read as  *)
(* 11:59:59): seconds are read before minutes, and those before hours.      *)
(* Without a tick it is that moment.  Of a 12-hour clock this is said of    *)
(* the hours whose conversion is sound: see HoursTold for the others.       *)
Told(t) == t.hours * HOUR + t.minutes * SECS + t.seconds
Sound(h) == ~mode.twelve \/ h < 12 \/ (~mode.bcd /\ h # 12)
TimeRead ==
  [][reading = "time" /\ reading' = "none"
       /\ Sound(HourOf(began.second)) /\ Sound(HourOf(second)) =>
         (Told(answer') - began.second) % DAY \in 0..(IF ticked THEN HOUR ELSE 0)]_clockVars

(* rtc.h:42 and rtc.c:105-115: the hours told are those of the day, 0 to    *)
(* 23, a 12-hour clock's afternoon and its noon included.                   *)
HoursTold ==
  [][reading = "time" /\ reading' = "none" /\ ~ticked =>
       answer'.hours = HourOf(began.second)]_clockVars

(* A date that is read over midnight is never a day to come, but may be     *)
(* the first of the month or of the year that has just ended: the year is   *)
(* read before the month, and the month before the day.  Without a tick it  *)
(* is the date.                                                            *)
Number(y, d) == (y * 12 + d.month) * 31 + d.day
DateRead ==
  [][reading = "date" /\ reading' = "none" =>
       \E y \in {began.date.year, date.year} :
         /\ answer'.year = y % 100
         /\ Number(y, answer') <= Number(date.year, date)
         /\ \/ Number(y, answer') >= Number(began.date.year, began.date)
            \/ ticked /\ answer'.day = 1 /\ y = began.date.year
         /\ answer'.weekday \in
              {((days + 4 - n) % 7) + 1 : n \in 0..(IF ticked THEN 1 ELSE 0)}]_clockVars

(* mktime numbers the seconds of the calendar without a gap or a repetition *)
(* across the ends of months and years, leap years and the centuries that   *)
(* are none included, and refuses the years before 1970.                    *)
MktimeCounts ==
  mktime(date, second) =
    IF date.year < 1970 THEN TIME_MODULUS - 1 ELSE (days * DAY + second) % TIME_MODULUS
=============================================================================

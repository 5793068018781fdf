------------------------------- MODULE Dates -------------------------------
(***************************************************************************)
(* Date (src/src/lang/Date.cpp): a day by its number and by month, day and *)
(* year, with the conversions between them; ScheduleTime (ScheduleTime.cpp *)
(* and .h): an instant, absolute or so many milliseconds from when it was  *)
(* made, in seconds as the library is built on UNIX and in milliseconds on *)
(* Windows; and the deadline of a timed wait (ThdManager.cpp): the         *)
(* milliseconds that a wait is given, as the absolute time that            *)
(* pthread_cond_timedwait takes.                                           *)
(*                                                                         *)
(* A day number is one less than the Julian day number.  Years are within  *)
(* the Gregorian calendar, where / of C and \div agree.                    *)
(***************************************************************************)
EXTENDS Integers, FiniteSets, Sequences, SequencesExt

CONSTANTS
  Years,       \* bound: the years a Date stays in
  AddedDays,   \* what is added to a Date: days, months or weeks
  Delays,      \* milliseconds
  MaxDelays,   \* bound: how often they are added
  Zone,        \* the local clock less UTC, in milliseconds
  MaxInstant,  \* bound: the clock, in milliseconds
  MicrosNow,   \* the tv_usec that gettimeofday may return
  MillisAsked  \* the `millis' of wait

ASSUME DatesAssumption ==
  /\ Years \subseteq 1997..2099
  /\ AddedDays \subseteq Int
  /\ Delays \subseteq Nat
  /\ {MaxDelays, MaxInstant} \subseteq Nat
  /\ Zone \in Int /\ Zone % 1000 = 0
  /\ MicrosNow \subseteq Nat /\ \A usec \in MicrosNow : usec < 1000000
  /\ MillisAsked \subseteq Nat \cup {-1}

VARIABLES
  date,      \* the fields of a Date
  build,     \* "unix" or "windows"
  systime,   \* the clock, in milliseconds
  moment,    \* a ScheduleTime: [absolute, time, millis]
  meant,     \* the instant it was meant to be, in milliseconds
  slips      \* how often a part of a unit was left out of it

dateVars == <<date>>
instantVars == <<build, systime, moment, meant, slips>>

-----------------------------------------------------------------------------
(* Date: day numbers and fields *)

DaysSoFar(leap, m) ==
  <<0, 31, 59, 90, 120, 151, 181, 212, 243, 273, 304, 334, 365>>[m]
    + IF leap /\ m > 2 THEN 1 ELSE 0

JAN1_1 == 1721423
OCT5_1582 == 2299160
OCT14_1582 == 2299169
YEAR == 365
FOUR_YEARS == 1461
CENTURY == 36524
FOUR_CENTURIES == 146097

\* lp: every fourth year, the centuries too.
Fourth(y) == y % 4 = 0

Weekday(j) == ((j + 2) % 7) + 1

MdyToJulian(y, m, d) ==
  LET j == ((y - 1) \div 4) + DaysSoFar(Fourth(y), m) + d + y * 365 + JAN1_1 - 366
      a == y \div 100
  IN IF j >= OCT14_1582 THEN j + 2 - a + a \div 4 ELSE j

\* The month guessed at is corrected downwards; months count from 0.
MonthOf(leap, d) ==
  CHOOSE m \in 0..(d \div 30) :
    /\ DaysSoFar(leap, m + 1) < d
    /\ \A k \in m + 1 .. d \div 30 : DaysSoFar(leap, k + 1) >= d

JulianToMdy(j) ==
  LET z0 == j + 1 - JAN1_1
      z1 == IF j + 1 >= OCT5_1582
            THEN z0 + z0 \div CENTURY - z0 \div FOUR_CENTURIES - 2 + JAN1_1
            ELSE j + 1
      z == z1 - (z1 - YEAR) \div FOUR_YEARS
      y0 == z \div YEAR
      y1 == y0 - 4712
      leap == Fourth(y1)
      d0 == z - y0 * YEAR
      y == IF d0 = 0 THEN y1 - 1 ELSE y1
      d == IF d0 = 0 THEN YEAR + (IF leap THEN 1 ELSE 0) ELSE d0
      m == MonthOf(leap, d)
  IN [year |-> y, month |-> m + 1, day |-> d - DaysSoFar(leap, m + 1),
      julian |-> j, wday |-> Weekday(j)]

FromFields(y, m, d) ==
  LET j == MdyToJulian(y, m, d)
  IN [year |-> y, month |-> m, day |-> d, julian |-> j, wday |-> Weekday(j)]

IsLeapYear(y) ==
  IF y >= 1582 THEN (y % 4 = 0 /\ y % 100 # 0) \/ y % 400 = 0 ELSE y % 4 = 0

DaysInMonth(y, m) ==
  <<31, 28, 31, 30, 31, 30, 31, 31, 30, 31, 30, 31>>[m]
    + IF m = 2 /\ IsLeapYear(y) THEN 1 ELSE 0

-----------------------------------------------------------------------------
(* Date: arithmetic *)

PlusDays(dt, n) == JulianToMdy(dt.julian + n)
AddWeeks(dt, n) == JulianToMdy(dt.julian + n * 7)

\* A day beyond the end of the month goes over into the next one.
AddMonths(dt, n) ==
  LET months == dt.year * 12 + dt.month - 1 + n
      y == months \div 12
      m == (months % 12) + 1
      last == DaysInMonth(y, m)
  IN IF dt.day > last THEN FromFields(y, m + 1, dt.day - last)
     ELSE FromFields(y, m, dt.day)

\* The fields stay as they are: a 29th of February in any year.
AddYears(dt, n) == FromFields(dt.year + n, dt.month, dt.day)

SetFields(y, m, d) ==
  FromFields(y, m, IF d < DaysInMonth(y, m) THEN d ELSE DaysInMonth(y, m))

\* The weeknum-th dow of a month, the last when weeknum is 0: the constructor.
WeekCountsLate(d) == d > 0
WeekCounts(d) == d > -1
ByWeek(weeknum, dow, m, y) ==
  LET first == FromFields(y, m, 1)
      base == IF weeknum = 0 THEN AddMonths(first, 1) ELSE first
      d == dow - base.wday
  IN AddWeeks([base EXCEPT !.julian = @ + d], weeknum - (IF WeekCounts(d) THEN 1 ELSE 0))

\* set, which does not count a first of the month on that very weekday.
SetByWeek(weeknum, dow, m, y) ==
  LET first == SetFields(y, m, 1)
      base == IF weeknum = 0 THEN AddMonths(first, 1) ELSE first
      d == dow - base.wday
  IN AddWeeks([base EXCEPT !.julian = @ + d], weeknum - (IF d > 0 THEN 1 ELSE 0))

DayOfYear(dt) == dt.julian - MdyToJulian(dt.year, 1, 1) + 1
FirstDayOfMonth(dt) == FromFields(dt.year, dt.month, 1).wday
MonthEnd(dt) == PlusDays(AddMonths(FromFields(dt.year, dt.month, 1), 1), -1)
YearEnd(dt) == PlusDays(FromFields(dt.year + 1, 1, 1), -1)
WeekOfMonth(dt) == (dt.day + FirstDayOfMonth(dt) - 1 - dt.wday) \div 7 + 1

\* From the first Sunday after the first of April until the last Sunday of
\* October.
IsDST(dt) ==
  LET april == FromFields(dt.year, 4, 1)
      october == FromFields(dt.year, 10, 31)
  IN /\ dt.julian >= april.julian - april.wday + 8
     /\ dt.julian < october.julian - (october.wday - 1)

-----------------------------------------------------------------------------
(* Date: text, as a sequence of digits and dashes *)

Dash == -1
Padding(n) == IF 10 > n THEN <<0>> ELSE <<>>

NumberText(n) ==
  LET digits == <<(n \div 1000) % 10, (n \div 100) % 10, (n \div 10) % 10, n % 10>>
  IN SubSeq(digits, CHOOSE k \in 1..4 : /\ k = 4 \/ digits[k] # 0
                                        /\ \A j \in 1 .. k - 1 : digits[j] = 0, 4)

DateText(dt) ==
  NumberText(dt.year) \o <<Dash>> \o Padding(dt.month) \o NumberText(dt.month)
    \o <<Dash>> \o Padding(dt.day) \o NumberText(dt.day)

ToInt(digits) == FoldLeft(LAMBDA n, d : n * 10 + d, 0, digits)

\* The three tokens between dashes; toDate drops what follows them.
ToDate(text) ==
  LET first == CHOOSE k \in 1..Len(text) : text[k] = Dash /\ Dash \notin Range(SubSeq(text, 1, k - 1))
      second == CHOOSE k \in first + 1 .. Len(text) :
                  text[k] = Dash /\ Dash \notin Range(SubSeq(text, first + 1, k - 1))
  IN FromFields(ToInt(SubSeq(text, 1, first - 1)),
                ToInt(SubSeq(text, first + 1, second - 1)),
                ToInt(SubSeq(text, second + 1, Len(text))))

-----------------------------------------------------------------------------
(* ScheduleTime *)

PerUnit == IF build = "unix" THEN 1000 ELSE 1
Instant(absolute, time, ms) ==
  [absolute |-> absolute, time |-> time, millis |-> ms]
Clock == systime \div PerUnit

\* break_time: a relative time counts from now, in whole units.
Relative(ms) == Instant(FALSE, Clock + ms \div PerUnit, ms)
Later(t, ms) == Instant(TRUE, t.time + ms \div PerUnit, 0)
\* A clock reading that is broken down as UTC and put together as local time.
ToUTCTime(local) == local - Zone \div PerUnit

\* compare, and the operators: the instant against another.
Compare(t, other) ==
  CASE t.time < other.time -> -1 [] t.time > other.time -> 1 [] OTHER -> 0

-----------------------------------------------------------------------------

DateInit ==
  date = FromFields(CHOOSE y \in Years : \A z \in Years : y <= z, 1, 1)

Becomes(dt) ==
  /\ dt.year \in Years
  /\ date' = dt

Increment == Becomes(PlusDays(date, 1))
Decrement == Becomes(PlusDays(date, -1))
AddDays(n) == Becomes(PlusDays(date, n))
MoveWeeks(n) == Becomes(AddWeeks(date, n))
MoveMonths(n) == Becomes(AddMonths(date, n))
MoveYears(n) == Becomes(AddYears(date, n))
SetDay(d) == Becomes(SetFields(date.year, date.month, d))
SetWeek(weeknum, dow) == Becomes(SetByWeek(weeknum, dow, date.month, date.year))

DateNext ==
  \/ Increment
  \/ Decrement
  \/ \E n \in AddedDays : AddDays(n) \/ MoveWeeks(n) \/ MoveMonths(n)
  \/ MoveYears(1)
  \/ \E d \in {15, 31} : SetDay(d)
  \/ \E weeknum \in {0, 5}, dow \in 1..7 : SetWeek(weeknum, dow)

InstantInit ==
  /\ build \in {"unix", "windows"}
  /\ systime = 0
  /\ moment = Instant(TRUE, 0, 0)
  /\ meant = 0
  /\ slips = 0

TimePasses ==
  /\ systime < MaxInstant
  /\ systime' = systime + 500
  /\ UNCHANGED <<build, moment, meant, slips>>

\* A ScheduleTime made now, or put together from the local clock.
FromNow ==
  /\ \/ moment' = Instant(TRUE, Clock, 0)
     \/ moment' = Instant(TRUE, ToUTCTime((systime + Zone) \div PerUnit), 0)
  /\ meant' = systime
  /\ slips' = 1
  /\ UNCHANGED <<build, systime>>

FromMillis(ms) ==
  /\ moment' = Relative(ms)
  /\ meant' = systime + ms
  /\ slips' = 2
  /\ UNCHANGED <<build, systime>>

\* operator+ makes a new, absolute time.
Adds(ms) ==
  /\ slips < MaxDelays
  /\ moment' = Later(moment, ms)
  /\ meant' = meant + ms
  /\ slips' = slips + 1
  /\ UNCHANGED <<build, systime>>

\* From the fields of a struct tm, which has whole seconds: those of the local
\* clock as mktime reads them, of UTC on Windows.
FromTM ==
  /\ moment' = Instant(TRUE, ((systime \div 1000) * 1000) \div PerUnit, 0)
  /\ meant' = (systime \div 1000) * 1000
  /\ slips' = 0
  /\ UNCHANGED <<build, systime>>

\* toString and toScheduleTime: the time is kept, and counts as absolute.
ReadBack ==
  /\ moment' = Instant(TRUE, moment.time, 0)
  /\ UNCHANGED <<build, systime, meant, slips>>

InstantNext ==
  \/ TimePasses \/ FromNow \/ FromTM \/ ReadBack
  \/ \E ms \in Delays : FromMillis(ms) \/ Adds(ms)

InstantSpec == InstantInit /\ [][InstantNext]_instantVars

-----------------------------------------------------------------------------
(* ThdManager: toTimeVal, toTimeSpec *)

VARIABLES
  now,     \* microseconds into the current second
  millis,  \* the millis of the last call
  tv       \* the timeval it produced, the second of now being second 0

timeVars == <<now, millis, tv>>

WaitInfinite == -1
LongMax == 2147483647  \* of a 32 bit build

\* `+= millis % 1000000' adds milliseconds to a number of microseconds, and
\* `> 1000000' leaves a sum of exactly one second alone.
ToTimeVal(usec, ms) ==
  LET sum == usec + (ms % 1000000)
  IN IF ms = WaitInfinite THEN [sec |-> LongMax - 1, usec |-> 0]
     ELSE IF sum > 1000000
     THEN [sec |-> ms \div 1000 + 1, usec |-> sum - 1000000]
     ELSE [sec |-> ms \div 1000, usec |-> sum]

\* toTimeSpec multiplies tv_usec by 1000; it is a valid timespec, one that
\* pthread_cond_timedwait does not refuse with EINVAL, below 10^9.
ValidTimeSpec(time) == time.usec * 1000 < 1000000000

TimeInit ==
  /\ now \in MicrosNow
  /\ millis = 0
  /\ tv = ToTimeVal(now, 0)

\* A thread calls wait(ms) at any time of a second.
WaitFor(usec, ms) ==
  /\ now' = usec
  /\ millis' = ms
  /\ tv' = ToTimeVal(usec, ms)

TimeNext == \E usec \in MicrosNow, ms \in MillisAsked : WaitFor(usec, ms)

TimeSpec == TimeInit /\ [][TimeNext]_timeVars

-----------------------------------------------------------------------------
(* The calendar, by counting *)

Leap(y) == (y % 4 = 0 /\ y % 100 # 0) \/ y % 400 = 0
Length(y, m) ==
  CASE m \in {4, 6, 9, 11} -> 30 [] m = 2 -> (IF Leap(y) THEN 29 ELSE 28) [] OTHER -> 31

\* The days before a year, from 1 January 1996, and before a month of a year.
BeforeYear[y \in 1996..2100] ==
  IF y = 1996 THEN 0 ELSE BeforeYear[y - 1] + (IF Leap(y - 1) THEN 366 ELSE 365)
BeforeMonth(y, m) ==
  (IF m > 2 /\ Leap(y) THEN 1 ELSE 0)
    + <<0, 31, 59, 90, 120, 151, 181, 212, 243, 273, 304, 334>>[m]

\* 1 January 1996 was a Monday.
Days(y, m, d) == BeforeYear[y] + BeforeMonth(y, m) + d - 1
CountedWeekday(y, m, d) == ((Days(y, m, d) + 1) % 7) + 1
FirstNumber == 2450083
Counted(y, m, d) == Days(y, m, d) + FirstNumber

\* The calendar's day of a number, near a year.
CalendarDay(j, year) ==
  LET y == CHOOSE k \in year - 1 .. year + 1 : Counted(k, 1, 1) <= j /\ j <= Counted(k, 12, 31)
      m == CHOOSE k \in 1..12 : Counted(y, k, 1) <= j /\ j <= Counted(y, k, Length(y, k))
  IN [year |-> y, month |-> m, day |-> j - Counted(y, m, 1) + 1]

\* What the conversions get wrong: a century that is no leap year; from 24
\* December of one that is, and on 30 December of any leap year; and the
\* 29th of February that addYears leaves in another year.
Misread(c) ==
  \/ c.year % 100 = 0 /\ ~Leap(c.year)
  \/ Leap(c.year) /\ c.month = 12 /\ c.day >= IF c.year % 100 = 0 THEN 24 ELSE 30

\* Whatever the operations, the fields are those of the day the number counts,
\* and so is the weekday.  (Date.cpp:350-458)
DateAgrees ==
  LET c == CalendarDay(date.julian, date.year)
  IN /\ date.wday = CountedWeekday(c.year, c.month, c.day)
     /\ \/ Misread(c)
        \/ date.month = 2 /\ date.day = 29 /\ ~Leap(date.year)
        \/ <<date.year, date.month, date.day>> = <<c.year, c.month, c.day>>

\* The constructor that takes a week of a month finds its n-th such weekday,
\* and the last one for 0, by which the holidays are named.  (Date.cpp:230-257)
NthWeekday ==
  date.day = 1 =>
    \A weeknum \in 0..4, dow \in 1..7 :
      LET y == date.year
          m == date.month
          found == {d \in 1..Length(y, m) : CountedWeekday(y, m, d) = dow}
          before(d) == {e \in found : e < d}
          after(d) == {e \in found : e > d}
          nth == CHOOSE d \in found :
                   IF weeknum = 0 THEN after(d) = {} ELSE Cardinality(before(d)) = weeknum - 1
      IN ByWeek(weeknum, dow, m, y).julian = Counted(y, m, nth)

\* The ends of months and years, the day of the year and the week of the month
\* are the calendar's; daylight saving begins on the first Sunday of April,
\* unless that is the first, and ends on the last of October.
\* (Date.h:126-206, Date.cpp:467-495, 664-671)
DatesCounted ==
  LET y == date.year
      m == date.month
      c == CalendarDay(date.julian, y)
      sundays(n, last) == {d \in 1..last : CountedWeekday(y, n, d) = 1}
      first(n) == CHOOSE d \in sundays(n, 30) : \A e \in sundays(n, 30) : d <= e
      final(n) == CHOOSE d \in sundays(n, 31) : \A e \in sundays(n, 31) : e <= d
  IN \/ Misread(c)
     \/ m = 2 /\ date.day = 29 /\ ~Leap(y)
     \/ /\ MonthEnd(date).julian = Counted(y, m, Length(y, m))
        /\ YearEnd(date).julian = Counted(y, 12, 31)
        /\ DayOfYear(date) = BeforeMonth(y, m) + date.day
        /\ WeekOfMonth(date) = 1 + Cardinality(sundays(m, date.day) \ {1})
        /\ first(4) # 1 =>
             IsDST(date) = (/\ date.julian >= Counted(y, 4, first(4))
                            /\ date.julian < Counted(y, 10, final(10)))

SortsBefore(s, t) ==
  \E k \in 1..Len(s) \cap 1..Len(t) : s[k] < t[k] /\ \A j \in 1 .. k - 1 : s[j] = t[j]

\* The text of a date reads back as the date, and texts sort as the days do.
\* (UtilStringUtils.cpp:374-421)
TextsReadBack ==
  LET later == PlusDays(date, 30)
  IN \/ Misread(CalendarDay(date.julian, date.year))
     \/ date.month = 2 /\ date.day = 29
     \/ /\ ToDate(DateText(date)) = date
        /\ Misread(CalendarDay(later.julian, later.year)) \/ SortsBefore(DateText(date), DateText(later))

\* A ScheduleTime is never later than it was meant, and each time a delay or
\* the clock was read it may be early by less than a unit: up to two seconds
\* for a delay as the library is built on UNIX.  So what compares as still to
\* come is, and what is far enough away does.  (ScheduleTime.cpp:432-477,
\* ScheduleTime.h:302-321)
InstantsClose ==
  LET early == meant - moment.time * PerUnit
      present == Instant(TRUE, Clock, 0)
  IN /\ 0 <= early /\ early <= slips * (PerUnit - 1)
     /\ Compare(moment, present) = 1 => meant > systime
     /\ meant - systime > slips * (PerUnit - 1) => Compare(moment, present) = 1

Deadline == tv.sec * 1000000 + tv.usec
AskedTime == now + millis * 1000

\* A wait for whole seconds, as the scheduler asks for, is never cut short:
\* the scheduler does not spin on a timer that ends before the item is due.
\* (ThdScheduler.cpp:259)
WholeSecondsNeverEarly ==
  (millis # WaitInfinite /\ millis % 1000 = 0) => Deadline >= AskedTime

\* The only timespec that pthread_cond_timedwait refuses comes from a sum of
\* exactly one second; ThdEvent::wait then fails at once (ThdEvent.cpp:235).
RefusedOnlyAtOneSecond ==
  ~ValidTimeSpec(tv) <=>
    millis # WaitInfinite /\ now + (millis % 1000000) = 1000000
=============================================================================

------------------------------- MODULE NotifyOff -------------------------------
(***************************************************************************)
(* The notify.off windows of a rule (internal/config): on some weekdays,   *)
(* from one time of day to another, its notifications are skipped.  A      *)
(* window that ends before it begins runs past midnight.                   *)
(***************************************************************************)
EXTENDS Integers, Sequences

CONSTANTS
  DayHours,     \* 24 in the code
  HourMinutes   \* 60 in the code

ASSUME DayAssumption ==
  DayHours \in Nat \ {0} /\ HourMinutes \in Nat \ {0}

DayLength == DayHours * HourMinutes
Weekday == 0..6  \* time.Sunday is 0
Minute == 0..(DayLength - 1)

(* A clock as written, [hour, minute], and a window, [days, from, to].     *)

\* parseNotifyOffClock: only the end of a window may be 24:00.
ClockInRange(clock, allow2400) ==
  /\ clock.minute \in 0..(HourMinutes - 1)
  /\ \/ clock.hour \in 0..(DayHours - 1)
     \/ allow2400 /\ clock.hour = DayHours /\ clock.minute = 0

MinuteOf(clock) == clock.hour * HourMinutes + clock.minute

\* compileNotifyOffWindow accepts the window.
ValidWindow(w) ==
  /\ w.days # {} /\ w.days \subseteq Weekday
  /\ ClockInRange(w.from, FALSE) /\ ClockInRange(w.to, TRUE)
  /\ MinuteOf(w.from) # MinuteOf(w.to)

previousWeekday(day) == IF day = 0 THEN 6 ELSE day - 1

\* Mutant: the part after midnight is looked up under the new day.
ContainsUnderToday(days, day, minute, from, to) ==
  IF from < to THEN day \in days /\ from <= minute /\ minute < to
  ELSE day \in days /\ (minute >= from \/ minute < to)

notifyOffContainsMinute(days, day, minute, from, to) ==
  IF from < to THEN day \in days /\ from <= minute /\ minute < to
  ELSE \/ minute >= from /\ day \in days
       \/ minute < from /\ minute < to /\ previousWeekday(day) \in days

\* The windows of a rule at a minute of a day, local time.
NotifyOffActiveAt(windows, day, minute) ==
  \E i \in DOMAIN windows :
    LET w == windows[i]
    IN  notifyOffContainsMinute(w.days, day, minute, MinuteOf(w.from), MinuteOf(w.to))

-----------------------------------------------------------------------------
(* What the windows mean.                                                  *)

Length(from, to) == IF from < to THEN to - from ELSE to - from + DayLength
nextWeekday(day) == IF day = 6 THEN 0 ELSE day + 1

\* The n-th minute of a window that begins on day d is this one.
IsNth(n, d, from, day, minute) ==
  IF from + n < DayLength THEN day = d /\ minute = from + n
  ELSE day = nextWeekday(d) /\ minute = from + n - DayLength

\* The minute belongs to a window that begins on one of the days.
Covered(days, day, minute, from, to) ==
  \E d \in days, n \in 0..(DayLength - 1) :
    n < Length(from, to) /\ IsNth(n, d, from, day, minute)
===============================================================================

----------------------------- MODULE DateRange -----------------------------
(***************************************************************************)
(* The yearly day ranges "MM/DD-MM/DD" of schedules and holiday borders:   *)
(* md_range_contains, against the window such a range denotes, on every    *)
(* day of a calendar that moves one day at a time.                         *)
(***************************************************************************)
EXTENDS Integers

CONSTANTS
  FirstYear, LastYear,  \* bounds: the calendar the runs walk through
  EdgeMonths, EdgeDays  \* the months and days a range may start or end on

ASSUME CalendarAssumption ==
  /\ FirstYear \in Nat /\ LastYear \in Nat
  /\ EdgeMonths \subseteq 1..12 /\ EdgeDays \subseteq 1..31

VARIABLES span,   \* the configured range: its start and end, month and day
          today   \* year, month and day of `now`

calendar == <<span, today>>

Leap(y) == y % 4 = 0 /\ (y % 100 # 0 \/ y % 400 = 0)

DaysIn(y, m) ==
  CASE m = 2 -> IF Leap(y) THEN 29 ELSE 28
    [] m \in {4, 6, 9, 11} -> 30
    [] OTHER -> 31

MonthDays == [month : 1..12, day : 1..31]

\* Dates are compared, never subtracted: a number that grows with the date.
Ordinal(y, m, d) == 372 * y + 31 * m + d

\* _safe_md_date: February 29 is February 28 in other years.
SafeDate(y, md) ==
  Ordinal(y, md.month, IF md.month = 2 /\ md.day = 29 /\ ~Leap(y) THEN 28 ELSE md.day)

DateOf(t) == Ordinal(t.year, t.month, t.day)

SlipClosesThisYear(s, t) ==
  LET start == SafeDate(t.year, s.start)
      end   == SafeDate(t.year, s.end)
  IN  \/ start <= end /\ start <= DateOf(t) /\ DateOf(t) <= end
      \/ end < start /\ start <= DateOf(t) /\ DateOf(t) <= SafeDate(t.year + 1, s.end)

\* md_range_contains: a range that ends before it starts crosses New Year.
Contains(s, t) ==
  LET start == SafeDate(t.year, s.start)
      end   == SafeDate(t.year, s.end)
  IN  \/ start <= end /\ start <= DateOf(t) /\ DateOf(t) <= end
      \/ /\ end < start /\ t.month < s.start.month
         /\ SafeDate(t.year - 1, s.start) <= DateOf(t) /\ DateOf(t) <= end
      \/ /\ end < start /\ t.month >= s.start.month
         /\ start <= DateOf(t) /\ DateOf(t) <= SafeDate(t.year + 1, s.end)

---------------------------------------------------------------------------
(* The ranges validate_schedule accepts, and the days they are asked about. *)

Edges == {e \in [month : EdgeMonths, day : EdgeDays] : e.day <= DaysIn(2000, e.month)}
Spans == [start : Edges, end : Edges]

CalendarInit ==
  /\ span \in Spans
  /\ today = [year |-> FirstYear, month |-> 1, day |-> 1]

Midnight ==
  /\ today' = IF today.day < DaysIn(today.year, today.month)
              THEN [today EXCEPT !.day = @ + 1]
              ELSE IF today.month < 12
              THEN [today EXCEPT !.month = @ + 1, !.day = 1]
              ELSE [year |-> today.year + 1, month |-> 1, day |-> 1]
  /\ UNCHANGED span

CalendarNext == today.year <= LastYear /\ Midnight

CalendarSpec == CalendarInit /\ [][CalendarNext]_calendar

---------------------------------------------------------------------------
(* Properties.                                                             *)

\* The window a range denotes, without looking at the month of `now`: it opens
\* every year on the start and closes on the next end date.
Closing(s, y) ==
  IF SafeDate(y, s.end) >= SafeDate(y, s.start)
    THEN SafeDate(y, s.end) ELSE SafeDate(y + 1, s.end)

InWindow(s, t) ==
  \E y \in {t.year - 1, t.year} : SafeDate(y, s.start) <= DateOf(t) /\ DateOf(t) <= Closing(s, y)

\* The end is in an earlier month than the start, or not before it.
Distinct(s) == s.start.month # s.end.month \/ s.start.day <= s.end.day

\* On every day, md_range_contains finds a range active exactly inside its
\* window, over New Year and over leap days, unless the range ends in the
\* month it starts in, but on an earlier day.
RangeIsWindow == Distinct(span) => (Contains(span, today) <=> InWindow(span, today))

=============================================================================

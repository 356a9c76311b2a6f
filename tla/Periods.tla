------------------------------ MODULE Periods ------------------------------
(***************************************************************************)
(* The calendar arithmetic of the dashboard: application/analytics/        *)
(* periods.py and the periods the page offers (web/dashboard.py).  A date  *)
(* is a number of days.  Which days begin and end a month is Python's      *)
(* calendar and a parameter here, and so are the limits, so that a small   *)
(* calendar has every case: short and long months, years' ends.            *)
(***************************************************************************)
EXTENDS Integers

CONSTANTS Day,              \* the calendar
          FirstOfMonth,     \* date.replace(day=1)
          LastOfMonth,      \* calendar.monthrange
          FirstDay,         \* 1 January of _MIN_YEAR
          LastDay,          \* 31 December of _MAX_YEAR
          DaysPerWeek,
          MAX_PERIOD_DAYS,
          MAX_DAILY_BUCKET_PERIOD_DAYS

ASSUME CalendarAssumption ==
    /\ Day \subseteq Int
    /\ \A d, e \in Day : d .. e \subseteq Day
    /\ FirstOfMonth \in [Day -> Day] /\ LastOfMonth \in [Day -> Day]
    /\ \A d \in Day : FirstOfMonth[d] =< d /\ d =< LastOfMonth[d]
    /\ \A d, e \in Day : e \in FirstOfMonth[d] .. LastOfMonth[d] =>
           FirstOfMonth[e] = FirstOfMonth[d] /\ LastOfMonth[e] = LastOfMonth[d]
ASSUME LimitsAssumption ==
    /\ FirstDay \in Day /\ LastDay \in Day /\ FirstDay - 1 \in Day
    /\ DaysPerWeek \in Nat \ {0} /\ MAX_PERIOD_DAYS \in Nat
    /\ MAX_DAILY_BUCKET_PERIOD_DAYS \in Nat

Period(from, to) == [date_from |-> from, date_to |-> to]
DaysOf(period) == period.date_to - period.date_from + 1
Covers(period, day) == period.date_from =< day /\ day =< period.date_to
Earlier(d, e) == IF d < e THEN d ELSE e

DashboardPeriod ==
    {p \in [date_from : Day, date_to : Day] :
        /\ p.date_from =< p.date_to
        /\ DaysOf(p) =< MAX_PERIOD_DAYS
        /\ FirstDay =< p.date_from /\ p.date_to =< LastDay}

SameMonth(d, e) == FirstOfMonth[d] = FirstOfMonth[e]
FirstOfPreviousMonth(day) == FirstOfMonth[FirstOfMonth[day] - 1]

DefaultPeriod(today) == Period(FirstOfMonth[today], LastOfMonth[today])

\* What the page links to: today, this week, this and the last month, and the
\* last three months.
Presets(today) ==
    LET previous == FirstOfPreviousMonth(today)
        monday == today - (today % DaysPerWeek)
    IN  {Period(today, today),
         Period(monday, monday + DaysPerWeek - 1),
         DefaultPeriod(today),
         Period(previous, FirstOfMonth[today] - 1),
         Period(FirstOfPreviousMonth(previous), LastOfMonth[today])}

IsDaily(period) == DaysOf(period) =< MAX_DAILY_BUCKET_PERIOD_DAYS

\* Where the loop of chart_buckets starts a month's bucket.
BucketStarts(period) ==
    {d \in period.date_from .. period.date_to :
        IsDaily(period) \/ d = period.date_from \/ d = FirstOfMonth[d]}

\* A bucket is one day, or a month as far as it is in the period.
ChartBuckets(period) ==
    {Period(d, IF IsDaily(period) THEN d ELSE Earlier(LastOfMonth[d], period.date_to)) :
        d \in BucketStarts(period)}

NoWindows == [none |-> TRUE]

Clipped(period, today) == Period(period.date_from, Earlier(period.date_to, today))

\* Mutant of PreviousWindow: the previous month's window is not clamped to it.
SameOffsets(current) ==
    IF current.date_from = FirstOfMonth[current.date_from]
       /\ SameMonth(current.date_from, current.date_to)
    THEN LET from == FirstOfPreviousMonth(current.date_from)
         IN  Period(from, from + DaysOf(current) - 1)
    ELSE Period(current.date_from - DaysOf(current), current.date_from - 1)

\* The window from the first of a month, inside it, is compared with the same
\* days of the month before; any other with the days just before it.
PreviousWindow(current) ==
    IF current.date_from = FirstOfMonth[current.date_from]
       /\ SameMonth(current.date_from, current.date_to)
    THEN LET from == FirstOfPreviousMonth(current.date_from)
         IN  Period(from, Earlier(from + DaysOf(current) - 1, LastOfMonth[from]))
    ELSE Period(current.date_from - DaysOf(current), current.date_from - 1)

ComparisonWindows(period, today) ==
    LET current == Clipped(period, today)
        previous == PreviousWindow(current)
    IN  IF period.date_from > today \/ previous.date_from < FirstDay
        THEN NoWindows
        ELSE [current |-> current, previous |-> previous]
=============================================================================

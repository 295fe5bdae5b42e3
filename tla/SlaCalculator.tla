----------------------------- MODULE SlaCalculator -----------------------------
(***************************************************************************)
(* The SLA of a ticket: addBusinessHours finds its deadline, later slaStatus *)
(* measures the business time used and compares it with the total.  Both    *)
(* walk the calendar a minute at a time, one iteration of a loop per step.   *)
(*                                                                          *)
(* Time is counted in ticks, finer than a minute, since the program's dates  *)
(* fall between minutes.  Minutes, hours, days and weeks keep their nesting  *)
(* but not their lengths.                                                    *)
(***************************************************************************)
EXTENDS Integers, FiniteSets

CONSTANTS
    Tick,        \* ticks in a minute
    Minutes,     \* minutes in an hour
    Hours,       \* hours in a day
    Days,        \* days in a week
    Weekend,     \* the days of the week nobody works
    Shift,       \* ticks local time is ahead of UTC
    Calendars,   \* the calendars to choose from
    Starts,      \* when tickets are created
    Totals,      \* their SLA in hours
    Delays,      \* how long after the deadline the status is asked for
    Pauses,      \* when, after the creation, the ticket was paused, and how long
    Horizon      \* bound: addBusinessHours is not followed any further

Calendar == [startHour : 0..Hours, endHour : 0..Hours, holidays : SUBSET Nat,
             midnight : {0, Hours}]
Pause == [after : Nat, length : Nat]

ASSUME UnitAssumption ==
    /\ {Tick, Minutes, Hours, Days} \subseteq Nat \ {0}
    /\ Weekend \subseteq 0..(Days - 1) /\ Shift \in Nat /\ Horizon \in Nat
ASSUME InputAssumption ==
    /\ Starts \subseteq Nat /\ Totals \subseteq Nat /\ Delays \subseteq Int
    /\ \A c \in Calendars :
          /\ {c.startHour, c.endHour} \subseteq 0..Hours
          /\ c.holidays \subseteq Nat /\ c.midnight \in {0, Hours}
    /\ \A p \in Pauses : p.after \in Nat /\ p.length \in Nat

VARIABLES
    calendar,   \* the calendar of the ticket
    start,      \* createdAt
    slaHours,   \* the SLA of its category
    cursor,     \* the cursor of the loop that runs
    remaining,  \* remainingMinutes of addBusinessHours
    deadline,   \* what addBusinessHours returned
    now,        \* when slaStatus is asked
    seconds,    \* business time measured so far, in ticks
    pause,      \* the time the ticket was paused in between
    effective,  \* what effectiveBusinessSeconds returned
    status,     \* what slaStatus returned
    stage       \* which of the functions runs, or has returned
input  == <<calendar, start, slaHours>>
result == <<deadline, now, pause, effective, status>>
SlaVars == <<input, cursor, remaining, seconds, result, stage>>

DayTicks == Hours * Minutes * Tick

\* Intl.DateTimeFormat in calendar.timezone.  With hour12 false the hour after
\* midnight is "00" or "24", as the ICU of the build has it.
Local(t) == t + Shift
Day(t) == Local(t) \div DayTicks
Weekday(t) == Day(t) % Days
HourOfDay(t) == (Local(t) % DayTicks) \div (Minutes * Tick)
Hour(t, c) == IF HourOfDay(t) = 0 THEN c.midnight ELSE HourOfDay(t)

IsBusinessInside(t, c) ==  \* mutated form: the first hour does not count
    /\ Weekday(t) \notin Weekend /\ Day(t) \notin c.holidays
    /\ c.startHour < Hour(t, c) /\ Hour(t, c) < c.endHour
IsBusinessMinute(t, c) ==
    /\ Weekday(t) \notin Weekend
    /\ Day(t) \notin c.holidays
    /\ c.startHour <= Hour(t, c) /\ Hour(t, c) < c.endHour

SlaInit == /\ calendar \in Calendars /\ start \in Starts /\ slaHours \in Totals
           /\ cursor = start /\ remaining = slaHours * Minutes
           /\ deadline = start /\ now = start /\ seconds = 0
           /\ pause = [after |-> 0, length |-> 0]
           /\ effective = 0 /\ status = "OK" /\ stage = "add"
-----------------------------------------------------------------------------
\* One turn of the loop of addBusinessHours: a minute on, then the test.
AddMinuteBehind ==  \* mutated form: the test, then a minute on
    /\ stage = "add" /\ remaining > 0 /\ cursor + Tick <= Horizon
    /\ cursor' = cursor + Tick
    /\ remaining' = IF IsBusinessMinute(cursor, calendar) THEN remaining - 1 ELSE remaining
    /\ UNCHANGED <<input, seconds, result, stage>>
AddMinute ==
    /\ stage = "add" /\ remaining > 0 /\ cursor + Tick <= Horizon
    /\ cursor' = cursor + Tick
    /\ remaining' = IF IsBusinessMinute(cursor', calendar) THEN remaining - 1 ELSE remaining
    /\ UNCHANGED <<input, seconds, result, stage>>

AddReturns ==
    /\ stage = "add" /\ remaining <= 0
    /\ deadline' = cursor /\ stage' = "wait"
    /\ UNCHANGED <<input, cursor, remaining, seconds, now, pause, effective, status>>

\* slaStatus is called, with the pause that has accumulated in the ticket by then.
SlaStatus ==
    /\ stage = "wait"
    /\ \E d \in Delays, p \in Pauses :
          /\ deadline + d >= start + p.after + p.length
          /\ now' = deadline + d /\ pause' = p
    /\ cursor' = start /\ seconds' = 0 /\ stage' = "measure"
    /\ UNCHANGED <<input, remaining, deadline, effective, status>>

\* One turn of the loop of effectiveBusinessSeconds.
MeasureMinute ==
    /\ stage = "measure" /\ cursor < now
    /\ cursor' = cursor + Tick
    /\ seconds' = IF IsBusinessMinute(cursor', calendar) THEN seconds + Tick ELSE seconds
    /\ UNCHANGED <<input, remaining, result, stage>>

LessUnbounded(s, p) == s - p  \* mutated form: without Math.max
LessNothing(s, p) == s        \* mutated form: the pause is forgotten
LessPause(s, p) == IF s > p THEN s - p ELSE 0

Total == slaHours * Minutes * Tick

StatusFromTotal(e) ==  \* mutated form: breached on the minute of the deadline
    IF e >= Total THEN "BREACHED" ELSE IF 5 * e > 4 * Total THEN "AT_RISK" ELSE "OK"
StatusOf(e) ==
    IF e > Total THEN "BREACHED" ELSE IF 5 * e > 4 * Total THEN "AT_RISK" ELSE "OK"

Compare ==
    /\ stage = "measure" /\ cursor >= now
    /\ effective' = LessPause(seconds, pause.length)
    /\ status' = StatusOf(effective')
    /\ stage' = "done"
    /\ UNCHANGED <<input, cursor, remaining, seconds, deadline, now, pause>>

SlaNext == AddMinute \/ AddReturns \/ SlaStatus \/ MeasureMinute \/ Compare

SlaSpec == SlaInit /\ [][SlaNext]_SlaVars

\* The loops run in one thread that nothing interrupts; the ticket's status is asked.
FairSpec == SlaSpec /\ WF_SlaVars(SlaNext)
-----------------------------------------------------------------------------
\* The reference: the ticks at which the business is open, day by day.
Opening(d, c) == d * DayTicks + c.startHour * Minutes * Tick - Shift
Closing(d, c) == d * DayTicks + c.endHour * Minutes * Tick - Shift
\* The hour a build calls 24 is never served, wherever the working day begins.
Unserved(d, c) == IF c.midnight = 0 THEN {} ELSE
    (d * DayTicks - Shift)..(d * DayTicks + Minutes * Tick - Shift - 1)
OpenTicks(c, from, to) ==
    {t \in from..(to - 1) :
        \E d \in 0..((to + Shift) \div DayTicks) :
           /\ d % Days \notin Weekend /\ d \notin c.holidays
           /\ t \in (Opening(d, c)..(Closing(d, c) - 1)) \ Unserved(d, c)}
Open(from, to) == Cardinality(OpenTicks(calendar, from, to))
Abs(n) == IF n < 0 THEN -n ELSE n
PausedFrom == start + pause.after
PausedTo == PausedFrom + pause.length
OpenUnpaused == Open(start, now) - Open(PausedFrom, PausedTo)

\* Every variable keeps its shape; no business time is negative.
SlaTypeOK ==
    /\ calendar \in Calendars /\ start \in Starts /\ slaHours \in Totals
    /\ cursor \in Nat /\ remaining \in Nat /\ deadline \in Nat
    /\ now \in Int /\ seconds \in Nat /\ effective \in Nat
    /\ pause.after \in Nat /\ pause.length \in Nat
    /\ status \in {"OK", "AT_RISK", "BREACHED"}
    /\ stage \in {"add", "wait", "measure", "done"}

\* addBusinessHours: the business is open at the deadline, and has been open
\* between the creation and the deadline for the total, or up to a minute less,
\* over nights, weekends, holidays and creations between two minutes.
DeadlineInOpenTime ==
    stage # "add" /\ slaHours > 0 =>
        /\ Open(deadline, deadline + 1) = 1
        /\ Open(start, deadline) \in (Total - Tick)..Total

\* The two functions agree with each other: an unpaused ticket is not breached
\* up to its deadline, and breached once two minutes of business have passed since.
DeadlineAgrees ==
    stage = "done" /\ pause.length = 0 =>
        /\ now <= deadline => status # "BREACHED"
        /\ Open(deadline, now) >= 2 * Tick => status = "BREACHED"

\* Pauses are wall-clock time taken from business time, so one that spans a night
\* or a weekend excuses time that was worked; but time paused is never counted as
\* worked, to two minutes (one of the sampling, one the loop runs over the end), and
\* a pause inside the opening times is taken off as long as it was.
PauseNeverCharged ==
    stage = "done" =>
        /\ effective < OpenUnpaused + 2 * Tick
        /\ Open(PausedFrom, PausedTo) = pause.length => Abs(effective - OpenUnpaused) < 2 * Tick

\* The loops end wherever the calendar has business minutes.  Where it has none
\* (startHour >= endHour) addBusinessHours runs to the bound, and would for ever.
HasBusinessMinutes == \E t \in start..(start + Days * DayTicks) : Open(t, t + 1) = 1
Ends == /\ (HasBusinessMinutes ~> stage = "done")
        /\ [](~HasBusinessMinutes /\ slaHours > 0 => stage = "add")
=============================================================================

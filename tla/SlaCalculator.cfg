SPECIFICATION FairSpec
CONSTANTS
    Tick = 2
    Minutes = 2
    Hours = 3
    Days = 3
    Shift = 4
    Horizon = 160
    Weekend <- MCWeekend
    Calendars <- MCCalendars
    Starts <- MCStarts
    Totals <- MCTotals
    Delays <- MCDelays
    Pauses <- MCPauses
INVARIANTS SlaTypeOK DeadlineInOpenTime DeadlineAgrees PauseNeverCharged
PROPERTIES Ends
CHECK_DEADLOCK FALSE

\* One request with a long answer of four slices, two events and two pings.
SPECIFICATION FairStreamSpec
CONSTANTS
    Slices = 4
    MaxEvents = 2
    MaxPings = 2
INVARIANTS
    DoneIsLast
    FinishedIsReleased
    NoFrameMissed
    StopShowsAnswerOnce
PROPERTY
    RunEndEndsStream
CHECK_DEADLOCK FALSE

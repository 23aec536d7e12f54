\* The write of `running' answered after that of the run's end.
SPECIFICATION RunSpec
CONSTANTS
    c1 = c1
    c2 = c2
    h1 = h1
    r1 = r1
    r2 = r2
    NoConn = NoConn
    NoHost = NoHost
    NoRun = NoRun
    Hosts <- OneHost
    Conns <- ConnsAll
    HostOf <- OneHostOf
    Allowed <- ConnsAll
    Runs = {r1}
    HeartbeatIds <- NoIds
    MaxSeq = 1
    Faults = {"reaper"}
    MaxEvents = 0
    FinalMessages = {TRUE}
    MaxInFlight = 2
    PendingLimit = 2
    Resends = {}
    ResendFrom = {"pending"}
PROPERTY
    TerminalStatusIsFinal
CHECK_DEADLOCK FALSE

\* One run of the Go host under fairness, every connection fault.
SPECIFICATION FairRunSpec
CONSTANTS
    c1 = c1
    c2 = c2
    h1 = h1
    r1 = r1
    r2 = r2
    NoConn = NoConn
    NoHost = NoHost
    NoRun = NoRun
    Hosts <- OneHost
    Conns <- ConnsAll
    HostOf <- OneHostOf
    Allowed <- ConnsAll
    Runs = {r1}
    HeartbeatIds <- NoIds
    MaxSeq = 1
    Faults = {"zombie", "revoke", "lapse"}
    MaxEvents = 0
    FinalMessages = {TRUE, FALSE}
    MaxInFlight = 2
    PendingLimit = 2
    Resends = {}
    ResendFrom = {"pending"}
PROPERTIES
    DispatchedRunEnds
    ShownAnswerIsKept
CHECK_DEADLOCK FALSE

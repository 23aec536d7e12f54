\* A frame queued behind a dying socket is executed at the next registration.
SPECIFICATION RunSpec
CONSTANTS
    c1 = c1
    c2 = c2
    h1 = h1
    r1 = r1
    r2 = r2
    NoConn = NoConn
    NoHost = NoHost
    NoRun = NoRun
    Hosts <- OneHost
    Conns <- ConnsAll
    HostOf <- OneHostOf
    Allowed <- ConnsAll
    Runs = {r1}
    HeartbeatIds <- NoIds
    MaxSeq = 1
    Faults = {}
    MaxEvents = 0
    FinalMessages = {TRUE}
    MaxInFlight = 2
    PendingLimit = 2
    Resends = {}
    ResendFrom = {"pending"}
PROPERTY
    PendingIsNotExecuted
CHECK_DEADLOCK FALSE

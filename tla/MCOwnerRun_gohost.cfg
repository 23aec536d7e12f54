\* A request and its resend, a Go host that reconnects, dead registrations.
SPECIFICATION RunSpec
CONSTANTS
    c1 = c1
    c2 = c2
    h1 = h1
    r1 = r1
    r2 = r2
    NoConn = NoConn
    NoHost = NoHost
    NoRun = NoRun
    Hosts <- OneHost
    Conns <- ConnsAll
    HostOf <- OneHostOf
    Allowed <- ConnsAll
    Runs = {r1, r2}
    HeartbeatIds <- NoIds
    MaxSeq = 1
    Faults = {"zombie"}
    MaxEvents = 0
    FinalMessages = {TRUE}
    MaxInFlight = 2
    PendingLimit = 2
    Resends = {r2}
    ResendFrom = {"pending"}
SYMMETRY ConnSymmetry
INVARIANTS
    RunTypeOK
    OneAnswer
    NoFalseFailure
CHECK_DEADLOCK FALSE

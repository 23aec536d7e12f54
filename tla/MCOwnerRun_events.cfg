\* One run of a host that sends events, a database that fails, the reaper.
SPECIFICATION RunSpec
CONSTANTS
    c1 = c1
    c2 = c2
    h1 = h1
    r1 = r1
    r2 = r2
    NoConn = NoConn
    NoHost = NoHost
    NoRun = NoRun
    Hosts <- OneHost
    Conns <- ConnsAll
    HostOf <- OneHostOf
    Allowed = {c1}
    Runs = {r1}
    HeartbeatIds <- NoIds
    MaxSeq = 3
    Faults = {"database", "reaper"}
    MaxEvents = 2
    FinalMessages = {TRUE, FALSE}
    MaxInFlight = 1
    PendingLimit = 2
    Resends = {}
    ResendFrom = {"pending"}
INVARIANTS
    CompletedHasAnswer
    CompletedStreamsAllEvents
PROPERTY
    PublishedAsPromised
CHECK_DEADLOCK FALSE
CONSTRAINT ReaperOrSecond

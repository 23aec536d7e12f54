\* A message and its retry, a reply and a stream; runtimes that replace one
\* another, a visitor that reconnects, and outages of Redis.
SPECIFICATION ChatSpec
CONSTANTS
    g1 = g1
    g2 = g2
    v1 = v1
    v2 = v2
    v3 = v3
    a1 = a1
    t1 = t1
    t2 = t2
    q1 = q1
    id1 = id1
    f1 = f1
    f2 = f2
    m1 = m1
    s1 = s1
    NoConn = NoConn
    AgentConns = {g1, g2}
    VisitorConns = {v1, v2, v3}
    Agents = {a1}
    Tokens = {t1, t2}
    QrCodes = {q1}
    AgentOf <- AgentOfMC
    TokenOf <- TokenOfMC
    QrOf <- QrOfMC
    Mortal = {g1, v1}
    ServedBy <- ServedByMC
    Frames = {f1, f2}
    IdOf <- IdOfMC
    Replies = {m1}
    Streams = {s1}
    On <- OnMC
    To <- ToMC
    Chunks = 2
    MaxQueue = 1
    RedisFails = TRUE
    Scenarios <- ScenariosMC
INVARIANTS
    MapsAgree
    RuntimeKeepsRoutes
    RegisteredWhileOpen
    HandedOverOnce
    AcceptedIsAccountedFor
    RejectedIsNotDelivered
    OnlyItsConversation
    StoredStreamIsPrefix
PROPERTIES
    SessionLostOnlyWithin
CHECK_DEADLOCK FALSE

SPECIFICATION PluginSpec

CONSTANTS
    w1 = w1
    w2 = w2
    w3 = w3
    m1 = m1
    m2 = m2
    m3 = m3
    Socks = {w1, w2, w3}
    NoSock = NoSock
    Msgs = {m1, m2, m3}
    Replies = {m3}
    MaxAttempts = 2
    Capacity = 2
    Limit = 2
    Scenarios <- ScenariosMC

SYMMETRY SymmetryMC

INVARIANTS
    PluginTypeOK
    KeepsTrying
    OneAttempt
    DispatchedOnce

PROPERTIES
    DisconnectIsFinal
    MissedBehindSeen

\* The connection gives up after MaxAttempts, and ends with a disconnect.
CHECK_DEADLOCK FALSE

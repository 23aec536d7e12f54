\* Replacement, flush, revocation and sweeps of two hosts with two runs.
SPECIFICATION Spec
CONSTANTS
    c1 = c1
    c2 = c2
    c3 = c3
    h1 = h1
    h2 = h2
    r1 = r1
    r2 = r2
    NoConn = NoConn
    NoHost = NoHost
    Hosts <- TwoHosts
    Conns <- ThreeConns
    HostOf <- TwoHostsOf
    Allowed <- ThreeConns
    Runs = {r1, r2}
    HeartbeatIds <- NoIds
    MaxSeq = 1
SYMMETRY Symmetric
INVARIANTS
    AtMostOnceDispatch
    RightHost
    EntryIsLive
    TrackedRunsWereSent
PROPERTIES
    ForgottenOnlyBySweep
    DispatchSpec
CHECK_DEADLOCK FALSE

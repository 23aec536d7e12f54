\* A host that registered again is forgotten by a sweep under way.
SPECIFICATION Spec
CONSTANTS
    c1 = c1
    c2 = c2
    c3 = c3
    h1 = h1
    h2 = h2
    r1 = r1
    r2 = r2
    NoConn = NoConn
    NoHost = NoHost
    Hosts <- TwoHosts
    Conns <- ThreeConns
    HostOf <- TwoHostsOf
    Allowed <- ThreeConns
    Runs = {r1}
    HeartbeatIds <- NoIds
    MaxSeq = 1
SYMMETRY Symmetric
INVARIANT
    OpenHostIsRegistered
CHECK_DEADLOCK FALSE

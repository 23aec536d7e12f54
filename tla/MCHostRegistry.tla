-------------------------- MODULE MCHostRegistry --------------------------
(* Small instances of HostRegistry for TLC.                                *)
EXTENDS HostRegistry, TLC

CONSTANTS c1, c2, c3, h1, h2, r1, r2

\* Two hosts, h1 with two connections: replacement and flush at h1, and sweeps
\* that evict one host while the other registers again.
TwoHosts == {h1, h2}
ThreeConns == {c1, c2, c3}
TwoHostsOf == [c \in ThreeConns |-> IF c = c3 THEN h2 ELSE h1]

\* The Go host's heartbeat carries no active run ids.
NoIds == {{}}

\* The two connections of h1 and the runs differ in nothing.
Symmetric == Permutations({c1, c2}) \cup Permutations({r1, r2})
=============================================================================

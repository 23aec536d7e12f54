---------------------------- MODULE MCOwnerRun ----------------------------
(* Small instances of OwnerRun for TLC.                                    *)
EXTENDS OwnerRun, TLC

CONSTANTS c1, c2, h1, r1, r2

OneHost == {h1}
ConnsAll == {c1, c2}
OneHostOf == [c \in ConnsAll |-> h1]

\* The Go host's heartbeat carries no active run ids; a host of the protocol
\* lists the runs it executes.
NoIds == {{}}
AllIds == {Runs}

\* A bound: the reaper is not at work once the second connection is used.
ReaperOrSecond ==
    socket[c2] = "new" \/ \A r \in Runs :
        runRow[r].code # "timeout" /\ \A j \in jobs : j.kind # "timeout"

RunSymmetry == Permutations({r1, r2})
ConnSymmetry == Permutations({c1, c2})
Symmetric == RunSymmetry \cup ConnSymmetry
===========================================================================

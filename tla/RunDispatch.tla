---------------------------- MODULE RunDispatch ----------------------------
(***************************************************************************)
(* What the host registry promises about the frames it is given: each is   *)
(* handed to the host's connections at most once, either when it is        *)
(* submitted or at a later registration of the host, and it is lost only   *)
(* by a flush that stopped at another frame of the same host.              *)
(***************************************************************************)
CONSTANTS Hosts, Runs, NoHost

VARIABLES
    status,  \* status[r]: "idle", "queued", "sent" or "lost"
    target   \* target[r]: the host the run was dispatched to

Init ==
    /\ status = [r \in Runs |-> "idle"]
    /\ target = [r \in Runs |-> NoHost]

Queued(h) == {r \in Runs : status[r] = "queued" /\ target[r] = h}

\* sendRunToHost
Submit(h, r) ==
    /\ target[r] = NoHost
    /\ target' = [target EXCEPT ![r] = h]
    /\ \E s \in {"sent", "queued"} : status' = [status EXCEPT ![r] = s]

\* flushPendingDispatches, to its end
FlushAll(h) ==
    /\ status' = [r \in Runs |-> IF r \in Queued(h) THEN "sent" ELSE status[r]]
    /\ UNCHANGED target

\* flushPendingDispatches, stopped at the frame of `stuck'
FlushStopped(h, stuck, sent) ==
    /\ stuck \in Queued(h)
    /\ sent \subseteq Queued(h) \ {stuck}
    /\ status' = [r \in Runs |-> IF r \in sent THEN "sent"
                                 ELSE IF r \in Queued(h) \ {stuck} THEN "lost"
                                 ELSE status[r]]
    /\ UNCHANGED target

Next ==
    \E h \in Hosts :
        \/ \E r \in Runs : Submit(h, r)
        \/ FlushAll(h)
        \/ \E stuck \in Runs : \E sent \in SUBSET Runs : FlushStopped(h, stuck, sent)

Spec == Init /\ [][Next]_<<status, target>>

=============================================================================

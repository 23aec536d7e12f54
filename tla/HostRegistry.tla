---------------------------- MODULE HostRegistry ----------------------------
(***************************************************************************)
(* The gateway's in-memory registry of agent hosts                         *)
(* (gateway/src/services/agent-host-registry.ts) with the part of the      *)
(* WebSocket life cycle that drives it (gateway/src/ws/handler.ts).        *)
(*                                                                         *)
(* A host process opens a connection, registers once on it, heartbeats,    *)
(* and is handed run-request frames.  The registry keeps one entry per     *)
(* host (`hostConnections'), the runs it believes are executing            *)
(* (`activeRuns', here activeHost and lastSeq) and, per host, the frames   *)
(* it could not send (`pendingDispatches').  Everything runs on one event  *)
(* loop: an action is the code between two awaits.                         *)
(*                                                                         *)
(* Left out: unregisterHostConnection and cancelRunsForConversation, which *)
(* no code under gateway/src calls, the provider lists of an entry, and    *)
(* the result 'dropped_invalid' (only in the strict outbound mode).        *)
(***************************************************************************)
EXTENDS Naturals, Sequences

CONSTANTS
    Hosts,        \* host ids
    Conns,        \* WebSocket connections of hosts, each used once
    Runs,         \* run ids, each dispatched once (a resend has a new run id)
    HostOf,       \* the host id in the register frame of a connection
    Allowed,      \* connections whose host token admits that registration
    HeartbeatIds, \* the active_run_ids lists a heartbeat may carry
    MaxSeq,       \* bound on the sequence numbers of run frames
    NoConn, NoHost

ASSUME HostOfAssumption == HostOf \in [Conns -> Hosts]
ASSUME AllowedAssumption == Allowed \subseteq Conns
ASSUME NoConnAssumption == NoConn \notin Conns
ASSUME NoHostAssumption == NoHost \notin Hosts
ASSUME HeartbeatIdsAssumption == HeartbeatIds \subseteq SUBSET Runs
ASSUME MaxSeqAssumption == MaxSeq \in Nat

VARIABLES
    socket,            \* socket[c]: see SocketStates
    hostConnections,   \* hostConnections[h]: the entry of host h
    lastSeen,          \* lastSeen[c]: lastSeenAt of the entry made for c
    activeHost,        \* activeHost[r]: hostId of r's entry in activeRuns
    lastSeq,           \* lastSeq[r]: its lastSeq; 0 when there is no entry
    pendingDispatches, \* pendingDispatches[h]: the frames waiting for host h
    wire,              \* wire[c]: the runs whose frames ws.send took, in order
    target,            \* target[r]: the host r was dispatched to (history)
    sweep              \* sweep[c]: rest of the sweep that evicted c first

registryVars == <<socket, hostConnections, lastSeen, activeHost, lastSeq,
                  pendingDispatches, wire, target, sweep>>

(***************************************************************************)
(* new      not connected yet                                              *)
(* open     authenticated, readyState OPEN                                 *)
(* closing  the gateway called close(); frames of the peer still arrive    *)
(* ended    the peer is gone; the close event is still to be delivered     *)
(* closed   the close handler has run                                      *)
(* zombie   died while its ticket was being verified: the close event was  *)
(*          emitted before the close handler was attached                  *)
(***************************************************************************)
SocketStates == {"new", "open", "closing", "ended", "closed", "zombie"}
SeenStates == {"never", "fresh", "stale"}

TypeOK ==
    /\ socket \in [Conns -> SocketStates]
    /\ hostConnections \in [Hosts -> Conns \cup {NoConn}]
    /\ lastSeen \in [Conns -> SeenStates]
    /\ activeHost \in [Runs -> Hosts \cup {NoHost}]
    /\ lastSeq \in [Runs -> 0 .. MaxSeq]
    /\ pendingDispatches \in [Hosts -> Seq(Runs)]
    /\ wire \in [Conns -> Seq(Runs)]
    /\ target \in [Runs -> Hosts \cup {NoHost}]
    /\ sweep \in [Conns -> SUBSET (Hosts \X Conns)]

Init ==
    /\ socket = [c \in Conns |-> "new"]
    /\ hostConnections = [h \in Hosts |-> NoConn]
    /\ lastSeen = [c \in Conns |-> "never"]
    /\ activeHost = [r \in Runs |-> NoHost]
    /\ lastSeq = [r \in Runs |-> 0]
    /\ pendingDispatches = [h \in Hosts |-> <<>>]
    /\ wire = [c \in Conns |-> <<>>]
    /\ target = [r \in Runs |-> NoHost]
    /\ sweep = [c \in Conns |-> {}]

-----------------------------------------------------------------------------
(* Helpers.                                                                *)

Elems(s) == {s[i] : i \in 1 .. Len(s)}

\* hasHostConnection
HasHostConnection(h) == hostConnections[h] # NoConn

Tracked(r) == activeHost[r] # NoHost

\* Slip: the replaced, revoked or evicted connection is not closed.
CloseForgotten(s, c) == s

\* ws.close(): a socket that is not OPEN any more stays as it is.
Close(s, c) == IF s[c] = "open" THEN [s EXCEPT ![c] = "closing"] ELSE s

\* The peer of c can still have a frame delivered.
Receiving(c) == socket[c] \in {"open", "closing"}

\* Snapshot entries older than HOST_HEARTBEAT_TIMEOUT_MS.
StaleEntries == {<<h, hostConnections[h]>> : h \in
                    {g \in Hosts : /\ HasHostConnection(g)
                                   /\ lastSeen[hostConnections[g]] = "stale"}}

\* trackActiveRun for every run of S
TrackActiveRuns(S, h) ==
    /\ activeHost' = [r \in Runs |-> IF r \in S THEN h ELSE activeHost[r]]
    /\ lastSeq' = [r \in Runs |-> IF r \in S THEN 0 ELSE lastSeq[r]]

\* activeRuns.delete for every run of S
DropActiveRuns(S) ==
    /\ activeHost' = [r \in Runs |-> IF r \in S THEN NoHost ELSE activeHost[r]]
    /\ lastSeq' = [r \in Runs |-> IF r \in S THEN 0 ELSE lastSeq[r]]

-----------------------------------------------------------------------------
(* The life of a socket.                                                   *)

\* handleConnection, completeAuth: the close handler is attached.
Connect(c) ==
    /\ socket[c] = "new"
    /\ socket' = [socket EXCEPT ![c] = "open"]
    /\ UNCHANGED <<hostConnections, lastSeen, activeHost, lastSeq,
                   pendingDispatches, wire, target, sweep>>

\* The same, but the peer died while verifyTicket was awaited.  Its register
\* frame, if it sent one, was buffered and is still handled.
ConnectDead(c) ==
    /\ socket[c] = "new"
    /\ socket' = [socket EXCEPT ![c] = "zombie"]
    /\ UNCHANGED <<hostConnections, lastSeen, activeHost, lastSeq,
                   pendingDispatches, wire, target, sweep>>

\* The host process exits or its network connection breaks.
PeerClose(c) ==
    /\ socket[c] = "open"
    /\ socket' = [socket EXCEPT ![c] = "ended"]
    /\ UNCHANGED <<hostConnections, lastSeen, activeHost, lastSeq,
                   pendingDispatches, wire, target, sweep>>

\* Slip: the close handler does not find the entry.
EntriesKept(c) == hostConnections

\* unregisterHostConnectionByConnectionId: the entry goes only if it is c's.
EntriesWithout(c) ==
    [h \in Hosts |-> IF hostConnections[h] = c THEN NoConn ELSE hostConnections[h]]

\* The close event.
CloseEvent(c) ==
    /\ socket[c] \in {"closing", "ended"}
    /\ socket' = [socket EXCEPT ![c] = "closed"]
    /\ hostConnections' = EntriesWithout(c)
    /\ UNCHANGED <<lastSeen, activeHost, lastSeq, pendingDispatches, wire,
                   target, sweep>>

-----------------------------------------------------------------------------
(* Registration and the flush of the host's pending frames.                *)

\* Slips: a stopped flush keeps the whole queue, or not even one frame.
RemainderAll(q, k) == IF k < Len(q) THEN q ELSE <<>>
RemainderNone(q, k) == <<>>

\* What stays of a queue whose first k frames were sent: the frame that fails
\* is queued again, alone.
RemainderAfter(q, k) == IF k < Len(q) THEN <<q[k + 1]>> ELSE <<>>

\* Slips: frames of every host are flushed; queued frames count as executing.
FlushAnyHost(h, c, k) ==
    \E g \in Hosts :
        LET q == pendingDispatches[g]
        IN  /\ k <= Len(q)
            /\ wire' = [wire EXCEPT ![c] = @ \o SubSeq(q, 1, k)]
            /\ pendingDispatches' = [pendingDispatches EXCEPT ![g] = RemainderAfter(q, k)]
            /\ TrackActiveRuns(Elems(SubSeq(q, 1, k)), h)

FlushTracksAll(h, c, k) ==
    LET q == pendingDispatches[h]
    IN  /\ wire' = [wire EXCEPT ![c] = @ \o SubSeq(q, 1, k)]
        /\ pendingDispatches' = [pendingDispatches EXCEPT ![h] = RemainderAfter(q, k)]
        /\ TrackActiveRuns(Elems(q), h)

\* flushPendingDispatches(h) when ws.send takes the first k frames of the
\* queue: the queue is deleted first, and the first failure stops the loop.
FlushPendingDispatches(h, c, k) ==
    LET q == pendingDispatches[h]
        sent == SubSeq(q, 1, k)
    IN  /\ wire' = [wire EXCEPT ![c] = @ \o sent]
        /\ pendingDispatches' = [pendingDispatches EXCEPT ![h] = RemainderAfter(q, k)]
        /\ TrackActiveRuns(Elems(sent), h)

\* registerHostConnection, and handleHostRegister up to its first await.
\* A host registers once per connection.
RegisterHostConnection(c) ==
    LET h == HostOf[c]
        old == hostConnections[h]
    IN  /\ socket[c] \in {"open", "zombie"}
        /\ lastSeen[c] = "never"
        /\ c \in Allowed
        /\ socket' = IF old \in Conns THEN Close(socket, old) ELSE socket
        /\ hostConnections' = [hostConnections EXCEPT ![h] = c]
        /\ lastSeen' = [lastSeen EXCEPT ![c] = "fresh"]
        /\ \E k \in 0 .. Len(pendingDispatches[h]) :
              /\ socket[c] = "zombie" => k = 0
              /\ FlushPendingDispatches(h, c, k)
        /\ UNCHANGED <<target, sweep>>

\* handleHostRegister when the token's scope does not allow it.
RejectRegistration(c) ==
    /\ socket[c] = "open"
    /\ lastSeen[c] = "never"
    /\ c \notin Allowed
    /\ socket' = Close(socket, c)
    /\ UNCHANGED <<hostConnections, lastSeen, activeHost, lastSeq,
                   pendingDispatches, wire, target, sweep>>

\* handleHostRegister
HandleHostRegister(c) ==
    IF c \in Allowed THEN RegisterHostConnection(c) ELSE RejectRegistration(c)

-----------------------------------------------------------------------------
(* Heartbeats, capabilities, revocation and the sweep of stale entries.    *)

\* The entry of h is seen now.  A sweep under way keeps the time it started
\* with, so it does not evict this entry any more.
SeenNow(h) ==
    /\ lastSeen' = [lastSeen EXCEPT ![hostConnections[h]] = "fresh"]
    /\ sweep' = [c \in Conns |-> sweep[c] \ {<<h, hostConnections[h]>>}]

\* handleHostHeartbeat / touchHostConnection.  The entry touched is the one
\* of the host id in the frame, whichever connection brought the frame.
TouchHostConnection(c, ids) ==
    LET h == HostOf[c]
    IN  /\ Receiving(c)
        /\ HasHostConnection(h)
        /\ SeenNow(h)
        /\ DropActiveRuns({r \in Runs : activeHost[r] = h /\ r \notin ids})
        /\ UNCHANGED <<socket, hostConnections, pendingDispatches, wire, target>>

\* handleHostCapabilitiesUpdated / updateHostCapabilities.
UpdateHostCapabilities(c) ==
    LET h == HostOf[c]
    IN  /\ Receiving(c)
        /\ HasHostConnection(h)
        /\ SeenNow(h)
        /\ UNCHANGED <<socket, hostConnections, activeHost, lastSeq,
                       pendingDispatches, wire, target>>

\* 90 seconds pass without a frame that refreshes the entry made for c.
Lapse(c) ==
    /\ lastSeen[c] = "fresh"
    /\ hostConnections[HostOf[c]] = c
    /\ lastSeen' = [lastSeen EXCEPT ![c] = "stale"]
    /\ UNCHANGED <<socket, hostConnections, activeHost, lastSeq,
                   pendingDispatches, wire, target, sweep>>

\* revokeHostConnection, when the token of h is deleted.
RevokeHostConnection(h) ==
    /\ HasHostConnection(h)
    /\ hostConnections' = [hostConnections EXCEPT ![h] = NoConn]
    /\ socket' = Close(socket, hostConnections[h])
    /\ UNCHANGED <<lastSeen, activeHost, lastSeq, pendingDispatches, wire,
                   target, sweep>>

\* One iteration of cleanupStaleHostConnections, up to the await of the
\* offline write: the entry is deleted by host id, the connection of the
\* snapshot is closed.
Evict(h, c) ==
    /\ hostConnections' = [hostConnections EXCEPT ![h] = NoConn]
    /\ socket' = Close(socket, c)

\* The heartbeat timer of connection t starts a sweep: snapshot and first
\* iteration.  Its own last sweep, like those of others, may still be under way.
\* As a connection is registered once, it is the first of one sweep at most.
SweepBegin(t) ==
    /\ socket[t] = "open"
    /\ \E entry \in StaleEntries :
          /\ Evict(entry[1], entry[2])
          /\ sweep' = [sweep EXCEPT ![entry[2]] = StaleEntries \ {entry}]
    /\ UNCHANGED <<lastSeen, activeHost, lastSeq, pendingDispatches, wire, target>>

\* The offline write of the previous iteration has answered.
SweepContinue(c) ==
    /\ \E entry \in sweep[c] :
          /\ Evict(entry[1], entry[2])
          /\ sweep' = [sweep EXCEPT ![c] = @ \ {entry}]
    /\ UNCHANGED <<lastSeen, activeHost, lastSeq, pendingDispatches, wire, target>>

\* The offline write failed: the rejection ends the loop.
SweepAbort(c) ==
    /\ sweep[c] # {}
    /\ sweep' = [sweep EXCEPT ![c] = {}]
    /\ UNCHANGED <<socket, hostConnections, lastSeen, activeHost, lastSeq,
                   pendingDispatches, wire, target>>

-----------------------------------------------------------------------------
(* Dispatch of a run (sendRunToHost, dispatchRunFrame).                    *)

DispatchSent(h, r) ==
    /\ target[r] = NoHost
    /\ HasHostConnection(h)
    /\ socket[hostConnections[h]] = "open"
    /\ target' = [target EXCEPT ![r] = h]
    /\ wire' = [wire EXCEPT ![hostConnections[h]] = Append(@, r)]
    /\ TrackActiveRuns({r}, h)
    /\ UNCHANGED <<socket, hostConnections, lastSeen, pendingDispatches, sweep>>

\* No entry, a socket that is not OPEN, or (even when it is) backpressure.
DispatchQueued(h, r) ==
    /\ target[r] = NoHost
    /\ target' = [target EXCEPT ![r] = h]
    /\ pendingDispatches' = [pendingDispatches EXCEPT ![h] = Append(@, r)]
    /\ UNCHANGED <<socket, hostConnections, lastSeen, activeHost, lastSeq,
                   wire, sweep>>

-----------------------------------------------------------------------------
(* What the run handlers of ws/host-router.ts record.                      *)

\* recordRunAccepted keeps the lastSeq of an existing entry.
RecordRunAccepted(h, r) ==
    /\ activeHost' = [activeHost EXCEPT ![r] = h]
    /\ UNCHANGED <<socket, hostConnections, lastSeen, lastSeq,
                   pendingDispatches, wire, target, sweep>>

\* recordRunSeq: nothing without an entry.
RecordRunSeq(r, s) ==
    /\ lastSeq' = IF Tracked(r) THEN [lastSeq EXCEPT ![r] = s] ELSE lastSeq
    /\ UNCHANGED <<socket, hostConnections, lastSeen, activeHost,
                   pendingDispatches, wire, target, sweep>>

ClearActiveRun(r) ==
    /\ DropActiveRuns({r})
    /\ UNCHANGED <<socket, hostConnections, lastSeen, pendingDispatches, wire,
                   target, sweep>>

-----------------------------------------------------------------------------
(* The registry on its own.  A frame about a run comes from a host that    *)
(* was sent the run; its handler may finish after the connection is gone.  *)

ConnectionStep(c) ==
    \/ Connect(c)
    \/ ConnectDead(c)
    \/ PeerClose(c)
    \/ CloseEvent(c)
    \/ HandleHostRegister(c)
    \/ \E ids \in HeartbeatIds : TouchHostConnection(c, ids)
    \/ UpdateHostCapabilities(c)
    \/ Lapse(c)
    \/ SweepBegin(c)
    \/ SweepContinue(c)
    \/ SweepAbort(c)

RunStep(r) ==
    \/ \E h \in Hosts : DispatchSent(h, r) \/ DispatchQueued(h, r)
    \/ \E c \in Conns :
          /\ r \in Elems(wire[c])
          /\ \/ RecordRunAccepted(HostOf[c], r)
             \/ \E s \in 1 .. MaxSeq : RecordRunSeq(r, s)
             \/ ClearActiveRun(r)

Next ==
    \/ \E c \in Conns : ConnectionStep(c)
    \/ \E h \in Hosts : RevokeHostConnection(h)
    \/ \E r \in Runs : RunStep(r)

Spec == Init /\ [][Next]_registryVars

-----------------------------------------------------------------------------
(* Properties.                                                             *)

\* A run frame is handed to sockets at most once in the life of the gateway,
\* and a frame that waits in a queue has not been sent: a run is not executed
\* twice because its host reconnected (flushPendingDispatches empties the
\* queue before it dispatches, and requeues only the frame that failed).
AtMostOnceDispatch ==
    /\ \A c, d \in Conns : \A i \in 1 .. Len(wire[c]), j \in 1 .. Len(wire[d]) :
          wire[c][i] = wire[d][j] => c = d /\ i = j
    /\ \A g, h \in Hosts : \A i \in 1 .. Len(pendingDispatches[g]),
                              j \in 1 .. Len(pendingDispatches[h]) :
          pendingDispatches[g][i] = pendingDispatches[h][j] => g = h /\ i = j
    /\ \A c \in Conns, h \in Hosts :
          \A i \in 1 .. Len(wire[c]), j \in 1 .. Len(pendingDispatches[h]) :
             wire[c][i] # pendingDispatches[h][j]

\* A frame goes to, or waits for, the host its run was dispatched to and no
\* other, through every replacement of that host's connection.
RightHost ==
    /\ \A c \in Conns : \A i \in 1 .. Len(wire[c]) : target[wire[c][i]] = HostOf[c]
    /\ \A h \in Hosts : \A i \in 1 .. Len(pendingDispatches[h]) :
          target[pendingDispatches[h][i]] = h

\* An entry never outlives the run of its connection's close handler: whatever
\* the order of registrations, sweeps, revocations and closes, the handler finds
\* the entry by its connection id, or the entry is someone else's.  (A zombie has
\* no handler, so its entry stays until a sweep or a replacement.)  And only a
\* connection whose token admits the host ever is its entry.
EntryIsLive ==
    \A h \in Hosts : HasHostConnection(h) =>
        LET c == hostConnections[h]
        IN  /\ socket[c] \notin {"new", "closed"}
            /\ lastSeen[c] # "never"
            /\ c \in Allowed
            /\ HostOf[c] = h

\* activeRuns holds only runs whose frame really went out to that host: a
\* frame that was queued or dropped is not tracked as executing.
TrackedRunsWereSent ==
    \A r \in Runs : Tracked(r) =>
        \E c \in Conns : HostOf[c] = activeHost[r] /\ r \in Elems(wire[c])

\* A registered host whose socket is still OPEN is the entry of its host, so
\* a dispatch finds it (`the in-memory registry maintains the host
\* connections', owner-agent-chat-technical-specification.md:365).  The code
\* does not keep this: see ForgottenOnlyBySweep.
OpenHostIsRegistered ==
    \A c \in Conns : socket[c] = "open" /\ lastSeen[c] # "never"
                        => hostConnections[HostOf[c]] = c

\* A replacement, a revocation, a close event or the first eviction of a sweep
\* never forgets a connection that stays OPEN.  Only a later eviction can: its
\* snapshot holds an older connection of a host that has registered again
\* while the sweep awaited the offline write of another host.
ForgottenOnlyBySweep ==
    [][\A c \in Conns :
          /\ hostConnections[HostOf[c]] = c
          /\ hostConnections'[HostOf[c]] # c
          /\ socket'[c] = "open"
          => \E t, d \in Conns : d # c /\ <<HostOf[c], d>> \in sweep[t]]_registryVars

\* The abstract dispatcher: idle, queued, sent or lost.
DispatchStatus ==
    [r \in Runs |->
        IF target[r] = NoHost THEN "idle"
        ELSE IF \E c \in Conns : r \in Elems(wire[c]) THEN "sent"
        ELSE IF r \in Elems(pendingDispatches[target[r]]) THEN "queued"
        ELSE "lost"]

Dispatch == INSTANCE RunDispatch WITH status <- DispatchStatus

\* The registry implements RunDispatch: a frame is lost only by a flush that
\* stopped at another frame of the same host, which is queued again.
DispatchSpec == Dispatch!Spec

=============================================================================

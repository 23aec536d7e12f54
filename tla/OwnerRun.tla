------------------------------ MODULE OwnerRun ------------------------------
(***************************************************************************)
(* A run of an owner's agent, end to end: the HTTP request that creates    *)
(* and dispatches it (gateway/src/services/owner-agent-chat.ts), the host  *)
(* that executes it (qrclaw-agent-host), the gateway's handlers of the     *)
(* host's frames (gateway/src/ws/host-router.ts) and the rows they write   *)
(* (gateway/src/db/owner-agent-chat.ts), composed with HostRegistry.       *)
(*                                                                         *)
(* Handlers are not awaited by the socket (ws/handler.ts:457): each runs   *)
(* up to its first await in one step, and its database writes are jobs     *)
(* that may be answered in any order.  A write and the code that resumes   *)
(* when it is answered are one step.  All runs are of one conversation     *)
(* and one host.                                                           *)
(***************************************************************************)
EXTENDS HostRegistry, FiniteSets

CONSTANTS
    Faults,        \* which of the things that can go wrong do
    MaxEvents,     \* events a host sends per run (the Go host sends none)
    FinalMessages, \* can a completion carry a final_message, and can it not?
    MaxInFlight,   \* maxInFlightEvents of the host router
    PendingLimit,  \* PENDING_MESSAGE_LIMIT
    Resends,       \* the run ids that are given to resends
    ResendFrom,    \* bound: where the replaced request stands at a resend
    NoRun

ASSUME OneHostAssumption == Cardinality(Hosts) = 1
ASSUME FaultsAssumption == Faults \subseteq {"zombie", "revoke", "lapse", "database", "reaper"}
ASSUME MaxEventsAssumption == MaxEvents \in Nat /\ MaxEvents < MaxSeq
ASSUME FinalMessagesAssumption == FinalMessages \subseteq BOOLEAN
ASSUME ResendsAssumption == Resends \subseteq Runs
ASSUME ResendFromAssumption == ResendFrom \subseteq {"prepared", "running", "marking", "pending"}
ASSUME NoRunAssumption == NoRun \notin Runs

VARIABLES
    req,       \* req[r]: where the request that creates run r stands
    origin,    \* origin[r]: the run r replaces, if r is a resend
    runRow,    \* runRow[r]: status and error_code of the row of r
    msgRow,    \* msgRow[r]: status of the owner's message of r
    answers,   \* answers[r]: agent messages inserted for r
    jobs,      \* database writes under way
    handlers,  \* frame handlers awaiting loadAuthorizedRun
    up,        \* up[c]: frames the host sent on c and the gateway has not read
    taken,     \* taken[c]: how many frames of wire[c] the host has taken
    work,      \* work[r]: what the host's goroutine for r has done
    emitted,   \* emitted[r]: events it has sent
    final,     \* final[r]: the completion it has sent carries a final_message
    published  \* published[r]: kinds of the frames given to publishRunFrame

runVars == <<req, origin, runRow, msgRow, answers, jobs, handlers, up, taken,
             work, emitted, final, published>>
vars == <<registryVars, runVars>>

RequestStages == {"idle", "replacing", "cancelling", "counting", "creating",
                  "prepared", "marking", "running", "pending", "rejected"}
RunStatuses == {"none", "queued", "pending", "running", "accepted",
                "completed", "failed", "cancelled"}
ErrorCodes == {"none", "replaced", "host", "seq_gap", "backpressure", "timeout"}
Terminal == {"completed", "failed", "cancelled"}
FrameKinds == {"accepted", "event", "completed", "failed"}
Frames == [kind : FrameKinds, run : Runs, seq : 0 .. MaxSeq]
JobKinds == {"running", "sent", "accepted", "event", "answer", "completed",
             "failed", "gatewayFail", "timeout"}
Jobs == [kind : JobKinds, run : Runs, seq : 0 .. MaxSeq, code : ErrorCodes]

RunTypeOK ==
    /\ TypeOK
    /\ req \in [Runs -> RequestStages]
    /\ origin \in [Runs -> Runs \cup {NoRun}]
    /\ runRow \in [Runs -> [status : RunStatuses, code : ErrorCodes]]
    /\ msgRow \in [Runs -> {"none", "pending", "sent", "replaced"}]
    /\ answers \in [Runs -> Nat]
    /\ jobs \subseteq Jobs
    /\ handlers \subseteq Frames \cup [kind : {"reject"}, run : Runs, seq : 0 .. MaxSeq,
                                       code : ErrorCodes]
    /\ up \in [Conns -> Seq(Frames)]
    /\ taken \in [Conns -> Nat]
    /\ work \in [Runs -> {"none", "started", "accepted", "done"}]
    /\ emitted \in [Runs -> 0 .. MaxEvents]
    /\ final \in [Runs -> BOOLEAN]
    /\ published \in [Runs -> Seq(FrameKinds)]

RunInit ==
    /\ Init
    /\ req = [r \in Runs |-> "idle"]
    /\ origin = [r \in Runs |-> NoRun]
    /\ runRow = [r \in Runs |-> [status |-> "none", code |-> "none"]]
    /\ msgRow = [r \in Runs |-> "none"]
    /\ answers = [r \in Runs |-> 0]
    /\ jobs = {}
    /\ handlers = {}
    /\ up = [c \in Conns |-> <<>>]
    /\ taken = [c \in Conns |-> 0]
    /\ work = [r \in Runs |-> "none"]
    /\ emitted = [r \in Runs |-> 0]
    /\ final = [r \in Runs |-> FALSE]
    /\ published = [r \in Runs |-> <<>>]

-----------------------------------------------------------------------------
(* Helpers.                                                                *)

Frame(k, r, s) == [kind |-> k, run |-> r, seq |-> s]
Job(k, r) == [kind |-> k, run |-> r, seq |-> 0, code |-> "none"]

\* Slips: an untracked run has no next number; a gap is accepted.
IsNextSeqTracked(r, s) == Tracked(r) /\ s = lastSeq[r] + 1
IsLaterSeq(r, s) == s > lastSeq[r]

\* getLastRunSeq and isNextSeq
IsNextSeq(r, s) == s = lastSeq[r] + 1

InFlightEvents == Cardinality({h \in handlers : h.kind = "event"})

PendingMessages == {r \in Runs : msgRow[r] = "pending"}

Moves(r, from, to) == req[r] = from /\ req' = [req EXCEPT ![r] = to]

SetStatus(r, s) == runRow' = [runRow EXCEPT ![r].status = s]
SetError(r, s, code) == runRow' = [runRow EXCEPT ![r] = [status |-> s, code |-> code]]

-----------------------------------------------------------------------------
(* The HTTP request: prepareOwnerAgentRun, dispatchPreparedOwnerAgentRun.  *)

\* likelyOnline decides whether the pending messages are counted.
AfterLookup(h) == IF HasHostConnection(h) THEN "creating" ELSE "counting"

\* POST messages, up to the capacity check.
StartRequest(h, r) ==
    /\ r \notin Resends
    /\ Moves(r, "idle", AfterLookup(h))
    /\ UNCHANGED <<registryVars, origin, runRow, msgRow, answers, jobs, handlers,
                   up, taken, work, emitted, final, published>>

\* POST resend of a run whose message is found pending.  The code asks for no
\* more; ResendFrom bounds how early an owner who knows the run id does it.
StartResend(old, r) ==
    /\ r \in Resends
    /\ old # r
    /\ msgRow[old] = "pending"
    /\ req[old] \in ResendFrom
    /\ Moves(r, "idle", "replacing")
    /\ origin' = [origin EXCEPT ![r] = old]
    /\ UNCHANGED <<registryVars, runRow, msgRow, answers, jobs, handlers, up,
                   taken, work, emitted, final, published>>

ReplaceMessage(r) ==
    /\ Moves(r, "replacing", "cancelling")
    /\ msgRow' = [msgRow EXCEPT ![origin[r]] = "replaced"]
    /\ UNCHANGED <<registryVars, origin, runRow, answers, jobs, handlers, up,
                   taken, work, emitted, final, published>>

CancelReplaced(h, r) ==
    /\ Moves(r, "cancelling", AfterLookup(h))
    /\ SetError(origin[r], "cancelled", "replaced")
    /\ UNCHANGED <<registryVars, origin, msgRow, answers, jobs, handlers, up,
                   taken, work, emitted, final, published>>

\* assertPendingCapacity
AssertPendingCapacity(r) ==
    /\ Moves(r, "counting",
             IF Cardinality(PendingMessages) >= PendingLimit THEN "rejected" ELSE "creating")
    /\ UNCHANGED <<registryVars, origin, runRow, msgRow, answers, jobs, handlers,
                   up, taken, work, emitted, final, published>>

\* createOwnerAgentRunRecord and insertOwnerAgentMessageRecord, in one step:
\* nothing reads the row of a run that has no message and no frame yet.
CreateRunAndMessage(r) ==
    /\ Moves(r, "creating", "prepared")
    /\ SetStatus(r, "queued")
    /\ msgRow' = [msgRow EXCEPT ![r] = "pending"]
    /\ UNCHANGED <<registryVars, origin, answers, jobs, handlers, up, taken,
                   work, emitted, final, published>>

\* dispatchPreparedOwnerAgentRun: hasHostConnection and sendRunToHost in one
\* step, so a frame is queued only behind an entry whose socket refuses it.
DispatchPrepared(h, r) ==
    /\ \/ /\ Moves(r, "prepared", "running")
          /\ DispatchSent(h, r)
          /\ jobs' = jobs \cup {Job("running", r), Job("sent", r)}
       \/ /\ Moves(r, "prepared", "marking")
          /\ UNCHANGED jobs
          /\ \/ HasHostConnection(h) /\ DispatchQueued(h, r)
             \/ ~HasHostConnection(h) /\ UNCHANGED registryVars
    /\ UNCHANGED <<origin, runRow, msgRow, answers, handlers, up, taken, work,
                   emitted, final, published>>

MarkPending(r) ==
    /\ Moves(r, "marking", "pending")
    /\ SetStatus(r, "pending")
    /\ UNCHANGED <<registryVars, origin, msgRow, answers, jobs, handlers, up,
                   taken, work, emitted, final, published>>

\* failTimedOutRuns, started and not awaited by any request to an agent of the
\* owner: the row was listed, and the `failed' write is under way.  The list asks
\* for a status and an age; no time is modelled, so every run can be old enough.
ListTimedOut(r) ==
    /\ "reaper" \in Faults
    /\ runRow[r].status \in {"accepted", "running"}
    /\ jobs' = jobs \cup {[Job("timeout", r) EXCEPT !.code = "timeout"]}
    /\ UNCHANGED <<registryVars, req, origin, runRow, msgRow, answers, handlers,
                   up, taken, work, emitted, final, published>>

-----------------------------------------------------------------------------
(* Connections.  What the host had sent and the gateway had not read is    *)
(* gone when the gateway sees the end of the connection; the host process  *)
(* exits with it.  With one host a sweep is its first iteration.           *)

ConnectionsStep(c) ==
    /\ \/ Connect(c)
       \/ "zombie" \in Faults /\ ConnectDead(c)
       \/ HandleHostRegister(c)
       \/ \E ids \in HeartbeatIds : TouchHostConnection(c, ids)
       \/ UpdateHostCapabilities(c)
       \/ "lapse" \in Faults /\ (Lapse(c) \/ SweepBegin(c))
       \/ "revoke" \in Faults /\ RevokeHostConnection(HostOf[c])
    /\ UNCHANGED runVars

Disconnect(c) ==
    /\ PeerClose(c) \/ CloseEvent(c)
    /\ up' = [up EXCEPT ![c] = <<>>]
    /\ UNCHANGED <<req, origin, runRow, msgRow, answers, jobs, handlers, taken,
                   work, emitted, final, published>>

-----------------------------------------------------------------------------
(* The host process behind connection c (run.go): one goroutine per frame. *)

TakenOn(c) == Elems(SubSeq(wire[c], 1, taken[c]))

HostUnchanged == UNCHANGED <<registryVars, req, origin, runRow, msgRow, answers,
                             jobs, handlers, published>>

Send(c, frame) == up' = [up EXCEPT ![c] = Append(@, frame)]

\* The main loop receives a run request and starts its goroutine.
HostTake(c) ==
    /\ Receiving(c)
    /\ taken[c] < Len(wire[c])
    /\ taken' = [taken EXCEPT ![c] = @ + 1]
    /\ work' = [work EXCEPT ![wire[c][taken[c] + 1]] = "started"]
    /\ HostUnchanged
    /\ UNCHANGED <<up, emitted, final>>

\* The goroutine's next frame: `accepted', an event, and the last one.
HostStep(c, r, from, to, frame) ==
    /\ Receiving(c)
    /\ r \in TakenOn(c)
    /\ work[r] = from
    /\ work' = [work EXCEPT ![r] = to]
    /\ Send(c, frame)
    /\ emitted' = IF frame.kind = "event" THEN [emitted EXCEPT ![r] = @ + 1] ELSE emitted
    /\ IF frame.kind = "completed"
          THEN \E m \in FinalMessages : final' = [final EXCEPT ![r] = m]
          ELSE UNCHANGED final
    /\ HostUnchanged
    /\ UNCHANGED taken

HostUnavailable(c, r) == HostStep(c, r, "started", "done", Frame("failed", r, 1))
HostAccept(c, r) == HostStep(c, r, "started", "accepted", Frame("accepted", r, 0))
HostEvent(c, r) ==
    /\ emitted[r] < MaxEvents
    /\ HostStep(c, r, "accepted", "accepted", Frame("event", r, emitted[r] + 1))

\* Slip: the completion skips a number.
HostCompleteSkips(c, r) ==
    HostStep(c, r, "accepted", "done", Frame("completed", r, emitted[r] + 2))

HostComplete(c, r) ==
    HostStep(c, r, "accepted", "done", Frame("completed", r, emitted[r] + 1))
HostFail(c, r) == HostStep(c, r, "accepted", "done", Frame("failed", r, emitted[r] + 1))

-----------------------------------------------------------------------------
(* The frame handlers of host-router.ts.                                   *)

\* What handleRunEvent, handleRunCompleted and the others do before their
\* first await: the checks, on the state of this instant.
HandlerFor(f) ==
    LET reject(code) == [kind |-> "reject", run |-> f.run, seq |-> f.seq, code |-> code]
    IN  IF f.kind = "event" /\ InFlightEvents >= MaxInFlight THEN reject("backpressure")
        ELSE IF f.kind \in {"event", "completed"} /\ ~IsNextSeq(f.run, f.seq)
             THEN reject("seq_gap")
        ELSE f

RouteHostMessage(c) ==
    /\ Receiving(c)
    /\ up[c] # <<>>
    /\ handlers' = handlers \cup {HandlerFor(Head(up[c]))}
    /\ up' = [up EXCEPT ![c] = Tail(@)]
    /\ UNCHANGED <<registryVars, req, origin, runRow, msgRow, answers, jobs,
                   taken, work, emitted, final, published>>

Publish(r, kind) == published' = [published EXCEPT ![r] = Append(@, kind)]

HandlerUnchanged == UNCHANGED <<req, origin, runRow, msgRow, answers, up, taken,
                                work, emitted, final>>

\* loadAuthorizedRun has answered: the rest of the handler up to the write.
RunAccepted(c, f) ==
    /\ f.kind = "accepted" /\ f.run \in Elems(wire[c])
    /\ RecordRunAccepted(HostOf[c], f.run)
    /\ jobs' = jobs \cup {Job("accepted", f.run)}
    /\ UNCHANGED published

RunEvent(f) ==
    /\ f.kind = "event"
    /\ RecordRunSeq(f.run, f.seq)
    /\ Publish(f.run, "event")
    /\ jobs' = jobs \cup {[Job("event", f.run) EXCEPT !.seq = f.seq]}

\* Slip: only the status is written.
CompletionWriteStatus(r) == Job("completed", r)

\* persistRunCompletion, to its first write: a completion that carries no
\* final_message has no answer to insert.
CompletionWrite(r) == Job(IF final[r] THEN "answer" ELSE "completed", r)

\* recordRunSeq and then clearActiveRun: the entry is gone either way.
RunCompleted(f) ==
    /\ f.kind = "completed"
    /\ ClearActiveRun(f.run)
    /\ Publish(f.run, "completed")
    /\ jobs' = jobs \cup {CompletionWrite(f.run)}

\* Slip: the failure is written and not published.
RunFailedSilently(f) ==
    /\ f.kind = "failed"
    /\ ClearActiveRun(f.run)
    /\ UNCHANGED published
    /\ jobs' = jobs \cup {[Job("failed", f.run) EXCEPT !.code = "host"]}

RunFailed(f) ==
    /\ f.kind = "failed"
    /\ ClearActiveRun(f.run)
    /\ Publish(f.run, "failed")
    /\ jobs' = jobs \cup {[Job("failed", f.run) EXCEPT !.code = "host"]}

\* failRunFromGateway, to its write.
RunRejected(f) ==
    /\ f.kind = "reject"
    /\ jobs' = jobs \cup {[kind |-> "gatewayFail", run |-> f.run, seq |-> f.seq,
                           code |-> f.code]}
    /\ UNCHANGED <<registryVars, published>>

HandlerResumes(f) ==
    /\ handlers' = handlers \ {f}
    /\ \/ \E c \in Conns : RunAccepted(c, f)
       \/ RunEvent(f)
       \/ RunCompleted(f)
       \/ RunFailed(f)
       \/ RunRejected(f)
    /\ HandlerUnchanged

\* loadAuthorizedRun throws: the handler ends there, and nothing is tried again.
HandlerThrows(f) ==
    /\ "database" \in Faults
    /\ handlers' = handlers \ {f}
    /\ UNCHANGED <<registryVars, jobs, published>>
    /\ HandlerUnchanged

-----------------------------------------------------------------------------
(* The database answers a write, and what was waiting for it goes on.      *)

JobUnchanged == UNCHANGED <<req, origin, handlers, up, taken, work, emitted, final>>

\* The void writes of dispatchPreparedOwnerAgentRun and failTimedOutRuns, and
\* the last writes of persistRunEvent, persistRunCompletion, persistRunFailure.
WriteStatus(j) ==
    /\ \/ j.kind \in {"running", "completed"} /\ SetStatus(j.run, j.kind)
       \/ j.kind = "event" /\ SetStatus(j.run, "running")
       \/ j.kind \in {"failed", "timeout"} /\ SetError(j.run, "failed", j.code)
    /\ jobs' = jobs \ {j}
    /\ UNCHANGED <<registryVars, msgRow, answers, published>>

WriteMessageSent(j) ==
    /\ j.kind = "sent"
    /\ msgRow' = [msgRow EXCEPT ![j.run] = "sent"]
    /\ jobs' = jobs \ {j}
    /\ UNCHANGED <<registryVars, runRow, answers, published>>

\* handleRunAccepted publishes after its write.
WriteAccepted(j) ==
    /\ j.kind = "accepted"
    /\ SetStatus(j.run, "accepted")
    /\ Publish(j.run, "accepted")
    /\ jobs' = jobs \ {j}
    /\ UNCHANGED <<registryVars, msgRow, answers>>

\* Slip: the insert is tried again after it was done.
InsertAnswerAgain(j) ==
    /\ j.kind = "answer"
    /\ answers' = [answers EXCEPT ![j.run] = @ + 1]
    /\ jobs' = jobs \cup {Job("completed", j.run)}
    /\ UNCHANGED <<registryVars, runRow, msgRow, published>>

\* Slip: a write that failed is logged, and what follows it goes on.
WriteThrowsAndGoesOn(j) ==
    /\ "database" \in Faults
    /\ jobs' = (jobs \ {j}) \cup (IF j.kind = "answer" THEN {Job("completed", j.run)} ELSE {})
    /\ UNCHANGED <<registryVars, runRow, msgRow, answers, published>>
    /\ JobUnchanged

\* A write fails: what would have followed it is left out, and the error is
\* logged by the catch of a write that is not awaited, or ends the handler.
WriteThrows(j) ==
    /\ "database" \in Faults
    /\ jobs' = jobs \ {j}
    /\ UNCHANGED <<registryVars, runRow, msgRow, answers, published>>
    /\ JobUnchanged

\* persistRunCompletion: the answer, then the status.
InsertAnswer(j) ==
    /\ j.kind = "answer"
    /\ answers' = [answers EXCEPT ![j.run] = @ + 1]
    /\ jobs' = (jobs \ {j}) \cup {Job("completed", j.run)}
    /\ UNCHANGED <<registryVars, runRow, msgRow, published>>

\* failRunFromGateway: the run is no longer tracked once the row says failed.
WriteGatewayFailure(j) ==
    /\ j.kind = "gatewayFail"
    /\ SetError(j.run, "failed", j.code)
    /\ ClearActiveRun(j.run)
    /\ jobs' = jobs \ {j}
    /\ UNCHANGED <<msgRow, answers, published>>

JobAnswered(j) ==
    /\ \/ WriteStatus(j)
       \/ WriteMessageSent(j)
       \/ WriteAccepted(j)
       \/ InsertAnswer(j)
       \/ WriteGatewayFailure(j)
    /\ JobUnchanged

-----------------------------------------------------------------------------
RequestStep(r) ==
    \/ \E h \in Hosts : \/ StartRequest(h, r)
                        \/ CancelReplaced(h, r)
                        \/ DispatchPrepared(h, r)
    \/ \E old \in Runs : StartResend(old, r)
    \/ ReplaceMessage(r)
    \/ AssertPendingCapacity(r)
    \/ CreateRunAndMessage(r)
    \/ MarkPending(r)
    \/ ListTimedOut(r)

HostRunStep(c, r) ==
    \/ HostUnavailable(c, r)
    \/ HostAccept(c, r)
    \/ HostEvent(c, r)
    \/ HostComplete(c, r)
    \/ HostFail(c, r)

RunNext ==
    \/ \E r \in Runs : RequestStep(r)
    \/ \E c \in Conns : ConnectionsStep(c) \/ Disconnect(c) \/ HostTake(c)
    \/ \E c \in Conns, r \in Runs : HostRunStep(c, r)
    \/ \E c \in Conns : RouteHostMessage(c)
    \/ \E f \in handlers : HandlerResumes(f) \/ HandlerThrows(f)
    \/ \E j \in jobs : JobAnswered(j) \/ WriteThrows(j)

RunSpec == RunInit /\ [][RunNext]_vars

(***************************************************************************)
(* Fairness for a database that answers, a host whose adapter returns (its *)
(* context has a timeout) and sockets that deliver or report their end.    *)
(* No fairness is assumed of owners, of failures or of new connections.    *)
(***************************************************************************)
Fairness ==
    /\ \A c \in Conns :
          /\ WF_vars(RouteHostMessage(c))
          /\ WF_vars(HostTake(c))
          /\ WF_vars(socket[c] # "open" /\ Disconnect(c))
          /\ \A r \in Runs : WF_vars(HostUnavailable(c, r) \/ HostAccept(c, r)
                                     \/ HostComplete(c, r) \/ HostFail(c, r))
    /\ \A k \in FrameKinds \cup {"reject"}, r \in Runs :
          WF_vars(\E f \in handlers : f.kind = k /\ f.run = r /\ HandlerResumes(f))
    /\ \A k \in JobKinds, r \in Runs :
          WF_vars(\E j \in jobs : j.kind = k /\ j.run = r /\ JobAnswered(j))

FairRunSpec == RunSpec /\ Fairness

-----------------------------------------------------------------------------
(* Properties.                                                             *)

TerminalFrames(r) ==
    {i \in 1 .. Len(published[r]) : published[r][i] \in {"completed", "failed"}}

\* A run is answered once: however often its host reconnects and whatever
\* order the writes are answered in, at most one agent message is inserted for
\* it and at most one frame that ends its stream is published.
OneAnswer ==
    \A r \in Runs : answers[r] <= 1 /\ Cardinality(TerminalFrames(r)) <= 1

\* The sequence check never fails a run of the Go host, which sends one frame
\* with a sequence number per run: neither the heartbeats (which drop every
\* tracked run, their active_run_ids being empty) nor the concurrent handlers
\* of `accepted' and `completed' make that frame look out of sequence.
NoFalseFailure ==
    \A r \in Runs : runRow[r].code \notin {"seq_gap", "backpressure"}

\* A run that reads `completed' has in the conversation what its completion
\* brought, the answer it carried or nothing, whichever writes fail and in
\* whatever order they are answered: a reader who sees the status finds the
\* message (persistRunCompletion).
CompletedHasAnswer ==
    \A r \in Runs : runRow[r].status = "completed" =>
        answers[r] = IF final[r] THEN 1 ELSE 0

\* A stream that ends with `completed' has shown every event the host sent,
\* in order and once: the sequence check admits the completion only when the
\* last event has been recorded, and an event only when the one before it has.
CompletedStreamsAllEvents ==
    \A r \in Runs : \A i \in 1 .. Len(published[r]) :
        published[r][i] = "completed" =>
            Cardinality({j \in 1 .. i : published[r][j] = "event"}) = emitted[r]

\* The router publishes a run's frames as RunFrames promises to the stream that
\* listens to them: an end at most, and no event after `completed', though
\* handlers interleave at their awaits and the gateway may fail a run meanwhile.
PublishedFrames(r) == INSTANCE RunFrames WITH frames <- published[r]
PublishedAsPromised ==
    /\ \A r \in Runs : PublishedFrames(r)!FramesInit
    /\ [][\A r \in Runs : [PublishedFrames(r)!FramesNext]_(published[r])]_published

\* A run whose frame reached a connection is brought to an end there: its
\* terminal frame is published unless the connection is lost first.
DispatchedRunEnds ==
    \A c \in Conns, r \in Runs :
        r \in Elems(wire[c])
            ~> (TerminalFrames(r) # {} \/ socket[c] \notin {"open", "closing"})

\* An answer the owner has seen is kept: once a completion that carries one is
\* published, its message is inserted, though the handler that published it does
\* not wait for the write, which must not fail.  (The row's status is another
\* matter: see TerminalStatusIsFinal.)
ShownAnswerIsKept ==
    \A r \in Runs : "completed" \in Elems(published[r]) /\ final[r] ~> answers[r] = 1

-----------------------------------------------------------------------------
(* What the specification of the owner chat and the tests say and the code *)
(* does not do; README.md says which are run and which are only stated.     *)

\* "completed | failed | cancelled | timeout" end the run state machine
\* (owner-agent-chat-technical-specification.md:281-285).
TerminalStatusIsFinal ==
    [][\A r \in Runs : runRow[r].status \in Terminal => runRow'[r].status = runRow[r].status]_vars

\* The reaper fails the runs that came to nothing (:375), so it leaves a run that
\* is completed as it is.
CompletedIsNotTimedOut ==
    [][\A r \in Runs : runRow[r].status = "completed" => runRow'[r].code # "timeout"]_vars

\* A pending run is not executed when its host comes back (:373, :207).
PendingIsNotExecuted ==
    [][\A r \in Runs, c \in Conns :
          req[r] = "pending" /\ r \in Elems(wire'[c]) => r \in Elems(wire[c])]_vars

\* At most PENDING_MESSAGE_LIMIT pending messages in a conversation (:371).
PendingWithinLimit == Cardinality(PendingMessages) <= PendingLimit

=============================================================================

--------------------------- MODULE OwnerRun_proofs ---------------------------
(***************************************************************************)
(* Theorems about a run from its request to its answer, for any number of  *)
(* runs, connections and events and whatever connections fail.  OwnerRun   *)
(* implements HostRegistry, so that a run's frame is sent once carries     *)
(* over; from there the argument follows the frames.  A frame of a run is  *)
(* known by its sequence number, it is in one place at a time (on its way, *)
(* in a handler, or spent: written or published), and a number that is     *)
(* spent does not come back.                                               *)
(***************************************************************************)
EXTENDS OwnerRun, HostRegistry_proofs, FiniteSetTheorems

USE HostOfAssumption, NoConnAssumption, NoHostAssumption, MaxSeqAssumption, MaxEventsAssumption

-----------------------------------------------------------------------------
(* The inductive invariant.                                                *)

Ends == {"completed", "failed"}

\* The handlers whose frame was not rejected.
Admitted == handlers \cap Frames

\* How many of the first i entries of p are events.
EventsUpTo(p, i) == Cardinality({j \in 1 .. i : p[j] = "event"})
Events(r) == EventsUpTo(published[r], Len(published[r]))

\* What the host has taken it was sent, and it works on nothing else.
WorkWasTaken ==
    /\ \A c \in Conns : taken[c] <= Len(wire[c])
    /\ \A r \in Runs : work[r] # "none" =>
          \E c \in Conns : \E i \in 1 .. taken[c] : wire[c][i] = r
    /\ \A r \in Runs : emitted[r] > 0 => work[r] \in {"accepted", "done"}
    /\ \A f \in handlers : work[f.run] # "none"
    /\ \A j \in jobs : j.kind = "gatewayFail" => work[j.run] # "none"

\* The number of a frame, and what the host's goroutine has done for it.
Numbered(f) ==
    /\ f.kind = "accepted" => f.seq = 0 /\ work[f.run] \in {"accepted", "done"}
    /\ f.kind = "event" => f.seq \in 1 .. emitted[f.run]
    /\ f.kind \in Ends => f.seq = emitted[f.run] + 1 /\ work[f.run] = "done"

\* The frame of number s was written or published.
Spent(r, s) ==
    \/ s = 0 /\ (Job("accepted", r) \in jobs \/ "accepted" \in Elems(published[r]))
    \/ s \in 1 .. Events(r)
    \/ s = emitted[r] + 1 /\ TerminalFrames(r) # {}

SameFrame(f, g) == f.run = g.run /\ f.seq = g.seq

InOnePlace ==
    /\ \A c, d \in Conns : \A i \in 1 .. Len(up[c]), j \in 1 .. Len(up[d]) :
          SameFrame(up[c][i], up[d][j]) => c = d /\ i = j
    /\ \A c \in Conns, g \in Admitted : \A i \in 1 .. Len(up[c]) : ~SameFrame(up[c][i], g)
    /\ \A f, g \in Admitted : SameFrame(f, g) => f = g
    /\ \A c \in Conns : \A i \in 1 .. Len(up[c]) :
          Numbered(up[c][i]) /\ ~Spent(up[c][i].run, up[c][i].seq)
    /\ \A f \in Admitted : Numbered(f) /\ ~Spent(f.run, f.seq)

\* What is recorded of a run's numbers, and what that lets a handler admit.
RecordedInOrder ==
    /\ \A r \in Runs : ~Tracked(r) => lastSeq[r] = 0
    /\ \A r \in Runs : lastSeq[r] \in {0, Events(r)} /\ Events(r) <= emitted[r]
    /\ \A f \in Admitted : f.kind = "event" => f.seq = Events(f.run) + 1
    /\ \A f \in Admitted : f.kind = "completed" => Events(f.run) = emitted[f.run]

\* What is published of a run: `accepted' once and after its write, one end,
\* and before `completed' every event.
ShownInOrder ==
    /\ \A j \in jobs : j.kind = "accepted" =>
          /\ j = Job("accepted", j.run)
          /\ work[j.run] \in {"accepted", "done"}
          /\ "accepted" \notin Elems(published[j.run])
    /\ \A r \in Runs : "accepted" \in Elems(published[r]) => work[r] \in {"accepted", "done"}
    /\ \A r \in Runs : TerminalFrames(r) # {} => work[r] = "done"
    /\ \A r \in Runs : \A i, j \in TerminalFrames(r) : i = j
    /\ \A r \in Runs : "completed" \in Elems(published[r]) => Events(r) = emitted[r]
    /\ CompletedStreamsAllEvents

\* What the completion of r brought is in the conversation.
Settled(r) ==
    /\ answers[r] = IF final[r] THEN 1 ELSE 0
    /\ "completed" \in Elems(published[r])

\* The answer a completion carries is written once, behind the completion and
\* before the status.
AnsweredInOrder ==
    /\ \A j \in jobs : j.kind = "answer" =>
          /\ j = Job("answer", j.run)
          /\ answers[j.run] = 0
          /\ final[j.run]
          /\ "completed" \in Elems(published[j.run])
    /\ \A j \in jobs : j.kind = "completed" => Settled(j.run)
    /\ \A r \in Runs : answers[r] \in {0, 1}
    /\ \A r \in Runs : answers[r] = 1 => Settled(r)
    /\ \A r \in Runs : runRow[r].status = "completed" => Settled(r)

RunIInv ==
    /\ IInv
    /\ RunTypeOK
    /\ WorkWasTaken
    /\ InOnePlace
    /\ RecordedInOrder
    /\ ShownInOrder
    /\ AnsweredInOrder

-----------------------------------------------------------------------------
(* The registry: its steps, and what they do to wires and numbers.         *)

\* What went out on a wire stays there.
Grown(c) ==
    /\ Len(wire[c]) \in Nat /\ Len(wire'[c]) \in Nat
    /\ Len(wire[c]) <= Len(wire'[c])
    /\ \A i \in 1 .. Len(wire[c]) : wire'[c][i] = wire[c][i]

LEMMA WiresGrow ==
    ASSUME TypeOK, [Next]_registryVars, NEW c \in Conns
    PROVE  Grown(c)
  <1> USE DEF Grown
  <1>1. wire[c] \in Seq(Runs) /\ Len(wire[c]) \in Nat
    BY LenProperties DEF TypeOK
  <1>2. CASE wire' = wire
    BY <1>1, <1>2
  <1>3. ASSUME NEW d \in Conns, RegisterHostConnection(d) PROVE Grown(c)
    <2>1. PICK k \in 0 .. Len(pendingDispatches[HostOf[d]]) : FlushPendingDispatches(HostOf[d], d, k)
      BY <1>3 DEF RegisterHostConnection
    <2>2. HostOf[d] \in Hosts
      OBVIOUS
    <2>3. /\ \A e \in Conns \ {d} : wire'[e] = wire[e]
          /\ Len(pendingDispatches[HostOf[d]]) \in Nat
          /\ Len(wire[d]) \in Nat
          /\ Len(wire'[d]) = Len(wire[d]) + k
          /\ \A i \in 1 .. Len(wire'[d]) :
                wire'[d][i] = IF i <= Len(wire[d]) THEN wire[d][i]
                              ELSE pendingDispatches[HostOf[d]][i - Len(wire[d])]
      BY <2>1, <2>2, FlushEffect
    <2>4. CASE c = d
      BY <1>1, <2>3, <2>4
    <2>5. CASE c # d
      BY <1>1, <2>3, <2>5
    <2> QED BY <2>4, <2>5
  <1>4. ASSUME NEW h \in Hosts, NEW r \in Runs, DispatchSent(h, r) PROVE Grown(c)
    <2>1. hostConnections[h] \in Conns
      BY <1>4 DEF TypeOK, DispatchSent, HasHostConnection
    <2>2. wire' = [wire EXCEPT ![hostConnections[h]] = Append(wire[hostConnections[h]], r)]
      BY <1>4 DEF DispatchSent
    <2>3. wire'[c] = wire[c] \/ wire'[c] = Append(wire[c], r)
      BY <2>1, <2>2 DEF TypeOK
    <2>4. /\ Len(Append(wire[c], r)) = Len(wire[c]) + 1
          /\ \A i \in 1 .. Len(wire[c]) : Append(wire[c], r)[i] = wire[c][i]
      BY <1>1, AppendProperties
    <2> QED BY <1>1, <2>3, <2>4
  <1>5. wire' = wire \/ (\E d \in Conns : RegisterHostConnection(d))
                    \/ (\E h \in Hosts, r \in Runs : DispatchSent(h, r))
    BY DEF Next, ConnectionStep, HandleHostRegister, Connect, ConnectDead, PeerClose,
       CloseEvent, RejectRegistration, TouchHostConnection, UpdateHostCapabilities, Lapse,
       SweepBegin, SweepContinue, SweepAbort, RevokeHostConnection, RunStep, DispatchQueued,
       RecordRunAccepted, RecordRunSeq, ClearActiveRun, registryVars
  <1> QED BY <1>2, <1>3, <1>4, <1>5

\* A step of the registry that keeps its number or forgets it, for every run.
NumbersFall ==
    \A r \in Runs : /\ lastSeq'[r] \in {lastSeq[r], 0}
                    /\ activeHost'[r] = NoHost => lastSeq'[r] = 0

\* Every step of the registry but recordRunSeq is one.
LEMMA NumbersOnlyFall ==
    ASSUME TypeOK, \A r \in Runs : ~Tracked(r) => lastSeq[r] = 0,
           \/ UNCHANGED <<activeHost, lastSeq>>
           \/ \E S \in SUBSET Runs, h \in Hosts : TrackActiveRuns(S, h)
           \/ \E S \in SUBSET Runs : DropActiveRuns(S)
           \/ \E h \in Hosts, r \in Runs : RecordRunAccepted(h, r)
    PROVE  NumbersFall
  <1> USE DEF TypeOK, NumbersFall, Tracked
  <1>1. CASE UNCHANGED <<activeHost, lastSeq>>
    BY <1>1
  <1>2. ASSUME NEW S \in SUBSET Runs, NEW h \in Hosts, TrackActiveRuns(S, h)
        PROVE  NumbersFall
    BY <1>2 DEF TrackActiveRuns
  <1>3. ASSUME NEW S \in SUBSET Runs, DropActiveRuns(S) PROVE NumbersFall
    BY <1>3 DEF DropActiveRuns
  <1>4. ASSUME NEW h \in Hosts, NEW r \in Runs, RecordRunAccepted(h, r) PROVE NumbersFall
    BY <1>4 DEF RecordRunAccepted
  <1> QED BY <1>1, <1>2, <1>3, <1>4

\* A flush tracks the runs it sent.
LEMMA RegistrationNumbers ==
    ASSUME TypeOK, NEW c \in Conns, RegisterHostConnection(c)
    PROVE  \E S \in SUBSET Runs : TrackActiveRuns(S, HostOf[c])
  <1> DEFINE q == pendingDispatches[HostOf[c]]
  <1>1. HostOf[c] \in Hosts /\ q \in Seq(Runs)
    BY DEF TypeOK
  <1>2. PICK k \in 0 .. Len(q) : FlushPendingDispatches(HostOf[c], c, k)
    BY DEF RegisterHostConnection
  <1>3. SubSeq(q, 1, k) \in Seq(Runs)
    <2>1. Len(q) \in Nat
      BY <1>1, LenProperties
    <2>2. k \in Int /\ \A i \in 1 .. k : q[i] \in Runs
      BY <1>1, <2>1, ElementOfSeq
    <2> HIDE DEF q
    <2> QED BY <2>2, SubSeqProperties
  <1>4. Elems(SubSeq(q, 1, k)) \subseteq Runs
    BY <1>3, ElementOfSeq DEF Elems
  <1> QED BY <1>2, <1>4 DEF FlushPendingDispatches

\* What connections do to the numbers.
LEMMA ConnectionNumbers ==
    ASSUME TypeOK, \A r \in Runs : ~Tracked(r) => lastSeq[r] = 0,
           NEW c \in Conns, ConnectionsStep(c) \/ Disconnect(c)
    PROVE  NumbersFall
  <1>1. CASE RegisterHostConnection(c)
    BY <1>1, RegistrationNumbers, NumbersOnlyFall
  <1>2. ASSUME NEW ids \in HeartbeatIds, TouchHostConnection(c, ids) PROVE NumbersFall
    <2>1. \E S \in SUBSET Runs : DropActiveRuns(S)
      BY <1>2 DEF TouchHostConnection
    <2> QED BY <2>1, NumbersOnlyFall
  <1>3. \/ UNCHANGED <<activeHost, lastSeq>>
        \/ RegisterHostConnection(c)
        \/ \E ids \in HeartbeatIds : TouchHostConnection(c, ids)
    BY DEF ConnectionsStep, Disconnect, Connect, ConnectDead, PeerClose, CloseEvent,
       HandleHostRegister, RejectRegistration, UpdateHostCapabilities, Lapse, SweepBegin,
       RevokeHostConnection
  <1>4. CASE UNCHANGED <<activeHost, lastSeq>>
    BY <1>4, NumbersOnlyFall
  <1> QED BY <1>1, <1>2, <1>3, <1>4

\* What the other steps of a run do to them.
LEMMA RunNumbers ==
    ASSUME TypeOK, \A r \in Runs : ~Tracked(r) => lastSeq[r] = 0,
           \/ UNCHANGED registryVars
           \/ \E h \in Hosts, r \in Runs : \/ DispatchSent(h, r)
                                           \/ DispatchQueued(h, r)
                                           \/ RecordRunAccepted(h, r)
           \/ \E r \in Runs : ClearActiveRun(r)
    PROVE  NumbersFall
  <1>1. ASSUME NEW h \in Hosts, NEW r \in Runs, DispatchSent(h, r) PROVE NumbersFall
    BY <1>1, {r} \in SUBSET Runs, NumbersOnlyFall DEF DispatchSent
  <1>2. ASSUME NEW r \in Runs, ClearActiveRun(r) PROVE NumbersFall
    BY <1>2, {r} \in SUBSET Runs, NumbersOnlyFall DEF ClearActiveRun
  <1> QED BY <1>1, <1>2, NumbersOnlyFall DEF registryVars, DispatchQueued

-----------------------------------------------------------------------------
(* OwnerRun implements HostRegistry: its handlers and its failures are of  *)
(* runs whose frames went out on a wire.                                   *)

\* A run the host works on was sent on some wire.
LEMMA WorkIsOnAWire ==
    ASSUME RunIInv, NEW r \in Runs, work[r] # "none"
    PROVE  \E c \in Conns : r \in Elems(wire[c])
  <1>1. PICK c \in Conns : \E i \in 1 .. taken[c] : wire[c][i] = r
    BY DEF RunIInv, WorkWasTaken
  <1>2. taken[c] \in Nat /\ Len(wire[c]) \in Nat /\ taken[c] <= Len(wire[c])
    BY LenProperties DEF RunIInv, RunTypeOK, TypeOK, WorkWasTaken
  <1> QED BY <1>1, <1>2, ElemsByPosition

\* A handler that goes on after its await is one of its frame.
LEMMA AdmittedHandlers ==
    ASSUME RunIInv, NEW f \in handlers, f.kind # "reject"
    PROVE  f \in Admitted /\ f \in Frames /\ f.run \in Runs /\ f.kind \in FrameKinds
                          /\ f.seq \in 0 .. MaxSeq
  BY DEF RunIInv, RunTypeOK, Admitted, Frames

\* A resumed handler makes a step of the registry.
LEMMA HandlerStepsRegistry ==
    ASSUME RunIInv, NEW f \in handlers, HandlerResumes(f)
    PROVE  [Next]_registryVars
  <1>1. f.run \in Runs
    BY DEF RunIInv, RunTypeOK, Frames
  <1>2. PICK c \in Conns : f.run \in Elems(wire[c])
    BY <1>1, WorkIsOnAWire DEF RunIInv, WorkWasTaken
  <1>3. ASSUME NEW d \in Conns, RunAccepted(d, f) PROVE [Next]_registryVars
    BY <1>1, <1>3 DEF RunAccepted, Next, RunStep
  <1>4. CASE RunEvent(f)
    <2>1. f.kind = "event" /\ RecordRunSeq(f.run, f.seq)
      BY <1>4 DEF RunEvent
    <2>2. f \in Admitted /\ f.seq \in 0 .. MaxSeq
      BY <2>1, AdmittedHandlers
    <2>3. f.seq \in 1 .. emitted[f.run] /\ emitted[f.run] \in Nat
      BY <1>1, <2>1, <2>2 DEF RunIInv, InOnePlace, Numbered, RunTypeOK
    <2>4. f.seq \in 1 .. MaxSeq
      BY <2>2, <2>3
    <2> QED BY <1>1, <1>2, <2>1, <2>4 DEF Next, RunStep
  <1>5. CASE RunCompleted(f) \/ RunFailed(f)
    BY <1>1, <1>2, <1>5 DEF RunCompleted, RunFailed, Next, RunStep
  <1>6. CASE RunRejected(f)
    BY <1>6 DEF RunRejected
  <1> QED BY <1>3, <1>4, <1>5, <1>6 DEF HandlerResumes

\* So does every other step.
LEMMA RunStepsRegistry ==
    ASSUME RunIInv, RunNext
    PROVE  [Next]_registryVars
  <1>1. ASSUME NEW r \in Runs, RequestStep(r) PROVE [Next]_registryVars
    <2>1. \/ UNCHANGED registryVars
          \/ \E h \in Hosts : DispatchSent(h, r) \/ DispatchQueued(h, r)
      BY <1>1 DEF RequestStep, StartRequest, StartResend, ReplaceMessage, CancelReplaced,
         AssertPendingCapacity, CreateRunAndMessage, DispatchPrepared, MarkPending, ListTimedOut
    <2> QED BY <2>1 DEF Next, RunStep
  <1>2. ASSUME NEW c \in Conns, ConnectionsStep(c) \/ Disconnect(c)
        PROVE  [Next]_registryVars
    <2>1. HostOf[c] \in Hosts
      OBVIOUS
    <2> QED BY <1>2, <2>1 DEF ConnectionsStep, Disconnect, Next, ConnectionStep
  <1>3. ASSUME NEW c \in Conns, HostTake(c) PROVE [Next]_registryVars
    BY <1>3 DEF HostTake, HostUnchanged
  <1>4. ASSUME NEW c \in Conns, NEW r \in Runs, HostRunStep(c, r) PROVE [Next]_registryVars
    BY <1>4 DEF HostRunStep, HostUnavailable, HostAccept, HostEvent, HostComplete, HostFail,
       HostStep, HostUnchanged
  <1>5. ASSUME NEW c \in Conns, RouteHostMessage(c) PROVE [Next]_registryVars
    BY <1>5 DEF RouteHostMessage
  <1>6. ASSUME NEW f \in handlers, HandlerResumes(f) \/ HandlerThrows(f)
        PROVE  [Next]_registryVars
    BY <1>6, HandlerStepsRegistry DEF HandlerThrows
  <1>7. ASSUME NEW j \in jobs, JobAnswered(j) \/ WriteThrows(j) PROVE [Next]_registryVars
    <2>1. CASE WriteGatewayFailure(j)
      <3>1. j.run \in Runs /\ work[j.run] # "none"
        BY <2>1 DEF WriteGatewayFailure, RunIInv, RunTypeOK, Jobs, WorkWasTaken
      <3>2. PICK c \in Conns : j.run \in Elems(wire[c])
        BY <3>1, WorkIsOnAWire
      <3> QED BY <2>1, <3>1, <3>2 DEF WriteGatewayFailure, Next, RunStep
    <2>2. UNCHANGED registryVars \/ WriteGatewayFailure(j)
      BY <1>7 DEF JobAnswered, WriteStatus, WriteMessageSent, WriteAccepted, InsertAnswer,
         WriteThrows
    <2> QED BY <2>1, <2>2
  <1> QED BY <1>1, <1>2, <1>3, <1>4, <1>5, <1>6, <1>7 DEF RunNext

-----------------------------------------------------------------------------
(* What a publication does to the events and the ends of a run.            *)

\* Events are counted by natural numbers.
LEMMA EventCount ==
    ASSUME NEW p, NEW n \in Nat
    PROVE  /\ IsFiniteSet({j \in 1 .. n : p[j] = "event"})
           /\ EventsUpTo(p, n) \in Nat
  <1>1. IsFiniteSet(1 .. n)
    BY FS_Interval
  <1>2. IsFiniteSet({j \in 1 .. n : p[j] = "event"})
    BY <1>1, FS_Subset
  <1> QED BY <1>2, FS_CardinalityType DEF EventsUpTo

\* A frame more: an event counts one more, anything else none.
LEMMA EventCountAppend ==
    ASSUME NEW p \in Seq(FrameKinds), NEW k \in FrameKinds
    PROVE  /\ \A i \in 1 .. Len(p) : EventsUpTo(Append(p, k), i) = EventsUpTo(p, i)
           /\ EventsUpTo(Append(p, k), Len(p) + 1)
                = EventsUpTo(p, Len(p)) + (IF k = "event" THEN 1 ELSE 0)
  <1> DEFINE n == Len(p)
             q == Append(p, k)
             old == {j \in 1 .. n : p[j] = "event"}
  <1>1. /\ n \in Nat /\ Len(q) = n + 1 /\ q[n + 1] = k
        /\ \A i \in 1 .. n : q[i] = p[i]
    BY LenProperties, AppendProperties
  <1> HIDE DEF q
  <1>2. \A i \in 1 .. n : EventsUpTo(q, i) = EventsUpTo(p, i)
    <2>1. ASSUME NEW i \in 1 .. n PROVE EventsUpTo(q, i) = EventsUpTo(p, i)
      <3>1. {j \in 1 .. i : q[j] = "event"} = {j \in 1 .. i : p[j] = "event"}
        BY <1>1
      <3> QED BY <3>1 DEF EventsUpTo
    <2> QED BY <2>1
  <1>3. {j \in 1 .. n + 1 : q[j] = "event"} = IF k = "event" THEN old \cup {n + 1} ELSE old
    BY <1>1
  <1>4. IsFiniteSet(old) /\ Cardinality(old) \in Nat /\ n + 1 \notin old
    BY <1>1, EventCount DEF EventsUpTo
  <1>5. EventsUpTo(q, n + 1) = EventsUpTo(p, n) + (IF k = "event" THEN 1 ELSE 0)
    <2> HIDE DEF old
    <2>1. Cardinality(old \cup {n + 1}) = Cardinality(old) + 1
      BY <1>4, FS_AddElement
    <2>2. EventsUpTo(q, n + 1) = Cardinality(IF k = "event" THEN old \cup {n + 1} ELSE old)
      BY <1>3 DEF EventsUpTo
    <2>3. EventsUpTo(p, n) = Cardinality(old)
      BY DEF EventsUpTo, old
    <2> QED BY <1>4, <2>1, <2>2, <2>3
  <1> QED BY <1>2, <1>5 DEF q

\* What is known of a run's frames at any time.
LEMMA RunFacts ==
    ASSUME RunTypeOK, NEW r \in Runs
    PROVE  /\ Events(r) \in Nat
           /\ Len(published[r]) \in Nat
           /\ emitted[r] \in Nat /\ emitted[r] <= MaxEvents
           /\ TerminalFrames(r) \subseteq 1 .. Len(published[r])
           /\ "completed" \in Elems(published[r]) => TerminalFrames(r) # {}
  <1>1. published[r] \in Seq(FrameKinds)
    BY DEF RunTypeOK
  <1>2. Len(published[r]) \in Nat
    BY <1>1, LenProperties
  <1>3. Events(r) \in Nat
    BY <1>2, EventCount DEF Events
  <1>4. emitted[r] \in Nat /\ emitted[r] <= MaxEvents
    BY DEF RunTypeOK
  <1> QED BY <1>2, <1>3, <1>4, ElemsByPosition DEF TerminalFrames

\* A publication and what it leaves alone.
LEMMA PublishEffect ==
    ASSUME RunTypeOK, NEW r \in Runs, NEW k \in FrameKinds, Publish(r, k)
    PROVE  /\ published' \in [Runs -> Seq(FrameKinds)]
           /\ \A q \in Runs \ {r} : /\ published'[q] = published[q]
                                    /\ Events(q)' = Events(q)
                                    /\ TerminalFrames(q)' = TerminalFrames(q)
           /\ Len(published'[r]) = Len(published[r]) + 1
           /\ published'[r][Len(published[r]) + 1] = k
           /\ \A i \in 1 .. Len(published[r]) :
                 /\ published'[r][i] = published[r][i]
                 /\ EventsUpTo(published'[r], i) = EventsUpTo(published[r], i)
           /\ EventsUpTo(published'[r], Len(published[r]) + 1) = Events(r)'
           /\ Events(r)' = Events(r) + (IF k = "event" THEN 1 ELSE 0)
           /\ TerminalFrames(r)' = IF k \in Ends THEN TerminalFrames(r) \cup {Len(published[r]) + 1}
                                   ELSE TerminalFrames(r)
           /\ \A x : x \in Elems(published'[r]) <=> x \in Elems(published[r]) \/ x = k
  <1> DEFINE p == published[r]
             n == Len(p)
  <1>1. p \in Seq(FrameKinds) /\ n \in Nat /\ published \in [Runs -> Seq(FrameKinds)]
    BY LenProperties DEF RunTypeOK
  <1>2. /\ Append(p, k) \in Seq(FrameKinds)
        /\ Len(Append(p, k)) = n + 1
        /\ \A i \in 1 .. n : Append(p, k)[i] = p[i]
        /\ Append(p, k)[n + 1] = k
    BY <1>1, AppendProperties
  <1>3. published' = [published EXCEPT ![r] = Append(p, k)]
    BY DEF Publish
  <1> HIDE DEF p
  <1>4. /\ published' \in [Runs -> Seq(FrameKinds)]
        /\ published'[r] = Append(p, k)
        /\ \A q \in Runs \ {r} : published'[q] = published[q]
    BY <1>1, <1>2, <1>3
  <1>5. \A q \in Runs \ {r} : Events(q)' = Events(q) /\ TerminalFrames(q)' = TerminalFrames(q)
    BY <1>4 DEF Events, TerminalFrames
  <1>6. /\ \A i \in 1 .. n : EventsUpTo(published'[r], i) = EventsUpTo(p, i)
        /\ EventsUpTo(published'[r], n + 1) = EventsUpTo(p, n) + (IF k = "event" THEN 1 ELSE 0)
    BY <1>1, <1>4, EventCountAppend
  <1>7. Events(r)' = EventsUpTo(published'[r], n + 1) /\ Events(r) = EventsUpTo(p, n)
    BY <1>2, <1>4 DEF Events, p
  <1>8. TerminalFrames(r)' = IF k \in Ends THEN TerminalFrames(r) \cup {n + 1}
                             ELSE TerminalFrames(r)
    <2>1. TerminalFrames(r)' = {i \in 1 .. n + 1 : Append(p, k)[i] \in {"completed", "failed"}}
      BY <1>2, <1>4 DEF TerminalFrames
    <2>2. TerminalFrames(r) = {i \in 1 .. n : p[i] \in {"completed", "failed"}}
      BY DEF TerminalFrames, p
    <2> QED BY <1>1, <1>2, <2>1, <2>2 DEF Ends
  <1>9. \A x : x \in Elems(published'[r]) <=> x \in Elems(p) \/ x = k
    <2>1. ASSUME NEW x PROVE x \in Elems(published'[r]) <=> \E i \in 1 .. n + 1 : Append(p, k)[i] = x
      BY <1>2, <1>4 DEF Elems
    <2>2. ASSUME NEW x PROVE x \in Elems(p) <=> \E i \in 1 .. n : p[i] = x
      BY DEF Elems
    <2> QED BY <1>1, <1>2, <2>1, <2>2
  <1> QED BY <1>2, <1>4, <1>5, <1>6, <1>7, <1>8, <1>9 DEF p

-----------------------------------------------------------------------------
(* The parts of the invariant that a step leaves alone.                    *)

\* The host's work on a run does not go back.
WorkGoesOn ==
    \A r \in Runs : /\ work[r] \in {"accepted", "done"} => work'[r] \in {"accepted", "done"}
                    /\ work[r] = "done" => work'[r] = "done" /\ emitted'[r] = emitted[r]

\* The writes that a step starts are of these kinds.
NewJobs(kinds) == \A j \in jobs' \ jobs : j.kind \in kinds

\* The host is idle in the step.
LEMMA WorkKept ==
    ASSUME RunIInv, [Next]_registryVars, UNCHANGED <<taken, work, emitted>>,
           \A f \in handlers' \ handlers : work[f.run] # "none",
           \A j \in jobs' \ jobs : j.kind = "gatewayFail" => work[j.run] # "none"
    PROVE  WorkWasTaken'
  <1>1. ASSUME NEW c \in Conns PROVE Grown(c) /\ taken[c] \in Nat
    BY WiresGrow DEF RunIInv, RunTypeOK
  <1>2. \A c \in Conns : taken'[c] <= Len(wire'[c])
    BY <1>1 DEF Grown, RunIInv, WorkWasTaken
  <1>3. ASSUME NEW r \in Runs, work'[r] # "none"
        PROVE  \E c \in Conns : \E i \in 1 .. taken'[c] : wire'[c][i] = r
    <2>1. PICK c \in Conns : \E i \in 1 .. taken[c] : wire[c][i] = r
      BY <1>3 DEF RunIInv, WorkWasTaken
    <2>2. taken[c] <= Len(wire[c])
      BY DEF RunIInv, WorkWasTaken
    <2> QED BY <1>1, <2>1, <2>2 DEF Grown
  <1> QED BY <1>2, <1>3 DEF RunIInv, WorkWasTaken

\* What is on its way to the gateway is a frame.
LEMMA FramesOnTheirWay ==
    ASSUME RunTypeOK, NEW c \in Conns, NEW i \in 1 .. Len(up[c])
    PROVE  /\ Len(up[c]) \in Nat
           /\ up[c][i] \in Frames
           /\ up[c][i].run \in Runs
           /\ up[c][i].seq \in 0 .. MaxSeq
           /\ up[c][i].kind \in FrameKinds
  <1>1. up[c] \in Seq(Frames)
    BY DEF RunTypeOK
  <1>2. up[c][i] \in Frames
    BY <1>1, ElementOfSeq
  <1> QED BY <1>1, <1>2, LenProperties DEF Frames

\* No frame appears, none of those there is spent.
LEMMA PlacesKept ==
    ASSUME RunIInv, WorkGoesOn, UNCHANGED <<emitted, published>>,
           Admitted' \subseteq Admitted,
           \A c \in Conns : up'[c] \in {up[c], <<>>},
           NewJobs(JobKinds \ {"accepted"})
    PROVE  InOnePlace'
  <1>1. InOnePlace /\ emitted' = emitted /\ published' = published
    BY DEF RunIInv
  <1>2. ASSUME NEW r, NEW s, Spent(r, s)' PROVE Spent(r, s)
    <2>1. Job("accepted", r) \in jobs' => Job("accepted", r) \in jobs
      BY DEF NewJobs, Job
    <2> QED BY <1>1, <1>2, <2>1 DEF Spent, Events, TerminalFrames
  <1>3. \A c \in Conns : \A i \in 1 .. Len(up'[c]) : up'[c] = up[c] /\ i \in 1 .. Len(up[c])
    BY EmptySeq
  <1>4. ASSUME NEW f \in Frames, Numbered(f) PROVE Numbered(f)'
    BY <1>1, <1>4 DEF Numbered, WorkGoesOn, Ends, Frames
  <1>5. ASSUME NEW c \in Conns, NEW i \in 1 .. Len(up'[c])
        PROVE  Numbered(up[c][i])' /\ ~Spent(up[c][i].run, up[c][i].seq)'
    <2>1. up'[c] = up[c] /\ up[c][i] \in Frames
      BY <1>3, FramesOnTheirWay DEF RunIInv
    <2>2. Numbered(up[c][i]) /\ ~Spent(up[c][i].run, up[c][i].seq)
      BY <1>1, <1>3 DEF InOnePlace
    <2>3. PICK f : f = up[c][i]
      OBVIOUS
    <2>4. Numbered(f)' /\ ~Spent(f.run, f.seq)'
      BY <1>2, <1>4, <2>1, <2>2, <2>3
    <2> QED BY <2>1, <2>3, <2>4 DEF Numbered, Spent
  <1>6. \A f \in Admitted : Numbered(f)' /\ ~Spent(f.run, f.seq)'
    BY <1>1, <1>2, <1>4 DEF InOnePlace, Admitted
  <1>7. /\ \A c, d \in Conns : \A i \in 1 .. Len(up'[c]), j \in 1 .. Len(up'[d]) :
              SameFrame(up'[c][i], up'[d][j]) => c = d /\ i = j
        /\ \A c \in Conns, g \in Admitted' : \A i \in 1 .. Len(up'[c]) : ~SameFrame(up'[c][i], g)
        /\ \A f, g \in Admitted' : SameFrame(f, g) => f = g
    BY <1>1, <1>3 DEF InOnePlace
  <1> QED BY <1>5, <1>6, <1>7 DEF InOnePlace, SameFrame

\* Nothing is recorded, published or admitted.
LEMMA RecordedKept ==
    ASSUME RunIInv, NumbersFall, WorkGoesOn, UNCHANGED published,
           Admitted' \subseteq Admitted,
           \A r \in Runs : emitted'[r] \in Nat /\ emitted[r] <= emitted'[r]
    PROVE  RecordedInOrder'
  <1>1. RecordedInOrder /\ InOnePlace /\ published' = published
    BY DEF RunIInv
  <1>2. \A r \in Runs : /\ Events(r)' = Events(r) /\ Events(r) \in Nat
                        /\ emitted[r] \in Nat
    BY RunFacts DEF RunIInv, Events
  <1>3. \A f \in Admitted : /\ f.run \in Runs
                            /\ f.kind = "completed" => emitted'[f.run] = emitted[f.run]
    BY <1>1 DEF InOnePlace, Numbered, Ends, WorkGoesOn, Admitted, Frames
  <1>4. /\ \A r \in Runs : ~Tracked(r)' => lastSeq'[r] = 0
        /\ \A r \in Runs : lastSeq'[r] \in {0, Events(r)'} /\ Events(r)' <= emitted'[r]
    BY <1>1, <1>2 DEF NumbersFall, Tracked, RecordedInOrder
  <1> QED BY <1>1, <1>2, <1>3, <1>4 DEF RecordedInOrder

\* Nothing is published, and no `accepted' is written.
LEMMA ShownKept ==
    ASSUME RunIInv, WorkGoesOn, UNCHANGED published, NewJobs(JobKinds \ {"accepted"})
    PROVE  ShownInOrder'
  <1>1. ShownInOrder /\ RunTypeOK /\ published' = published
    BY DEF RunIInv
  <1>2. \A r \in Runs : Events(r)' = Events(r) /\ TerminalFrames(r)' = TerminalFrames(r)
    BY <1>1 DEF Events, TerminalFrames
  <1>3. \A j \in jobs : j.run \in Runs
    BY <1>1 DEF RunTypeOK, Jobs
  <1>4. \A r \in Runs : "completed" \in Elems(published[r]) => emitted'[r] = emitted[r]
    BY <1>1, RunFacts DEF ShownInOrder, WorkGoesOn
  <1>5. CompletedStreamsAllEvents'
    <2>1. ASSUME NEW r \in Runs, NEW i \in 1 .. Len(published[r]),
                 published[r][i] = "completed"
          PROVE  Cardinality({j \in 1 .. i : published[r][j] = "event"}) = emitted'[r]
      BY <1>1, <1>4, <2>1, ElemsByPosition DEF ShownInOrder, CompletedStreamsAllEvents
    <2> QED BY <1>1, <2>1 DEF CompletedStreamsAllEvents
  <1>6. \A j \in jobs' : j.kind = "accepted" => j \in jobs
    BY DEF NewJobs
  <1> QED BY <1>1, <1>2, <1>3, <1>4, <1>5, <1>6 DEF ShownInOrder, WorkGoesOn

\* No answer is written or announced.
LEMMA AnsweredKept ==
    ASSUME RunIInv, UNCHANGED answers,
           \A r \in Runs : \A x : x \in Elems(published[r]) => x \in Elems(published'[r]),
           NewJobs(JobKinds \ {"answer", "completed"}),
           \A r \in Runs : "completed" \in Elems(published[r]) => final'[r] = final[r],
           \A r \in Runs : runRow'[r].status = "completed" =>
              runRow[r].status = "completed" \/ Settled(r)
    PROVE  AnsweredInOrder'
  <1>1. AnsweredInOrder /\ RunTypeOK
    BY DEF RunIInv
  <1>2. \A j \in jobs' : j.kind \in {"answer", "completed"} => j \in jobs /\ j.run \in Runs
    BY <1>1 DEF NewJobs, RunTypeOK, Jobs
  <1>3. \A r \in Runs : Settled(r) => Settled(r)'
    BY DEF Settled
  <1> QED BY <1>1, <1>2, <1>3 DEF AnsweredInOrder

\* The invariant of the registry.
LEMMA RegistryKept ==
    ASSUME RunIInv, [Next]_registryVars
    PROVE  IInv'
  BY StepType, EntryStep, StepOnce DEF RunIInv, IInv

-----------------------------------------------------------------------------
(* The steps that move no frame: requests, connections, most writes.       *)

\* They leave what the invariant says of frames and answers as it is.
LEMMA QuietStep ==
    ASSUME RunIInv, RunTypeOK', [Next]_registryVars, NumbersFall,
           UNCHANGED <<answers, up, taken, work, emitted, final, published>>,
           handlers' \subseteq handlers,
           NewJobs({"running", "sent", "timeout"}),
           \A r \in Runs : runRow'[r].status = "completed" =>
              runRow[r].status = "completed" \/ Settled(r)
    PROVE  RunIInv'
  <1>1. RunTypeOK
    BY DEF RunIInv
  <1>2. WorkGoesOn
    BY DEF WorkGoesOn
  <1>3. IInv'
    BY RegistryKept
  <1>4. WorkWasTaken'
    <2>1. \A f \in handlers' \ handlers : work[f.run] # "none"
      OBVIOUS
    <2>2. \A j \in jobs' \ jobs : j.kind = "gatewayFail" => work[j.run] # "none"
      BY DEF NewJobs
    <2> QED BY <2>1, <2>2, WorkKept
  <1>5. InOnePlace'
    BY <1>2, PlacesKept DEF NewJobs, Admitted, JobKinds
  <1>6. RecordedInOrder'
    <2>1. \A r \in Runs : emitted'[r] \in Nat /\ emitted[r] <= emitted'[r]
      BY <1>1, RunFacts
    <2> QED BY <1>2, <2>1, RecordedKept DEF Admitted
  <1>7. ShownInOrder'
    BY <1>2, ShownKept DEF NewJobs, JobKinds
  <1>8. AnsweredInOrder'
    BY AnsweredKept DEF NewJobs, JobKinds
  <1> QED BY <1>3, <1>4, <1>5, <1>6, <1>7, <1>8 DEF RunIInv

\* The rows stay rows, and `completed' is written behind the answer only.
RowsKept ==
    /\ runRow' \in [Runs -> [status : RunStatuses, code : ErrorCodes]]
    /\ \A r \in Runs : runRow'[r].status = "completed" =>
          runRow[r].status = "completed" \/ Settled(r)

LEMMA RowWrites ==
    ASSUME RunTypeOK,
           \/ runRow' = runRow
           \/ \E r \in Runs \cup {NoRun}, s \in RunStatuses \ {"completed"}, code \in ErrorCodes :
                 SetError(r, s, code)
           \/ \E r \in Runs, s \in RunStatuses :
                 SetStatus(r, s) /\ (s = "completed" => Settled(r))
    PROVE  RowsKept
  <1>1. runRow \in [Runs -> [status : RunStatuses, code : ErrorCodes]]
    BY DEF RunTypeOK
  <1>2. CASE runRow' = runRow
    BY <1>1, <1>2 DEF RowsKept
  <1>3. ASSUME NEW r \in Runs \cup {NoRun}, NEW s \in RunStatuses \ {"completed"},
               NEW code \in ErrorCodes, SetError(r, s, code)
        PROVE  RowsKept
    BY <1>1, <1>3 DEF RowsKept, SetError
  <1>4. ASSUME NEW r \in Runs, NEW s \in RunStatuses, SetStatus(r, s),
               s = "completed" => Settled(r)
        PROVE  RowsKept
    BY <1>1, <1>4 DEF RowsKept, SetStatus
  <1> QED BY <1>2, <1>3, <1>4

\* Every step of a request.
LEMMA RequestKept ==
    ASSUME RunIInv, [Next]_registryVars, NEW r \in Runs, RequestStep(r)
    PROVE  RunIInv'
  <1>1. RunTypeOK /\ TypeOK' /\ TypeOK /\ \A q \in Runs : ~Tracked(q) => lastSeq[q] = 0
    BY RegistryKept DEF RunIInv, IInv, RecordedInOrder
  <1>2. UNCHANGED <<answers, handlers, up, taken, work, emitted, final, published>>
    BY DEF RequestStep, StartRequest, StartResend, ReplaceMessage, CancelReplaced,
       AssertPendingCapacity, CreateRunAndMessage, DispatchPrepared, MarkPending, ListTimedOut
  <1>3. NumbersFall
    <2>1. \/ UNCHANGED registryVars
          \/ \E h \in Hosts, q \in Runs : DispatchSent(h, q) \/ DispatchQueued(h, q)
      BY DEF RequestStep, StartRequest, StartResend, ReplaceMessage, CancelReplaced,
         AssertPendingCapacity, CreateRunAndMessage, DispatchPrepared, MarkPending, ListTimedOut
    <2> QED BY <1>1, <2>1, RunNumbers
  <1>4. /\ jobs' \subseteq Jobs
        /\ NewJobs({"running", "sent", "timeout"})
    <2>1. /\ Job("running", r) \in Jobs /\ Job("sent", r) \in Jobs
          /\ [Job("timeout", r) EXCEPT !.code = "timeout"] \in Jobs
          /\ Job("running", r).kind = "running" /\ Job("sent", r).kind = "sent"
          /\ [Job("timeout", r) EXCEPT !.code = "timeout"].kind = "timeout"
      BY DEF Job, Jobs, JobKinds, ErrorCodes
    <2>2. \/ jobs' = jobs
          \/ jobs' = jobs \cup {Job("running", r), Job("sent", r)}
          \/ jobs' = jobs \cup {[Job("timeout", r) EXCEPT !.code = "timeout"]}
      BY DEF RequestStep, StartRequest, StartResend, ReplaceMessage, CancelReplaced,
         AssertPendingCapacity, CreateRunAndMessage, DispatchPrepared, MarkPending, ListTimedOut
    <2> QED BY <1>1, <2>1, <2>2 DEF NewJobs, RunTypeOK
  <1>5. RowsKept
    <2>1. \/ runRow' = runRow
          \/ SetError(origin[r], "cancelled", "replaced")
          \/ \E s \in {"queued", "pending"} : SetStatus(r, s)
      BY DEF RequestStep, StartRequest, StartResend, ReplaceMessage, CancelReplaced,
         AssertPendingCapacity, CreateRunAndMessage, DispatchPrepared, MarkPending, ListTimedOut
    <2>2. origin[r] \in Runs \cup {NoRun}
      BY <1>1 DEF RunTypeOK
    <2> QED BY <1>1, <2>1, <2>2, RowWrites DEF RunStatuses, ErrorCodes
  <1>6. /\ req' \in [Runs -> RequestStages]
        /\ origin' \in [Runs -> Runs \cup {NoRun}]
        /\ msgRow' \in [Runs -> {"none", "pending", "sent", "replaced"}]
    <2>1. \/ req' = req
          \/ \E s \in RequestStages : req' = [req EXCEPT ![r] = s]
      BY DEF RequestStages, Moves, AfterLookup, RequestStep, StartRequest, StartResend,
         ReplaceMessage, CancelReplaced, AssertPendingCapacity, CreateRunAndMessage,
         DispatchPrepared, MarkPending, ListTimedOut
    <2>2. \/ origin' = origin
          \/ \E old \in Runs : origin' = [origin EXCEPT ![r] = old]
      BY DEF RequestStep, StartRequest, StartResend, ReplaceMessage, CancelReplaced,
         AssertPendingCapacity, CreateRunAndMessage, DispatchPrepared, MarkPending, ListTimedOut
    <2>3. \/ msgRow' = msgRow
          \/ msgRow' = [msgRow EXCEPT ![origin[r]] = "replaced"]
          \/ msgRow' = [msgRow EXCEPT ![r] = "pending"]
      BY DEF RequestStep, StartRequest, StartResend, ReplaceMessage, CancelReplaced,
         AssertPendingCapacity, CreateRunAndMessage, DispatchPrepared, MarkPending, ListTimedOut
    <2>4. /\ req \in [Runs -> RequestStages]
          /\ origin \in [Runs -> Runs \cup {NoRun}]
          /\ msgRow \in [Runs -> {"none", "pending", "sent", "replaced"}]
      BY <1>1 DEF RunTypeOK
    <2>5. req' \in [Runs -> RequestStages]
      BY <2>1, <2>4
    <2>6. origin' \in [Runs -> Runs \cup {NoRun}]
      BY <2>2, <2>4
    <2>7. msgRow' \in [Runs -> {"none", "pending", "sent", "replaced"}]
      BY <2>3, <2>4
    <2> QED BY <2>5, <2>6, <2>7
  <1>7. RunTypeOK'
    BY <1>1, <1>2, <1>4, <1>5, <1>6 DEF RunTypeOK, RowsKept
  <1> QED BY <1>2, <1>3, <1>4, <1>5, <1>7, QuietStep DEF RowsKept

\* A step of a connection; its end takes the frames that were not read.
LEMMA ConnectionKept ==
    ASSUME RunIInv, [Next]_registryVars, NEW c \in Conns, ConnectionsStep(c) \/ Disconnect(c)
    PROVE  RunIInv'
  <1>1. RunTypeOK /\ TypeOK /\ IInv' /\ TypeOK' /\ NumbersFall
    BY RegistryKept, ConnectionNumbers DEF RunIInv, IInv, RecordedInOrder
  <1>2. CASE ConnectionsStep(c)
    <2>1. UNCHANGED runVars
      BY <1>2 DEF ConnectionsStep
    <2>2. RunTypeOK' /\ NewJobs({"running", "sent", "timeout"})
      BY <1>1, <2>1 DEF RunTypeOK, runVars, NewJobs
    <2> QED BY <1>1, <2>1, <2>2, QuietStep DEF runVars
  <1>3. CASE Disconnect(c)
    <2>1. /\ UNCHANGED <<req, origin, runRow, msgRow, answers, jobs, handlers, taken,
                         work, emitted, final, published>>
          /\ up' = [up EXCEPT ![c] = <<>>]
      BY <1>3 DEF Disconnect
    <2>2. up \in [Conns -> Seq(Frames)] /\ <<>> \in Seq(Frames)
      BY <1>1, EmptySeq DEF RunTypeOK
    <2>3. up' \in [Conns -> Seq(Frames)] /\ \A d \in Conns : up'[d] \in {up[d], <<>>}
      BY <2>1, <2>2
    <2>4. RunTypeOK'
      BY <1>1, <2>1, <2>3 DEF RunTypeOK
    <2>5. WorkGoesOn /\ NewJobs({}) /\ \A r \in Runs : emitted'[r] \in Nat /\ emitted[r] <= emitted'[r]
      BY <1>1, <2>1, RunFacts DEF WorkGoesOn, NewJobs
    <2>6. WorkWasTaken'
      BY <2>1, WorkKept
    <2>7. InOnePlace'
      BY <2>1, <2>3, <2>5, PlacesKept DEF NewJobs, Admitted
    <2>8. RecordedInOrder'
      BY <1>1, <2>1, <2>5, RecordedKept DEF Admitted
    <2>9. ShownInOrder'
      BY <2>1, <2>5, ShownKept DEF NewJobs
    <2>10. AnsweredInOrder'
      BY <2>1, <2>5, AnsweredKept DEF NewJobs
    <2> QED BY <1>1, <2>4, <2>6, <2>7, <2>8, <2>9, <2>10 DEF RunIInv
  <1> QED BY <1>2, <1>3

-----------------------------------------------------------------------------
(* The host.                                                               *)

\* A run the host takes is new to it: its frame was sent once.
LEMMA TakenRunIsNew ==
    ASSUME RunIInv, NEW c \in Conns, taken[c] < Len(wire[c])
    PROVE  /\ wire[c][taken[c] + 1] \in Runs
           /\ work[wire[c][taken[c] + 1]] = "none"
  <1> DEFINE i == taken[c] + 1
             r == wire[c][i]
  <1>1. taken[c] \in Nat /\ wire[c] \in Seq(Runs) /\ Len(wire[c]) \in Nat
    BY LenProperties DEF RunIInv, RunTypeOK, TypeOK
  <1>2. i \in 1 .. Len(wire[c]) /\ r \in Runs
    BY <1>1, ElementOfSeq
  <1>3. SUFFICES ASSUME work[r] # "none" PROVE FALSE
    BY <1>2
  <1>4. PICK d \in Conns : \E j \in 1 .. taken[d] : wire[d][j] = r
    BY <1>2, <1>3 DEF RunIInv, WorkWasTaken
  <1>5. PICK j \in 1 .. taken[d] : wire[d][j] = r
    BY <1>4
  <1>6. j \in 1 .. Len(wire[d])
    <2>1. taken[d] \in Nat /\ Len(wire[d]) \in Nat /\ taken[d] <= Len(wire[d])
      BY LenProperties DEF RunIInv, RunTypeOK, TypeOK, WorkWasTaken
    <2> QED BY <2>1
  <1>7. c = d /\ i = j
    BY <1>2, <1>5, <1>6 DEF RunIInv, IInv, AtMostOnceDispatch
  <1> QED BY <1>1, <1>5, <1>7

\* The host receives a run request.
LEMMA HostTakeKept ==
    ASSUME RunIInv, [Next]_registryVars, NEW c \in Conns, HostTake(c)
    PROVE  RunIInv'
  <1> DEFINE r == wire[c][taken[c] + 1]
  <1>1. RunTypeOK /\ IInv' /\ TypeOK'
    BY RegistryKept DEF RunIInv, IInv
  <1>2. /\ taken[c] < Len(wire[c])
        /\ taken' = [taken EXCEPT ![c] = taken[c] + 1]
        /\ work' = [work EXCEPT ![r] = "started"]
        /\ UNCHANGED <<registryVars, req, origin, runRow, msgRow, answers, jobs, handlers,
                       published, up, emitted, final>>
    BY DEF HostTake, HostUnchanged
  <1>3. r \in Runs /\ work[r] = "none"
    BY <1>2, TakenRunIsNew
  <1> HIDE DEF r
  <1>4. /\ work \in [Runs -> {"none", "started", "accepted", "done"}]
        /\ taken \in [Conns -> Nat] /\ emitted \in [Runs -> 0 .. MaxEvents]
    BY <1>1 DEF RunTypeOK
  <1>5. /\ work' \in [Runs -> {"none", "started", "accepted", "done"}]
        /\ work'[r] = "started" /\ \A q \in Runs \ {r} : work'[q] = work[q]
        /\ taken' \in [Conns -> Nat]
        /\ taken'[c] = taken[c] + 1 /\ \A d \in Conns \ {c} : taken'[d] = taken[d]
    BY <1>2, <1>3, <1>4
  <1>6. RunTypeOK'
    BY <1>1, <1>2, <1>5 DEF RunTypeOK
  <1>7. WorkGoesOn /\ NewJobs({}) /\ NumbersFall
        /\ \A q \in Runs : emitted'[q] \in Nat /\ emitted[q] <= emitted'[q]
    <2>1. WorkGoesOn
      BY <1>2, <1>3, <1>5 DEF WorkGoesOn
    <2>2. NumbersFall
      BY <1>1, <1>2, RunNumbers DEF RunIInv, IInv, RecordedInOrder
    <2> QED BY <1>1, <1>2, <2>1, <2>2, RunFacts DEF NewJobs
  <1>8. WorkWasTaken'
    <2>1. WorkWasTaken /\ wire' = wire /\ \A d \in Conns : Len(wire[d]) \in Nat
      BY <1>1, <1>2, LenProperties DEF RunIInv, RunTypeOK, TypeOK, registryVars
    <2>2. \A d \in Conns : taken'[d] <= Len(wire'[d])
      BY <1>2, <1>4, <1>5, <2>1 DEF WorkWasTaken
    <2>3. ASSUME NEW q \in Runs, work'[q] # "none"
          PROVE  \E d \in Conns : \E i \in 1 .. taken'[d] : wire'[d][i] = q
      <3>1. CASE q = r
        BY <1>4, <1>5, <2>1, <3>1 DEF r
      <3>2. CASE q # r
        <4>1. PICK d \in Conns : \E i \in 1 .. taken[d] : wire[d][i] = q
          BY <1>5, <2>1, <2>3, <3>2 DEF WorkWasTaken
        <4>2. taken[d] \in Nat /\ taken'[d] \in Nat /\ taken[d] <= taken'[d]
          BY <1>4, <1>5
        <4> QED BY <2>1, <4>1, <4>2
      <3> QED BY <3>1, <3>2
    <2>4. \A q \in Runs : emitted'[q] > 0 => work'[q] \in {"accepted", "done"}
      BY <1>2, <1>7, <2>1 DEF WorkWasTaken, WorkGoesOn
    <2>5. \A q \in Runs : work[q] # "none" => work'[q] # "none"
      BY <1>5
    <2>6. (\A f \in handlers : f.run \in Runs) /\ (\A j \in jobs : j.run \in Runs)
      BY <1>1 DEF RunTypeOK, Frames, Jobs
    <2> QED BY <1>2, <2>1, <2>2, <2>3, <2>4, <2>5, <2>6 DEF WorkWasTaken
  <1>9. InOnePlace'
    BY <1>2, <1>7, PlacesKept DEF NewJobs, Admitted
  <1>10. RecordedInOrder'
    BY <1>2, <1>7, RecordedKept DEF Admitted
  <1>11. ShownInOrder'
    BY <1>2, <1>7, ShownKept DEF NewJobs
  <1>12. AnsweredInOrder'
    BY <1>2, <1>7, AnsweredKept DEF NewJobs
  <1> QED BY <1>1, <1>6, <1>8, <1>9, <1>10, <1>11, <1>12 DEF RunIInv

\* The numbers a working host uses next are neither spent nor on their way.
LEMMA NextNumberIsNew ==
    ASSUME RunIInv, NEW r \in Runs, NEW s \in Nat,
           \/ work[r] = "started" /\ s = 0
           \/ work[r] \in {"started", "accepted"} /\ s = emitted[r] + 1
    PROVE  /\ \A c \in Conns : \A i \in 1 .. Len(up[c]) : ~(up[c][i].run = r /\ up[c][i].seq = s)
           /\ \A f \in Admitted : ~(f.run = r /\ f.seq = s)
           /\ ~Spent(r, s)
           /\ TerminalFrames(r) = {}
  <1>1. RunTypeOK /\ InOnePlace /\ ShownInOrder /\ WorkWasTaken /\ RecordedInOrder
    BY DEF RunIInv
  <1>2. /\ emitted[r] \in Nat /\ Events(r) \in Nat /\ Events(r) <= emitted[r]
        /\ emitted[r] > 0 => work[r] \in {"accepted", "done"}
    BY <1>1, RunFacts DEF RecordedInOrder, WorkWasTaken
  <1>3. TerminalFrames(r) = {}
    BY <1>1 DEF ShownInOrder
  <1>4. ASSUME NEW f \in Frames, Numbered(f), f.run = r, f.seq = s PROVE FALSE
    BY <1>2, <1>4 DEF Numbered, Ends, Frames, FrameKinds
  <1>5. ~Spent(r, s)
    <2>1. s = 0 => Job("accepted", r) \notin jobs /\ "accepted" \notin Elems(published[r])
      BY <1>1, <1>2 DEF ShownInOrder, Job
    <2>2. s \notin 1 .. Events(r)
      BY <1>2
    <2> QED BY <1>3, <2>1, <2>2 DEF Spent
  <1>6. \A c \in Conns : \A i \in 1 .. Len(up[c]) : ~(up[c][i].run = r /\ up[c][i].seq = s)
    BY <1>1, <1>4, FramesOnTheirWay DEF InOnePlace
  <1>7. \A f \in Admitted : ~(f.run = r /\ f.seq = s)
    BY <1>1, <1>4 DEF InOnePlace, Admitted
  <1> QED BY <1>3, <1>5, <1>6, <1>7

\* What a goroutine may send, and how far its work is before and after.
Sendable(r, from, to, f) ==
    /\ f \in Frames /\ f.run = r
    /\ \/ f.kind = "accepted" /\ f.seq = 0 /\ from = "started" /\ to = "accepted"
       \/ f.kind = "event" /\ f.seq = emitted[r] + 1 /\ from = "accepted" /\ to = "accepted"
       \/ f.kind \in Ends /\ f.seq = emitted[r] + 1 /\ from \in {"started", "accepted"} /\ to = "done"
    /\ f.kind = "event" => emitted[r] < MaxEvents

\* Each of the host's steps sends one such frame.
LEMMA HostStepForm ==
    ASSUME RunIInv, NEW c \in Conns, NEW r \in Runs, HostRunStep(c, r)
    PROVE  \E from, to, f : Sendable(r, from, to, f) /\ HostStep(c, r, from, to, f)
  <1>1. emitted[r] \in 0 .. MaxEvents /\ (emitted[r] > 0 => work[r] \in {"accepted", "done"})
    BY DEF RunIInv, RunTypeOK, WorkWasTaken
  <1>2. \A k \in FrameKinds, s \in 0 .. MaxSeq :
            /\ Frame(k, r, s) \in Frames
            /\ Frame(k, r, s).kind = k /\ Frame(k, r, s).run = r /\ Frame(k, r, s).seq = s
    BY DEF Frame, Frames
  <1>3. 0 \in 0 .. MaxSeq /\ 1 \in 0 .. MaxSeq /\ emitted[r] + 1 \in 0 .. MaxSeq
    BY <1>1
  <1>4. CASE HostUnavailable(c, r)
    <2>1. emitted[r] = 0
      BY <1>1, <1>4 DEF HostUnavailable, HostStep
    <2>2. Sendable(r, "started", "done", Frame("failed", r, 1))
      BY <1>2, <1>3, <2>1 DEF Sendable, Ends, FrameKinds
    <2> QED BY <1>4, <2>2 DEF HostUnavailable
  <1>5. CASE HostAccept(c, r)
    <2>1. Sendable(r, "started", "accepted", Frame("accepted", r, 0))
      BY <1>2, <1>3 DEF Sendable, Ends, FrameKinds
    <2> QED BY <1>5, <2>1 DEF HostAccept
  <1>6. CASE HostEvent(c, r)
    <2>1. Sendable(r, "accepted", "accepted", Frame("event", r, emitted[r] + 1))
      BY <1>2, <1>3, <1>6 DEF Sendable, Ends, FrameKinds, HostEvent
    <2> QED BY <1>6, <2>1 DEF HostEvent
  <1>7. CASE HostComplete(c, r)
    <2>1. Sendable(r, "accepted", "done", Frame("completed", r, emitted[r] + 1))
      BY <1>2, <1>3 DEF Sendable, Ends, FrameKinds
    <2> QED BY <1>7, <2>1 DEF HostComplete
  <1>8. CASE HostFail(c, r)
    <2>1. Sendable(r, "accepted", "done", Frame("failed", r, emitted[r] + 1))
      BY <1>2, <1>3 DEF Sendable, Ends, FrameKinds
    <2> QED BY <1>8, <2>1 DEF HostFail
  <1> QED BY <1>4, <1>5, <1>6, <1>7, <1>8 DEF HostRunStep

\* The frame that is sent is in no other place.
LEMMA SentFramePlaces ==
    ASSUME RunIInv, NEW c \in Conns, NEW r \in Runs, NEW f, NEW from, NEW to,
           Sendable(r, from, to, f), HostStep(c, r, from, to, f)
    PROVE  InOnePlace' /\ WorkGoesOn /\ up' \in [Conns -> Seq(Frames)]
  <1> DEFINE n == Len(up[c])
  <1>1. RunTypeOK /\ InOnePlace
    BY DEF RunIInv
  <1>2. /\ work[r] = from
        /\ work' = [work EXCEPT ![r] = to]
        /\ up' = [up EXCEPT ![c] = Append(up[c], f)]
        /\ emitted' = IF f.kind = "event" THEN [emitted EXCEPT ![r] = emitted[r] + 1] ELSE emitted
        /\ UNCHANGED <<jobs, handlers, published>>
    BY DEF HostStep, Send, HostUnchanged
  <1>3. f \in Frames /\ f.run = r /\ f.seq \in Nat /\ emitted[r] \in Nat
    BY <1>1 DEF Sendable, Frames, RunTypeOK
  <1>4. /\ up \in [Conns -> Seq(Frames)] /\ up[c] \in Seq(Frames) /\ n \in Nat
        /\ Append(up[c], f) \in Seq(Frames) /\ Len(Append(up[c], f)) = n + 1
        /\ \A i \in 1 .. n : Append(up[c], f)[i] = up[c][i]
        /\ Append(up[c], f)[n + 1] = f
    <2>1. up \in [Conns -> Seq(Frames)]
      BY <1>1 DEF RunTypeOK
    <2> QED BY <1>3, <2>1, LenProperties, AppendProperties
  <1> HIDE DEF n
  <1>5. /\ up' \in [Conns -> Seq(Frames)]
        /\ Len(up'[c]) = n + 1 /\ up'[c][n + 1] = f
        /\ \A i \in 1 .. n : up'[c][i] = up[c][i]
        /\ \A d \in Conns \ {c} : up'[d] = up[d]
    BY <1>2, <1>4
  <1>6. /\ \A d \in Conns : \A i \in 1 .. Len(up[d]) : ~SameFrame(up[d][i], f)
        /\ \A g \in Admitted : ~SameFrame(g, f)
        /\ ~Spent(r, f.seq) /\ TerminalFrames(r) = {}
    BY <1>2, <1>3, NextNumberIsNew DEF Sendable, SameFrame
  <1>7. /\ WorkGoesOn
        /\ \A q \in Runs : emitted'[q] \in Nat /\ emitted[q] <= emitted'[q]
        /\ \A q \in Runs \ {r} : emitted'[q] = emitted[q] /\ work'[q] = work[q]
        /\ work'[r] = to /\ work[r] # "done"
        /\ f.kind # "event" => emitted'[r] = emitted[r]
        /\ f.kind = "event" => emitted'[r] = emitted[r] + 1
    <2>1. work \in [Runs -> {"none", "started", "accepted", "done"}] /\ emitted \in [Runs -> Nat]
      BY <1>1 DEF RunTypeOK
    <2>2. /\ work'[r] = to /\ work[r] = from
          /\ \A q \in Runs \ {r} : work'[q] = work[q]
      BY <1>2, <2>1
    <2>3. /\ f.kind # "event" => emitted' = emitted
          /\ f.kind = "event" => emitted'[r] = emitted[r] + 1
          /\ \A q \in Runs \ {r} : emitted'[q] = emitted[q]
      BY <1>2, <2>1
    <2>4. from # "done" /\ (from = "accepted" => to \in {"accepted", "done"})
      BY DEF Sendable
    <2> QED BY <2>1, <2>2, <2>3, <2>4 DEF WorkGoesOn
  <1>8. Numbered(f)'
    BY <1>3, <1>7 DEF Sendable, Numbered, Ends
  <1>9. ASSUME NEW g \in Frames, Numbered(g) PROVE Numbered(g)'
    <2>1. g.run \in Runs /\ emitted[g.run] \in Nat /\ emitted'[g.run] \in Nat
          /\ emitted[g.run] <= emitted'[g.run] /\ g.seq \in 0 .. MaxSeq
      BY <1>1, <1>7 DEF Frames, RunTypeOK
    <2> QED BY <1>7, <1>9, <2>1 DEF Numbered, WorkGoesOn, Ends
  <1>10. ASSUME NEW q \in Runs, NEW s, Spent(q, s)' PROVE Spent(q, s)
    BY <1>2, <1>6, <1>7, <1>10 DEF Spent, Events, TerminalFrames
  <1>11. ASSUME NEW d \in Conns, NEW i \in 1 .. Len(up'[d])
         PROVE  \/ i \in 1 .. Len(up[d]) /\ up'[d][i] = up[d][i] /\ (d = c => i # n + 1)
                \/ d = c /\ i = n + 1 /\ up'[d][i] = f
    <2>1. CASE d = c
      BY <1>4, <1>5, <1>11, <2>1 DEF n
    <2>2. CASE d # c
      BY <1>5, <1>11, <2>2
    <2> QED BY <2>1, <2>2
  <1>12. Admitted' = Admitted
    BY <1>2 DEF Admitted
  <1>13. ASSUME NEW d \in Conns, NEW i \in 1 .. Len(up'[d])
         PROVE  Numbered(up[d][i])' /\ ~Spent(up[d][i].run, up[d][i].seq)'
    <2>1. PICK g : g = up'[d][i]
      OBVIOUS
    <2>2. g = f \/ (g \in Frames /\ g.run \in Runs /\ Numbered(g) /\ ~Spent(g.run, g.seq))
      BY <1>1, <1>11, <2>1, FramesOnTheirWay DEF InOnePlace
    <2>3. Numbered(g)' /\ ~Spent(g.run, g.seq)'
      BY <1>3, <1>6, <1>8, <1>9, <1>10, <2>2
    <2> QED BY <2>1, <2>3 DEF Numbered, Spent
  <1>14. \A g \in Admitted : Numbered(g)' /\ ~Spent(g.run, g.seq)'
    BY <1>1, <1>9, <1>10 DEF InOnePlace, Admitted, Frames
  <1>15. \A d, e \in Conns : \A i \in 1 .. Len(up'[d]), j \in 1 .. Len(up'[e]) :
             SameFrame(up'[d][i], up'[e][j]) => d = e /\ i = j
    <2> SUFFICES ASSUME NEW d \in Conns, NEW e \in Conns,
                        NEW i \in 1 .. Len(up'[d]), NEW j \in 1 .. Len(up'[e]),
                        SameFrame(up'[d][i], up'[e][j])
                 PROVE  d = e /\ i = j
      OBVIOUS
    <2>1. CASE i \in 1 .. Len(up[d]) /\ up'[d][i] = up[d][i]
      <3>1. ~SameFrame(up[d][i], f)
        BY <1>6, <2>1
      <3>2. j \in 1 .. Len(up[e]) /\ up'[e][j] = up[e][j]
        BY <1>11, <2>1, <3>1
      <3> QED BY <1>1, <2>1, <3>2 DEF InOnePlace
    <2>2. CASE d = c /\ i = n + 1 /\ up'[d][i] = f
      <3>1. ~(j \in 1 .. Len(up[e]) /\ up'[e][j] = up[e][j])
        BY <1>6, <2>2 DEF SameFrame
      <3> QED BY <1>11, <2>2, <3>1
    <2> QED BY <1>11, <2>1, <2>2
  <1>16. \A d \in Conns, g \in Admitted : \A i \in 1 .. Len(up'[d]) : ~SameFrame(up'[d][i], g)
    BY <1>1, <1>6, <1>11 DEF InOnePlace, SameFrame
  <1>17. \A g, k \in Admitted : SameFrame(g, k) => g = k
    BY <1>1 DEF InOnePlace
  <1> QED BY <1>5, <1>7, <1>12, <1>13, <1>14, <1>15, <1>16, <1>17 DEF InOnePlace, SameFrame

\* A goroutine of the host sends a frame.
LEMMA HostRunKept ==
    ASSUME RunIInv, [Next]_registryVars, NEW c \in Conns, NEW r \in Runs, HostRunStep(c, r)
    PROVE  RunIInv'
  <1>1. PICK from, to, f : Sendable(r, from, to, f) /\ HostStep(c, r, from, to, f)
    BY HostStepForm
  <1>2. RunTypeOK /\ TypeOK /\ WorkWasTaken /\ IInv' /\ TypeOK'
    BY RegistryKept DEF RunIInv, IInv
  <1>3. InOnePlace' /\ WorkGoesOn /\ up' \in [Conns -> Seq(Frames)]
    BY <1>1, SentFramePlaces
  <1>4. /\ work[r] = from
        /\ work' = [work EXCEPT ![r] = to]
        /\ emitted' = IF f.kind = "event" THEN [emitted EXCEPT ![r] = emitted[r] + 1] ELSE emitted
        /\ UNCHANGED <<registryVars, req, origin, runRow, msgRow, answers, jobs, handlers,
                       published, taken>>
    BY <1>1 DEF HostStep, HostUnchanged
  <1>5. /\ work \in [Runs -> {"none", "started", "accepted", "done"}]
        /\ emitted \in [Runs -> 0 .. MaxEvents]
    BY <1>2 DEF RunTypeOK
  <1>6. /\ to \in {"accepted", "done"} /\ from \in {"started", "accepted"}
        /\ f.kind = "event" => to = "accepted" /\ emitted[r] < MaxEvents
    BY <1>1 DEF Sendable, Ends
  <1>7. /\ work' \in [Runs -> {"none", "started", "accepted", "done"}]
        /\ work'[r] = to /\ \A q \in Runs \ {r} : work'[q] = work[q]
    BY <1>4, <1>5, <1>6
  <1>8. /\ emitted' \in [Runs -> 0 .. MaxEvents]
        /\ \A q \in Runs : emitted'[q] \in Nat /\ emitted[q] <= emitted'[q]
        /\ \A q \in Runs \ {r} : emitted'[q] = emitted[q]
    <2>1. CASE f.kind = "event"
      <3>1. emitted' = [emitted EXCEPT ![r] = emitted[r] + 1] /\ emitted[r] + 1 \in 0 .. MaxEvents
        BY <1>4, <1>5, <1>6, <2>1
      <3> QED BY <1>5, <3>1
    <2>2. CASE f.kind # "event"
      BY <1>4, <1>5, <2>2
    <2> QED BY <2>1, <2>2
  <1>15. /\ final' \in [Runs -> BOOLEAN]
         /\ \A q \in Runs \ {r} : final'[q] = final[q]
    <2>1. final \in [Runs -> BOOLEAN]
      BY <1>2 DEF RunTypeOK
    <2>2. final' = final \/ \E m \in BOOLEAN : final' = [final EXCEPT ![r] = m]
      BY <1>1, FinalMessagesAssumption DEF HostStep
    <2> QED BY <2>1, <2>2
  <1>9. RunTypeOK'
    BY <1>2, <1>3, <1>4, <1>7, <1>8, <1>15 DEF RunTypeOK
  <1>10. WorkWasTaken'
    <2>1. wire' = wire /\ taken' = taken
      BY <1>4 DEF registryVars
    <2>2. ASSUME NEW q \in Runs, work'[q] # "none"
          PROVE  \E d \in Conns : \E i \in 1 .. taken'[d] : wire'[d][i] = q
      <3>1. work[q] # "none"
        BY <1>4, <1>6, <1>7, <2>2
      <3> QED BY <1>2, <2>1, <3>1 DEF WorkWasTaken
    <2>3. \A q \in Runs : emitted'[q] > 0 => work'[q] \in {"accepted", "done"}
      BY <1>2, <1>6, <1>7, <1>8 DEF WorkWasTaken
    <2>4. \A q \in Runs : work[q] # "none" => work'[q] # "none"
      BY <1>6, <1>7
    <2>5. (\A g \in handlers : g.run \in Runs) /\ (\A j \in jobs : j.run \in Runs)
      BY <1>2 DEF RunTypeOK, Frames, Jobs
    <2> QED BY <1>2, <1>4, <2>1, <2>2, <2>3, <2>4, <2>5 DEF WorkWasTaken
  <1>11. NumbersFall /\ NewJobs({})
    <2>1. NumbersFall
      BY <1>2, <1>4, RunNumbers DEF RunIInv, RecordedInOrder
    <2> QED BY <1>4, <2>1 DEF NewJobs
  <1>12. RecordedInOrder'
    BY <1>3, <1>4, <1>8, <1>11, RecordedKept DEF Admitted
  <1>13. ShownInOrder'
    BY <1>3, <1>4, <1>11, ShownKept DEF NewJobs
  <1>14. AnsweredInOrder'
    <2>1. \A q \in Runs : "completed" \in Elems(published[q]) => final'[q] = final[q]
      <3>1. TerminalFrames(r) = {}
        BY <1>4, <1>6 DEF RunIInv, ShownInOrder
      <3>2. "completed" \notin Elems(published[r])
        BY <1>2, <3>1, RunFacts
      <3>3. \A q \in Runs \ {r} : final'[q] = final[q]
        BY <1>15
      <3> QED BY <3>2, <3>3
    <2> QED BY <1>4, <1>11, <2>1, AnsweredKept DEF NewJobs
  <1> QED BY <1>2, <1>3, <1>9, <1>10, <1>12, <1>13, <1>14 DEF RunIInv

-----------------------------------------------------------------------------
(* A frame reaches its handler.                                            *)

\* A frame that passes the checks of its handler is the next of its run.
LEMMA AdmissionInOrder ==
    ASSUME RunIInv, NEW f \in Frames, Numbered(f), ~Spent(f.run, f.seq), HandlerFor(f) = f
    PROVE  /\ f.kind = "event" => f.seq = Events(f.run) + 1
           /\ f.kind = "completed" => Events(f.run) = emitted[f.run]
  <1> DEFINE r == f.run
  <1>1. r \in Runs /\ f.seq \in Nat /\ f.kind \in FrameKinds
    BY DEF Frames
  <1>2. /\ Events(r) \in Nat /\ emitted[r] \in Nat /\ Events(r) <= emitted[r]
        /\ lastSeq[r] \in {0, Events(r)}
    BY <1>1, RunFacts DEF RunIInv, RecordedInOrder
  <1>3. SUFFICES ASSUME f.kind \in {"event", "completed"} PROVE f.seq = lastSeq[r] + 1
    <2>1. f.kind = "event" /\ f.seq = lastSeq[r] + 1 => f.seq = Events(r) + 1
      BY <1>1, <1>2 DEF Spent
    <2>2. f.kind = "completed" /\ f.seq = lastSeq[r] + 1 => Events(r) = emitted[r]
      BY <1>1, <1>2 DEF Numbered, Ends
    <2> QED BY <1>3, <2>1, <2>2
  <1>4. \A code : [kind |-> "reject", run |-> f.run, seq |-> f.seq, code |-> code] # f
    BY <1>1 DEF FrameKinds
  <1> QED BY <1>3, <1>4 DEF HandlerFor, IsNextSeq

\* A handler is its frame or a rejection of it.
LEMMA HandlerForms ==
    ASSUME NEW f \in Frames
    PROVE  /\ HandlerFor(f).run = f.run
           /\ \/ HandlerFor(f) = f
              \/ /\ HandlerFor(f) \in [kind : {"reject"}, run : Runs, seq : 0 .. MaxSeq,
                                       code : ErrorCodes]
                 /\ HandlerFor(f) \notin Frames
  <1>1. \A code \in {"backpressure", "seq_gap"} :
            LET h == [kind |-> "reject", run |-> f.run, seq |-> f.seq, code |-> code]
            IN  /\ h.run = f.run
                /\ h \in [kind : {"reject"}, run : Runs, seq : 0 .. MaxSeq, code : ErrorCodes]
                /\ h \notin Frames
    BY DEF Frames, ErrorCodes, FrameKinds
  <1>2. \/ HandlerFor(f) = f
        \/ \E code \in {"backpressure", "seq_gap"} :
              HandlerFor(f) = [kind |-> "reject", run |-> f.run, seq |-> f.seq, code |-> code]
    BY DEF HandlerFor
  <1> QED BY <1>1, <1>2

\* The frame moves from the wire to its handler.
LEMMA RoutedPlaces ==
    ASSUME RunIInv, NEW c \in Conns, RouteHostMessage(c)
    PROVE  /\ InOnePlace' /\ up' \in [Conns -> Seq(Frames)]
           /\ Head(up[c]) \in Frames /\ Head(up[c]).run \in Runs
           /\ Numbered(Head(up[c])) /\ ~Spent(Head(up[c]).run, Head(up[c]).seq)
           /\ Admitted' \subseteq Admitted \cup {Head(up[c])}
           /\ Head(up[c]) \in Admitted' \ Admitted => HandlerFor(Head(up[c])) = Head(up[c])
  <1> DEFINE f == Head(up[c])
  <1>1. RunTypeOK /\ InOnePlace
    BY DEF RunIInv
  <1>2. /\ up[c] # <<>>
        /\ handlers' = handlers \cup {HandlerFor(f)}
        /\ up' = [up EXCEPT ![c] = Tail(up[c])]
        /\ UNCHANGED <<jobs, work, emitted, final, published>>
    BY DEF RouteHostMessage
  <1>3. /\ up \in [Conns -> Seq(Frames)] /\ up[c] \in Seq(Frames)
        /\ Len(up[c]) \in Nat \ {0}
        /\ f \in Frames /\ f = up[c][1]
        /\ Tail(up[c]) \in Seq(Frames) /\ Len(Tail(up[c])) = Len(up[c]) - 1
        /\ \A i \in 1 .. Len(Tail(up[c])) : Tail(up[c])[i] = up[c][i + 1]
    <2>1. up \in [Conns -> Seq(Frames)]
      BY <1>1 DEF RunTypeOK
    <2> QED BY <1>2, <2>1, EmptySeq, HeadTailProperties
  <1>4. /\ up' \in [Conns -> Seq(Frames)]
        /\ \A i \in 1 .. Len(up'[c]) : /\ up'[c][i] = up[c][i + 1]
                                       /\ i + 1 \in 2 .. Len(up[c])
        /\ \A d \in Conns \ {c} : up'[d] = up[d]
    BY <1>2, <1>3
  <1>5. /\ 1 \in 1 .. Len(up[c]) /\ f.run \in Runs
        /\ Numbered(f) /\ ~Spent(f.run, f.seq)
    BY <1>1, <1>3, FramesOnTheirWay DEF InOnePlace
  <1>6. /\ Admitted' \subseteq Admitted \cup {f}
        /\ f \in Admitted' \ Admitted => HandlerFor(f) = f
    BY <1>2, <1>3, HandlerForms DEF Admitted
  <1> HIDE DEF f
  <1>7. ASSUME NEW d \in Conns, NEW i \in 1 .. Len(up'[d])
        PROVE  \E j \in 1 .. Len(up[d]) :
                  /\ up'[d][i] = up[d][j]
                  /\ j = IF d = c THEN i + 1 ELSE i
                  /\ ~SameFrame(up[d][j], f)
                  /\ up[d][j] \in Frames
    <2>1. CASE d = c
      <3>1. i + 1 \in 2 .. Len(up[c]) /\ up'[c][i] = up[c][i + 1]
        BY <1>4, <1>7, <2>1
      <3>2. i + 1 \in 1 .. Len(up[c]) /\ i + 1 # 1
        BY <1>7, <3>1
      <3>3. ~SameFrame(up[c][i + 1], f)
        BY <1>1, <1>3, <1>5, <3>2 DEF InOnePlace
      <3> QED BY <1>1, <2>1, <3>1, <3>2, <3>3, FramesOnTheirWay
    <2>2. CASE d # c
      <3>1. up'[d] = up[d] /\ i \in 1 .. Len(up[d])
        BY <1>4, <1>7, <2>2
      <3>2. ~SameFrame(up[d][i], f)
        BY <1>1, <1>3, <1>5, <2>2, <3>1 DEF InOnePlace
      <3> QED BY <1>1, <2>2, <3>1, <3>2, FramesOnTheirWay
    <2> QED BY <2>1, <2>2
  <1>8. \A g \in Frames : Numbered(g) /\ ~Spent(g.run, g.seq) => Numbered(g)' /\ ~Spent(g.run, g.seq)'
    BY <1>2 DEF Numbered, Spent, Events, TerminalFrames
  <1>9. ASSUME NEW d \in Conns, NEW i \in 1 .. Len(up'[d])
        PROVE  Numbered(up[d][i])' /\ ~Spent(up[d][i].run, up[d][i].seq)'
    <2>1. PICK g : g = up'[d][i]
      OBVIOUS
    <2>2. g \in Frames /\ Numbered(g) /\ ~Spent(g.run, g.seq)
      BY <1>1, <1>7, <2>1 DEF InOnePlace
    <2>3. Numbered(g)' /\ ~Spent(g.run, g.seq)'
      BY <1>8, <2>2
    <2> QED BY <2>1, <2>3 DEF Numbered, Spent
  <1>10. \A g \in Admitted' : Numbered(g)' /\ ~Spent(g.run, g.seq)'
    BY <1>1, <1>3, <1>5, <1>6, <1>8 DEF InOnePlace, Admitted
  <1>11. ASSUME NEW d \in Conns, NEW e \in Conns, NEW i \in 1 .. Len(up'[d]),
                NEW j \in 1 .. Len(up'[e]), SameFrame(up'[d][i], up'[e][j])
         PROVE  d = e /\ i = j
    <2>1. PICK k \in 1 .. Len(up[d]) : up'[d][i] = up[d][k] /\ k = IF d = c THEN i + 1 ELSE i
      BY <1>7
    <2>2. PICK l \in 1 .. Len(up[e]) : up'[e][j] = up[e][l] /\ l = IF e = c THEN j + 1 ELSE j
      BY <1>7
    <2>3. d = e /\ k = l
      BY <1>1, <1>11, <2>1, <2>2 DEF InOnePlace
    <2> QED BY <2>1, <2>2, <2>3
  <1>12. ASSUME NEW d \in Conns, NEW g \in Admitted', NEW i \in 1 .. Len(up'[d])
         PROVE  ~SameFrame(up'[d][i], g)
    <2>1. PICK k \in 1 .. Len(up[d]) : up'[d][i] = up[d][k] /\ ~SameFrame(up[d][k], f)
      BY <1>7
    <2> QED BY <1>1, <1>6, <2>1 DEF InOnePlace
  <1>13. ASSUME NEW g \in Admitted', NEW h \in Admitted', SameFrame(g, h) PROVE g = h
    <2>1. \A k \in Admitted : ~SameFrame(f, k)
      BY <1>1, <1>3, <1>5 DEF InOnePlace
    <2>2. SameFrame(h, g)
      BY <1>13 DEF SameFrame
    <2> QED BY <1>1, <1>6, <1>13, <2>1, <2>2 DEF InOnePlace
  <1> QED BY <1>3, <1>4, <1>5, <1>6, <1>9, <1>10, <1>11, <1>12, <1>13
       DEF InOnePlace, SameFrame, f

\* The gateway reads a frame and its handler runs to its first await.
LEMMA RouteKept ==
    ASSUME RunIInv, [Next]_registryVars, NEW c \in Conns, RouteHostMessage(c)
    PROVE  RunIInv'
  <1> DEFINE f == Head(up[c])
  <1>1. RunTypeOK /\ TypeOK /\ WorkWasTaken /\ IInv' /\ TypeOK'
    BY RegistryKept DEF RunIInv, IInv
  <1>2. /\ handlers' = handlers \cup {HandlerFor(f)}
        /\ UNCHANGED <<registryVars, req, origin, runRow, msgRow, answers, jobs,
                       taken, work, emitted, final, published>>
    BY DEF RouteHostMessage
  <1>3. /\ InOnePlace' /\ up' \in [Conns -> Seq(Frames)]
        /\ f \in Frames /\ f.run \in Runs /\ Numbered(f) /\ ~Spent(f.run, f.seq)
        /\ Admitted' \subseteq Admitted \cup {f}
        /\ f \in Admitted' \ Admitted => HandlerFor(f) = f
    BY RoutedPlaces
  <1> HIDE DEF f
  <1>4. RunTypeOK'
    <2>1. handlers' \subseteq Frames \cup [kind : {"reject"}, run : Runs, seq : 0 .. MaxSeq,
                                           code : ErrorCodes]
      BY <1>1, <1>2, <1>3, HandlerForms DEF RunTypeOK
    <2> QED BY <1>1, <1>2, <1>3, <2>1 DEF RunTypeOK
  <1>5. WorkWasTaken'
    <2>1. emitted[f.run] \in Nat /\ (emitted[f.run] > 0 => work[f.run] \in {"accepted", "done"})
      BY <1>1, <1>3, RunFacts DEF WorkWasTaken
    <2>2. work[f.run] # "none"
      BY <1>3, <2>1 DEF Numbered, Ends, Frames, FrameKinds
    <2>3. \A h \in handlers' \ handlers : work[h.run] # "none"
      BY <1>2, <1>3, <2>2, HandlerForms
    <2> QED BY <1>2, <2>3, WorkKept
  <1>6. WorkGoesOn /\ NewJobs({})
    BY <1>2 DEF WorkGoesOn, NewJobs
  <1>7. RecordedInOrder'
    <2>1. f \in Admitted' \ Admitted =>
              /\ f.kind = "event" => f.seq = Events(f.run) + 1
              /\ f.kind = "completed" => Events(f.run) = emitted[f.run]
      BY <1>3, AdmissionInOrder
    <2>2. RecordedInOrder /\ UNCHANGED <<lastSeq, activeHost, emitted, final, published>>
      BY <1>2 DEF RunIInv, registryVars
    <2>3. \A r \in Runs : Events(r)' = Events(r)
      BY <2>2 DEF Events
    <2>4. \A g \in Admitted' : /\ g.run \in Runs
                               /\ g.kind = "event" => g.seq = Events(g.run) + 1
                               /\ g.kind = "completed" => Events(g.run) = emitted[g.run]
      BY <1>3, <2>1, <2>2 DEF RecordedInOrder, Admitted, Frames
    <2> QED BY <2>2, <2>3, <2>4 DEF RecordedInOrder, Tracked
  <1>8. ShownInOrder'
    BY <1>2, <1>6, ShownKept DEF NewJobs
  <1>9. AnsweredInOrder'
    BY <1>2, <1>6, AnsweredKept DEF NewJobs
  <1> QED BY <1>1, <1>3, <1>4, <1>5, <1>7, <1>8, <1>9 DEF RunIInv

-----------------------------------------------------------------------------
(* A handler goes on, a write is answered.                                 *)

\* Only the frame of a handler that went on is newly spent.
LEMMA HandledPlaces ==
    ASSUME RunIInv, UNCHANGED <<up, work, emitted, final>>, Admitted' \subseteq Admitted,
           \A q \in Runs : \A s : Spent(q, s)' =>
              Spent(q, s) \/ \E f \in Admitted \ Admitted' : q = f.run /\ s = f.seq
    PROVE  InOnePlace'
  <1>1. RunTypeOK /\ InOnePlace
    BY DEF RunIInv
  <1>2. ASSUME NEW g \in Frames, Numbered(g) PROVE Numbered(g)'
    BY <1>2 DEF Numbered
  <1>3. ASSUME NEW c \in Conns, NEW i \in 1 .. Len(up[c])
        PROVE  Numbered(up[c][i])' /\ ~Spent(up[c][i].run, up[c][i].seq)'
    <2>1. PICK g : g = up[c][i]
      OBVIOUS
    <2>2. /\ g \in Frames /\ g.run \in Runs /\ Numbered(g) /\ ~Spent(g.run, g.seq)
          /\ \A f \in Admitted : ~SameFrame(g, f)
      BY <1>1, <2>1, FramesOnTheirWay DEF InOnePlace
    <2>3. Numbered(g)' /\ ~Spent(g.run, g.seq)'
      BY <1>2, <2>2 DEF SameFrame
    <2> QED BY <2>1, <2>3 DEF Numbered, Spent
  <1>4. ASSUME NEW g \in Admitted' PROVE Numbered(g)' /\ ~Spent(g.run, g.seq)'
    <2>1. /\ g \in Frames /\ g.run \in Runs /\ Numbered(g) /\ ~Spent(g.run, g.seq)
          /\ \A f \in Admitted \ Admitted' : ~SameFrame(g, f)
      BY <1>1 DEF InOnePlace, Admitted, Frames
    <2> QED BY <1>2, <2>1 DEF SameFrame
  <1>5. /\ \A c, d \in Conns : \A i \in 1 .. Len(up[c]), j \in 1 .. Len(up[d]) :
              SameFrame(up[c][i], up[d][j]) => c = d /\ i = j
        /\ \A c \in Conns, g \in Admitted' : \A i \in 1 .. Len(up[c]) : ~SameFrame(up[c][i], g)
        /\ \A f, g \in Admitted' : SameFrame(f, g) => f = g
    BY <1>1 DEF InOnePlace
  <1> QED BY <1>3, <1>4, <1>5 DEF InOnePlace, SameFrame

\* What resuming the handler of f changes besides the frame's own effect.
LEMMA HandlerFrame ==
    ASSUME RunIInv, NEW f \in handlers, HandlerResumes(f), f.kind # "reject",
           [Next]_registryVars,
           jobs' \subseteq Jobs, published' \in [Runs -> Seq(FrameKinds)],
           \A j \in jobs' \ jobs : j.kind # "gatewayFail"
    PROVE  /\ IInv' /\ RunTypeOK' /\ WorkWasTaken'
           /\ UNCHANGED <<req, origin, runRow, msgRow, answers, up, taken, work, emitted, final>>
           /\ f \in Admitted /\ f \in Frames /\ f.run \in Runs /\ f.seq \in Nat
           /\ Numbered(f) /\ ~Spent(f.run, f.seq)
           /\ Admitted' = Admitted \ {f}
           /\ \A g \in Admitted' : ~SameFrame(g, f)
  <1>1. RunTypeOK /\ TypeOK /\ IInv' /\ TypeOK' /\ InOnePlace
    BY RegistryKept DEF RunIInv, IInv
  <1>2. /\ handlers' = handlers \ {f}
        /\ UNCHANGED <<req, origin, runRow, msgRow, answers, up, taken, work, emitted, final>>
    BY DEF HandlerResumes, HandlerUnchanged
  <1>3. RunTypeOK'
    BY <1>1, <1>2 DEF RunTypeOK
  <1>4. WorkWasTaken'
    BY <1>2, WorkKept
  <1>5. f \in Admitted /\ f \in Frames /\ f.run \in Runs /\ f.seq \in Nat
    BY AdmittedHandlers
  <1>6. Admitted' = Admitted \ {f}
    BY <1>2 DEF Admitted
  <1> QED BY <1>1, <1>2, <1>3, <1>4, <1>5, <1>6 DEF InOnePlace

\* failRunFromGateway starts its write.
LEMMA RejectedKept ==
    ASSUME RunIInv, [Next]_registryVars, NEW f \in handlers, HandlerResumes(f), RunRejected(f)
    PROVE  RunIInv'
  <1> DEFINE new == [kind |-> "gatewayFail", run |-> f.run, seq |-> f.seq, code |-> f.code]
  <1>1. RunTypeOK /\ TypeOK /\ IInv' /\ TypeOK' /\ WorkWasTaken
    BY RegistryKept DEF RunIInv, IInv
  <1>2. /\ f.kind = "reject"
        /\ jobs' = jobs \cup {new}
        /\ handlers' = handlers \ {f}
        /\ UNCHANGED <<registryVars, req, origin, runRow, msgRow, answers, up, taken, work,
                       emitted, final, published>>
    BY DEF HandlerResumes, HandlerUnchanged, RunRejected
  <1>3. new \in Jobs /\ new.kind = "gatewayFail" /\ work[new.run] # "none"
    <2>1. f \in [kind : {"reject"}, run : Runs, seq : 0 .. MaxSeq, code : ErrorCodes]
      BY <1>1, <1>2 DEF RunTypeOK, Frames, FrameKinds
    <2> QED BY <1>1, <2>1 DEF Jobs, JobKinds, WorkWasTaken
  <1> HIDE DEF new
  <1>4. RunTypeOK'
    BY <1>1, <1>2, <1>3 DEF RunTypeOK
  <1>5. WorkGoesOn /\ NewJobs({"gatewayFail"}) /\ Admitted' \subseteq Admitted /\ NumbersFall
    <2>1. NumbersFall
      BY <1>1, <1>2, RunNumbers DEF RunIInv, RecordedInOrder
    <2> QED BY <1>2, <1>3, <2>1 DEF WorkGoesOn, NewJobs, Admitted
  <1>6. WorkWasTaken'
    BY <1>2, <1>3, WorkKept
  <1>7. InOnePlace'
    BY <1>2, <1>5, PlacesKept DEF NewJobs, JobKinds
  <1>8. RecordedInOrder'
    BY <1>1, <1>2, <1>5, RunFacts, RecordedKept
  <1>9. ShownInOrder'
    BY <1>2, <1>5, ShownKept DEF NewJobs, JobKinds
  <1>10. AnsweredInOrder'
    BY <1>2, <1>5, AnsweredKept DEF NewJobs, JobKinds
  <1> QED BY <1>1, <1>4, <1>6, <1>7, <1>8, <1>9, <1>10 DEF RunIInv

\* handleRunAccepted starts its write.
LEMMA AcceptedKept ==
    ASSUME RunIInv, [Next]_registryVars, NEW f \in handlers, HandlerResumes(f),
           NEW c \in Conns, RunAccepted(c, f)
    PROVE  RunIInv'
  <1> DEFINE r == f.run
             new == Job("accepted", r)
  <1>1. /\ f.kind = "accepted" /\ RecordRunAccepted(HostOf[c], r)
        /\ jobs' = jobs \cup {new} /\ published' = published
    BY DEF RunAccepted
  <1>2. RunTypeOK /\ TypeOK /\ f \in Admitted /\ f \in Frames /\ r \in Runs
    BY <1>1, AdmittedHandlers DEF RunIInv, IInv
  <1>3. new \in Jobs /\ new.kind = "accepted" /\ new.run = r
    BY <1>2 DEF Job, Jobs, JobKinds, ErrorCodes
  <1>4. jobs' \subseteq Jobs /\ published' \in [Runs -> Seq(FrameKinds)]
    BY <1>1, <1>2, <1>3 DEF RunTypeOK
  <1>5. /\ IInv' /\ RunTypeOK' /\ WorkWasTaken'
        /\ UNCHANGED <<req, origin, runRow, msgRow, answers, up, taken, work, emitted, final>>
        /\ Numbered(f) /\ ~Spent(r, f.seq)
        /\ Admitted' = Admitted \ {f}
    BY <1>1, <1>3, <1>4, HandlerFrame
  <1>6. f.seq = 0 /\ work[r] \in {"accepted", "done"} /\ "accepted" \notin Elems(published[r])
    BY <1>1, <1>5 DEF Numbered, Spent
  <1>7. \A q \in Runs : \A s : Spent(q, s)' => Spent(q, s) \/ (q = r /\ s = f.seq)
    <2>1. \A q \in Runs : Job("accepted", q) \in jobs' => Job("accepted", q) \in jobs \/ q = r
      BY <1>1 DEF Job
    <2> QED BY <1>1, <1>5, <1>6, <2>1 DEF Spent, Events, TerminalFrames
  <1>8. InOnePlace'
    BY <1>2, <1>5, <1>7, HandledPlaces
  <1>9. NumbersFall /\ WorkGoesOn /\ NewJobs({"accepted"})
    <2>1. HostOf[c] \in Hosts
      OBVIOUS
    <2>2. NumbersFall
      BY <1>1, <1>2, <2>1, RunNumbers DEF RunIInv, RecordedInOrder
    <2> QED BY <1>1, <1>3, <1>5, <2>2 DEF WorkGoesOn, NewJobs
  <1>10. RecordedInOrder'
    BY <1>1, <1>2, <1>5, <1>9, RunFacts, RecordedKept
  <1>11. ShownInOrder'
    <2>1. ShownInOrder /\ UNCHANGED <<published, emitted, work>>
      BY <1>1, <1>5 DEF RunIInv
    <2>2. /\ \A q \in Runs : Events(q)' = Events(q) /\ TerminalFrames(q)' = TerminalFrames(q)
          /\ CompletedStreamsAllEvents'
      BY <2>1 DEF Events, TerminalFrames, ShownInOrder, CompletedStreamsAllEvents
    <2> QED BY <1>1, <1>3, <1>6, <2>1, <2>2 DEF ShownInOrder
  <1>12. AnsweredInOrder'
    BY <1>1, <1>5, <1>9, AnsweredKept DEF NewJobs, JobKinds
  <1> QED BY <1>5, <1>8, <1>10, <1>11, <1>12 DEF RunIInv

\* What a publication leaves true of every `completed' before it.
LEMMA StreamsKept ==
    ASSUME RunIInv, NEW r \in Runs, NEW k \in FrameKinds, Publish(r, k), emitted' = emitted,
           k = "completed" => Events(r) = emitted[r]
    PROVE  CompletedStreamsAllEvents'
  <1>1. RunTypeOK /\ CompletedStreamsAllEvents
    BY DEF RunIInv, ShownInOrder
  <1>2. Len(published[r]) \in Nat
    BY <1>1, RunFacts
  <1>3. SUFFICES ASSUME NEW q \in Runs, NEW i \in 1 .. Len(published'[q]),
                        published'[q][i] = "completed"
                 PROVE  EventsUpTo(published'[q], i) = emitted[q]
    BY DEF CompletedStreamsAllEvents, EventsUpTo
  <1>4. \A p \in Runs : \A j \in 1 .. Len(published[p]) :
            published[p][j] = "completed" => EventsUpTo(published[p], j) = emitted[p]
    BY <1>1 DEF CompletedStreamsAllEvents, EventsUpTo
  <1>5. CASE q # r
    BY <1>1, <1>3, <1>4, <1>5, PublishEffect
  <1>6. CASE q = r /\ i \in 1 .. Len(published[r])
    BY <1>1, <1>3, <1>4, <1>6, PublishEffect
  <1>7. CASE q = r /\ i = Len(published[r]) + 1
    <2>1. k = "completed" /\ EventsUpTo(published'[r], i) = Events(r)'
      BY <1>1, <1>3, <1>7, PublishEffect
    <2>2. Events(r)' = Events(r)
      <3>1. Events(r)' = Events(r) + 0 /\ Events(r) \in Nat
        BY <1>1, <2>1, PublishEffect, RunFacts
      <3> QED BY <3>1
    <2> QED BY <1>7, <2>1, <2>2
  <1> QED BY <1>1, <1>2, <1>3, <1>5, <1>6, <1>7, PublishEffect

\* handleRunEvent records, publishes and starts its write.
LEMMA EventKept ==
    ASSUME RunIInv, [Next]_registryVars, NEW f \in handlers, HandlerResumes(f), RunEvent(f)
    PROVE  RunIInv'
  <1> DEFINE r == f.run
             new == [Job("event", r) EXCEPT !.seq = f.seq]
  <1>1. /\ f.kind = "event" /\ RecordRunSeq(r, f.seq) /\ Publish(r, "event")
        /\ jobs' = jobs \cup {new}
    BY DEF RunEvent
  <1>2. RunTypeOK /\ TypeOK /\ f \in Admitted /\ f \in Frames /\ r \in Runs /\ f.seq \in 0 .. MaxSeq
    BY <1>1, AdmittedHandlers DEF RunIInv, IInv
  <1>3. new \in Jobs /\ new.kind = "event"
    BY <1>2 DEF Job, Jobs, JobKinds, ErrorCodes
  <1>4. /\ published' \in [Runs -> Seq(FrameKinds)]
        /\ \A q \in Runs \ {r} : /\ published'[q] = published[q]
                                 /\ Events(q)' = Events(q)
                                 /\ TerminalFrames(q)' = TerminalFrames(q)
        /\ Events(r)' = Events(r) + 1
        /\ TerminalFrames(r)' = TerminalFrames(r)
        /\ \A x : x \in Elems(published'[r]) <=> x \in Elems(published[r]) \/ x = "event"
    <2>1. "event" \in FrameKinds /\ "event" \notin Ends
      BY DEF FrameKinds, Ends
    <2> QED BY <1>1, <1>2, <2>1, PublishEffect
  <1> HIDE DEF new
  <1>5. /\ IInv' /\ RunTypeOK' /\ WorkWasTaken'
        /\ UNCHANGED <<req, origin, runRow, msgRow, answers, up, taken, work, emitted, final>>
        /\ Numbered(f) /\ ~Spent(r, f.seq)
        /\ Admitted' = Admitted \ {f}
        /\ \A g \in Admitted' : ~SameFrame(g, f)
    <2>1. jobs' \subseteq Jobs
      BY <1>1, <1>2, <1>3 DEF RunTypeOK
    <2> QED BY <1>1, <1>3, <1>4, <2>1, HandlerFrame
  <1>6. /\ Events(r) \in Nat /\ emitted[r] \in Nat
        /\ f.seq = Events(r) + 1 /\ f.seq \in 1 .. emitted[r]
        /\ "completed" \notin Elems(published[r])
    <2>1. f.seq = Events(r) + 1 /\ f.seq \in 1 .. emitted[r]
      BY <1>1, <1>2, <1>5 DEF RunIInv, RecordedInOrder, Numbered
    <2>2. Events(r) \in Nat /\ emitted[r] \in Nat
      BY <1>2, RunFacts
    <2> QED BY <1>2, <2>1, <2>2 DEF RunIInv, ShownInOrder
  <1>7. InOnePlace'
    <2>1. ASSUME NEW q \in Runs, NEW s, Spent(q, s)'
          PROVE  Spent(q, s) \/ (q = r /\ s = f.seq)
      <3>1. Job("accepted", q) \in jobs' => Job("accepted", q) \in jobs
        BY <1>1, <1>3 DEF Job
      <3>2. CASE q = r
        BY <1>4, <1>5, <1>6, <2>1, <3>1, <3>2 DEF Spent
      <3>3. CASE q # r
        BY <1>4, <1>5, <2>1, <3>1, <3>3 DEF Spent
      <3> QED BY <3>2, <3>3
    <2> QED BY <1>2, <1>5, <2>1, HandledPlaces
  <1>8. RecordedInOrder'
    <2>1. RecordedInOrder /\ activeHost' = activeHost /\ emitted' = emitted
      BY <1>1, <1>5 DEF RunIInv, RecordRunSeq
    <2>2. /\ \A q \in Runs \ {r} : lastSeq'[q] = lastSeq[q]
          /\ lastSeq'[r] = IF Tracked(r) THEN f.seq ELSE lastSeq[r]
      BY <1>1, <1>2 DEF RecordRunSeq, TypeOK
    <2>3. \A q \in Runs : lastSeq'[q] \in {0, Events(q)'} /\ Events(q)' <= emitted'[q]
      BY <1>2, <1>4, <1>6, <2>1, <2>2 DEF RecordedInOrder
    <2>4. \A q \in Runs : ~Tracked(q)' => lastSeq'[q] = 0
      BY <2>1, <2>2 DEF RecordedInOrder, Tracked
    <2>5. ASSUME NEW g \in Admitted'
          PROVE  /\ g.run \in Runs
                 /\ g.kind = "event" => g.seq = Events(g.run)' + 1
                 /\ g.kind = "completed" => Events(g.run)' = emitted[g.run]
      <3>1. g \in Admitted /\ g.run \in Runs /\ ~SameFrame(g, f)
        BY <1>5 DEF Admitted, Frames
      <3>2. CASE g.run = r
        <4>1. g.kind # "event"
          BY <1>6, <2>1, <3>1, <3>2 DEF RecordedInOrder, SameFrame
        <4>2. g.kind # "completed"
          BY <1>6, <2>1, <3>1, <3>2 DEF RecordedInOrder
        <4> QED BY <3>1, <4>1, <4>2
      <3>3. CASE g.run # r
        BY <1>4, <2>1, <3>1, <3>3 DEF RecordedInOrder
      <3> QED BY <3>2, <3>3
    <2> QED BY <2>1, <2>3, <2>4, <2>5 DEF RecordedInOrder
  <1>9. ShownInOrder'
    <2>1. ShownInOrder /\ work' = work /\ emitted' = emitted
      BY <1>5 DEF RunIInv
    <2>2. CompletedStreamsAllEvents'
      BY <1>1, <1>2, <1>5, StreamsKept DEF FrameKinds
    <2>3. \A j \in jobs' : j.kind = "accepted" => j \in jobs /\ j.run \in Runs
      BY <1>1, <1>2, <1>3 DEF RunTypeOK, Jobs
    <2>4. ASSUME NEW q \in Runs, NEW x \in {"accepted", "completed"}, x \in Elems(published'[q])
          PROVE  x \in Elems(published[q])
      <3>1. CASE q = r
        BY <1>4, <2>4, <3>1
      <3>2. CASE q # r
        BY <1>4, <2>4, <3>2
      <3> QED BY <3>1, <3>2
    <2>5. \A q \in Runs : "completed" \in Elems(published'[q]) => Events(q)' = Events(q)
      BY <1>4, <1>6
    <2>6. \A q \in Runs : TerminalFrames(q)' = TerminalFrames(q)
      BY <1>4
    <2> QED BY <2>1, <2>2, <2>3, <2>4, <2>5, <2>6 DEF ShownInOrder
  <1>10. AnsweredInOrder'
    BY <1>1, <1>3, <1>4, <1>5, AnsweredKept DEF NewJobs, JobKinds
  <1> QED BY <1>5, <1>7, <1>8, <1>9, <1>10 DEF RunIInv

\* handleRunCompleted and handleRunFailed publish the end of a run.
LEMMA EndShown ==
    ASSUME RunIInv, [Next]_registryVars, NEW f \in handlers, HandlerResumes(f),
           f.kind \in Ends, ClearActiveRun(f.run), Publish(f.run, f.kind),
           jobs' \subseteq Jobs, NewJobs({"answer", "completed", "failed"})
    PROVE  /\ IInv' /\ RunTypeOK' /\ WorkWasTaken'
           /\ InOnePlace' /\ RecordedInOrder' /\ ShownInOrder'
           /\ TerminalFrames(f.run) = {}
  <1> DEFINE r == f.run
             k == f.kind
             n == Len(published[r]) + 1
  <1>1. k \in FrameKinds /\ k # "reject" /\ k \notin {"event", "accepted"}
    BY DEF Ends, FrameKinds
  <1>2. RunTypeOK /\ TypeOK /\ f \in Admitted /\ f \in Frames /\ r \in Runs
    BY <1>1, AdmittedHandlers DEF RunIInv, IInv
  <1>3. /\ published' \in [Runs -> Seq(FrameKinds)]
        /\ \A q \in Runs \ {r} : /\ published'[q] = published[q]
                                 /\ TerminalFrames(q)' = TerminalFrames(q)
        /\ \A q \in Runs : Events(q)' = Events(q)
        /\ TerminalFrames(r)' = TerminalFrames(r) \cup {n}
        /\ \A x : x \in Elems(published'[r]) <=> x \in Elems(published[r]) \/ x = k
    <2>1. Events(r)' = Events(r) + 0 /\ Events(r) \in Nat
      BY <1>1, <1>2, PublishEffect, RunFacts
    <2>2. Events(r)' = Events(r)
      BY <2>1
    <2> QED BY <1>1, <1>2, <2>2, PublishEffect
  <1>4. /\ IInv' /\ RunTypeOK' /\ WorkWasTaken'
        /\ UNCHANGED <<req, origin, runRow, msgRow, answers, up, taken, work, emitted, final>>
        /\ Numbered(f) /\ ~Spent(r, f.seq)
        /\ Admitted' = Admitted \ {f}
    <2>1. \A j \in jobs' \ jobs : j.kind # "gatewayFail"
      BY DEF NewJobs
    <2> QED BY <1>1, <1>3, <2>1, HandlerFrame
  <1>5. f.seq = emitted[r] + 1 /\ work[r] = "done" /\ TerminalFrames(r) = {}
    BY <1>4 DEF Numbered, Spent
  <1>6. \A q \in Runs : Job("accepted", q) \in jobs' => Job("accepted", q) \in jobs
    BY DEF NewJobs, Job
  <1>7. ASSUME NEW q \in Runs, "accepted" \in Elems(published'[q])
        PROVE  "accepted" \in Elems(published[q])
    <2>1. CASE q = r
      BY <1>1, <1>3, <1>7, <2>1
    <2>2. CASE q # r
      BY <1>3, <1>7, <2>2
    <2> QED BY <2>1, <2>2
  <1>8. InOnePlace'
    <2>1. ASSUME NEW q \in Runs, NEW s, Spent(q, s)'
          PROVE  Spent(q, s) \/ (q = r /\ s = f.seq)
      <3>1. CASE q = r
        BY <1>3, <1>4, <1>5, <1>6, <1>7, <2>1, <3>1 DEF Spent
      <3>2. CASE q # r
        BY <1>3, <1>4, <1>6, <1>7, <2>1, <3>2 DEF Spent
      <3> QED BY <3>1, <3>2
    <2> QED BY <1>2, <1>4, <2>1, HandledPlaces
  <1>9. RecordedInOrder'
    <2>1. RecordedInOrder /\ emitted' = emitted
      BY <1>4 DEF RunIInv
    <2>2. NumbersFall
      BY <1>2, <2>1, RunNumbers DEF RecordedInOrder
    <2>3. \A q \in Runs : /\ ~Tracked(q)' => lastSeq'[q] = 0
                          /\ lastSeq'[q] \in {0, Events(q)'}
                          /\ Events(q)' <= emitted'[q]
      BY <1>3, <2>1, <2>2 DEF RecordedInOrder, NumbersFall, Tracked
    <2>4. \A g \in Admitted' : /\ g.kind = "event" => g.seq = Events(g.run)' + 1
                               /\ g.kind = "completed" => Events(g.run)' = emitted[g.run]
      BY <1>3, <1>4, <2>1 DEF RecordedInOrder, Admitted, Frames
    <2> QED BY <2>1, <2>3, <2>4 DEF RecordedInOrder
  <1>10. ShownInOrder'
    <2>1. ShownInOrder /\ work' = work /\ emitted' = emitted
      BY <1>4 DEF RunIInv
    <2>2. k = "completed" => Events(r) = emitted[r]
      BY <1>2 DEF RunIInv, RecordedInOrder
    <2>3. CompletedStreamsAllEvents'
      BY <1>1, <1>2, <2>1, <2>2, StreamsKept
    <2>4. ASSUME NEW q \in Runs, "completed" \in Elems(published'[q])
          PROVE  Events(q)' = emitted'[q]
      <3>1. CASE q = r
        BY <1>3, <2>1, <2>2, <2>4, <3>1 DEF ShownInOrder
      <3>2. CASE q # r
        BY <1>3, <2>1, <2>4, <3>2 DEF ShownInOrder
      <3> QED BY <3>1, <3>2
    <2>5. ASSUME NEW q \in Runs
          PROVE  /\ TerminalFrames(q)' # {} => work'[q] = "done"
                 /\ \A i, j \in TerminalFrames(q)' : i = j
      <3>1. CASE q = r
        BY <1>3, <1>5, <2>1, <3>1
      <3>2. CASE q # r
        BY <1>3, <2>1, <3>2 DEF ShownInOrder
      <3> QED BY <3>1, <3>2
    <2>6. \A j \in jobs' : j.kind = "accepted" => j \in jobs /\ j.run \in Runs
      BY <1>2 DEF RunTypeOK, Jobs, NewJobs
    <2> QED BY <1>7, <2>1, <2>3, <2>4, <2>5, <2>6 DEF ShownInOrder
  <1> QED BY <1>4, <1>5, <1>8, <1>9, <1>10

\* handleRunCompleted: the answer is still to be written, if there is one.
LEMMA CompletedKept ==
    ASSUME RunIInv, [Next]_registryVars, NEW f \in handlers, HandlerResumes(f), RunCompleted(f)
    PROVE  RunIInv'
  <1> DEFINE r == f.run
             new == CompletionWrite(r)
  <1>1. /\ f.kind = "completed" /\ ClearActiveRun(r) /\ Publish(r, "completed")
        /\ jobs' = jobs \cup {new}
    BY DEF RunCompleted
  <1>2. RunTypeOK /\ AnsweredInOrder /\ r \in Runs
    BY <1>1, AdmittedHandlers DEF RunIInv
  <1>3. /\ new \in Jobs /\ new.run = r
        /\ final[r] => new = Job("answer", r) /\ new.kind = "answer"
        /\ ~final[r] => new.kind = "completed"
    <2>1. /\ Job("answer", r) \in Jobs /\ Job("completed", r) \in Jobs
          /\ Job("answer", r).run = r /\ Job("completed", r).run = r
          /\ Job("answer", r).kind = "answer" /\ Job("completed", r).kind = "completed"
      BY <1>2 DEF Job, Jobs, JobKinds, ErrorCodes
    <2> QED BY <2>1 DEF CompletionWrite
  <1> HIDE DEF new
  <1>4. jobs' \subseteq Jobs /\ NewJobs({"answer", "completed", "failed"})
    BY <1>1, <1>2, <1>3 DEF RunTypeOK, NewJobs
  <1>5. /\ IInv' /\ RunTypeOK' /\ WorkWasTaken' /\ InOnePlace' /\ RecordedInOrder'
        /\ ShownInOrder' /\ TerminalFrames(r) = {}
    BY <1>1, <1>4, EndShown DEF Ends
  <1>6. AnsweredInOrder'
    <2>1. answers' = answers /\ runRow' = runRow /\ final' = final
      BY DEF HandlerResumes, HandlerUnchanged
    <2>2. /\ "completed" \in Elems(published'[r])
          /\ \A q \in Runs : \A x : x \in Elems(published[q]) => x \in Elems(published'[q])
      BY <1>1, <1>2, PublishEffect DEF FrameKinds
    <2>3. answers[r] = 0
      BY <1>2, <1>5, RunFacts DEF AnsweredInOrder, Settled
    <2>4. /\ \A q \in Runs : Settled(q) => Settled(q)'
          /\ ~final[r] => Settled(r)'
      BY <2>1, <2>2, <2>3 DEF Settled
    <2>5. \A j \in jobs' : (j \in jobs /\ j.run \in Runs) \/ j = new
      BY <1>1, <1>2 DEF RunTypeOK, Jobs
    <2>6. ASSUME NEW j \in jobs', j.kind = "answer"
          PROVE  /\ j = Job("answer", j.run) /\ answers[j.run] = 0 /\ final[j.run]
                 /\ "completed" \in Elems(published'[j.run])
      <3>1. CASE j \in jobs /\ j.run \in Runs
        BY <1>2, <2>2, <2>6, <3>1 DEF AnsweredInOrder
      <3>2. CASE j = new
        BY <1>3, <2>2, <2>3, <2>6, <3>2
      <3> QED BY <2>5, <3>1, <3>2
    <2>7. ASSUME NEW j \in jobs', j.kind = "completed" PROVE Settled(j.run)'
      <3>1. CASE j \in jobs /\ j.run \in Runs
        <4>1. Settled(j.run)
          BY <1>2, <2>7, <3>1 DEF AnsweredInOrder
        <4> QED BY <2>1, <2>2, <3>1, <4>1 DEF Settled
      <3>2. CASE j = new
        <4>1. ~final[r] /\ j.run = r
          BY <1>3, <2>7, <3>2
        <4> QED BY <2>1, <2>2, <2>3, <4>1 DEF Settled
      <3> QED BY <2>5, <3>1, <3>2
    <2> QED BY <1>2, <2>1, <2>4, <2>6, <2>7 DEF AnsweredInOrder
  <1> QED BY <1>5, <1>6 DEF RunIInv

\* handleRunFailed.
LEMMA FailedKept ==
    ASSUME RunIInv, [Next]_registryVars, NEW f \in handlers, HandlerResumes(f), RunFailed(f)
    PROVE  RunIInv'
  <1> DEFINE r == f.run
             new == [Job("failed", r) EXCEPT !.code = "host"]
  <1>1. /\ f.kind = "failed" /\ ClearActiveRun(r) /\ Publish(r, "failed")
        /\ jobs' = jobs \cup {new}
    BY DEF RunFailed
  <1>2. RunTypeOK /\ r \in Runs
    BY <1>1, AdmittedHandlers DEF RunIInv
  <1>3. new \in Jobs /\ new.kind = "failed"
    BY <1>2 DEF Job, Jobs, JobKinds, ErrorCodes
  <1>4. jobs' \subseteq Jobs /\ NewJobs({"answer", "completed", "failed"}) /\ NewJobs({"failed"})
    BY <1>1, <1>2, <1>3 DEF RunTypeOK, NewJobs
  <1>5. /\ IInv' /\ RunTypeOK' /\ WorkWasTaken' /\ InOnePlace' /\ RecordedInOrder'
        /\ ShownInOrder'
    BY <1>1, <1>4, EndShown DEF Ends
  <1>6. AnsweredInOrder'
    <2>1. answers' = answers /\ runRow' = runRow /\ final' = final
      BY DEF HandlerResumes, HandlerUnchanged
    <2>2. \A q \in Runs : \A x : x \in Elems(published[q]) => x \in Elems(published'[q])
      BY <1>1, <1>2, PublishEffect DEF FrameKinds
    <2> QED BY <1>4, <2>1, <2>2, AnsweredKept DEF NewJobs, JobKinds
  <1> QED BY <1>5, <1>6 DEF RunIInv

\* handleRunAccepted publishes when its write is answered.
LEMMA WriteAcceptedKept ==
    ASSUME RunIInv, [Next]_registryVars, NEW j \in jobs, JobAnswered(j), WriteAccepted(j)
    PROVE  RunIInv'
  <1> DEFINE r == j.run
  <1>1. /\ j.kind = "accepted" /\ SetStatus(r, "accepted") /\ Publish(r, "accepted")
        /\ jobs' = jobs \ {j}
        /\ UNCHANGED <<registryVars, msgRow, answers, req, origin, handlers, up, taken,
                       work, emitted, final>>
    BY DEF WriteAccepted, JobAnswered, JobUnchanged
  <1>2. /\ RunTypeOK /\ TypeOK /\ IInv' /\ TypeOK' /\ ShownInOrder
        /\ j \in Jobs /\ r \in Runs
    BY RegistryKept DEF RunIInv, IInv, RunTypeOK, Jobs
  <1>3. /\ published' \in [Runs -> Seq(FrameKinds)]
        /\ \A q \in Runs \ {r} : published'[q] = published[q]
        /\ \A q \in Runs : Events(q)' = Events(q) /\ TerminalFrames(q)' = TerminalFrames(q)
        /\ \A x : x \in Elems(published'[r]) <=> x \in Elems(published[r]) \/ x = "accepted"
    <2>1. "accepted" \in FrameKinds /\ "accepted" \notin Ends
      BY DEF FrameKinds, Ends
    <2>2. Events(r)' = Events(r) + 0 /\ Events(r) \in Nat
      BY <1>1, <1>2, <2>1, PublishEffect, RunFacts
    <2>3. Events(r)' = Events(r)
      BY <2>2
    <2> QED BY <1>1, <1>2, <2>1, <2>3, PublishEffect
  <1>4. /\ j = Job("accepted", r) /\ work[r] \in {"accepted", "done"}
        /\ "accepted" \notin Elems(published[r])
    BY <1>1, <1>2 DEF ShownInOrder
  <1>5. RowsKept
    BY <1>1, <1>2, RowWrites DEF RunStatuses
  <1>6. RunTypeOK'
    BY <1>1, <1>2, <1>3, <1>5 DEF RunTypeOK, RowsKept
  <1>7. WorkWasTaken'
    BY <1>1, WorkKept
  <1>8. InOnePlace'
    <2>1. ASSUME NEW q \in Runs, NEW s, Spent(q, s)' PROVE Spent(q, s)
      <3>1. CASE q = r
        BY <1>1, <1>3, <1>4, <2>1, <3>1 DEF Spent
      <3>2. CASE q # r
        BY <1>1, <1>3, <2>1, <3>2 DEF Spent
      <3> QED BY <3>1, <3>2
    <2> QED BY <1>1, <2>1, HandledPlaces DEF Admitted
  <1>9. RecordedInOrder'
    <2>1. RecordedInOrder /\ UNCHANGED <<lastSeq, activeHost, handlers, emitted, final>>
      BY <1>1 DEF RunIInv, registryVars
    <2>2. \A g \in Admitted : g.run \in Runs
      BY DEF Admitted, Frames
    <2> QED BY <1>3, <2>1, <2>2 DEF RecordedInOrder, Tracked, Admitted
  <1>10. ShownInOrder'
    <2>1. CompletedStreamsAllEvents'
      BY <1>1, <1>2, StreamsKept DEF FrameKinds
    <2>2. ASSUME NEW i \in jobs', i.kind = "accepted"
          PROVE  /\ i = Job("accepted", i.run)
                 /\ work[i.run] \in {"accepted", "done"}
                 /\ "accepted" \notin Elems(published'[i.run])
      <3>1. i \in jobs /\ i # j /\ i.run \in Runs
        BY <1>1, <1>2 DEF RunTypeOK, Jobs
      <3>2. i = Job("accepted", i.run) /\ i.run # r
        BY <1>2, <1>4, <2>2, <3>1 DEF ShownInOrder
      <3> QED BY <1>2, <1>3, <2>2, <3>1, <3>2 DEF ShownInOrder
    <2>3. ASSUME NEW q \in Runs
          PROVE  /\ "accepted" \in Elems(published'[q]) => work[q] \in {"accepted", "done"}
                 /\ "completed" \in Elems(published'[q]) => "completed" \in Elems(published[q])
      <3>1. CASE q = r
        BY <1>3, <1>4, <3>1
      <3>2. CASE q # r
        BY <1>2, <1>3, <3>2 DEF ShownInOrder
      <3> QED BY <3>1, <3>2
    <2> QED BY <1>1, <1>2, <1>3, <2>1, <2>2, <2>3 DEF ShownInOrder
  <1>11. AnsweredInOrder'
    <2>1. \A q \in Runs : \A x : x \in Elems(published[q]) => x \in Elems(published'[q])
      BY <1>3
    <2> QED BY <1>1, <1>5, <2>1, AnsweredKept DEF NewJobs, RowsKept
  <1> QED BY <1>2, <1>6, <1>7, <1>8, <1>9, <1>10, <1>11 DEF RunIInv

\* persistRunCompletion: the answer is written, and then its status.
LEMMA InsertAnswerKept ==
    ASSUME RunIInv, [Next]_registryVars, NEW j \in jobs, JobAnswered(j), InsertAnswer(j)
    PROVE  RunIInv'
  <1> DEFINE r == j.run
             new == Job("completed", r)
  <1>1. /\ j.kind = "answer"
        /\ answers' = [answers EXCEPT ![r] = answers[r] + 1]
        /\ jobs' = (jobs \ {j}) \cup {new}
        /\ UNCHANGED <<registryVars, runRow, msgRow, published, req, origin, handlers, up,
                       taken, work, emitted, final>>
    BY DEF InsertAnswer, JobAnswered, JobUnchanged
  <1>2. /\ RunTypeOK /\ TypeOK /\ IInv' /\ TypeOK' /\ AnsweredInOrder
        /\ j \in Jobs /\ r \in Runs
    BY RegistryKept DEF RunIInv, IInv, RunTypeOK, Jobs
  <1>3. new \in Jobs /\ new.kind = "completed" /\ new.run = r
    BY <1>2 DEF Job, Jobs, JobKinds, ErrorCodes
  <1>4. /\ j = Job("answer", r) /\ answers[r] = 0 /\ final[r]
        /\ "completed" \in Elems(published[r])
    BY <1>1, <1>2 DEF AnsweredInOrder
  <1>5. /\ answers' \in [Runs -> Nat] /\ answers'[r] = 1
        /\ \A q \in Runs \ {r} : answers'[q] = answers[q]
    BY <1>1, <1>2, <1>4 DEF RunTypeOK
  <1> HIDE DEF new
  <1>6. RunTypeOK'
    BY <1>1, <1>2, <1>3, <1>5 DEF RunTypeOK
  <1>7. WorkGoesOn /\ NewJobs({"completed"}) /\ NumbersFall
    <2>1. NumbersFall
      BY <1>1, <1>2, RunNumbers DEF RunIInv, RecordedInOrder
    <2> QED BY <1>1, <1>3, <2>1 DEF WorkGoesOn, NewJobs
  <1>8. WorkWasTaken'
    BY <1>1, <1>3, WorkKept
  <1>9. InOnePlace'
    BY <1>1, <1>7, PlacesKept DEF NewJobs, JobKinds, Admitted
  <1>10. RecordedInOrder'
    BY <1>1, <1>2, <1>7, RunFacts, RecordedKept DEF Admitted
  <1>11. ShownInOrder'
    BY <1>1, <1>7, ShownKept DEF NewJobs, JobKinds
  <1>12. AnsweredInOrder'
    <2>1. ASSUME NEW i \in jobs', i.kind = "answer"
          PROVE  /\ i = Job("answer", i.run) /\ answers'[i.run] = 0 /\ final[i.run]
                 /\ "completed" \in Elems(published[i.run])
      <3>1. i \in jobs /\ i # j /\ i.run \in Runs
        BY <1>1, <1>2, <1>3, <2>1 DEF RunTypeOK, Jobs
      <3>2. i = Job("answer", i.run) /\ i.run # r
        BY <1>2, <1>4, <2>1, <3>1 DEF AnsweredInOrder
      <3> QED BY <1>2, <1>5, <2>1, <3>1, <3>2 DEF AnsweredInOrder
    <2>2. Settled(r)' /\ ~Settled(r)
      BY <1>1, <1>4, <1>5 DEF Settled
    <2>3. \A q \in Runs : Settled(q) => Settled(q)'
      BY <1>1, <1>5, <2>2 DEF Settled
    <2>4. ASSUME NEW i \in jobs', i.kind = "completed" PROVE Settled(i.run)'
      <3>1. CASE i \in jobs
        <4>1. i.run \in Runs /\ Settled(i.run)
          BY <1>2, <2>4, <3>1 DEF AnsweredInOrder, RunTypeOK, Jobs
        <4> QED BY <1>1, <1>5, <2>2, <4>1 DEF Settled
      <3>2. CASE i = new
        BY <1>3, <2>2, <3>2 DEF Settled
      <3> QED BY <1>1, <3>1, <3>2
    <2>5. ASSUME NEW q \in Runs
          PROVE  answers'[q] \in {0, 1} /\ (answers'[q] = 1 => Settled(q)')
      <3>1. CASE q = r
        BY <1>5, <2>2, <3>1
      <3>2. CASE q # r
        BY <1>2, <1>5, <2>3, <3>2 DEF AnsweredInOrder
      <3> QED BY <3>1, <3>2
    <2> QED BY <1>1, <1>2, <2>1, <2>3, <2>4, <2>5 DEF AnsweredInOrder
  <1> QED BY <1>2, <1>6, <1>8, <1>9, <1>10, <1>11, <1>12 DEF RunIInv

\* The other writes.
LEMMA OtherWritesKept ==
    ASSUME RunIInv, [Next]_registryVars, NEW j \in jobs, JobAnswered(j),
           WriteStatus(j) \/ WriteMessageSent(j) \/ WriteGatewayFailure(j)
    PROVE  RunIInv'
  <1> DEFINE r == j.run
  <1>1. /\ jobs' = jobs \ {j}
        /\ UNCHANGED <<answers, published, req, origin, handlers, up, taken, work, emitted, final>>
        /\ UNCHANGED registryVars \/ ClearActiveRun(r)
    BY DEF WriteStatus, WriteMessageSent, WriteGatewayFailure, JobAnswered, JobUnchanged
  <1>2. /\ RunTypeOK /\ TypeOK /\ IInv' /\ TypeOK' /\ AnsweredInOrder
        /\ j \in Jobs /\ r \in Runs /\ j.code \in ErrorCodes
    BY RegistryKept DEF RunIInv, IInv, RunTypeOK, Jobs
  <1>3. RowsKept
    <2>1. j.kind = "completed" => Settled(r)
      BY <1>2 DEF AnsweredInOrder
    <2>2. \/ runRow' = runRow
          \/ SetError(r, "failed", j.code)
          \/ \E s \in {"running", "completed"} : SetStatus(r, s) /\ (s = "completed" => j.kind = s)
      BY DEF WriteStatus, WriteMessageSent, WriteGatewayFailure
    <2> QED BY <1>2, <2>1, <2>2, RowWrites DEF RunStatuses
  <1>4. msgRow' \in [Runs -> {"none", "pending", "sent", "replaced"}]
    <2>1. msgRow \in [Runs -> {"none", "pending", "sent", "replaced"}]
      BY <1>2 DEF RunTypeOK
    <2>2. msgRow' = msgRow \/ msgRow' = [msgRow EXCEPT ![r] = "sent"]
      BY DEF WriteStatus, WriteMessageSent, WriteGatewayFailure
    <2> QED BY <2>1, <2>2
  <1>5. RunTypeOK'
    BY <1>1, <1>2, <1>3, <1>4 DEF RunTypeOK, RowsKept
  <1>6. NumbersFall
    BY <1>1, <1>2, RunNumbers DEF RunIInv, RecordedInOrder
  <1> QED BY <1>1, <1>3, <1>5, <1>6, QuietStep DEF RowsKept, NewJobs

\* A handler that throws leaves its frame without effect.
LEMMA HandlerThrowsKept ==
    ASSUME RunIInv, [Next]_registryVars, NEW f \in handlers, HandlerThrows(f)
    PROVE  RunIInv'
  <1>1. RunTypeOK /\ TypeOK /\ IInv' /\ TypeOK'
    BY RegistryKept DEF RunIInv, IInv
  <1>2. /\ handlers' = handlers \ {f}
        /\ UNCHANGED <<registryVars, req, origin, runRow, msgRow, answers, jobs, up, taken,
                       work, emitted, final, published>>
    BY DEF HandlerThrows, HandlerUnchanged
  <1>3. RunTypeOK'
    BY <1>1, <1>2 DEF RunTypeOK
  <1>4. NumbersFall
    BY <1>1, <1>2, RunNumbers DEF RunIInv, RecordedInOrder
  <1> QED BY <1>2, <1>3, <1>4, QuietStep DEF NewJobs

\* A write that fails leaves nothing but the job that it was.
LEMMA WriteThrowsKept ==
    ASSUME RunIInv, [Next]_registryVars, NEW j \in jobs, WriteThrows(j)
    PROVE  RunIInv'
  <1>1. RunTypeOK /\ TypeOK /\ IInv' /\ TypeOK'
    BY RegistryKept DEF RunIInv, IInv
  <1>2. /\ jobs' = jobs \ {j}
        /\ UNCHANGED <<registryVars, req, origin, runRow, msgRow, answers, handlers, up, taken,
                       work, emitted, final, published>>
    BY DEF WriteThrows, JobUnchanged
  <1>3. RunTypeOK'
    BY <1>1, <1>2 DEF RunTypeOK
  <1>4. NumbersFall
    BY <1>1, <1>2, RunNumbers DEF RunIInv, RecordedInOrder
  <1> QED BY <1>2, <1>3, <1>4, QuietStep DEF NewJobs

-----------------------------------------------------------------------------
(* The invariant of every run, and what it says of answers and streams.    *)

\* Nothing has happened yet.
LEMMA RunStart == RunInit => RunIInv
  <1> SUFFICES ASSUME RunInit PROVE RunIInv
    OBVIOUS
  <1>1. Init /\ RunTypeOK
    BY InitType, EmptySeq DEF RunInit, RunTypeOK, RequestStages, RunStatuses, ErrorCodes
  <1>2. IInv
    BY <1>1 DEF IInv, RunTypeOK, Init, EntryIsLive, HasHostConnection, AtMostOnceDispatch, RightHost
  <1>3. \A r \in Runs : /\ published[r] = <<>> /\ Len(published[r]) = 0
                        /\ Elems(published[r]) = {} /\ TerminalFrames(r) = {}
                        /\ Events(r) = 0
    <2>1. ASSUME NEW r \in Runs PROVE published[r] = <<>> /\ Len(published[r]) = 0
      BY EmptySeq DEF RunInit
    <2>2. ASSUME NEW r \in Runs PROVE Elems(published[r]) = {} /\ TerminalFrames(r) = {}
      BY <2>1 DEF Elems, TerminalFrames
    <2>3. ASSUME NEW r \in Runs PROVE Events(r) = 0
      <3>1. {j \in 1 .. 0 : published[r][j] = "event"} = {}
        OBVIOUS
      <3> QED BY <2>1, <3>1, FS_EmptySet DEF Events, EventsUpTo
    <2> QED BY <2>1, <2>2, <2>3
  <1>4. /\ \A c \in Conns : up[c] = <<>> /\ Len(up[c]) = 0 /\ taken[c] = 0 /\ Len(wire[c]) \in Nat
        /\ \A r \in Runs : /\ emitted[r] = 0 /\ work[r] = "none" /\ lastSeq[r] = 0
                           /\ answers[r] = 0 /\ runRow[r].status = "none"
        /\ handlers = {} /\ Admitted = {} /\ jobs = {}
    BY <1>1, EmptySeq DEF RunInit, Init, Admitted
  <1>5. WorkWasTaken /\ InOnePlace
    BY <1>4 DEF WorkWasTaken, InOnePlace
  <1>6. RecordedInOrder
    BY <1>3, <1>4 DEF RecordedInOrder
  <1>7. ShownInOrder
    BY <1>3, <1>4 DEF ShownInOrder, CompletedStreamsAllEvents
  <1>8. AnsweredInOrder
    BY <1>3, <1>4 DEF AnsweredInOrder
  <1> QED BY <1>1, <1>2, <1>5, <1>6, <1>7, <1>8 DEF RunIInv

\* Every step keeps the invariant.
LEMMA RunStepKept ==
    ASSUME RunIInv, [RunNext]_vars
    PROVE  RunIInv'
  <1>1. CASE RunNext
    <2>1. [Next]_registryVars
      BY <1>1, RunStepsRegistry
    <2>2. ASSUME NEW r \in Runs, RequestStep(r) PROVE RunIInv'
      BY <2>1, <2>2, RequestKept
    <2>3. ASSUME NEW c \in Conns, ConnectionsStep(c) \/ Disconnect(c) PROVE RunIInv'
      BY <2>1, <2>3, ConnectionKept
    <2>4. ASSUME NEW c \in Conns, HostTake(c) PROVE RunIInv'
      BY <2>1, <2>4, HostTakeKept
    <2>5. ASSUME NEW c \in Conns, NEW r \in Runs, HostRunStep(c, r) PROVE RunIInv'
      BY <2>1, <2>5, HostRunKept
    <2>6. ASSUME NEW c \in Conns, RouteHostMessage(c) PROVE RunIInv'
      BY <2>1, <2>6, RouteKept
    <2>7. ASSUME NEW f \in handlers, HandlerResumes(f) PROVE RunIInv'
      <3>1. \/ \E c \in Conns : RunAccepted(c, f)
            \/ RunEvent(f) \/ RunCompleted(f) \/ RunFailed(f) \/ RunRejected(f)
        BY <2>7 DEF HandlerResumes
      <3> QED BY <2>1, <2>7, <3>1, AcceptedKept, EventKept, CompletedKept, FailedKept, RejectedKept
    <2>8. ASSUME NEW j \in jobs, JobAnswered(j) PROVE RunIInv'
      <3>1. \/ WriteStatus(j) \/ WriteMessageSent(j) \/ WriteGatewayFailure(j)
            \/ WriteAccepted(j) \/ InsertAnswer(j)
        BY <2>8 DEF JobAnswered
      <3> QED BY <2>1, <2>8, <3>1, OtherWritesKept, WriteAcceptedKept, InsertAnswerKept
    <2>9. ASSUME NEW f \in handlers, HandlerThrows(f) PROVE RunIInv'
      BY <2>1, <2>9, HandlerThrowsKept
    <2>10. ASSUME NEW j \in jobs, WriteThrows(j) PROVE RunIInv'
      BY <2>1, <2>10, WriteThrowsKept
    <2> QED BY <1>1, <2>2, <2>3, <2>4, <2>5, <2>6, <2>7, <2>8, <2>9, <2>10 DEF RunNext
  <1>2. CASE UNCHANGED vars
    <2>1. UNCHANGED registryVars /\ UNCHANGED runVars
      BY <1>2 DEF vars
    <2>2. NumbersFall /\ NewJobs({"running", "sent", "timeout"}) /\ RunTypeOK /\ IInv'
      BY <2>1, RunNumbers, RegistryKept DEF RunIInv, IInv, RecordedInOrder, NewJobs, runVars
    <2>3. RunTypeOK'
      BY <2>1, <2>2 DEF RunTypeOK, IInv, runVars
    <2> QED BY <2>1, <2>2, <2>3, QuietStep DEF runVars
  <1> QED BY <1>1, <1>2

\* Every state of a run satisfies the invariant.
THEOREM RunInvariant == RunSpec => []RunIInv
  <1>1. RunInit => RunIInv
    BY RunStart
  <1>2. RunIInv /\ [RunNext]_vars => RunIInv'
    BY RunStepKept
  <1> QED BY <1>1, <1>2, PTL DEF RunSpec

\* Type correctness: what requests, handlers and writes keep stays in its range.
THEOREM RunTypeCorrect == RunSpec => []RunTypeOK
  <1>1. RunIInv => RunTypeOK
    BY DEF RunIInv
  <1> QED BY <1>1, RunInvariant, PTL

\* The run service uses the registry as the registry is specified, so what is
\* proved of the registry holds under the run handlers and the requests.
THEOREM RunImplementsRegistry == RunSpec => Spec
  <1>1. RunInit => Init
    BY DEF RunInit
  <1>2. RunIInv /\ [RunNext]_vars => [Next]_registryVars
    BY RunStepsRegistry DEF vars
  <1> QED BY <1>1, <1>2, RunInvariant, PTL DEF RunSpec, Spec

\* A run is answered once: one agent message and one end of its stream,
\* however its host reconnects and whatever order the writes are answered in.
THEOREM AnsweredOnce == RunSpec => []OneAnswer
  <1>1. RunIInv => OneAnswer
    <2> SUFFICES ASSUME RunIInv, NEW r \in Runs
                 PROVE  answers[r] <= 1 /\ Cardinality(TerminalFrames(r)) <= 1
      BY DEF OneAnswer
    <2>1. answers[r] \in {0, 1} /\ \A i, j \in TerminalFrames(r) : i = j
      BY DEF RunIInv, AnsweredInOrder, ShownInOrder
    <2>2. Cardinality(TerminalFrames(r)) <= 1
      <3>1. CASE TerminalFrames(r) = {}
        BY <3>1, FS_EmptySet
      <3>2. CASE TerminalFrames(r) # {}
        <4>1. PICK i : i \in TerminalFrames(r)
          BY <3>2
        <4>2. TerminalFrames(r) = {i}
          BY <2>1, <4>1
        <4>3. Cardinality(TerminalFrames(r)) = 1
          BY <4>2, FS_Singleton
        <4> QED BY <4>3
      <3> QED BY <3>1, <3>2
    <2> QED BY <2>1, <2>2
  <1> QED BY <1>1, RunInvariant, PTL

\* The answer that a completion carries is in the conversation before its run
\* reads `completed', whichever writes fail.
THEOREM AnswerBeforeStatus == RunSpec => []CompletedHasAnswer
  <1>1. RunIInv => CompletedHasAnswer
    BY DEF RunIInv, AnsweredInOrder, CompletedHasAnswer, Settled
  <1> QED BY <1>1, RunInvariant, PTL

\* A stream that ends with `completed' has shown every event, however many
\* events a host sends and however many of them are in handlers at once.
THEOREM CompletedStreamIsWhole == RunSpec => []CompletedStreamsAllEvents
  <1>1. RunIInv => CompletedStreamsAllEvents
    BY DEF RunIInv, ShownInOrder
  <1> QED BY <1>1, RunInvariant, PTL

-----------------------------------------------------------------------------
(* The frames of a run are published as RunFrames promises.                *)

\* The promise, read of the frames of run r.
Promised(r) == [PublishedFrames(r)!FramesNext]_(published[r])

\* A frame that may be published keeps the promise of every run.
LEMMA PublishedInOrder ==
    ASSUME RunIInv, NEW r \in Runs, NEW k \in FrameKinds, Publish(r, k),
           k = "accepted" => "accepted" \notin Elems(published[r]),
           k = "event" => "completed" \notin Elems(published[r]),
           k \in Ends => TerminalFrames(r) = {}
    PROVE  \A q \in Runs : Promised(q)
  <1>1. RunTypeOK
    BY DEF RunIInv
  <1>2. \A q \in Runs \ {r} : published'[q] = published[q]
    BY <1>1, PublishEffect
  <1>3. published'[r] = Append(published[r], k)
    BY <1>1 DEF RunTypeOK, Publish
  <1>4. \A x : x \in Elems(published[r]) <=> \E i \in 1 .. Len(published[r]) : published[r][i] = x
    BY ElemsByPosition
  <1>5. PublishedFrames(r)!FramesNext
    <2>1. PublishedFrames(r)!Publishable(k)
      BY <1>4 DEF PublishedFrames!Publishable, PublishedFrames!Published, Ends, FrameKinds,
         TerminalFrames
    <2> QED BY <1>3, <2>1 DEF PublishedFrames!FramesNext, PublishedFrames!PublishFrame, FrameKinds
  <1> QED BY <1>2, <1>5 DEF Promised

\* So every step publishes a frame that may be published, or none.
LEMMA PromisedStep ==
    ASSUME RunIInv, [RunNext]_vars
    PROVE  \A q \in Runs : Promised(q)
  <1>1. CASE UNCHANGED published
    BY <1>1 DEF Promised
  <1>2. ASSUME NEW f \in handlers, HandlerResumes(f) PROVE \A q \in Runs : Promised(q)
    <2>1. CASE RunEvent(f)
      <3>1. f.kind = "event" /\ Publish(f.run, "event")
        BY <2>1 DEF RunEvent
      <3>2. f \in Admitted /\ f.run \in Runs
        BY <3>1, AdmittedHandlers
      <3>3. f.seq = Events(f.run) + 1 /\ f.seq \in 1 .. emitted[f.run]
        BY <3>1, <3>2 DEF RunIInv, RecordedInOrder, InOnePlace, Numbered
      <3>4. Events(f.run) \in Nat /\ emitted[f.run] \in Nat
        BY <3>2, RunFacts DEF RunIInv
      <3>5. "completed" \notin Elems(published[f.run])
        BY <3>2, <3>3, <3>4 DEF RunIInv, ShownInOrder
      <3> QED BY <3>1, <3>2, <3>5, PublishedInOrder DEF FrameKinds, Ends
    <2>2. CASE RunCompleted(f) \/ RunFailed(f)
      <3>1. f.kind \in Ends /\ f.kind \in FrameKinds /\ Publish(f.run, f.kind)
        BY <2>2 DEF RunCompleted, RunFailed, Ends, FrameKinds
      <3>2. f \in Admitted /\ f.run \in Runs
        BY <3>1, AdmittedHandlers DEF Ends
      <3>3. TerminalFrames(f.run) = {}
        BY <3>1, <3>2 DEF RunIInv, InOnePlace, Numbered, Spent
      <3> QED BY <3>1, <3>2, <3>3, PublishedInOrder DEF Ends
    <2>3. UNCHANGED published \/ RunEvent(f) \/ RunCompleted(f) \/ RunFailed(f)
      BY <1>2 DEF HandlerResumes, RunAccepted, RunRejected
    <2> QED BY <1>1, <2>1, <2>2, <2>3
  <1>3. ASSUME NEW j \in jobs, JobAnswered(j) PROVE \A q \in Runs : Promised(q)
    <2>1. CASE WriteAccepted(j)
      <3>1. j.kind = "accepted" /\ Publish(j.run, "accepted") /\ j.run \in Runs
        BY <2>1 DEF WriteAccepted, RunIInv, RunTypeOK, Jobs
      <3>2. "accepted" \notin Elems(published[j.run])
        BY <3>1 DEF RunIInv, ShownInOrder
      <3> QED BY <3>1, <3>2, PublishedInOrder DEF FrameKinds, Ends
    <2>2. UNCHANGED published \/ WriteAccepted(j)
      BY <1>3 DEF JobAnswered, WriteStatus, WriteMessageSent, InsertAnswer, WriteGatewayFailure
    <2> QED BY <1>1, <2>1, <2>2
  <1>4. \/ UNCHANGED published
        \/ \E f \in handlers : HandlerResumes(f)
        \/ \E j \in jobs : JobAnswered(j)
    BY DEF RunNext, vars, runVars, HandlerThrows, WriteThrows, RequestStep, StartRequest, StartResend, ReplaceMessage,
       CancelReplaced, AssertPendingCapacity, CreateRunAndMessage, DispatchPrepared, MarkPending,
       ListTimedOut, ConnectionsStep, Disconnect, HostTake, HostUnchanged, HostRunStep,
       HostUnavailable, HostAccept, HostEvent, HostComplete, HostFail, HostStep, RouteHostMessage
  <1> QED BY <1>1, <1>2, <1>3, <1>4

\* The router keeps the promise that the streams of a run rely on, though its
\* handlers interleave at their awaits and the gateway may fail a run meanwhile.
THEOREM FramesArePromised == RunSpec => PublishedAsPromised
  <1>1. RunInit => \A r \in Runs : PublishedFrames(r)!FramesInit
    BY DEF RunInit, PublishedFrames!FramesInit
  <1>2. RunIInv /\ [RunNext]_vars =>
            [\A r \in Runs : [PublishedFrames(r)!FramesNext]_(published[r])]_published
    BY PromisedStep DEF Promised
  <1> QED BY <1>1, <1>2, RunInvariant, PTL DEF RunSpec, PublishedAsPromised

-----------------------------------------------------------------------------
(* The Go host sends no events: its runs are never out of sequence.        *)

\* No frame of a run was rejected, and no failure of the gateway was written.
NothingRejected ==
    /\ handlers \subseteq Frames
    /\ \A j \in jobs : j.code \notin {"seq_gap", "backpressure"}
    /\ NoFalseFailure

\* The rows and the writes that a step may leave behind.
LEMMA CodesKept ==
    ASSUME RunIInv, NothingRejected, handlers' \subseteq Frames,
           \A j \in jobs' \ jobs : j.code \in {"none", "host", "timeout"},
           \/ runRow' = runRow
           \/ \E r, s : SetStatus(r, s)
           \/ \E r, s : SetError(r, s, "replaced")
           \/ \E r, s : \E j \in jobs : SetError(r, s, j.code)
    PROVE  NothingRejected'
  <1> DEFINE wrong == {"seq_gap", "backpressure"}
  <1>1. runRow \in [Runs -> [status : RunStatuses, code : ErrorCodes]]
    BY DEF RunIInv, RunTypeOK
  <1>2. \A r \in Runs : runRow[r].code \notin wrong
    BY DEF NothingRejected, NoFalseFailure
  <1>3. ASSUME NEW r, NEW s, NEW code, code \notin wrong, SetError(r, s, code)
        PROVE  \A q \in Runs : runRow'[q].code \notin wrong
    BY <1>1, <1>2, <1>3 DEF SetError
  <1>4. ASSUME NEW r, NEW s, SetStatus(r, s) PROVE \A q \in Runs : runRow'[q].code \notin wrong
    BY <1>1, <1>2, <1>4 DEF SetStatus
  <1>5. \A j \in jobs : j.code \notin wrong
    BY DEF NothingRejected
  <1>6. \A q \in Runs : runRow'[q].code \notin wrong
    <2>1. CASE runRow' = runRow
      BY <1>2, <2>1
    <2> QED BY <1>3, <1>4, <1>5, <2>1
  <1> QED BY <1>5, <1>6 DEF NothingRejected, NoFalseFailure

\* Without events the only number that is checked is 1, and 0 is recorded.
LEMMA NothingToReject ==
    ASSUME MaxEvents = 0, RunIInv, NEW c \in Conns, RouteHostMessage(c)
    PROVE  HandlerFor(Head(up[c])) \in Frames
  <1> DEFINE f == Head(up[c])
  <1>1. f \in Frames /\ f.run \in Runs /\ f.seq \in Nat /\ Numbered(f)
    BY RoutedPlaces DEF Frames
  <1>2. emitted[f.run] = 0 /\ Events(f.run) = 0 /\ lastSeq[f.run] = 0
    <2>1. emitted[f.run] \in 0 .. 0 /\ Events(f.run) \in Nat
      BY <1>1, RunFacts DEF RunIInv, RunTypeOK
    <2>2. lastSeq[f.run] \in {0, Events(f.run)} /\ Events(f.run) <= emitted[f.run]
      BY <1>1 DEF RunIInv, RecordedInOrder
    <2> QED BY <2>1, <2>2
  <1>3. f.kind # "event" /\ (f.kind = "completed" => f.seq = lastSeq[f.run] + 1)
    BY <1>1, <1>2 DEF Numbered, Ends
  <1> HIDE DEF f
  <1>4. HandlerFor(f) = f
    BY <1>3 DEF HandlerFor, IsNextSeq
  <1> QED BY <1>1, <1>4 DEF f

\* So no step rejects a frame.
LEMMA NothingRejectedStep ==
    ASSUME MaxEvents = 0, RunIInv, NothingRejected, [RunNext]_vars
    PROVE  NothingRejected'
  <1> DEFINE good == {"none", "host", "timeout"}
  <1>1. handlers \subseteq Frames
    BY DEF NothingRejected
  <1>2. ASSUME NEW r \in Runs, RequestStep(r) PROVE NothingRejected'
    <2>1. /\ handlers' = handlers
          /\ \/ jobs' = jobs
             \/ jobs' = jobs \cup {Job("running", r), Job("sent", r)}
             \/ jobs' = jobs \cup {[Job("timeout", r) EXCEPT !.code = "timeout"]}
          /\ \/ runRow' = runRow
             \/ SetError(origin[r], "cancelled", "replaced")
             \/ \E s : SetStatus(r, s)
      BY <1>2 DEF RequestStep, StartRequest, StartResend, ReplaceMessage, CancelReplaced,
         AssertPendingCapacity, CreateRunAndMessage, DispatchPrepared, MarkPending, ListTimedOut
    <2>2. \A j \in jobs' \ jobs : j.code \in good
      BY <2>1 DEF Job
    <2> QED BY <1>1, <2>1, <2>2, CodesKept
  <1>3. ASSUME NEW c \in Conns, RouteHostMessage(c) PROVE NothingRejected'
    <2>1. handlers' = handlers \cup {HandlerFor(Head(up[c]))} /\ UNCHANGED <<jobs, runRow>>
      BY <1>3 DEF RouteHostMessage
    <2>2. handlers' \subseteq Frames
      BY <1>1, <1>3, <2>1, NothingToReject
    <2> QED BY <2>1, <2>2, CodesKept
  <1>4. ASSUME NEW f \in handlers, HandlerResumes(f) PROVE NothingRejected'
    <2>1. handlers' \subseteq Frames /\ runRow' = runRow
      BY <1>1, <1>4 DEF HandlerResumes, HandlerUnchanged
    <2>2. ~RunRejected(f)
      BY <1>1 DEF RunRejected, Frames, FrameKinds
    <2>3. \/ jobs' = jobs \cup {Job("accepted", f.run)}
          \/ jobs' = jobs \cup {[Job("event", f.run) EXCEPT !.seq = f.seq]}
          \/ jobs' = jobs \cup {CompletionWrite(f.run)}
          \/ jobs' = jobs \cup {[Job("failed", f.run) EXCEPT !.code = "host"]}
      BY <1>4, <2>2 DEF HandlerResumes, RunAccepted, RunEvent, RunCompleted, RunFailed
    <2>4. \A j \in jobs' \ jobs : j.code \in good
      BY <2>3 DEF Job, CompletionWrite
    <2> QED BY <2>1, <2>4, CodesKept
  <1>5. ASSUME NEW j \in jobs, JobAnswered(j) PROVE NothingRejected'
    <2>1. /\ handlers' = handlers
          /\ jobs' = jobs \ {j} \/ jobs' = (jobs \ {j}) \cup {Job("completed", j.run)}
          /\ \/ runRow' = runRow
             \/ \E s : SetStatus(j.run, s)
             \/ SetError(j.run, "failed", j.code)
      BY <1>5 DEF JobAnswered, JobUnchanged, WriteStatus, WriteMessageSent, WriteAccepted,
         InsertAnswer, WriteGatewayFailure
    <2>2. \A i \in jobs' \ jobs : i.code \in good
      BY <2>1 DEF Job
    <2> QED BY <1>1, <2>1, <2>2, CodesKept
  <1>6. CASE handlers' \subseteq handlers /\ jobs' \subseteq jobs /\ UNCHANGED runRow
    BY <1>6 DEF NothingRejected, NoFalseFailure
  <1>7. \/ handlers' \subseteq handlers /\ jobs' \subseteq jobs /\ UNCHANGED runRow
        \/ \E r \in Runs : RequestStep(r)
        \/ \E c \in Conns : RouteHostMessage(c)
        \/ \E f \in handlers : HandlerResumes(f)
        \/ \E j \in jobs : JobAnswered(j)
    BY DEF RunNext, vars, runVars, HandlerThrows, HandlerUnchanged, WriteThrows, JobUnchanged,
       ConnectionsStep, Disconnect, HostTake, HostUnchanged,
       HostRunStep, HostUnavailable, HostAccept, HostEvent, HostComplete, HostFail, HostStep
  <1> QED BY <1>2, <1>3, <1>4, <1>5, <1>6, <1>7

\* A run of a host that sends no events (the Go host) is never failed for its
\* sequence number or for backpressure, whatever connections do to the record
\* of its number meanwhile.
THEOREM GoHostNeverOutOfSequence ==
    ASSUME MaxEvents = 0
    PROVE  RunSpec => []NoFalseFailure
  <1>1. RunInit => NothingRejected
    BY DEF RunInit, NothingRejected, NoFalseFailure
  <1>2. RunIInv /\ NothingRejected /\ [RunNext]_vars => NothingRejected'
    BY NothingRejectedStep
  <1>3. NothingRejected => NoFalseFailure
    BY DEF NothingRejected
  <1> QED BY <1>1, <1>2, <1>3, RunInvariant, PTL DEF RunSpec

=============================================================================

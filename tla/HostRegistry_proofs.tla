------------------------ MODULE HostRegistry_proofs ------------------------
(***************************************************************************)
(* Theorems about HostRegistry, for every set of hosts, connections and    *)
(* runs.  TypeOK and EntryIsLive are proved first; AtMostOnceDispatch and  *)
(* RightHost hold only together (a run that was never dispatched is in no  *)
(* queue and on no wire because the place of a run determines its target), *)
(* so they are proved as one inductive invariant.  What a sweep may forget *)
(* and what is tracked follow from TypeOK and EntryIsLive.  That each run  *)
(* is in one place makes the refinement of RunDispatch: a step moves runs  *)
(* from idle to sent or queued, or flushes a queue.                        *)
(***************************************************************************)
EXTENDS HostRegistry, SequenceTheorems, TLAPS

USE HostOfAssumption, NoConnAssumption, NoHostAssumption, MaxSeqAssumption

-----------------------------------------------------------------------------
(* Lemmas about the operators of the registry.                             *)

\* What the elements of a sequence are, by position.
LEMMA ElemsByPosition ==
    ASSUME NEW s, NEW x
    PROVE  x \in Elems(s) <=> \E i \in 1 .. Len(s) : s[i] = x
  BY DEF Elems

\* The frame that stays in the queue when a flush has sent k frames.
LEMMA RemainderType ==
    ASSUME NEW S, NEW q \in Seq(S), NEW k \in 0 .. Len(q)
    PROVE  /\ RemainderAfter(q, k) \in Seq(S)
           /\ k < Len(q) => /\ Len(RemainderAfter(q, k)) = 1
                            /\ RemainderAfter(q, k)[1] = q[k + 1]
           /\ k = Len(q) => Len(RemainderAfter(q, k)) = 0
  <1>1. Len(q) \in Nat
    BY LenProperties
  <1>2. CASE k < Len(q)
    <2>1. k + 1 \in 1 .. Len(q)
      BY <1>1, <1>2
    <2>2. q[k + 1] \in S
      BY <2>1, ElementOfSeq
    <2>3. RemainderAfter(q, k) = <<q[k + 1]>>
      BY <1>2 DEF RemainderAfter
    <2> QED BY <1>1, <1>2, <2>2, <2>3
  <1>3. CASE k = Len(q)
    BY <1>1, <1>3, EmptySeq DEF RemainderAfter
  <1> QED BY <1>1, <1>2, <1>3

\* A flush moves the first k frames of the queue to the end of the wire and
\* keeps at most the next one.
LEMMA FlushEffect ==
    ASSUME TypeOK, NEW h \in Hosts, NEW c \in Conns,
           NEW k \in 0 .. Len(pendingDispatches[h]),
           FlushPendingDispatches(h, c, k)
    PROVE  /\ wire' \in [Conns -> Seq(Runs)]
           /\ pendingDispatches' \in [Hosts -> Seq(Runs)]
           /\ activeHost' \in [Runs -> Hosts \cup {NoHost}]
           /\ lastSeq' \in [Runs -> 0 .. MaxSeq]
           /\ \A d \in Conns \ {c} : wire'[d] = wire[d]
           /\ Len(wire[c]) \in Nat
           /\ Len(pendingDispatches[h]) \in Nat
           /\ Len(wire'[c]) = Len(wire[c]) + k
           /\ \A i \in 1 .. Len(wire'[c]) :
                 wire'[c][i] = IF i <= Len(wire[c]) THEN wire[c][i]
                               ELSE pendingDispatches[h][i - Len(wire[c])]
           /\ \A g \in Hosts \ {h} : pendingDispatches'[g] = pendingDispatches[g]
           /\ \A i \in 1 .. Len(pendingDispatches'[h]) :
                 /\ i = 1
                 /\ k < Len(pendingDispatches[h])
                 /\ pendingDispatches'[h][i] = pendingDispatches[h][k + 1]
  <1> DEFINE q == pendingDispatches[h]
             sent == SubSeq(q, 1, k)
  <1>1. /\ q \in Seq(Runs) /\ wire[c] \in Seq(Runs)
        /\ wire \in [Conns -> Seq(Runs)]
        /\ pendingDispatches \in [Hosts -> Seq(Runs)]
    BY DEF TypeOK
  <1>2. Len(q) \in Nat /\ Len(wire[c]) \in Nat /\ k \in Nat /\ k <= Len(q)
    BY <1>1, LenProperties
  <1>3. \A i \in 1 .. k : q[i] \in Runs
    BY <1>1, <1>2, ElementOfSeq
  <1>4. /\ sent \in Seq(Runs)
        /\ Len(sent) = k
        /\ \A i \in 1 .. k : sent[i] = q[i]
    <2>1. /\ SubSeq(q, 1, k) \in Seq(Runs)
          /\ Len(SubSeq(q, 1, k)) = IF 1 <= k THEN k - 1 + 1 ELSE 0
          /\ \A i \in 1 .. k - 1 + 1 : SubSeq(q, 1, k)[i] = q[1 + i - 1]
      <3>1. 1 \in Int /\ k \in Int
        BY <1>2
      <3> HIDE DEF q
      <3> QED BY <1>3, <3>1, SubSeqProperties
    <2> QED BY <1>2, <2>1
  <1>5. /\ wire[c] \o sent \in Seq(Runs)
        /\ Len(wire[c] \o sent) = Len(wire[c]) + Len(sent)
        /\ \A i \in 1 .. Len(wire[c]) + Len(sent) :
              (wire[c] \o sent)[i] = IF i <= Len(wire[c]) THEN wire[c][i]
                                     ELSE sent[i - Len(wire[c])]
    BY <1>1, <1>4, ConcatProperties
  <1>6. /\ wire' = [wire EXCEPT ![c] = wire[c] \o sent]
        /\ pendingDispatches' = [pendingDispatches EXCEPT ![h] = RemainderAfter(q, k)]
        /\ TrackActiveRuns(Elems(sent), h)
    BY DEF FlushPendingDispatches
  <1>7. /\ RemainderAfter(q, k) \in Seq(Runs)
        /\ k < Len(q) => Len(RemainderAfter(q, k)) = 1 /\ RemainderAfter(q, k)[1] = q[k + 1]
        /\ k = Len(q) => Len(RemainderAfter(q, k)) = 0
    BY <1>1, RemainderType
  <1> HIDE DEF q, sent
  <1>8. wire' \in [Conns -> Seq(Runs)] /\ wire'[c] = wire[c] \o sent
        /\ \A d \in Conns \ {c} : wire'[d] = wire[d]
    BY <1>1, <1>5, <1>6
  <1>9. /\ pendingDispatches' \in [Hosts -> Seq(Runs)]
        /\ pendingDispatches'[h] = RemainderAfter(q, k)
        /\ \A g \in Hosts \ {h} : pendingDispatches'[g] = pendingDispatches[g]
    BY <1>1, <1>6, <1>7
  <1>10. activeHost' \in [Runs -> Hosts \cup {NoHost}] /\ lastSeq' \in [Runs -> 0 .. MaxSeq]
    BY <1>6 DEF TypeOK, TrackActiveRuns
  <1>11. \A i \in 1 .. Len(wire'[c]) :
             wire'[c][i] = IF i <= Len(wire[c]) THEN wire[c][i] ELSE q[i - Len(wire[c])]
    BY <1>2, <1>4, <1>5, <1>8
  <1>12. \A i \in 1 .. Len(pendingDispatches'[h]) :
             i = 1 /\ k < Len(q) /\ pendingDispatches'[h][i] = q[k + 1]
    <2>1. CASE k < Len(q)
      <3>1. /\ Len(pendingDispatches'[h]) = 1
            /\ pendingDispatches'[h][1] = q[k + 1]
        BY <1>7, <1>9, <2>1
      <3> QED BY <2>1, <3>1
    <2>2. CASE k = Len(q)
      <3>1. Len(pendingDispatches'[h]) = 0
        BY <1>7, <1>9, <2>2
      <3> QED BY <3>1
    <2> QED BY <1>2, <2>1, <2>2
  <1>13. Len(wire'[c]) = Len(wire[c]) + k
    BY <1>4, <1>5, <1>8
  <1> QED BY <1>2, <1>8, <1>9, <1>10, <1>11, <1>12, <1>13 DEF q

-----------------------------------------------------------------------------
(* Type correctness.                                                       *)

\* Closing a connection keeps the type of the sockets.
LEMMA CloseType ==
    ASSUME NEW s \in [Conns -> SocketStates], NEW c \in Conns
    PROVE  Close(s, c) \in [Conns -> SocketStates]
  BY DEF Close, SocketStates

\* The empty registry is well typed.
LEMMA InitType == Init => TypeOK
  BY EmptySeq DEF Init, TypeOK, SocketStates, SeenStates

\* The actions of a connection preserve TypeOK.
LEMMA ConnectionStepType ==
    ASSUME TypeOK, NEW c \in Conns, ConnectionStep(c)
    PROVE  TypeOK'
  <1> USE DEF TypeOK
  <1>1. CASE Connect(c) \/ ConnectDead(c) \/ PeerClose(c)
    BY <1>1 DEF Connect, ConnectDead, PeerClose, SocketStates
  <1>2. CASE CloseEvent(c)
    BY <1>2 DEF CloseEvent, SocketStates, EntriesWithout
  <1>3. CASE RegisterHostConnection(c)
    <2> DEFINE h == HostOf[c]
    <2>1. h \in Hosts
      OBVIOUS
    <2>2. PICK k \in 0 .. Len(pendingDispatches[h]) : FlushPendingDispatches(h, c, k)
      BY <1>3 DEF RegisterHostConnection
    <2>3. /\ wire' \in [Conns -> Seq(Runs)]
          /\ pendingDispatches' \in [Hosts -> Seq(Runs)]
          /\ activeHost' \in [Runs -> Hosts \cup {NoHost}]
          /\ lastSeq' \in [Runs -> 0 .. MaxSeq]
      BY <2>1, <2>2, FlushEffect
    <2>4. /\ socket' \in [Conns -> SocketStates]
          /\ hostConnections' \in [Hosts -> Conns \cup {NoConn}]
          /\ lastSeen' \in [Conns -> SeenStates]
          /\ UNCHANGED <<target, sweep>>
      BY <1>3, <2>1, CloseType DEF RegisterHostConnection, SeenStates
    <2> QED BY <2>3, <2>4
  <1>4. CASE RejectRegistration(c)
    BY <1>4, CloseType DEF RejectRegistration
  <1>5. ASSUME NEW ids \in HeartbeatIds, TouchHostConnection(c, ids)
        PROVE  TypeOK'
    <2>1. activeHost' \in [Runs -> Hosts \cup {NoHost}] /\ lastSeq' \in [Runs -> 0 .. MaxSeq]
      BY <1>5 DEF TouchHostConnection, DropActiveRuns
    <2>2. /\ lastSeen' \in [Conns -> SeenStates]
          /\ sweep' \in [Conns -> SUBSET (Hosts \X Conns)]
      BY <1>5 DEF TouchHostConnection, SeenNow, SeenStates
    <2>3. UNCHANGED <<socket, hostConnections, pendingDispatches, wire, target>>
      BY <1>5 DEF TouchHostConnection
    <2> QED BY <2>1, <2>2, <2>3
  <1>6. CASE UpdateHostCapabilities(c)
    BY <1>6 DEF UpdateHostCapabilities, SeenNow, SeenStates
  <1>7. CASE Lapse(c)
    BY <1>7 DEF Lapse, SeenStates
  <1>8. StaleEntries \subseteq Hosts \X Conns
    BY DEF StaleEntries, HasHostConnection
  <1>9. CASE SweepBegin(c)
    <2>1. PICK entry \in StaleEntries :
              /\ Evict(entry[1], entry[2])
              /\ sweep' = [sweep EXCEPT ![entry[2]] = StaleEntries \ {entry}]
      BY <1>9 DEF SweepBegin
    <2>2. entry[1] \in Hosts /\ entry[2] \in Conns
      BY <1>8
    <2> QED BY <1>8, <1>9, <2>1, <2>2, CloseType DEF SweepBegin, Evict
  <1>10. CASE SweepContinue(c)
    <2>1. PICK entry \in sweep[c] :
              /\ Evict(entry[1], entry[2])
              /\ sweep' = [sweep EXCEPT ![c] = @ \ {entry}]
      BY <1>10 DEF SweepContinue
    <2>2. entry[1] \in Hosts /\ entry[2] \in Conns
      BY <2>1
    <2> QED BY <1>10, <2>1, <2>2, CloseType DEF SweepContinue, Evict
  <1>11. CASE SweepAbort(c)
    BY <1>11 DEF SweepAbort
  <1> QED BY <1>1, <1>2, <1>3, <1>4, <1>5, <1>6, <1>7, <1>9, <1>10, <1>11
          DEF ConnectionStep, HandleHostRegister

\* So do the actions of a run.
LEMMA RunStepType ==
    ASSUME TypeOK, NEW r \in Runs, RunStep(r)
    PROVE  TypeOK'
  <1> USE DEF TypeOK
  <1>1. ASSUME NEW h \in Hosts, DispatchSent(h, r)
        PROVE  TypeOK'
    <2>1. hostConnections[h] \in Conns
      BY <1>1 DEF DispatchSent, HasHostConnection
    <2>2. Append(wire[hostConnections[h]], r) \in Seq(Runs)
      BY <2>1, AppendProperties
    <2> QED BY <1>1, <2>1, <2>2 DEF DispatchSent, TrackActiveRuns
  <1>2. ASSUME NEW h \in Hosts, DispatchQueued(h, r)
        PROVE  TypeOK'
    <2>1. Append(pendingDispatches[h], r) \in Seq(Runs)
      BY AppendProperties
    <2> QED BY <1>2, <2>1 DEF DispatchQueued
  <1>3. ASSUME NEW c \in Conns, RecordRunAccepted(HostOf[c], r)
        PROVE  TypeOK'
    BY <1>3 DEF RecordRunAccepted
  <1>4. ASSUME NEW s \in 1 .. MaxSeq, RecordRunSeq(r, s)
        PROVE  TypeOK'
    BY <1>4 DEF RecordRunSeq
  <1>5. CASE ClearActiveRun(r)
    BY <1>5 DEF ClearActiveRun, DropActiveRuns
  <1> QED BY <1>1, <1>2, <1>3, <1>4, <1>5 DEF RunStep

\* A revocation preserves TypeOK.
LEMMA RevokeType ==
    ASSUME TypeOK, NEW h \in Hosts, RevokeHostConnection(h)
    PROVE  TypeOK'
  BY CloseType DEF TypeOK, RevokeHostConnection, HasHostConnection

\* Every step preserves TypeOK.
LEMMA StepType == TypeOK /\ [Next]_registryVars => TypeOK'
  <1> SUFFICES ASSUME TypeOK, [Next]_registryVars
               PROVE  TypeOK'
    OBVIOUS
  <1>1. ASSUME NEW c \in Conns, ConnectionStep(c)
        PROVE  TypeOK'
    BY <1>1, ConnectionStepType
  <1>2. ASSUME NEW h \in Hosts, RevokeHostConnection(h)
        PROVE  TypeOK'
    BY <1>2, RevokeType
  <1>3. ASSUME NEW r \in Runs, RunStep(r)
        PROVE  TypeOK'
    BY <1>3, RunStepType
  <1>4. CASE UNCHANGED registryVars
    BY <1>4 DEF TypeOK, registryVars
  <1> QED BY <1>1, <1>2, <1>3, <1>4 DEF Next

\* Every variable of the registry has its type in every behaviour: the
\* sequence numbers stay within MaxSeq and an entry is always a connection.
THEOREM TypeCorrect == Spec => []TypeOK
  <1>1. Init => TypeOK
    BY InitType
  <1>2. TypeOK /\ [Next]_registryVars => TypeOK'
    BY StepType
  <1> QED BY <1>1, <1>2, PTL DEF Spec

-----------------------------------------------------------------------------
(* An entry does not outlive the close event of its connection.            *)

\* One step of the registry, action by action.
LEMMA EntryStep ==
    ASSUME TypeOK, EntryIsLive, [Next]_registryVars
    PROVE  EntryIsLive'
  <1> USE DEF TypeOK, EntryIsLive, HasHostConnection
  <1>1. ASSUME NEW c \in Conns, Connect(c) \/ ConnectDead(c) \/ PeerClose(c)
        PROVE  EntryIsLive'
    BY <1>1 DEF Connect, ConnectDead, PeerClose
  <1>2. ASSUME NEW c \in Conns, CloseEvent(c)
        PROVE  EntryIsLive'
    BY <1>2 DEF CloseEvent, EntriesWithout
  <1>3. ASSUME NEW c \in Conns, RegisterHostConnection(c)
        PROVE  EntryIsLive'
    <2> DEFINE h == HostOf[c]
    <2>1. h \in Hosts
      OBVIOUS
    <2>2. /\ socket[c] \in {"open", "zombie"} /\ c \in Allowed
          /\ hostConnections' = [hostConnections EXCEPT ![h] = c]
          /\ lastSeen' = [lastSeen EXCEPT ![c] = "fresh"]
          /\ socket' = IF hostConnections[h] \in Conns
                       THEN Close(socket, hostConnections[h]) ELSE socket
      BY <1>3 DEF RegisterHostConnection
    <2>3. \A d \in Conns : socket[d] \notin {"new", "closed"}
                              => socket'[d] \notin {"new", "closed"}
      BY <2>2 DEF Close
    <2> QED BY <2>1, <2>2, <2>3
  <1>4. ASSUME NEW c \in Conns, RejectRegistration(c)
        PROVE  EntryIsLive'
    BY <1>4 DEF RejectRegistration, Close
  <1>5. ASSUME NEW c \in Conns, NEW ids \in HeartbeatIds, TouchHostConnection(c, ids)
        PROVE  EntryIsLive'
    BY <1>5 DEF TouchHostConnection, SeenNow
  <1>6. ASSUME NEW c \in Conns, UpdateHostCapabilities(c) \/ Lapse(c)
        PROVE  EntryIsLive'
    BY <1>6 DEF UpdateHostCapabilities, Lapse, SeenNow
  <1>7. ASSUME NEW h \in Hosts, NEW c \in Conns, Evict(h, c), UNCHANGED lastSeen
        PROVE  EntryIsLive'
    BY <1>7 DEF Evict, Close
  <1>8. ASSUME NEW c \in Conns, SweepBegin(c)
        PROVE  EntryIsLive'
    BY <1>7, <1>8 DEF SweepBegin, StaleEntries
  <1>9. ASSUME NEW c \in Conns, SweepContinue(c)
        PROVE  EntryIsLive'
    BY <1>7, <1>9 DEF SweepContinue
  <1>10. ASSUME NEW c \in Conns, SweepAbort(c)
         PROVE  EntryIsLive'
    BY <1>10 DEF SweepAbort
  <1>11. ASSUME NEW h \in Hosts, RevokeHostConnection(h)
         PROVE  EntryIsLive'
    BY <1>11 DEF RevokeHostConnection, Close
  <1>12. ASSUME NEW r \in Runs, RunStep(r)
         PROVE  EntryIsLive'
    BY <1>12 DEF RunStep, DispatchSent, DispatchQueued, RecordRunAccepted,
                 RecordRunSeq, ClearActiveRun
  <1>13. CASE UNCHANGED registryVars
    BY <1>13 DEF registryVars
  <1> QED BY <1>1, <1>2, <1>3, <1>4, <1>5, <1>6, <1>8, <1>9, <1>10, <1>11, <1>12,
             <1>13 DEF Next, ConnectionStep, HandleHostRegister

\* In every behaviour an entry's connection has registered, for that host and
\* with its token's leave, and its close event has not been handled.
THEOREM EntriesAreLive == Spec => []EntryIsLive
  <1>1. Init => EntryIsLive
    BY DEF Init, EntryIsLive, HasHostConnection
  <1>2. TypeOK /\ EntryIsLive /\ [Next]_registryVars => EntryIsLive'
    BY EntryStep
  <1> QED BY <1>1, <1>2, TypeCorrect, PTL DEF Spec

-----------------------------------------------------------------------------
(* A run is handed out at most once, and to its host.                      *)

\* The inductive invariant.
IInv == TypeOK /\ EntryIsLive /\ AtMostOnceDispatch /\ RightHost

\* A run that was not dispatched yet is on no wire and in no queue.
LEMMA UndispatchedIsNowhere ==
    ASSUME TypeOK, RightHost, NEW r \in Runs, target[r] = NoHost
    PROVE  /\ \A c \in Conns : \A i \in 1 .. Len(wire[c]) : wire[c][i] # r
           /\ \A h \in Hosts : \A i \in 1 .. Len(pendingDispatches[h]) :
                 pendingDispatches[h][i] # r
  BY DEF TypeOK, RightHost

\* Only a registration and a dispatch move frames.
LEMMA PlacesUnchanged ==
    ASSUME AtMostOnceDispatch, RightHost, UNCHANGED <<wire, pendingDispatches, target>>
    PROVE  AtMostOnceDispatch' /\ RightHost'
  BY DEF AtMostOnceDispatch, RightHost

\* A flush moves each frame from one place to one place.
LEMMA RegisterOnce ==
    ASSUME IInv, NEW c \in Conns, RegisterHostConnection(c)
    PROVE  AtMostOnceDispatch' /\ RightHost'
  <1> DEFINE h == HostOf[c]
             q == pendingDispatches[h]
             n == Len(wire[c])
  <1>1. h \in Hosts
    OBVIOUS
  <1>2. PICK k \in 0 .. Len(q) : FlushPendingDispatches(h, c, k)
    BY DEF RegisterHostConnection
  <1>3. target' = target
    BY DEF RegisterHostConnection
  <1>4. TypeOK /\ AtMostOnceDispatch /\ RightHost
    BY DEF IInv
  <1>5. /\ \A d \in Conns \ {c} : wire'[d] = wire[d]
        /\ n \in Nat /\ Len(q) \in Nat /\ k \in Nat /\ k <= Len(q)
        /\ Len(wire'[c]) = n + k
        /\ \A i \in 1 .. n + k :
              wire'[c][i] = IF i <= n THEN wire[c][i] ELSE q[i - n]
        /\ \A g \in Hosts \ {h} : pendingDispatches'[g] = pendingDispatches[g]
        /\ \A i \in 1 .. Len(pendingDispatches'[h]) :
              i = 1 /\ k < Len(q) /\ pendingDispatches'[h][i] = q[k + 1]
    BY <1>1, <1>2, <1>4, FlushEffect
  <1> HIDE DEF h, q, n
  <1>6. \A i \in 1 .. n + k : \/ i \in 1 .. n /\ wire'[c][i] = wire[c][i]
                              \/ /\ i - n \in 1 .. k
                                 /\ i - n \in 1 .. Len(q)
                                 /\ wire'[c][i] = q[i - n]
    BY <1>5
  <1>7. \A i \in 1 .. Len(pendingDispatches'[h]) :
            /\ i = 1 /\ k + 1 \in 1 .. Len(q) /\ pendingDispatches'[h][i] = q[k + 1]
    BY <1>5
  <1>8. /\ \A a, b \in Conns : \A i \in 1 .. Len(wire[a]), j \in 1 .. Len(wire[b]) :
              wire[a][i] = wire[b][j] => a = b /\ i = j
        /\ \A f, g \in Hosts : \A i \in 1 .. Len(pendingDispatches[f]),
                                  j \in 1 .. Len(pendingDispatches[g]) :
              pendingDispatches[f][i] = pendingDispatches[g][j] => f = g /\ i = j
        /\ \A a \in Conns, f \in Hosts :
              \A i \in 1 .. Len(wire[a]), j \in 1 .. Len(pendingDispatches[f]) :
                 wire[a][i] # pendingDispatches[f][j]
    BY <1>4, Zenon DEF AtMostOnceDispatch
  <1>9. \A i, j \in 1 .. Len(q) : q[i] = q[j] => i = j
    BY <1>1, <1>8 DEF q
  <1>10. \A a \in Conns, i \in 1 .. Len(q) : \A j \in 1 .. Len(wire[a]) : wire[a][j] # q[i]
    BY <1>1, <1>8 DEF q
  <1>11. ASSUME NEW a \in Conns, NEW b \in Conns,
                NEW i \in 1 .. Len(wire'[a]), NEW j \in 1 .. Len(wire'[b]),
                wire'[a][i] = wire'[b][j]
         PROVE  a = b /\ i = j
    <2>1. CASE a # c /\ b # c
      BY <1>5, <1>8, <1>11, <2>1
    <2>2. CASE a = c /\ b # c
      <3>1. wire'[b] = wire[b]
        BY <1>5, <2>2
      <3>2. i \in 1 .. n + k
        BY <1>5, <2>2
      <3>3. CASE i \in 1 .. n /\ wire'[c][i] = wire[c][i]
        BY <1>8, <1>11, <2>2, <3>1, <3>3 DEF n
      <3>4. CASE i - n \in 1 .. Len(q) /\ wire'[c][i] = q[i - n]
        BY <1>10, <1>11, <2>2, <3>1, <3>4
      <3> QED BY <1>6, <3>2, <3>3, <3>4
    <2>3. CASE a # c /\ b = c
      <3>1. wire'[a] = wire[a]
        BY <1>5, <2>3
      <3>2. j \in 1 .. n + k
        BY <1>5, <2>3
      <3>3. CASE j \in 1 .. n /\ wire'[c][j] = wire[c][j]
        BY <1>8, <1>11, <2>3, <3>1, <3>3 DEF n
      <3>4. CASE j - n \in 1 .. Len(q) /\ wire'[c][j] = q[j - n]
        BY <1>10, <1>11, <2>3, <3>1, <3>4
      <3> QED BY <1>6, <3>2, <3>3, <3>4
    <2>4. CASE a = c /\ b = c
      <3>1. i \in 1 .. n + k /\ j \in 1 .. n + k
        BY <1>5, <2>4
      <3>2. CASE i \in 1 .. n /\ j \in 1 .. n
        <4>1. wire[c][i] = wire[c][j]
          BY <1>5, <1>11, <2>4, <3>2
        <4> QED BY <1>8, <2>4, <3>2, <4>1 DEF n
      <3>3. CASE i \in 1 .. n /\ j \notin 1 .. n
        <4>1. wire'[c][i] = wire[c][i] /\ i \in 1 .. Len(wire[c])
          BY <1>5, <3>1, <3>3 DEF n
        <4>2. j - n \in 1 .. Len(q) /\ wire'[c][j] = q[j - n]
          BY <1>6, <3>1, <3>3
        <4>3. wire[c][i] # q[j - n]
          BY <1>10, <4>1, <4>2
        <4> QED BY <1>11, <2>4, <4>1, <4>2, <4>3
      <3>4. CASE i \notin 1 .. n /\ j \in 1 .. n
        <4>1. wire'[c][j] = wire[c][j] /\ j \in 1 .. Len(wire[c])
          BY <1>5, <3>1, <3>4 DEF n
        <4>2. i - n \in 1 .. Len(q) /\ wire'[c][i] = q[i - n]
          BY <1>6, <3>1, <3>4
        <4>3. wire[c][j] # q[i - n]
          BY <1>10, <4>1, <4>2
        <4> QED BY <1>11, <2>4, <4>1, <4>2, <4>3
      <3>5. CASE i \notin 1 .. n /\ j \notin 1 .. n
        <4>1. /\ i - n \in 1 .. Len(q) /\ j - n \in 1 .. Len(q)
              /\ q[i - n] = q[j - n]
          BY <1>6, <1>11, <2>4, <3>1, <3>5
        <4>2. i - n = j - n
          BY <1>9, <4>1
        <4> QED BY <1>5, <2>4, <3>1, <4>2
      <3> QED BY <3>2, <3>3, <3>4, <3>5
    <2> QED BY <2>1, <2>2, <2>3, <2>4
  <1>12. ASSUME NEW f \in Hosts, NEW g \in Hosts,
                NEW i \in 1 .. Len(pendingDispatches'[f]),
                NEW j \in 1 .. Len(pendingDispatches'[g]),
                pendingDispatches'[f][i] = pendingDispatches'[g][j]
         PROVE  f = g /\ i = j
    <2>1. CASE f # h /\ g # h
      <3>1. /\ pendingDispatches'[f] = pendingDispatches[f]
            /\ pendingDispatches'[g] = pendingDispatches[g]
        BY <1>5, <2>1
      <3> QED BY <1>8, <1>12, <3>1
    <2>2. CASE f = h /\ g = h
      BY <1>7, <2>2
    <2>3. CASE f = h /\ g # h
      <3>1. /\ pendingDispatches'[g] = pendingDispatches[g]
            /\ pendingDispatches'[h][i] = pendingDispatches[h][k + 1]
            /\ k + 1 \in 1 .. Len(pendingDispatches[h])
        BY <1>5, <1>7, <2>3 DEF q
      <3> QED BY <1>8, <1>12, <2>3, <3>1
    <2>4. CASE f # h /\ g = h
      <3>1. /\ pendingDispatches'[f] = pendingDispatches[f]
            /\ pendingDispatches'[h][j] = pendingDispatches[h][k + 1]
            /\ k + 1 \in 1 .. Len(pendingDispatches[h])
        BY <1>5, <1>7, <2>4 DEF q
      <3> QED BY <1>8, <1>12, <2>4, <3>1
    <2> QED BY <2>1, <2>2, <2>3, <2>4
  <1>13. ASSUME NEW a \in Conns, NEW f \in Hosts,
                NEW i \in 1 .. Len(wire'[a]), NEW j \in 1 .. Len(pendingDispatches'[f])
         PROVE  wire'[a][i] # pendingDispatches'[f][j]
    <2>1. \/ i \in 1 .. Len(wire[a]) /\ wire'[a][i] = wire[a][i]
          \/ /\ i - n \in 1 .. k /\ i - n \in 1 .. Len(q)
             /\ wire'[a][i] = q[i - n]
      BY <1>5, <1>6 DEF n
    <2>2. \/ f # h /\ pendingDispatches'[f] = pendingDispatches[f]
          \/ f = h /\ k + 1 \in 1 .. Len(q) /\ pendingDispatches'[f][j] = q[k + 1]
      BY <1>5, <1>7
    <2>3. CASE i \in 1 .. Len(wire[a]) /\ wire'[a][i] = wire[a][i]
      BY <1>8, <1>10, <2>2, <2>3
    <2>4. CASE i - n \in 1 .. k /\ i - n \in 1 .. Len(q) /\ wire'[a][i] = q[i - n]
      <3>1. CASE f # h /\ pendingDispatches'[f] = pendingDispatches[f]
        BY <1>1, <1>8, <2>4, <3>1 DEF q
      <3>2. CASE f = h /\ k + 1 \in 1 .. Len(q) /\ pendingDispatches'[f][j] = q[k + 1]
        <4>1. i - n # k + 1
          BY <1>5, <2>4
        <4> QED BY <1>9, <2>4, <3>2, <4>1
      <3> QED BY <2>2, <3>1, <3>2
    <2> QED BY <2>1, <2>3, <2>4
  <1>14. AtMostOnceDispatch'
    BY <1>11, <1>12, <1>13 DEF AtMostOnceDispatch
  <1>15. /\ \A a \in Conns : \A i \in 1 .. Len(wire[a]) : target[wire[a][i]] = HostOf[a]
         /\ \A f \in Hosts : \A i \in 1 .. Len(pendingDispatches[f]) :
               target[pendingDispatches[f][i]] = f
    BY <1>4 DEF RightHost
  <1>16. \A i \in 1 .. Len(q) : target[q[i]] = HostOf[c]
    BY <1>1, <1>15 DEF q, h
  <1>17. ASSUME NEW a \in Conns, NEW i \in 1 .. Len(wire'[a])
         PROVE  target'[wire'[a][i]] = HostOf[a]
    <2>1. CASE a # c
      BY <1>3, <1>5, <1>15, <2>1
    <2>2. CASE a = c
      <3>1. i \in 1 .. n + k
        BY <1>5, <2>2
      <3>2. CASE i \in 1 .. n /\ wire'[c][i] = wire[c][i]
        BY <1>3, <1>15, <2>2, <3>2 DEF n
      <3>3. CASE i - n \in 1 .. Len(q) /\ wire'[c][i] = q[i - n]
        BY <1>3, <1>16, <2>2, <3>3
      <3> QED BY <1>6, <3>1, <3>2, <3>3
    <2> QED BY <2>1, <2>2
  <1>18. ASSUME NEW f \in Hosts, NEW i \in 1 .. Len(pendingDispatches'[f])
         PROVE  target'[pendingDispatches'[f][i]] = f
    <2>1. CASE f # h
      BY <1>3, <1>5, <1>15, <2>1
    <2>2. CASE f = h
      BY <1>3, <1>7, <1>16, <2>2 DEF h
    <2> QED BY <2>1, <2>2
  <1>19. RightHost'
    BY <1>17, <1>18 DEF RightHost
  <1> QED BY <1>14, <1>19

\* A dispatched frame goes to the end of the entry's wire.
LEMMA DispatchSentOnce ==
    ASSUME IInv, NEW h \in Hosts, NEW r \in Runs, DispatchSent(h, r)
    PROVE  AtMostOnceDispatch' /\ RightHost'
  <1> DEFINE c == hostConnections[h]
  <1>1. c \in Conns /\ HostOf[c] = h
    BY DEF IInv, TypeOK, EntryIsLive, DispatchSent, HasHostConnection
  <1>2. /\ wire' = [wire EXCEPT ![c] = Append(wire[c], r)]
        /\ pendingDispatches' = pendingDispatches
        /\ target' = [target EXCEPT ![r] = h]
        /\ target[r] = NoHost
    BY DEF DispatchSent
  <1>3. /\ \A a \in Conns : \A i \in 1 .. Len(wire[a]) : wire[a][i] # r
        /\ \A g \in Hosts : \A i \in 1 .. Len(pendingDispatches[g]) :
              pendingDispatches[g][i] # r
    BY <1>2, UndispatchedIsNowhere DEF IInv
  <1>4. TypeOK /\ AtMostOnceDispatch /\ RightHost
    BY DEF IInv
  <1>5. wire[c] \in Seq(Runs) /\ Len(wire[c]) \in Nat
    BY <1>1, <1>4, LenProperties DEF TypeOK
  <1>6. /\ Len(Append(wire[c], r)) = Len(wire[c]) + 1
        /\ \A i \in 1 .. Len(wire[c]) : Append(wire[c], r)[i] = wire[c][i]
        /\ Append(wire[c], r)[Len(wire[c]) + 1] = r
    BY <1>5, AppendProperties
  <1>7. wire'[c] = Append(wire[c], r) /\ \A a \in Conns \ {c} : wire'[a] = wire[a]
    BY <1>1, <1>2, <1>4 DEF TypeOK
  <1> HIDE DEF c
  <1>8. ASSUME NEW a \in Conns, NEW i \in 1 .. Len(wire'[a])
        PROVE  \/ i \in 1 .. Len(wire[a]) /\ wire'[a][i] = wire[a][i]
               \/ a = c /\ i = Len(wire[c]) + 1 /\ wire'[a][i] = r
    <2>1. CASE a # c
      BY <1>7, <2>1
    <2>2. CASE a = c
      <3>1. i \in 1 .. Len(wire[c]) + 1
        BY <1>6, <1>7, <2>2
      <3>2. i \in 1 .. Len(wire[c]) \/ i = Len(wire[c]) + 1
        BY <1>5, <3>1
      <3> QED BY <1>6, <1>7, <2>2, <3>2
    <2> QED BY <2>1, <2>2
  <1>9. ASSUME NEW a \in Conns, NEW b \in Conns,
               NEW i \in 1 .. Len(wire'[a]), NEW j \in 1 .. Len(wire'[b]),
               wire'[a][i] = wire'[b][j]
        PROVE  a = b /\ i = j
    <2> DEFINE Kept(x, k) == k \in 1 .. Len(wire[x]) /\ wire'[x][k] = wire[x][k]
               Added(x, k) == x = c /\ k = Len(wire[c]) + 1 /\ wire'[x][k] = r
    <2>1. (Kept(a, i) \/ Added(a, i)) /\ (Kept(b, j) \/ Added(b, j))
      BY <1>8
    <2>2. CASE Kept(a, i) /\ Kept(b, j)
      <3>1. i \in 1 .. Len(wire[a]) /\ j \in 1 .. Len(wire[b]) /\ wire[a][i] = wire[b][j]
        BY <1>9, <2>2
      <3> QED BY <1>4, <3>1 DEF AtMostOnceDispatch
    <2>3. CASE Kept(a, i) /\ Added(b, j)
      <3>1. i \in 1 .. Len(wire[a]) /\ wire[a][i] = r
        BY <1>9, <2>3
      <3> QED BY <1>3, <3>1
    <2>4. CASE Added(a, i) /\ Kept(b, j)
      <3>1. j \in 1 .. Len(wire[b]) /\ wire[b][j] = r
        BY <1>9, <2>4
      <3> QED BY <1>3, <3>1
    <2>5. CASE Added(a, i) /\ Added(b, j)
      BY <2>5
    <2> QED BY <2>1, <2>2, <2>3, <2>4, <2>5
  <1>10. ASSUME NEW a \in Conns, NEW g \in Hosts,
                NEW i \in 1 .. Len(wire'[a]), NEW j \in 1 .. Len(pendingDispatches'[g])
         PROVE  wire'[a][i] # pendingDispatches'[g][j]
    BY <1>2, <1>3, <1>4, <1>8 DEF AtMostOnceDispatch
  <1>11. AtMostOnceDispatch'
    BY <1>2, <1>4, <1>9, <1>10 DEF AtMostOnceDispatch
  <1>12. target'[r] = h /\ \A s \in Runs \ {r} : target'[s] = target[s]
    BY <1>2, <1>4 DEF TypeOK
  <1>13. ASSUME NEW a \in Conns, NEW i \in 1 .. Len(wire'[a])
         PROVE  target'[wire'[a][i]] = HostOf[a]
    <2>1. CASE i \in 1 .. Len(wire[a]) /\ wire'[a][i] = wire[a][i]
      <3>1. wire[a][i] \in Runs \ {r}
        BY <1>3, <1>4, <2>1, ElementOfSeq DEF TypeOK
      <3> QED BY <1>4, <1>12, <2>1, <3>1 DEF RightHost
    <2>2. CASE a = c /\ wire'[a][i] = r
      BY <1>1, <1>12, <2>2
    <2> QED BY <1>8, <2>1, <2>2
  <1>14. ASSUME NEW g \in Hosts, NEW i \in 1 .. Len(pendingDispatches'[g])
         PROVE  target'[pendingDispatches'[g][i]] = g
    <2>1. i \in 1 .. Len(pendingDispatches[g])
      BY <1>2
    <2>2. pendingDispatches[g][i] \in Runs \ {r}
      BY <1>3, <1>4, <2>1, ElementOfSeq DEF TypeOK
    <2> QED BY <1>2, <1>4, <1>12, <2>1, <2>2 DEF RightHost
  <1> QED BY <1>11, <1>13, <1>14 DEF RightHost

\* A frame that is not sent goes to the end of its host's queue.
LEMMA DispatchQueuedOnce ==
    ASSUME IInv, NEW h \in Hosts, NEW r \in Runs, DispatchQueued(h, r)
    PROVE  AtMostOnceDispatch' /\ RightHost'
  <1> DEFINE q == pendingDispatches[h]
  <1>1. /\ pendingDispatches' = [pendingDispatches EXCEPT ![h] = Append(q, r)]
        /\ wire' = wire
        /\ target' = [target EXCEPT ![r] = h]
        /\ target[r] = NoHost
    BY DEF DispatchQueued
  <1>2. TypeOK /\ AtMostOnceDispatch /\ RightHost
    BY DEF IInv
  <1>3. /\ \A a \in Conns : \A i \in 1 .. Len(wire[a]) : wire[a][i] # r
        /\ \A g \in Hosts : \A i \in 1 .. Len(pendingDispatches[g]) :
              pendingDispatches[g][i] # r
    BY <1>1, <1>2, UndispatchedIsNowhere
  <1>4. q \in Seq(Runs) /\ Len(q) \in Nat
    BY <1>2, LenProperties DEF TypeOK
  <1>5. /\ Len(Append(q, r)) = Len(q) + 1
        /\ \A i \in 1 .. Len(q) : Append(q, r)[i] = q[i]
        /\ Append(q, r)[Len(q) + 1] = r
    BY <1>4, AppendProperties
  <1>6. /\ pendingDispatches'[h] = Append(q, r)
        /\ \A g \in Hosts \ {h} : pendingDispatches'[g] = pendingDispatches[g]
    BY <1>1, <1>2 DEF TypeOK
  <1>7. ASSUME NEW g \in Hosts, NEW i \in 1 .. Len(pendingDispatches'[g])
        PROVE  \/ /\ i \in 1 .. Len(pendingDispatches[g])
                  /\ pendingDispatches'[g][i] = pendingDispatches[g][i]
               \/ g = h /\ i = Len(q) + 1 /\ pendingDispatches'[g][i] = r
    <2>1. CASE g # h
      BY <1>6, <2>1
    <2>2. CASE g = h
      <3>1. i \in 1 .. Len(q) + 1
        BY <1>5, <1>6, <2>2
      <3>2. i \in 1 .. Len(q) \/ i = Len(q) + 1
        BY <1>4, <3>1
      <3> QED BY <1>5, <1>6, <2>2, <3>2
    <2> QED BY <2>1, <2>2
  <1> HIDE DEF q
  <1>8. ASSUME NEW f \in Hosts, NEW g \in Hosts,
               NEW i \in 1 .. Len(pendingDispatches'[f]),
               NEW j \in 1 .. Len(pendingDispatches'[g]),
               pendingDispatches'[f][i] = pendingDispatches'[g][j]
        PROVE  f = g /\ i = j
    BY <1>2, <1>3, <1>7, <1>8 DEF AtMostOnceDispatch
  <1>9. ASSUME NEW a \in Conns, NEW g \in Hosts,
               NEW i \in 1 .. Len(wire'[a]), NEW j \in 1 .. Len(pendingDispatches'[g])
        PROVE  wire'[a][i] # pendingDispatches'[g][j]
    BY <1>1, <1>2, <1>3, <1>7 DEF AtMostOnceDispatch
  <1>10. AtMostOnceDispatch'
    BY <1>1, <1>2, <1>8, <1>9 DEF AtMostOnceDispatch
  <1>11. target'[r] = h /\ \A s \in Runs \ {r} : target'[s] = target[s]
    BY <1>1, <1>2 DEF TypeOK
  <1>12. ASSUME NEW g \in Hosts, NEW i \in 1 .. Len(pendingDispatches'[g])
         PROVE  target'[pendingDispatches'[g][i]] = g
    <2>1. CASE /\ i \in 1 .. Len(pendingDispatches[g])
               /\ pendingDispatches'[g][i] = pendingDispatches[g][i]
      <3>1. pendingDispatches[g][i] \in Runs \ {r}
        BY <1>2, <1>3, <2>1, ElementOfSeq DEF TypeOK
      <3> QED BY <1>2, <1>11, <2>1, <3>1 DEF RightHost
    <2>2. CASE g = h /\ pendingDispatches'[g][i] = r
      BY <1>11, <2>2
    <2> QED BY <1>7, <2>1, <2>2
  <1>13. ASSUME NEW a \in Conns, NEW i \in 1 .. Len(wire'[a])
         PROVE  target'[wire'[a][i]] = HostOf[a]
    <2>1. i \in 1 .. Len(wire[a])
      BY <1>1
    <2>2. wire[a][i] \in Runs \ {r}
      BY <1>2, <1>3, <2>1, ElementOfSeq DEF TypeOK
    <2> QED BY <1>1, <1>2, <1>11, <2>1, <2>2 DEF RightHost
  <1> QED BY <1>10, <1>12, <1>13 DEF RightHost

\* One step of the registry: only registrations and dispatches move frames.
LEMMA StepOnce ==
    ASSUME IInv, [Next]_registryVars
    PROVE  AtMostOnceDispatch' /\ RightHost'
  <1>0. AtMostOnceDispatch /\ RightHost
    BY DEF IInv
  <1>1. ASSUME NEW c \in Conns, ConnectionStep(c)
        PROVE  AtMostOnceDispatch' /\ RightHost'
    <2>1. CASE RegisterHostConnection(c)
      BY <2>1, RegisterOnce
    <2>2. CASE ~RegisterHostConnection(c)
      <3>1. UNCHANGED <<wire, pendingDispatches, target>>
        BY <1>1, <2>2 DEF ConnectionStep, HandleHostRegister, Connect, ConnectDead, PeerClose, CloseEvent,
           RejectRegistration, TouchHostConnection, UpdateHostCapabilities, Lapse,
           SweepBegin, SweepContinue, SweepAbort
      <3> QED BY <1>0, <3>1, PlacesUnchanged
    <2> QED BY <2>1, <2>2
  <1>2. ASSUME NEW h \in Hosts, RevokeHostConnection(h)
        PROVE  AtMostOnceDispatch' /\ RightHost'
    BY <1>0, <1>2, PlacesUnchanged DEF RevokeHostConnection
  <1>3. ASSUME NEW r \in Runs, RunStep(r)
        PROVE  AtMostOnceDispatch' /\ RightHost'
    <2>1. ASSUME NEW h \in Hosts, DispatchSent(h, r)
          PROVE  AtMostOnceDispatch' /\ RightHost'
      BY <2>1, DispatchSentOnce
    <2>2. ASSUME NEW h \in Hosts, DispatchQueued(h, r)
          PROVE  AtMostOnceDispatch' /\ RightHost'
      BY <2>2, DispatchQueuedOnce
    <2>3. ASSUME NEW c \in Conns,
                 \/ RecordRunAccepted(HostOf[c], r)
                 \/ \E s \in 1 .. MaxSeq : RecordRunSeq(r, s)
                 \/ ClearActiveRun(r)
          PROVE  AtMostOnceDispatch' /\ RightHost'
      BY <1>0, <2>3, PlacesUnchanged DEF RecordRunAccepted, RecordRunSeq, ClearActiveRun
    <2> QED BY <1>3, <2>1, <2>2, <2>3 DEF RunStep
  <1>4. CASE UNCHANGED registryVars
    BY <1>0, <1>4, PlacesUnchanged DEF registryVars
  <1> QED BY <1>1, <1>2, <1>3, <1>4 DEF Next

\* In every behaviour a run's frame is handed to sockets at most once, is not
\* both sent and queued, and is at the host it was dispatched to.
THEOREM DispatchedAtMostOnce == Spec => [](AtMostOnceDispatch /\ RightHost)
  <1>1. Init => AtMostOnceDispatch /\ RightHost
    BY EmptySeq DEF Init, AtMostOnceDispatch, RightHost
  <1>2. IInv /\ [Next]_registryVars => AtMostOnceDispatch' /\ RightHost'
    BY StepOnce
  <1>3. TypeOK /\ EntryIsLive /\ (AtMostOnceDispatch /\ RightHost) /\ [Next]_registryVars
            => (AtMostOnceDispatch /\ RightHost)'
    BY <1>2 DEF IInv
  <1> QED BY <1>1, <1>3, TypeCorrect, EntriesAreLive, PTL DEF Spec

\* In every behaviour a frame goes to, or waits for, the host its run was
\* dispatched to, through every replacement of that host's connection.
THEOREM FramesStayWithTheirHost == Spec => []RightHost
  <1>1. AtMostOnceDispatch /\ RightHost => RightHost
    OBVIOUS
  <1> QED BY <1>1, DispatchedAtMostOnce, PTL

-----------------------------------------------------------------------------
(* An open connection is forgotten only by a later eviction of a sweep.    *)

\* Connection c loses its entry in a step that leaves it open.
Forgotten(c) ==
    /\ hostConnections[HostOf[c]] = c
    /\ hostConnections'[HostOf[c]] # c
    /\ socket'[c] = "open"

\* The entry of c is in the way of a sweep whose snapshot is older than it.
InOldSnapshot(c) == \E t, d \in Conns : d # c /\ <<HostOf[c], d>> \in sweep[t]

\* A closed connection is not open, whatever it was before.
LEMMA ClosedIsNotOpen ==
    ASSUME TypeOK, NEW c \in Conns
    PROVE  Close(socket, c)[c] # "open"
  BY DEF TypeOK, Close

\* One step of the registry, action by action.
LEMMA ForgottenStep ==
    ASSUME TypeOK, [Next]_registryVars, NEW c \in Conns, Forgotten(c)
    PROVE  InOldSnapshot(c)
  <1> USE DEF TypeOK
  <1>1. /\ HostOf[c] \in Hosts
        /\ hostConnections[HostOf[c]] = c
        /\ hostConnections'[HostOf[c]] # c
        /\ socket'[c] = "open"
    BY DEF Forgotten
  <1>2. ASSUME NEW d \in Conns,
               \/ Connect(d) \/ ConnectDead(d) \/ PeerClose(d) \/ RejectRegistration(d)
               \/ \E ids \in HeartbeatIds : TouchHostConnection(d, ids)
               \/ UpdateHostCapabilities(d) \/ Lapse(d) \/ SweepAbort(d)
        PROVE  FALSE
    BY <1>1, <1>2 DEF Connect, ConnectDead, PeerClose, RejectRegistration,
       TouchHostConnection, UpdateHostCapabilities, Lapse, SweepAbort
  <1>3. ASSUME NEW d \in Conns, CloseEvent(d) PROVE FALSE
    BY <1>1, <1>3 DEF CloseEvent, EntriesWithout
  <1>4. ASSUME NEW d \in Conns, RegisterHostConnection(d) PROVE FALSE
    <2>1. hostConnections' = [hostConnections EXCEPT ![HostOf[d]] = d]
      BY <1>4 DEF RegisterHostConnection
    <2>2. HostOf[d] = HostOf[c]
      BY <1>1, <2>1
    <2>3. socket' = Close(socket, c)
      BY <1>1, <1>4, <2>2 DEF RegisterHostConnection
    <2> QED BY <1>1, <2>3, ClosedIsNotOpen
  <1>5. ASSUME NEW h \in Hosts, NEW d, Evict(h, d) PROVE h = HostOf[c] /\ d # c
    <2>1. h = HostOf[c]
      BY <1>1, <1>5 DEF Evict
    <2>2. socket' = Close(socket, d)
      BY <1>5 DEF Evict
    <2> QED BY <1>1, <2>1, <2>2, ClosedIsNotOpen
  <1>6. ASSUME NEW t \in Conns, SweepBegin(t) PROVE FALSE
    <2>1. PICK entry \in StaleEntries : Evict(entry[1], entry[2])
      BY <1>6 DEF SweepBegin
    <2>2. entry[1] \in Hosts /\ entry[2] = hostConnections[entry[1]]
      BY <2>1 DEF StaleEntries
    <2>3. entry[1] = HostOf[c] /\ entry[2] # c
      BY <1>5, <2>1, <2>2
    <2> QED BY <1>1, <2>2, <2>3
  <1>7. ASSUME NEW t \in Conns, SweepContinue(t) PROVE InOldSnapshot(c)
    <2>1. \E h \in Hosts, d \in Conns : <<h, d>> \in sweep[t] /\ Evict(h, d)
      <3>1. PICK entry \in sweep[t] : Evict(entry[1], entry[2])
        BY <1>7 DEF SweepContinue
      <3>2. PICK h \in Hosts, d \in Conns : entry = <<h, d>>
        BY <3>1
      <3>3. <<h, d>> \in sweep[t] /\ Evict(h, d)
        BY <3>1, <3>2
      <3> QED BY <3>3
    <2>2. PICK h \in Hosts, d \in Conns : <<h, d>> \in sweep[t] /\ Evict(h, d)
      BY <2>1
    <2>3. h = HostOf[c] /\ d # c
      BY <1>5, <2>2
    <2>4. <<HostOf[c], d>> \in sweep[t]
      BY <2>2, <2>3
    <2> QED BY <2>3, <2>4 DEF InOldSnapshot
  <1>8. ASSUME NEW h \in Hosts, RevokeHostConnection(h) PROVE FALSE
    <2>1. h = HostOf[c]
      BY <1>1, <1>8 DEF RevokeHostConnection
    <2>2. socket' = Close(socket, c)
      BY <1>1, <1>8, <2>1 DEF RevokeHostConnection
    <2> QED BY <1>1, <2>2, ClosedIsNotOpen
  <1>9. ASSUME NEW r \in Runs, RunStep(r) PROVE FALSE
    BY <1>1, <1>9 DEF RunStep, DispatchSent, DispatchQueued, RecordRunAccepted,
       RecordRunSeq, ClearActiveRun
  <1>10. CASE UNCHANGED registryVars
    BY <1>1, <1>10 DEF registryVars
  <1> QED
    BY <1>2, <1>3, <1>4, <1>6, <1>7, <1>8, <1>9, <1>10
    DEF Next, ConnectionStep, HandleHostRegister

\* Replacement, revocation, the close event and the first eviction of a sweep
\* forget no connection they leave open; a later eviction forgets one only
\* when its snapshot names an older connection of the same host.
THEOREM OnlySweepsForget == Spec => ForgottenOnlyBySweep
  <1>1. TypeOK /\ [Next]_registryVars =>
            [\A c \in Conns :
                /\ hostConnections[HostOf[c]] = c
                /\ hostConnections'[HostOf[c]] # c
                /\ socket'[c] = "open"
                => \E t, d \in Conns : d # c /\ <<HostOf[c], d>> \in sweep[t]]_registryVars
    BY ForgottenStep DEF Forgotten, InOldSnapshot
  <1> QED BY <1>1, TypeCorrect, PTL DEF Spec, ForgottenOnlyBySweep

-----------------------------------------------------------------------------
(* A run is tracked only while its frame is on a wire of its host.         *)

\* After the step, run r has been sent to host h.
SentAfter(r, h) == \E c \in Conns : HostOf[c] = h /\ r \in Elems(wire'[c])

\* Nothing is taken from a wire, and a run that is tracked anew was sent.
LEMMA TrackedIfKept ==
    ASSUME TypeOK, TrackedRunsWereSent,
           \A c \in Conns : Elems(wire[c]) \subseteq Elems(wire'[c]),
           \A r \in Runs : \/ activeHost'[r] \in {activeHost[r], NoHost}
                           \/ SentAfter(r, activeHost'[r])
    PROVE  TrackedRunsWereSent'
  <1> SUFFICES ASSUME NEW r \in Runs, activeHost'[r] # NoHost
               PROVE  \E c \in Conns : HostOf[c] = activeHost'[r] /\ r \in Elems(wire'[c])
    BY DEF TrackedRunsWereSent, Tracked
  <1>1. CASE activeHost'[r] = activeHost[r]
    <2>1. PICK c \in Conns : HostOf[c] = activeHost[r] /\ r \in Elems(wire[c])
      BY <1>1 DEF TrackedRunsWereSent, Tracked
    <2> QED BY <1>1, <2>1
  <1>2. CASE SentAfter(r, activeHost'[r])
    BY <1>2 DEF SentAfter
  <1> QED BY <1>1, <1>2

\* The frames a registration flushes are on the wire of the new connection.
LEMMA RegisterTracks ==
    ASSUME TypeOK, TrackedRunsWereSent, NEW c \in Conns, RegisterHostConnection(c)
    PROVE  TrackedRunsWereSent'
  <1> DEFINE h == HostOf[c]
             q == pendingDispatches[h]
             n == Len(wire[c])
  <1>1. h \in Hosts
    OBVIOUS
  <1>2. PICK k \in 0 .. Len(q) : FlushPendingDispatches(h, c, k)
    BY DEF RegisterHostConnection
  <1>3. /\ \A d \in Conns \ {c} : wire'[d] = wire[d]
        /\ n \in Nat /\ Len(q) \in Nat /\ k \in Nat /\ k <= Len(q)
        /\ Len(wire'[c]) = n + k
        /\ \A i \in 1 .. n + k :
              wire'[c][i] = IF i <= n THEN wire[c][i] ELSE q[i - n]
    BY <1>1, <1>2, FlushEffect
  <1>4. \A d \in Conns : Elems(wire[d]) \subseteq Elems(wire'[d])
    <2>1. \A i \in 1 .. n : i \in 1 .. Len(wire'[c]) /\ wire'[c][i] = wire[c][i]
      BY <1>3
    <2> QED BY <1>3, <2>1 DEF Elems
  <1>5. \A r \in Runs : r \in Elems(SubSeq(q, 1, k)) => r \in Elems(wire'[c])
    <2>1. q \in Seq(Runs)
      BY <1>1 DEF TypeOK
    <2>2. \A i \in 1 .. k : q[i] \in Runs
      BY <1>3, <2>1, ElementOfSeq
    <2>3. /\ Len(SubSeq(q, 1, k)) = k
          /\ \A i \in 1 .. k : SubSeq(q, 1, k)[i] = q[i]
      <3>1. 1 \in Int /\ k \in Int
        BY <1>3
      <3> HIDE DEF q
      <3>2. /\ Len(SubSeq(q, 1, k)) = IF 1 <= k THEN k - 1 + 1 ELSE 0
            /\ \A i \in 1 .. k - 1 + 1 : SubSeq(q, 1, k)[i] = q[1 + i - 1]
        BY <2>2, <3>1, SubSeqProperties
      <3> QED BY <1>3, <3>2
    <2> HIDE DEF q, n
    <2>4. ASSUME NEW i \in 1 .. k
          PROVE  n + i \in 1 .. Len(wire'[c]) /\ wire'[c][n + i] = q[i]
      <3>1. n + i \in 1 .. n + k /\ ~(n + i <= n) /\ (n + i) - n = i
        BY <1>3
      <3> QED BY <1>3, <3>1
    <2>5. ASSUME NEW r, r \in Elems(SubSeq(q, 1, k)) PROVE r \in Elems(wire'[c])
      <3>1. PICK i \in 1 .. k : r = q[i]
        BY <2>3, <2>5 DEF Elems
      <3> QED BY <2>4, <3>1 DEF Elems
    <2> QED BY <2>5
  <1>6. \A r \in Runs : \/ activeHost'[r] \in {activeHost[r], NoHost}
                        \/ SentAfter(r, activeHost'[r])
    <2>1. activeHost' = [r \in Runs |-> IF r \in Elems(SubSeq(q, 1, k)) THEN h
                                        ELSE activeHost[r]]
      BY <1>2 DEF FlushPendingDispatches, TrackActiveRuns
    <2> SUFFICES ASSUME NEW r \in Runs, r \in Elems(SubSeq(q, 1, k))
                 PROVE  SentAfter(r, activeHost'[r])
      BY <2>1
    <2> QED BY <1>5, <2>1 DEF SentAfter
  <1> QED BY <1>4, <1>6, TrackedIfKept

\* A dispatched frame is on the wire of the host's own connection.
LEMMA DispatchTracks ==
    ASSUME TypeOK, EntryIsLive, TrackedRunsWereSent, NEW h \in Hosts, NEW r \in Runs,
           DispatchSent(h, r)
    PROVE  TrackedRunsWereSent'
  <1> DEFINE c == hostConnections[h]
  <1>1. c \in Conns /\ HostOf[c] = h
    BY DEF TypeOK, EntryIsLive, DispatchSent, HasHostConnection
  <1>2. wire[c] \in Seq(Runs) /\ Len(wire[c]) \in Nat
    BY <1>1, LenProperties DEF TypeOK
  <1>3. /\ Len(Append(wire[c], r)) = Len(wire[c]) + 1
        /\ \A i \in 1 .. Len(wire[c]) : Append(wire[c], r)[i] = wire[c][i]
        /\ Append(wire[c], r)[Len(wire[c]) + 1] = r
    BY <1>2, AppendProperties
  <1>4. wire'[c] = Append(wire[c], r) /\ \A d \in Conns \ {c} : wire'[d] = wire[d]
    BY <1>1 DEF TypeOK, DispatchSent
  <1>5. \A i \in 1 .. Len(wire[c]) + 1 : i \in 1 .. Len(wire'[c])
    BY <1>2, <1>3, <1>4
  <1>6. \A d \in Conns : Elems(wire[d]) \subseteq Elems(wire'[d])
    BY <1>2, <1>3, <1>4, <1>5 DEF Elems
  <1>7. r \in Elems(wire'[c])
    BY <1>2, <1>3, <1>4, <1>5 DEF Elems
  <1>8. activeHost' = [s \in Runs |-> IF s = r THEN h ELSE activeHost[s]]
    BY DEF DispatchSent, TrackActiveRuns
  <1>9. \A s \in Runs : \/ activeHost'[s] \in {activeHost[s], NoHost}
                        \/ SentAfter(s, activeHost'[s])
    BY <1>1, <1>7, <1>8 DEF SentAfter
  <1> QED BY <1>6, <1>9, TrackedIfKept

\* One step of the registry, action by action.
LEMMA TrackedStep ==
    ASSUME TypeOK, EntryIsLive, TrackedRunsWereSent, [Next]_registryVars
    PROVE  TrackedRunsWereSent'
  <1>1. ASSUME UNCHANGED wire, \A r \in Runs : activeHost'[r] \in {activeHost[r], NoHost}
        PROVE  TrackedRunsWereSent'
    BY <1>1, TrackedIfKept
  <1>2. ASSUME NEW c \in Conns, ConnectionStep(c)
        PROVE  TrackedRunsWereSent'
    <2>1. CASE RegisterHostConnection(c)
      BY <2>1, RegisterTracks
    <2>2. ASSUME NEW ids \in HeartbeatIds, TouchHostConnection(c, ids)
          PROVE  TrackedRunsWereSent'
      BY <1>1, <2>2 DEF TouchHostConnection, DropActiveRuns
    <2>3. CASE UNCHANGED <<wire, activeHost>>
      BY <1>1, <2>3
    <2> QED
      BY <1>2, <2>1, <2>2, <2>3
      DEF ConnectionStep, HandleHostRegister, Connect, ConnectDead, PeerClose, CloseEvent,
          RejectRegistration, UpdateHostCapabilities, Lapse, SweepBegin, SweepContinue,
          SweepAbort
  <1>3. ASSUME NEW h \in Hosts, RevokeHostConnection(h)
        PROVE  TrackedRunsWereSent'
    BY <1>1, <1>3 DEF RevokeHostConnection
  <1>4. ASSUME NEW r \in Runs, RunStep(r)
        PROVE  TrackedRunsWereSent'
    <2>1. ASSUME NEW h \in Hosts, DispatchSent(h, r) PROVE TrackedRunsWereSent'
      BY <2>1, DispatchTracks
    <2>2. ASSUME NEW h \in Hosts, DispatchQueued(h, r) PROVE TrackedRunsWereSent'
      BY <1>1, <2>2 DEF DispatchQueued
    <2>3. ASSUME NEW c \in Conns, r \in Elems(wire[c]), RecordRunAccepted(HostOf[c], r)
          PROVE  TrackedRunsWereSent'
      <3>1. wire' = wire /\ activeHost' = [activeHost EXCEPT ![r] = HostOf[c]]
        BY <2>3 DEF RecordRunAccepted
      <3>2. \A s \in Runs : \/ activeHost'[s] \in {activeHost[s], NoHost}
                            \/ SentAfter(s, activeHost'[s])
        BY <2>3, <3>1 DEF SentAfter, TypeOK
      <3> QED BY <3>1, <3>2, TrackedIfKept
    <2>4. ASSUME NEW s \in 1 .. MaxSeq, RecordRunSeq(r, s) PROVE TrackedRunsWereSent'
      BY <1>1, <2>4 DEF RecordRunSeq
    <2>5. CASE ClearActiveRun(r)
      BY <1>1, <2>5 DEF ClearActiveRun, DropActiveRuns
    <2> QED BY <1>4, <2>1, <2>2, <2>3, <2>4, <2>5 DEF RunStep
  <1>5. CASE UNCHANGED registryVars
    BY <1>1, <1>5 DEF registryVars
  <1> QED BY <1>2, <1>3, <1>4, <1>5 DEF Next

\* activeRuns never names a run for a host that was not sent the run's frame,
\* whatever is queued, flushed, accepted late or dropped by a heartbeat.
THEOREM TrackedRunsAreSent == Spec => []TrackedRunsWereSent
  <1>1. Init => TrackedRunsWereSent
    BY DEF Init, TrackedRunsWereSent, Tracked
  <1>2. TypeOK /\ EntryIsLive /\ TrackedRunsWereSent /\ [Next]_registryVars
            => TrackedRunsWereSent'
    BY TrackedStep
  <1> QED BY <1>1, <1>2, TypeCorrect, EntriesAreLive, PTL DEF Spec

-----------------------------------------------------------------------------
(* The registry implements RunDispatch.                                    *)

OnWire(r) == \E c \in Conns : r \in Elems(wire[c])

\* The abstract status of a run, by where its frame is.
LEMMA StatusByPlace ==
    ASSUME NEW r \in Runs
    PROVE  /\ DispatchStatus[r] = IF target[r] = NoHost THEN "idle"
                                  ELSE IF OnWire(r) THEN "sent"
                                  ELSE IF r \in Elems(pendingDispatches[target[r]]) THEN "queued"
                                  ELSE "lost"
           /\ DispatchStatus'[r] = IF target'[r] = NoHost THEN "idle"
                                   ELSE IF OnWire(r)' THEN "sent"
                                   ELSE IF r \in Elems(pendingDispatches'[target'[r]]) THEN "queued"
                                   ELSE "lost"
  BY DEF DispatchStatus, OnWire

\* The runs that wait for a host are those of its queue.
LEMMA QueuedAreInQueue ==
    ASSUME IInv, NEW h \in Hosts
    PROVE  Dispatch!Queued(h) = Elems(pendingDispatches[h])
  <1>1. pendingDispatches[h] \in Seq(Runs)
    BY DEF IInv, TypeOK
  <1>2. ASSUME NEW r \in Dispatch!Queued(h) PROVE r \in Elems(pendingDispatches[h])
    <2>1. r \in Runs /\ DispatchStatus[r] = "queued" /\ target[r] = h
      BY DEF Dispatch!Queued
    <2> QED BY <2>1, StatusByPlace
  <1>3. ASSUME NEW r \in Elems(pendingDispatches[h]) PROVE r \in Dispatch!Queued(h)
    <2>1. PICK i \in 1 .. Len(pendingDispatches[h]) : pendingDispatches[h][i] = r
      BY DEF Elems
    <2>2. r \in Runs /\ target[r] = h
      BY <1>1, <2>1, ElementOfSeq DEF IInv, RightHost
    <2>3. ~OnWire(r)
      BY <2>1 DEF IInv, AtMostOnceDispatch, OnWire, Elems
    <2>4. DispatchStatus[r] = "queued"
      BY <2>2, <2>3, StatusByPlace
    <2> QED BY <2>2, <2>4 DEF Dispatch!Queued
  <1> QED BY <1>2, <1>3

\* A dispatch that is sent submits the run as sent.
LEMMA SentSubmits ==
    ASSUME IInv, NEW h \in Hosts, NEW r \in Runs, DispatchSent(h, r)
    PROVE  Dispatch!Submit(h, r)
  <1> DEFINE c == hostConnections[h]
  <1>1. /\ TypeOK /\ c \in Conns /\ target[r] = NoHost
        /\ wire' = [wire EXCEPT ![c] = Append(wire[c], r)]
        /\ pendingDispatches' = pendingDispatches
        /\ target' = [target EXCEPT ![r] = h]
    BY DEF IInv, TypeOK, DispatchSent, HasHostConnection
  <1>2. \A d \in Conns : \A x : x \in Elems(wire'[d]) <=>
            x \in Elems(wire[d]) \/ (d = c /\ x = r)
    <2>1. wire[c] \in Seq(Runs) /\ Len(wire[c]) \in Nat
      BY <1>1, LenProperties DEF TypeOK
    <2>2. /\ Len(Append(wire[c], r)) = Len(wire[c]) + 1
          /\ \A i \in 1 .. Len(wire[c]) : Append(wire[c], r)[i] = wire[c][i]
          /\ Append(wire[c], r)[Len(wire[c]) + 1] = r
      BY <2>1, AppendProperties
    <2>3. \A x : x \in Elems(Append(wire[c], r)) <=> x \in Elems(wire[c]) \/ x = r
      BY <2>1, <2>2 DEF Elems
    <2>4. wire'[c] = Append(wire[c], r) /\ \A d \in Conns \ {c} : wire'[d] = wire[d]
      BY <1>1 DEF TypeOK
    <2> QED BY <2>3, <2>4
  <1>3. OnWire(r)' /\ \A q \in Runs \ {r} : OnWire(q)' <=> OnWire(q)
    BY <1>1, <1>2 DEF OnWire
  <1>4. /\ target'[r] = h /\ h # NoHost
        /\ \A q \in Runs \ {r} : target'[q] = target[q]
    BY <1>1 DEF TypeOK
  <1>5. DispatchStatus'[r] = "sent"
    BY <1>3, <1>4, StatusByPlace
  <1>6. \A q \in Runs \ {r} : DispatchStatus'[q] = DispatchStatus[q]
    BY <1>1, <1>3, <1>4, StatusByPlace
  <1>7. DispatchStatus' = [DispatchStatus EXCEPT ![r] = "sent"]
    BY <1>5, <1>6 DEF DispatchStatus
  <1> QED BY <1>1, <1>7 DEF Dispatch!Submit

\* A dispatch that is queued submits the run as queued.
LEMMA QueuedSubmits ==
    ASSUME IInv, NEW h \in Hosts, NEW r \in Runs, DispatchQueued(h, r)
    PROVE  Dispatch!Submit(h, r)
  <1> DEFINE q == pendingDispatches[h]
  <1>1. /\ TypeOK /\ target[r] = NoHost
        /\ pendingDispatches' = [pendingDispatches EXCEPT ![h] = Append(q, r)]
        /\ wire' = wire
        /\ target' = [target EXCEPT ![r] = h]
    BY DEF IInv, DispatchQueued
  <1>2. \A g \in Hosts : \A x : x \in Elems(pendingDispatches'[g]) <=>
            x \in Elems(pendingDispatches[g]) \/ (g = h /\ x = r)
    <2>1. q \in Seq(Runs) /\ Len(q) \in Nat
      BY <1>1, LenProperties DEF TypeOK
    <2> HIDE DEF q
    <2>2. /\ Len(Append(q, r)) = Len(q) + 1
          /\ \A i \in 1 .. Len(q) : Append(q, r)[i] = q[i]
          /\ Append(q, r)[Len(q) + 1] = r
      BY <2>1, AppendProperties
    <2>3. \A x : x \in Elems(Append(q, r)) <=> x \in Elems(q) \/ x = r
      BY <2>1, <2>2 DEF Elems
    <2>4. /\ pendingDispatches'[h] = Append(q, r)
          /\ \A g \in Hosts \ {h} : pendingDispatches'[g] = pendingDispatches[g]
      BY <1>1 DEF TypeOK
    <2> QED BY <2>3, <2>4 DEF q
  <1>3. ~OnWire(r)
    BY <1>1, UndispatchedIsNowhere DEF IInv, OnWire, Elems
  <1>4. \A x \in Runs : OnWire(x)' <=> OnWire(x)
    BY <1>1 DEF OnWire
  <1>5. /\ target'[r] = h /\ h # NoHost
        /\ \A x \in Runs \ {r} : target'[x] = target[x] /\ target[x] \in Hosts \cup {NoHost}
    BY <1>1 DEF TypeOK
  <1>6. DispatchStatus'[r] = "queued"
    BY <1>2, <1>3, <1>4, <1>5, StatusByPlace
  <1>7. \A x \in Runs \ {r} : DispatchStatus'[x] = DispatchStatus[x]
    BY <1>2, <1>4, <1>5, StatusByPlace
  <1>8. DispatchStatus' = [DispatchStatus EXCEPT ![r] = "queued"]
    BY <1>6, <1>7 DEF DispatchStatus
  <1> QED BY <1>1, <1>8 DEF Dispatch!Submit

\* A registration flushes the queue of its host, to its end or to a frame
\* that stays.
LEMMA RegistrationFlushes ==
    ASSUME IInv, NEW c \in Conns, RegisterHostConnection(c)
    PROVE  \/ Dispatch!FlushAll(HostOf[c])
           \/ \E stuck \in Runs : \E sent \in SUBSET Runs :
                 Dispatch!FlushStopped(HostOf[c], stuck, sent)
  <1> DEFINE h == HostOf[c]
             q == pendingDispatches[h]
  <1>1. h \in Hosts /\ TypeOK /\ target' = target
    BY DEF IInv, RegisterHostConnection
  <1>2. PICK k \in 0 .. Len(q) : FlushPendingDispatches(h, c, k)
    BY DEF RegisterHostConnection
  <1> DEFINE sent == {q[i] : i \in 1 .. k}
  <1>3. /\ \A d \in Conns \ {c} : wire'[d] = wire[d]
        /\ Len(wire[c]) \in Nat /\ Len(q) \in Nat /\ k \in Nat /\ k <= Len(q)
        /\ Len(wire'[c]) = Len(wire[c]) + k
        /\ \A i \in 1 .. Len(wire'[c]) :
              wire'[c][i] = IF i <= Len(wire[c]) THEN wire[c][i] ELSE q[i - Len(wire[c])]
        /\ \A g \in Hosts \ {h} : pendingDispatches'[g] = pendingDispatches[g]
        /\ \A i \in 1 .. Len(pendingDispatches'[h]) :
              /\ i = 1 /\ k < Len(q)
              /\ pendingDispatches'[h][i] = q[k + 1]
    BY <1>1, <1>2, FlushEffect
  <1>4. pendingDispatches' = [pendingDispatches EXCEPT ![h] = RemainderAfter(q, k)]
    BY <1>2 DEF FlushPendingDispatches
  <1>5. q \in Seq(Runs) /\ \A i \in 1 .. Len(q) : q[i] \in Runs /\ target[q[i]] = h
    BY <1>1, ElementOfSeq DEF IInv, TypeOK, RightHost
  <1>6. Dispatch!Queued(h) = Elems(q)
    BY <1>1, QueuedAreInQueue
  <1>7. \A i, j \in 1 .. Len(q) : q[i] = q[j] => i = j
    BY <1>1 DEF IInv, AtMostOnceDispatch
  <1>8. /\ k < Len(q) => Len(pendingDispatches'[h]) = 1
        /\ k = Len(q) => Len(pendingDispatches'[h]) = 0
    <2>1. pendingDispatches'[h] = RemainderAfter(q, k)
      BY <1>1, <1>4 DEF TypeOK
    <2> QED BY <1>3, <1>5, <2>1, RemainderType
  <1> HIDE DEF q
  <1>9. \A r \in Runs : OnWire(r)' <=> OnWire(r) \/ r \in sent
    <2>1. \A x : x \in Elems(wire'[c]) <=> x \in Elems(wire[c]) \/ x \in sent
      <3>1. ASSUME NEW x \in Elems(wire'[c]) PROVE x \in Elems(wire[c]) \/ x \in sent
        <4>1. PICK i \in 1 .. Len(wire'[c]) : x = wire'[c][i]
          BY DEF Elems
        <4>2. CASE i <= Len(wire[c])
          BY <1>3, <4>1, <4>2 DEF Elems
        <4>3. CASE i > Len(wire[c])
          <5>1. i - Len(wire[c]) \in 1 .. k /\ x = q[i - Len(wire[c])]
            BY <1>3, <4>1, <4>3
          <5> QED BY <5>1
        <4> QED BY <1>3, <4>2, <4>3
      <3>2. ASSUME NEW x \in Elems(wire[c]) PROVE x \in Elems(wire'[c])
        BY <1>3 DEF Elems
      <3>3. ASSUME NEW x \in sent PROVE x \in Elems(wire'[c])
        <4>1. PICK i \in 1 .. k : x = q[i]
          BY <3>3
        <4>2. Len(wire[c]) + i \in 1 .. Len(wire'[c])
          BY <1>3
        <4>3. /\ ~(Len(wire[c]) + i <= Len(wire[c]))
              /\ (Len(wire[c]) + i) - Len(wire[c]) = i
          BY <1>3
        <4>4. wire'[c][Len(wire[c]) + i] = q[i]
          BY <1>3, <4>2, <4>3
        <4> QED BY <4>1, <4>2, <4>4 DEF Elems
      <3> QED BY <3>1, <3>2, <3>3
    <2> QED BY <1>3, <2>1 DEF OnWire
  <1>10. sent \subseteq Elems(q) /\ Elems(q) \subseteq Runs
    BY <1>3, <1>5 DEF Elems
  <1>11. \A r \in Elems(q) : target[r] = h /\ DispatchStatus[r] = "queued"
    BY <1>6 DEF Dispatch!Queued
  <1>12. \A r \in sent : DispatchStatus'[r] = "sent"
    BY <1>1, <1>9, <1>10, <1>11, StatusByPlace
  <1>13. \A r \in Runs \ Elems(q) : DispatchStatus'[r] = DispatchStatus[r]
    <2>1. ASSUME NEW r \in Runs \ Elems(q), target[r] \in Hosts
          PROVE  r \in Elems(pendingDispatches'[target[r]])
                    <=> r \in Elems(pendingDispatches[target[r]])
      <3>1. CASE target[r] = h
        <4>1. \A i \in 1 .. Len(pendingDispatches'[h]) :
                  pendingDispatches'[h][i] = q[k + 1] /\ k + 1 \in 1 .. Len(q)
          BY <1>3
        <4>2. r \notin Elems(pendingDispatches'[h])
          BY <4>1 DEF Elems
        <4> QED BY <3>1, <4>2 DEF q
      <3>2. CASE target[r] # h
        BY <1>3, <2>1, <3>2
      <3> QED BY <3>1, <3>2
    <2>2. ASSUME NEW r \in Runs \ Elems(q) PROVE DispatchStatus'[r] = DispatchStatus[r]
      <3>1. OnWire(r)' <=> OnWire(r)
        BY <1>9, <1>10
      <3>2. target'[r] = target[r] /\ target[r] \in Hosts \cup {NoHost}
        BY <1>1 DEF TypeOK
      <3> QED BY <2>1, <3>1, <3>2, StatusByPlace
    <2> QED BY <2>2
  <1>14. CASE k = Len(q)
    <2>1. sent = Elems(q)
      BY <1>14 DEF Elems
    <2>2. \A r \in Runs : DispatchStatus'[r] = IF r \in Elems(q) THEN "sent" ELSE DispatchStatus[r]
      BY <1>12, <1>13, <2>1
    <2>3. DispatchStatus' = [r \in Runs |-> IF r \in Elems(q) THEN "sent" ELSE DispatchStatus[r]]
      BY <2>2 DEF DispatchStatus
    <2> QED BY <1>1, <1>6, <2>3 DEF Dispatch!FlushAll
  <1>15. CASE k < Len(q)
    <2> DEFINE stuck == q[k + 1]
    <2>1. k + 1 \in 1 .. Len(q) /\ stuck \in Runs /\ stuck \in Elems(q) /\ stuck \notin sent
      BY <1>3, <1>5, <1>7, <1>15 DEF Elems
    <2>2. \A r : r \in Elems(pendingDispatches'[h]) <=> r = stuck
      <3>1. Len(pendingDispatches'[h]) = 1 /\ pendingDispatches'[h][1] = stuck
        BY <1>3, <1>8, <1>15
      <3> QED BY <3>1 DEF Elems
    <2>3. \A r \in Elems(q) : ~OnWire(r)
      BY <1>1, <1>10, <1>11, StatusByPlace
    <2>4. ASSUME NEW r \in Elems(q) \ sent
          PROVE  DispatchStatus'[r] = IF r = stuck THEN "queued" ELSE "lost"
      <3>1. r \in Runs /\ ~OnWire(r)' /\ target'[r] = h /\ h # NoHost
        BY <1>1, <1>9, <1>10, <1>11, <2>3
      <3> QED BY <2>2, <3>1, StatusByPlace
    <2>5. ASSUME NEW r \in Runs
          PROVE  DispatchStatus'[r] = IF r \in sent THEN "sent"
                                      ELSE IF r \in Elems(q) \ {stuck} THEN "lost"
                                      ELSE DispatchStatus[r]
      BY <1>11, <1>12, <1>13, <2>1, <2>4
    <2>6. DispatchStatus' = [r \in Runs |-> IF r \in sent THEN "sent"
                                           ELSE IF r \in Elems(q) \ {stuck} THEN "lost"
                                           ELSE DispatchStatus[r]]
      BY <2>5 DEF DispatchStatus
    <2>7. Dispatch!FlushStopped(h, stuck, sent)
      BY <1>1, <1>6, <1>10, <2>1, <2>6 DEF Dispatch!FlushStopped
    <2> QED BY <1>10, <2>1, <2>7
  <1> QED BY <1>3, <1>14, <1>15

\* Every step of the registry is one of RunDispatch or leaves every frame
\* where it is.
LEMMA DispatchStep ==
    ASSUME IInv, [Next]_registryVars
    PROVE  [Dispatch!Next]_<<DispatchStatus, target>>
  <1>1. ASSUME NEW c \in Conns, RegisterHostConnection(c)
        PROVE  Dispatch!Next
    <2>1. HostOf[c] \in Hosts
      OBVIOUS
    <2> QED BY <1>1, <2>1, RegistrationFlushes DEF Dispatch!Next
  <1>2. ASSUME NEW h \in Hosts, NEW r \in Runs, DispatchSent(h, r) \/ DispatchQueued(h, r)
        PROVE  Dispatch!Next
    BY <1>2, SentSubmits, QueuedSubmits DEF Dispatch!Next
  <1>3. CASE UNCHANGED <<wire, pendingDispatches, target>>
    BY <1>3 DEF DispatchStatus
  <1>4. \/ UNCHANGED <<wire, pendingDispatches, target>>
        \/ \E c \in Conns : RegisterHostConnection(c)
        \/ \E h \in Hosts, r \in Runs : DispatchSent(h, r) \/ DispatchQueued(h, r)
    BY DEF Next, ConnectionStep, HandleHostRegister, Connect, ConnectDead, PeerClose,
       CloseEvent, RejectRegistration, TouchHostConnection, UpdateHostCapabilities, Lapse,
       SweepBegin, SweepContinue, SweepAbort, RevokeHostConnection, RunStep,
       RecordRunAccepted, RecordRunSeq, ClearActiveRun, registryVars
  <1> QED BY <1>1, <1>2, <1>3, <1>4

\* The registry keeps the promise of RunDispatch: each frame is handed over at
\* most once, when it is submitted or at a registration of its host, and it is
\* lost only by a flush that stopped at another frame of the same host.
THEOREM RegistryImplementsDispatch == Spec => DispatchSpec
  <1>1. Init => Dispatch!Init
    BY DEF Init, Dispatch!Init, DispatchStatus
  <1>2. IInv /\ [Next]_registryVars => [Dispatch!Next]_<<DispatchStatus, target>>
    BY DispatchStep
  <1>3. Spec => []IInv
    BY TypeCorrect, EntriesAreLive, DispatchedAtMostOnce, PTL DEF IInv
  <1> QED BY <1>1, <1>2, <1>3, PTL DEF Spec, DispatchSpec, Dispatch!Spec

=============================================================================

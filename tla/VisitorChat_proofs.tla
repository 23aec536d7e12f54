------------------------- MODULE VisitorChat_proofs -------------------------
(***************************************************************************)
(* Theorems about VisitorChat, for any connections, sessions and messages: *)
(* it implements VisitorRegistry, whose theorems therefore hold of it, and *)
(* three inductive invariants.  ChatIInv: a reply is never shown to or     *)
(* stored for another session than its own, since what a handler looked up *)
(* before an await was a connection of its own session, and the map of     *)
(* sessions agrees with the connections when a frame is forwarded after    *)
(* it.  MessagesIInv: of the frames with one id the keys admit one, and    *)
(* the id is nowhere until that one's handler puts it on sockets or in a   *)
(* queue; no move from there puts it in two places.  StreamsIInv: until    *)
(* its end is read, a stream's chunks are buffered and wait in order, but  *)
(* for a stream with a chunk that passed others in an outage of Redis.     *)
(***************************************************************************)
EXTENDS VisitorChat, VisitorRegistry_proofs, SequenceTheorems

USE RolesAssumption, AgentOfAssumption, TokenOfAssumption, QrOfAssumption, NoneAssumption
USE FramesAssumption, IdsAssumption, ToAssumption, ServedByAssumption, BoundsAssumption

-----------------------------------------------------------------------------
(* The registry's part.                                                    *)

LEMMA ChatInitRegistry == ChatInit => \E used \in SUBSET Conns : RegistryInit(used)
  <1> SUFFICES ASSUME ChatInit PROVE \E used \in SUBSET Conns : RegistryInit(used)
    OBVIOUS
  <1>1. PICK used \in Scenarios : RegistryInit(used)
    BY DEF ChatInit
  <1>2. RegistryInit(used \cap Conns)
    BY <1>1 DEF RegistryInit
  <1> QED BY <1>2

LEMMA ChatStepsRegistry == [ChatNext]_chatVars => [RegistryNext]_chatRegistryVars
  <1> SUFFICES ASSUME [ChatNext]_chatVars PROVE [RegistryNext]_chatRegistryVars
    OBVIOUS
  <1>1. CASE Registry
    BY <1>1 DEF Registry, RegistryNext
  <1>2. CASE \E c \in AgentConns : AgentRegisters(c)
    <2>1. PICK c \in AgentConns : AgentRegisters(c)
      BY <1>2
    <2>2. PICK list \in {{}, {q \in QrCodes : ServedBy[q] = AgentOf[c]}} : ResolvedAgent(c, list)
      BY <2>1 DEF AgentRegisters
    <2>3. c \in Conns /\ list \in SUBSET QrCodes
      BY <2>2 DEF Conns
    <2> QED BY <2>2, <2>3 DEF RegistryNext
  <1>3. CASE \E c \in AgentConns : DrainOfflineQueue(c)
    BY <1>3 DEF DrainOfflineQueue
  <1>4. CASE RedisChanges
    BY <1>4 DEF RedisChanges
  <1>5. CASE \E f \in Frames :
                \/ ReadVisitorMessage(f) \/ Checked(f) \/ Queued(f) \/ Requeued(f) \/ Persisted(f)
                \/ \E D \in SUBSET AgentConns : ForwardToAgents(f, D)
    BY <1>5 DEF ReadVisitorMessage, Checked, Queued, Requeued, Persisted, ForwardToAgents
  <1>6. CASE \E m \in Replies :
                ReadAgentMessage(m) \/ RouteAgentMessage(m) \/ ForwardAgentMessage(m)
    BY <1>6 DEF ReadAgentMessage, RouteAgentMessage, ForwardAgentMessage
  <1>7. CASE \E s \in Streams : \/ ReadStreamChunk(s) \/ StreamChunkChecked(s)
                                \/ ReadStreamEnd(s) \/ ForwardStreamEnd(s)
    BY <1>7 DEF ReadStreamChunk, StreamChunkChecked, ReadStreamEnd, ForwardStreamEnd
  <1>8. CASE UNCHANGED chatVars
    BY <1>8 DEF chatVars
  <1> QED BY <1>1, <1>2, <1>3, <1>4, <1>5, <1>6, <1>7, <1>8 DEF ChatNext

\* The pipeline changes the connections and the maps as the registry allows, and
\* in no other way (router.ts never writes to them).
THEOREM ChatImplementsRegistry == ChatSpec => RegistrySpec
  BY ChatInitRegistry, ChatStepsRegistry, PTL DEF ChatSpec, RegistrySpec

\* So the maps agree while messages are under way.
THEOREM ChatMapsAgree == ChatSpec => []MapsAgree
  BY ChatImplementsRegistry, MapsAlwaysAgree, PTL

\* An open connection is registered while messages are under way.
THEOREM ChatOpenIsRegistered == ChatSpec => []RegisteredWhileOpen
  BY ChatImplementsRegistry, OpenIsRegistered, PTL

\* A registered runtime keeps its routes while messages are under way.
THEOREM ChatRoutesAreKept == ChatSpec => []RuntimeKeepsRoutes
  BY ChatImplementsRegistry, RoutesAreKept, PTL

\* Only its own connections take a session's entry away.
THEOREM ChatOnlySessionTakesEntry == ChatSpec => SessionLostOnlyWithin
  BY ChatImplementsRegistry, OnlySessionTakesEntry, PTL

-----------------------------------------------------------------------------
(* The inductive invariant of the pipeline.                                *)

FlowOK ==
    /\ redis \in BOOLEAN
    /\ stage \in [Frames \cup ReplyIds -> Stages]
    /\ answers \in [Frames \cup ReplyIds -> SUBSET Answers]

VisitorSideOK ==
    /\ dedup \subseteq Ids
    /\ unchecked \subseteq Frames
    /\ offline \in [Agents -> Seq(Ids)]
    /\ draining \subseteq AgentConns
    /\ inbox \in [AgentConns -> Seq(Ids)]
    /\ lost \subseteq Ids
    /\ unqueued \subseteq Frames

StreamsOK ==
    /\ chunksRead \in [Streams -> 0 .. Chunks]
    /\ waiting \in [Streams -> Seq(1 .. Chunks)]
    /\ overtaken \subseteq Streams
    /\ streamBuffers \in [Streams -> Seq(1 .. Chunks)]
    /\ fullContent \in [Streams -> Seq(1 .. Chunks)]

\* A handler goes on after its await with a connection of the reply's session.
EntriesOK ==
    /\ visitorEntry \in [ReplyIds -> VisitorConns \cup {NoConn}]
    /\ \A m \in ReplyIds : visitorEntry[m] # NoConn => TokenOf[visitorEntry[m]] = To[m]

ShownOK ==
    /\ shown \in [VisitorConns -> Seq(ReplyIds \X (0 .. Chunks + 1))]
    /\ \A c \in VisitorConns : \A i \in 1 .. Len(shown[c]) : To[shown[c][i][1]] = TokenOf[c]

StoredOK ==
    /\ stored \subseteq [id : Ids \cup ReplyIds, token : Tokens, content : Seq(1 .. Chunks)]
    /\ \A row \in stored : row.id \in ReplyIds => row.token = To[row.id]

PipelineOK == FlowOK /\ VisitorSideOK /\ StreamsOK /\ EntriesOK /\ ShownOK /\ StoredOK

ChatIInv == RegistryIInv /\ PipelineOK

LEMMA ChatIInvImplies == ChatIInv => ChatTypeOK /\ OnlyItsConversation
  BY DEF ChatIInv, PipelineOK, RegistryIInv, ChatTypeOK, OnlyItsConversation, FlowOK,
         VisitorSideOK, StreamsOK, EntriesOK, ShownOK, StoredOK

LEMMA ChatIInvInit == ChatInit => PipelineOK
  <1> SUFFICES ASSUME ChatInit PROVE PipelineOK
    OBVIOUS
  <1> USE DEF ChatInit
  <1>1. FlowOK
    BY DEF FlowOK, Stages
  <1>2. VisitorSideOK
    BY EmptySeq DEF VisitorSideOK
  <1>3. StreamsOK
    BY EmptySeq DEF StreamsOK
  <1>4. EntriesOK
    BY DEF EntriesOK
  <1>5. ShownOK
    BY EmptySeq DEF ShownOK
  <1>6. StoredOK
    BY DEF StoredOK
  <1> QED BY <1>1, <1>2, <1>3, <1>4, <1>5, <1>6 DEF PipelineOK

-----------------------------------------------------------------------------
(* The helpers.                                                            *)

\* Every part keeps when its variables do.
LEMMA UnchangedParts ==
    /\ FlowOK /\ UNCHANGED <<redis, stage, answers>> => FlowOK'
    /\ VisitorSideOK /\ UNCHANGED visitorSide => VisitorSideOK'
    /\ StreamsOK /\ UNCHANGED <<chunksRead, waiting, overtaken, streamBuffers, fullContent>>
          => StreamsOK'
    /\ EntriesOK /\ UNCHANGED visitorEntry => EntriesOK'
    /\ ShownOK /\ UNCHANGED shown => ShownOK'
    /\ StoredOK /\ UNCHANGED stored => StoredOK'
  BY DEF FlowOK, VisitorSideOK, StreamsOK, EntriesOK, ShownOK, StoredOK, visitorSide

\* The agent's side is three parts.
LEMMA UnchangedAgentSide ==
    ASSUME StreamsOK, EntriesOK, ShownOK, UNCHANGED agentSide
    PROVE  StreamsOK' /\ EntriesOK' /\ ShownOK'
  BY UnchangedParts DEF agentSide

LEMMA GotoKeeps ==
    ASSUME FlowOK, NEW f \in Frames \cup ReplyIds, NEW s \in Stages, Goto(f, s)
    PROVE  stage' \in [Frames \cup ReplyIds -> Stages]
  BY DEF FlowOK, Goto

LEMMA AnswerKeeps ==
    ASSUME FlowOK, NEW f \in Frames \cup ReplyIds, NEW kind \in Answers, Answer(f, kind)
    PROVE  answers' \in [Frames \cup ReplyIds -> SUBSET Answers]
  BY DEF FlowOK, Answer

LEMMA StoreKeeps ==
    ASSUME StoredOK, NEW id \in Ids \cup ReplyIds, NEW token \in Tokens,
           NEW content \in Seq(1 .. Chunks), id \in ReplyIds => token = To[id],
           Store(id, token, content)
    PROVE  StoredOK'
  BY DEF StoredOK, Store

\* What a session's token finds is a connection of that session.
LEMMA LookupMatches ==
    ASSUME RegistryIInv, NEW t \in Tokens
    PROVE  /\ GetVisitorConnection(t) \in VisitorConns \cup {NoConn}
           /\ GetVisitorConnection(t) # NoConn => TokenOf[GetVisitorConnection(t)] = t
  BY DEF RegistryIInv, RegistryTypeOK, MapsAgree, GetVisitorConnection

LEMMA FanoutKeeps ==
    ASSUME RegistryIInv, ShownOK, NEW m \in ReplyIds, NEW k \in 0 .. Chunks + 1,
           FanoutToVisitor(To[m], <<m, k>>)
    PROVE  ShownOK'
  <1> DEFINE c == GetVisitorConnection(To[m])
             Items == ReplyIds \X (0 .. Chunks + 1)
  <1>1. CASE UNCHANGED shown
    BY <1>1, UnchangedParts
  <1>2. CASE c # NoConn /\ shown' = [shown EXCEPT ![c] = Append(@, <<m, k>>)]
    <2>1. c \in VisitorConns /\ TokenOf[c] = To[m]
      BY <1>2, LookupMatches
    <2> HIDE DEF c
    <2>2. shown[c] \in Seq(Items) /\ <<m, k>> \in Items
      BY <2>1 DEF ShownOK
    <2>3. /\ Append(shown[c], <<m, k>>) \in Seq(Items)
          /\ Len(Append(shown[c], <<m, k>>)) = Len(shown[c]) + 1
          /\ \A i \in 1 .. Len(shown[c]) : Append(shown[c], <<m, k>>)[i] = shown[c][i]
          /\ Append(shown[c], <<m, k>>)[Len(shown[c]) + 1] = <<m, k>>
      BY <2>2, AppendProperties
    <2>4. \A d \in VisitorConns : shown'[d] = IF d = c THEN Append(shown[c], <<m, k>>)
                                              ELSE shown[d]
      BY <1>2, <2>1 DEF ShownOK
    <2>5. shown' \in [VisitorConns -> Seq(Items)]
      BY <1>2, <2>1, <2>3 DEF ShownOK
    <2>6. ASSUME NEW i \in 1 .. Len(Append(shown[c], <<m, k>>))
          PROVE  To[Append(shown[c], <<m, k>>)[i][1]] = TokenOf[c]
      <3>1. Len(shown[c]) \in Nat
        BY <2>2, LenProperties
      <3>2. CASE i \in 1 .. Len(shown[c])
        BY <2>1, <2>3, <3>2 DEF ShownOK
      <3>3. CASE i = Len(shown[c]) + 1
        BY <2>1, <2>3, <3>3
      <3> QED BY <2>3, <3>1, <3>2, <3>3
    <2> QED BY <2>4, <2>5, <2>6 DEF ShownOK
  <1> QED BY <1>1, <1>2 DEF FanoutToVisitor

LEMMA EnqueueKeeps ==
    ASSUME VisitorSideOK, NEW f \in Frames, EnqueueOfflineMessage(f)
    PROVE  offline' \in [Agents -> Seq(Ids)] /\ lost' \subseteq Ids /\ unqueued' \subseteq Frames
  <1> DEFINE a == ServedBy[QrOf[On[f]]]
             r == Append(offline[a], IdOf[f])
             first == Len(r) - (IF Len(r) < MaxQueue THEN Len(r) ELSE MaxQueue) + 1
  <1>1. a \in Agents /\ IdOf[f] \in Ids
    <2>1. On[f] \in VisitorConns
      OBVIOUS
    <2>2. QrOf[On[f]] \in QrCodes
      BY <2>1
    <2>3. a \in Agents
      BY <2>2
    <2>4. IdOf[f] \in Ids
      OBVIOUS
    <2> QED BY <2>3, <2>4
  <1>2. r \in Seq(Ids) /\ Len(r) \in Nat
    BY <1>1, AppendProperties, LenProperties DEF VisitorSideOK
  <1>3. first \in Int /\ first >= 1
    <2>1. ASSUME NEW l \in Nat, NEW max \in Nat
          PROVE  /\ l - (IF l < max THEN l ELSE max) + 1 \in Int
                 /\ l - (IF l < max THEN l ELSE max) + 1 >= 1
      OBVIOUS
    <2>2. MaxQueue \in Nat
      OBVIOUS
    <2> QED BY <1>2, <2>1, <2>2
  <1>4. ASSUME NEW i \in first .. Len(r)
        PROVE  r[i] \in Ids
    <2> HIDE DEF r, first
    <2>1. i \in 1 .. Len(r)
      BY <1>2, <1>3
    <2> QED BY <1>2, <2>1, ElementOfSeq
  <1>5. SubSeq(r, first, Len(r)) \in Seq(Ids)
    BY <1>2, <1>3, <1>4, SubSeqProperties
  <1>6. \/ /\ offline' = [offline EXCEPT ![a] = SubSeq(r, first, Len(r))]
           /\ lost' = lost \cup (Elements(r) \ Elements(offline'[a]))
           /\ UNCHANGED unqueued
        \/ unqueued' = unqueued \cup {f} /\ UNCHANGED <<offline, lost>>
    BY DEF EnqueueOfflineMessage, EnqueueDone, EnqueueFails, Enqueued
  <1>7. Elements(r) \subseteq Ids
    BY <1>2, ElementOfSeq DEF Elements
  <1> HIDE DEF a, r, first
  <1>8. lost' \subseteq Ids /\ unqueued' \subseteq Frames
    BY <1>6, <1>7 DEF VisitorSideOK
  <1>9. offline' \in [Agents -> Seq(Ids)]
    <2>1. CASE offline' = [offline EXCEPT ![a] = SubSeq(r, first, Len(r))]
      BY <1>1, <1>5, <2>1 DEF VisitorSideOK
    <2>2. CASE UNCHANGED offline
      BY <2>2 DEF VisitorSideOK
    <2> QED BY <1>6, <2>1, <2>2
  <1> QED BY <1>8, <1>9

-----------------------------------------------------------------------------
(* One lemma per action, or for actions that change the same parts.        *)

LEMMA AgentRegistersKeeps ==
    ASSUME ChatIInv, NEW c \in AgentConns, AgentRegisters(c)
    PROVE  PipelineOK'
  <1> USE DEF ChatIInv, PipelineOK
  <1>1. /\ UNCHANGED <<redis, dedup, unchecked, offline, inbox, lost, unqueued, agentSide, stage,
                       answers, stored>>
        /\ draining' \subseteq draining \cup {c}
    BY DEF AgentRegisters
  <1>2. VisitorSideOK'
    BY <1>1 DEF VisitorSideOK
  <1> QED BY <1>1, <1>2, UnchangedParts, UnchangedAgentSide

LEMMA DrainOfflineQueueKeeps ==
    ASSUME ChatIInv, NEW c \in AgentConns, DrainOfflineQueue(c)
    PROVE  PipelineOK'
  <1> USE DEF ChatIInv, PipelineOK
  <1> DEFINE q == offline[AgentOf[c]]
  <1>1. UNCHANGED <<redis, agentSide, stage, answers, stored>>
    BY DEF DrainOfflineQueue
  <1>2. /\ q \in Seq(Ids) /\ inbox[c] \in Seq(Ids)
        /\ inbox[c] \o q \in Seq(Ids)
    BY ConcatProperties DEF VisitorSideOK
  <1>3. Elements(q) \subseteq Ids
    BY <1>2, ElementOfSeq DEF Elements
  <1>4. /\ UNCHANGED <<dedup, unchecked, unqueued>>
        /\ draining' = draining \ {c}
        /\ UNCHANGED offline \/ offline' = [offline EXCEPT ![AgentOf[c]] = <<>>]
        /\ UNCHANGED inbox \/ inbox' = [inbox EXCEPT ![c] = inbox[c] \o q]
        /\ UNCHANGED lost \/ lost' = lost \cup Elements(q)
    BY DEF DrainOfflineQueue, Drained, DrainFails
  <1> HIDE DEF q
  <1>5. VisitorSideOK'
    <2>1. offline' \in [Agents -> Seq(Ids)]
      <3>1. <<>> \in Seq(Ids) /\ offline \in [Agents -> Seq(Ids)]
        BY EmptySeq DEF VisitorSideOK
      <3>2. CASE offline' = [offline EXCEPT ![AgentOf[c]] = <<>>]
        BY <3>1, <3>2
      <3> QED BY <1>4, <3>1, <3>2
    <2>2. inbox' \in [AgentConns -> Seq(Ids)]
      <3>1. inbox \in [AgentConns -> Seq(Ids)]
        BY DEF VisitorSideOK
      <3>2. CASE inbox' = [inbox EXCEPT ![c] = inbox[c] \o q]
        BY <1>2, <3>1, <3>2
      <3> QED BY <1>4, <3>1, <3>2
    <2> QED BY <1>3, <1>4, <2>1, <2>2 DEF VisitorSideOK
  <1> QED BY <1>1, <1>5, UnchangedParts, UnchangedAgentSide

LEMMA RedisChangesKeeps ==
    ASSUME ChatIInv, RedisChanges
    PROVE  PipelineOK'
  <1> USE DEF ChatIInv, PipelineOK
  <1>1. FlowOK'
    BY DEF FlowOK, RedisChanges
  <1> QED BY <1>1, UnchangedParts, UnchangedAgentSide DEF RedisChanges

LEMMA ReadMessageKeeps ==
    ASSUME ChatIInv, NEW f \in Frames \cup ReplyIds, Goto(f, "checking"),
           UNCHANGED <<redis, visitorSide, agentSide, answers, stored>>
    PROVE  PipelineOK'
  <1> USE DEF ChatIInv, PipelineOK
  <1>1. "checking" \in Stages
    BY DEF Stages
  <1>2. FlowOK'
    BY <1>1, GotoKeeps DEF FlowOK
  <1> QED BY <1>2, UnchangedParts, UnchangedAgentSide

\* Enqueue and RouteVisitorMessage leave the flow as it should be.
LEMMA EnqueueFlowKeeps ==
    ASSUME FlowOK, NEW f \in Frames, NEW s \in Stages, Enqueue(f, s)
    PROVE  /\ stage' \in [Frames \cup ReplyIds -> Stages]
           /\ answers' \in [Frames \cup ReplyIds -> SUBSET Answers]
  <1>1. CASE Goto(f, s) /\ UNCHANGED answers
    BY <1>1, GotoKeeps DEF FlowOK
  <1>2. CASE Goto(f, "over") /\ Answer(f, "rejected")
    <2>1. "over" \in Stages /\ "rejected" \in Answers
      BY DEF Stages, Answers
    <2> QED BY <1>2, <2>1, GotoKeeps, AnswerKeeps
  <1> QED BY <1>1, <1>2 DEF Enqueue

LEMMA RouteVisitorMessageKeeps ==
    ASSUME FlowOK, NEW f \in Frames, RouteVisitorMessage(f)
    PROVE  /\ stage' \in [Frames \cup ReplyIds -> Stages]
           /\ answers' \in [Frames \cup ReplyIds -> SUBSET Answers]
  <1>1. "queueing" \in Stages /\ "prompting" \in Stages /\ "accepted" \in Answers
    BY DEF Stages, Answers
  <1>2. CASE Enqueue(f, "queueing")
    BY <1>1, <1>2, EnqueueFlowKeeps
  <1>3. CASE Goto(f, "prompting") /\ Answer(f, "accepted")
    BY <1>1, <1>3, GotoKeeps, AnswerKeeps
  <1> QED BY <1>2, <1>3 DEF RouteVisitorMessage

LEMMA CheckedKeeps ==
    ASSUME ChatIInv, NEW f \in Frames, Checked(f)
    PROVE  PipelineOK'
  <1> USE DEF ChatIInv, PipelineOK
  <1>1. IdOf[f] \in Ids
    OBVIOUS
  <1>2. /\ UNCHANGED <<redis, offline, draining, inbox, lost, unqueued, agentSide, stored>>
        /\ dedup' \in {dedup, dedup \cup {IdOf[f]}}
        /\ unchecked' \in {unchecked, unchecked \cup {f}}
        /\ \/ RouteVisitorMessage(f)
           \/ \E kind \in {"limited", "duplicate", "error"} : Goto(f, "over") /\ Answer(f, kind)
    BY DEF Checked
  <1>3. VisitorSideOK'
    BY <1>1, <1>2 DEF VisitorSideOK
  <1>4. FlowOK'
    <2>1. CASE RouteVisitorMessage(f)
      BY <1>2, <2>1, RouteVisitorMessageKeeps DEF FlowOK
    <2>2. CASE \E kind \in {"limited", "duplicate", "error"} : Goto(f, "over") /\ Answer(f, kind)
      <3>1. "over" \in Stages /\ {"limited", "duplicate", "error"} \subseteq Answers
        BY DEF Stages, Answers
      <3> QED BY <1>2, <2>2, <3>1, GotoKeeps, AnswerKeeps DEF FlowOK
    <2> QED BY <1>2, <2>1, <2>2
  <1> QED BY <1>2, <1>3, <1>4, UnchangedParts, UnchangedAgentSide

LEMMA ForwardToAgentsKeeps ==
    ASSUME ChatIInv, NEW f \in Frames, NEW D \in SUBSET AgentConns, ForwardToAgents(f, D)
    PROVE  PipelineOK'
  <1> USE DEF ChatIInv, PipelineOK
  <1>1. UNCHANGED <<redis, dedup, unchecked, offline, draining, lost, unqueued, agentSide, stored>>
    BY DEF ForwardToAgents
  <1>2. VisitorSideOK'
    <2>1. \A c \in AgentConns : Append(inbox[c], IdOf[f]) \in Seq(Ids)
      BY AppendProperties DEF VisitorSideOK
    <2>2. inbox' = [c \in AgentConns |->
                       IF c \in D THEN Append(inbox[c], IdOf[f]) ELSE inbox[c]]
      BY DEF ForwardToAgents
    <2> QED BY <1>1, <2>1, <2>2 DEF VisitorSideOK
  <1>3. FlowOK'
    <2>1. {"requeueing", "persisting"} \subseteq Stages
      BY DEF Stages
    <2>2. CASE Enqueue(f, "requeueing")
      BY <1>1, <2>1, <2>2, EnqueueFlowKeeps DEF FlowOK
    <2>3. CASE Goto(f, "persisting") /\ UNCHANGED answers
      BY <1>1, <2>1, <2>3, GotoKeeps DEF FlowOK
    <2> QED BY <2>2, <2>3 DEF ForwardToAgents
  <1> QED BY <1>1, <1>2, <1>3, UnchangedParts, UnchangedAgentSide

LEMMA QueueKeeps ==
    ASSUME ChatIInv, NEW f \in Frames, Queued(f) \/ Requeued(f)
    PROVE  PipelineOK'
  <1> USE DEF ChatIInv, PipelineOK
  <1>1. UNCHANGED <<redis, dedup, unchecked, draining, inbox, agentSide, stored>>
    BY DEF Queued, Requeued
  <1>2. EnqueueOfflineMessage(f)
    BY DEF Queued, Requeued
  <1>3. VisitorSideOK'
    BY <1>1, <1>2, EnqueueKeeps DEF VisitorSideOK
  <1>4. "over" \in Stages /\ "persisting" \in Stages /\ "accepted" \in Answers
    BY DEF Stages, Answers
  <1>5. \E s \in {"over", "persisting"} : Goto(f, s)
    BY DEF Queued, Requeued
  <1>6. UNCHANGED answers \/ Answer(f, "accepted")
    BY DEF Queued, Requeued
  <1>7. FlowOK'
    BY <1>1, <1>4, <1>5, <1>6, GotoKeeps, AnswerKeeps DEF FlowOK
  <1> QED BY <1>1, <1>3, <1>7, UnchangedParts, UnchangedAgentSide

LEMMA PersistedKeeps ==
    ASSUME ChatIInv, NEW f \in Frames, Persisted(f)
    PROVE  PipelineOK'
  <1> USE DEF ChatIInv, PipelineOK
  <1>1. UNCHANGED <<redis, visitorSide, agentSide, answers>> /\ Goto(f, "over")
    BY DEF Persisted
  <1>2. FlowOK'
    BY <1>1, GotoKeeps DEF FlowOK, Stages
  <1>3. StoredOK'
    <2>1. IdOf[f] \in Ids /\ IdOf[f] \notin ReplyIds /\ TokenOf[On[f]] \in Tokens
          /\ <<>> \in Seq(1 .. Chunks)
      BY EmptySeq
    <2>2. Store(IdOf[f], TokenOf[On[f]], <<>>) \/ UNCHANGED stored
      BY DEF Persisted
    <2> QED BY <2>1, <2>2, StoreKeeps, UnchangedParts
  <1> QED BY <1>1, <1>2, <1>3, UnchangedParts, UnchangedAgentSide

\* What a handler looks up for its own session.
LEMMA EntryKeeps ==
    ASSUME RegistryIInv, EntriesOK, NEW m \in ReplyIds,
           visitorEntry' = [visitorEntry EXCEPT ![m] = GetVisitorConnection(To[m])]
    PROVE  EntriesOK'
  <1>1. To[m] \in Tokens
    OBVIOUS
  <1> QED BY <1>1, LookupMatches DEF EntriesOK

LEMMA PersistReplyKeeps ==
    ASSUME EntriesOK, StoredOK, NEW m \in ReplyIds, NEW content \in Seq(1 .. Chunks),
           PersistReply(m, content)
    PROVE  StoredOK'
  <1>1. CASE visitorEntry[m] = NoConn \/ UNCHANGED stored
    BY <1>1, UnchangedParts DEF PersistReply
  <1>2. CASE visitorEntry[m] # NoConn /\ Store(m, TokenOf[visitorEntry[m]], content)
    <2>1. TokenOf[visitorEntry[m]] = To[m] /\ To[m] \in Tokens
      BY <1>2 DEF EntriesOK
    <2> QED BY <1>2, <2>1, StoreKeeps
  <1> QED BY <1>1, <1>2 DEF PersistReply

LEMMA RouteAgentMessageKeeps ==
    ASSUME ChatIInv, NEW m \in Replies, RouteAgentMessage(m)
    PROVE  PipelineOK'
  <1> USE DEF ChatIInv, PipelineOK
  <1>1. m \in ReplyIds
    BY DEF ReplyIds
  <1>2. UNCHANGED <<redis, visitorSide, chunksRead, waiting, overtaken, streamBuffers, fullContent,
                    shown, stored>>
    BY DEF RouteAgentMessage
  <1>3. FlowOK'
    <2>1. /\ \E s \in {"over", "persisting"} : Goto(m, s)
          /\ UNCHANGED answers \/ \E kind \in {"limited", "error"} : Answer(m, kind)
      BY DEF RouteAgentMessage
    <2>2. {"over", "persisting"} \subseteq Stages /\ {"limited", "error"} \subseteq Answers
      BY DEF Stages, Answers
    <2> QED BY <1>1, <1>2, <2>1, <2>2, GotoKeeps, AnswerKeeps DEF FlowOK
  <1>4. EntriesOK'
    <2>1. \/ UNCHANGED visitorEntry
          \/ visitorEntry' = [visitorEntry EXCEPT ![m] = GetVisitorConnection(To[m])]
      BY DEF RouteAgentMessage
    <2> QED BY <1>1, <2>1, EntryKeeps, UnchangedParts
  <1> QED BY <1>2, <1>3, <1>4, UnchangedParts

\* The end of a reply's handler, and of a stream's.
LEMMA ForwardKeeps ==
    ASSUME ChatIInv, NEW m \in ReplyIds, ForwardAgentMessage(m) \/ ForwardStreamEnd(m),
           m \in Streams \/ ForwardAgentMessage(m)
    PROVE  PipelineOK'
  <1> USE DEF ChatIInv, PipelineOK
  <1>1. UNCHANGED <<redis, visitorSide, visitorEntry, chunksRead, waiting, overtaken,
                    streamBuffers, fullContent>>
    BY DEF ForwardAgentMessage, ForwardStreamEnd
  <1>2. FlowOK'
    <2>1. Goto(m, "over") /\ Answer(m, "accepted")
      BY DEF ForwardAgentMessage, ForwardStreamEnd
    <2>2. "over" \in Stages /\ "accepted" \in Answers
      BY DEF Stages, Answers
    <2> QED BY <1>1, <2>1, <2>2, GotoKeeps, AnswerKeeps DEF FlowOK
  <1>3. StoredOK'
    <2>1. CASE ForwardAgentMessage(m)
      BY <2>1, PersistReplyKeeps, EmptySeq DEF ForwardAgentMessage
    <2>2. CASE ForwardStreamEnd(m) /\ m \in Streams
      <3>1. fullContent[m] \in Seq(1 .. Chunks)
        BY <2>2 DEF StreamsOK
      <3> QED BY <2>2, <3>1, PersistReplyKeeps, UnchangedParts DEF ForwardStreamEnd
    <2> QED BY <2>1, <2>2
  <1>4. ShownOK'
    <2>1. \/ UNCHANGED shown
          \/ \E k \in {0, Chunks + 1} : FanoutToVisitor(To[m], <<m, k>>)
      BY DEF ForwardAgentMessage, ForwardStreamEnd
    <2> QED BY <2>1, FanoutKeeps, UnchangedParts
  <1> QED BY <1>1, <1>2, <1>3, <1>4, UnchangedParts

\* A chunk of a stream goes into its buffer.
LEMMA BufferChunkKeeps ==
    ASSUME ChatIInv, NEW s \in Streams, NEW k \in 1 .. Chunks, BufferChunk(s, k)
    PROVE  streamBuffers' \in [Streams -> Seq(1 .. Chunks)] /\ ShownOK'
  <1> USE DEF ChatIInv, PipelineOK
  <1>1. Append(streamBuffers[s], k) \in Seq(1 .. Chunks)
    BY AppendProperties DEF StreamsOK
  <1>2. streamBuffers' = [streamBuffers EXCEPT ![s] = Append(streamBuffers[s], k)]
    BY DEF BufferChunk
  <1>3. streamBuffers' \in [Streams -> Seq(1 .. Chunks)]
    BY <1>1, <1>2 DEF StreamsOK
  <1>4. s \in ReplyIds /\ k \in 0 .. Chunks + 1
    BY DEF ReplyIds
  <1>5. FanoutToVisitor(To[s], <<s, k>>)
    BY DEF BufferChunk
  <1> QED BY <1>3, <1>4, <1>5, FanoutKeeps

LEMMA ReadStreamChunkKeeps ==
    ASSUME ChatIInv, NEW s \in Streams, ReadStreamChunk(s)
    PROVE  PipelineOK'
  <1> USE DEF ChatIInv, PipelineOK
  <1>1. UNCHANGED <<redis, visitorSide, visitorEntry, fullContent, stage, answers, stored>>
    BY DEF ReadStreamChunk
  <1>2. /\ chunksRead[s] \in 0 .. Chunks /\ chunksRead[s] < Chunks
        /\ chunksRead' = [chunksRead EXCEPT ![s] = @ + 1]
    BY DEF ReadStreamChunk, StreamsOK
  <1>3. /\ chunksRead'[s] = chunksRead[s] + 1 /\ chunksRead'[s] \in 1 .. Chunks
        /\ chunksRead' \in [Streams -> 0 .. Chunks]
    BY <1>2 DEF StreamsOK
  <1>4. Append(waiting[s], chunksRead'[s]) \in Seq(1 .. Chunks)
    BY <1>3, AppendProperties DEF StreamsOK
  <1>5. CASE /\ waiting' = [waiting EXCEPT ![s] = Append(waiting[s], chunksRead'[s])]
             /\ UNCHANGED <<overtaken, streamBuffers, shown>>
    <2>1. waiting' \in [Streams -> Seq(1 .. Chunks)]
      BY <1>4, <1>5 DEF StreamsOK
    <2>2. StreamsOK'
      BY <1>1, <1>3, <1>5, <2>1 DEF StreamsOK
    <2> QED BY <1>1, <1>5, <2>2, UnchangedParts
  <1>6. CASE /\ BufferChunk(s, chunksRead'[s])
             /\ overtaken' \in {overtaken, overtaken \cup {s}} /\ UNCHANGED waiting
    <2>1. streamBuffers' \in [Streams -> Seq(1 .. Chunks)] /\ ShownOK'
      BY <1>3, <1>6, BufferChunkKeeps
    <2>2. StreamsOK'
      BY <1>1, <1>3, <1>6, <2>1 DEF StreamsOK
    <2> QED BY <1>1, <2>1, <2>2, UnchangedParts
  <1> QED BY <1>5, <1>6 DEF ReadStreamChunk

LEMMA StreamChunkCheckedKeeps ==
    ASSUME ChatIInv, NEW s \in Streams, StreamChunkChecked(s)
    PROVE  PipelineOK'
  <1> USE DEF ChatIInv, PipelineOK
  <1> DEFINE k == Head(waiting[s])
  <1>1. s \in ReplyIds
    BY DEF ReplyIds
  <1>2. UNCHANGED <<redis, visitorSide, visitorEntry, chunksRead, overtaken, fullContent, stage,
                    stored>>
    BY DEF StreamChunkChecked
  <1>3. k \in 1 .. Chunks /\ Tail(waiting[s]) \in Seq(1 .. Chunks)
    BY HeadTailProperties DEF StreamChunkChecked, StreamsOK
  <1>4. /\ waiting' = [waiting EXCEPT ![s] = Tail(waiting[s])]
        /\ \/ BufferChunk(s, k) /\ UNCHANGED answers
           \/ Answer(s, "limited") /\ UNCHANGED <<streamBuffers, shown>>
    BY DEF StreamChunkChecked
  <1> HIDE DEF k
  <1>5. streamBuffers' \in [Streams -> Seq(1 .. Chunks)] /\ ShownOK'
    <2>1. CASE BufferChunk(s, k)
      BY <1>3, <2>1, BufferChunkKeeps
    <2>2. CASE UNCHANGED <<streamBuffers, shown>>
      BY <2>2, UnchangedParts DEF StreamsOK
    <2> QED BY <1>4, <2>1, <2>2
  <1>6. StreamsOK'
    <2>1. waiting' \in [Streams -> Seq(1 .. Chunks)]
      BY <1>3, <1>4 DEF StreamsOK
    <2> QED BY <1>2, <1>5, <2>1 DEF StreamsOK
  <1>7. FlowOK'
    <2>1. "limited" \in Answers
      BY DEF Answers
    <2> QED BY <1>1, <1>2, <1>4, <2>1, AnswerKeeps DEF FlowOK
  <1> QED BY <1>2, <1>5, <1>6, <1>7, UnchangedParts

LEMMA ReadStreamEndKeeps ==
    ASSUME ChatIInv, NEW s \in Streams, ReadStreamEnd(s)
    PROVE  PipelineOK'
  <1> USE DEF ChatIInv, PipelineOK
  <1>1. s \in ReplyIds
    BY DEF ReplyIds
  <1>2. UNCHANGED <<redis, visitorSide, chunksRead, waiting, overtaken, shown, answers, stored>>
    BY DEF ReadStreamEnd
  <1>3. StreamsOK'
    BY <1>2, EmptySeq DEF ReadStreamEnd, StreamsOK
  <1>4. EntriesOK'
    BY <1>1, EntryKeeps DEF ReadStreamEnd
  <1>5. FlowOK'
    <2>1. PICK t \in {"over", "persisting"} : Goto(s, t)
      BY DEF ReadStreamEnd
    <2>2. t \in Stages
      BY DEF Stages
    <2> QED BY <1>1, <1>2, <2>1, <2>2, GotoKeeps DEF FlowOK
  <1> QED BY <1>2, <1>3, <1>4, <1>5, UnchangedParts

LEMMA ChatIInvNext == ChatIInv /\ [ChatNext]_chatVars => ChatIInv'
  <1> SUFFICES ASSUME ChatIInv, [ChatNext]_chatVars PROVE ChatIInv'
    OBVIOUS
  <1>1. RegistryIInv'
    BY ChatStepsRegistry, RegistryIInvNext DEF ChatIInv
  <1>2. PipelineOK'
    <2>1. CASE Registry
      BY <2>1, UnchangedParts, UnchangedAgentSide DEF Registry, ChatIInv, PipelineOK
    <2>2. CASE \E c \in AgentConns : AgentRegisters(c) \/ DrainOfflineQueue(c)
      BY <2>2, AgentRegistersKeeps, DrainOfflineQueueKeeps
    <2>3. CASE RedisChanges
      BY <2>3, RedisChangesKeeps
    <2>4. CASE \E f \in Frames :
                  \/ ReadVisitorMessage(f) \/ Checked(f) \/ Queued(f) \/ Requeued(f) \/ Persisted(f)
                  \/ \E D \in SUBSET AgentConns : ForwardToAgents(f, D)
      <3> PICK f \in Frames :
                  \/ ReadVisitorMessage(f) \/ Checked(f) \/ Queued(f) \/ Requeued(f) \/ Persisted(f)
                  \/ \E D \in SUBSET AgentConns : ForwardToAgents(f, D)
        BY <2>4
      <3>1. CASE ReadVisitorMessage(f)
        BY <3>1, ReadMessageKeeps DEF ReadVisitorMessage
      <3> QED BY <3>1, CheckedKeeps, QueueKeeps, PersistedKeeps, ForwardToAgentsKeeps
    <2>5. CASE \E m \in Replies :
                  ReadAgentMessage(m) \/ RouteAgentMessage(m) \/ ForwardAgentMessage(m)
      <3> PICK m \in Replies :
                  ReadAgentMessage(m) \/ RouteAgentMessage(m) \/ ForwardAgentMessage(m)
        BY <2>5
      <3>1. m \in ReplyIds
        BY DEF ReplyIds
      <3>2. CASE ReadAgentMessage(m)
        BY <3>1, <3>2, ReadMessageKeeps DEF ReadAgentMessage
      <3> QED BY <3>1, <3>2, RouteAgentMessageKeeps, ForwardKeeps
    <2>6. CASE \E s \in Streams : \/ ReadStreamChunk(s) \/ StreamChunkChecked(s)
                                  \/ ReadStreamEnd(s) \/ ForwardStreamEnd(s)
      <3> PICK s \in Streams : \/ ReadStreamChunk(s) \/ StreamChunkChecked(s)
                               \/ ReadStreamEnd(s) \/ ForwardStreamEnd(s)
        BY <2>6
      <3>1. s \in ReplyIds
        BY DEF ReplyIds
      <3> QED BY <3>1, ReadStreamChunkKeeps, StreamChunkCheckedKeeps, ReadStreamEndKeeps,
                 ForwardKeeps
    <2>7. CASE UNCHANGED chatVars
      BY <2>7, UnchangedParts, UnchangedAgentSide DEF chatVars, ChatIInv, PipelineOK
    <2> QED BY <2>1, <2>2, <2>3, <2>4, <2>5, <2>6, <2>7 DEF ChatNext
  <1> QED BY <1>1, <1>2 DEF ChatIInv

\* The invariant of the replies holds throughout.
THEOREM ChatInvariant == ChatSpec => []ChatIInv
  <1>1. ChatInit => ChatIInv
    BY ChatInitRegistry, RegistryIInvInit, ChatIInvInit DEF ChatIInv
  <1> QED BY <1>1, ChatIInvNext, PTL DEF ChatSpec

\* Every variable of the pipeline has its type.
THEOREM ChatTypeCorrect == ChatSpec => []ChatTypeOK
  BY ChatInvariant, ChatIInvImplies, PTL

\* A reply or a stream's chunk is written only to connections of the session it
\* is for, and stored under it (handleAgentMessage, handleStreamChunk and
\* handleStreamEnd of router.ts with fanoutFrame).
THEOREM RepliesStayInTheirConversation == ChatSpec => []OnlyItsConversation
  BY ChatInvariant, ChatIInvImplies, PTL


-----------------------------------------------------------------------------
(* Where a visitor's message is: in sockets, in a queue, or lost.          *)

Nowhere(id) == /\ Handed(id) = {}
               /\ \A a \in Agents : id \notin Elements(offline[a])
               /\ id \notin lost

SpotsOK(id) ==
    /\ \A c \in AgentConns : Once(inbox[c], id)
    /\ \A a \in Agents :
          /\ Once(offline[a], id)
          /\ id \in Elements(offline[a]) =>
                /\ Handed(id) = {} /\ id \notin lost
                /\ \A b \in Agents : id \in Elements(offline[b]) => a = b

\* Handlers that were admitted and have handed nothing over yet.
Trying(id) ==
    {f \in Frames : IdOf[f] = id /\ stage[f] \in {"queueing", "prompting", "requeueing"}}

RejectedFrames(id) == {f \in Frames : IdOf[f] = id /\ "rejected" \in answers[f]}

\* Of the frames of a message that the keys were asked about, one at most was
\* admitted, and until it hands over, and for good if it is rejected, the
\* message is nowhere.
MessageOK(id) ==
    AllChecked(id) =>
        /\ SpotsOK(id)
        /\ Trying(id) # {} \/ RejectedFrames(id) # {} => id \in dedup /\ Nowhere(id)
        /\ id \notin dedup => Nowhere(id)
        /\ \A f, g \in Trying(id) : f = g
        /\ RejectedFrames(id) # {} => Trying(id) = {}

AcceptedOK ==
    \A f \in Frames :
        stage[f] \in {"persisting", "over"} /\ answers[f] = {"accepted"} =>
            ~Nowhere(IdOf[f]) \/ f \in unqueued

InOrder(q, n) == \A i \in 1 .. Len(q) : q[i] = n + i

\* Until its end is read, a stream's chunks are buffered and wait in order, if
\* none passed another that waits.
StreamInOrder(s) ==
    s \notin overtaken /\ "limited" \notin answers[s] =>
        /\ InOrder(fullContent[s], 0)
        /\ stage[s] = "idle" =>
              /\ InOrder(streamBuffers[s], 0)
              /\ InOrder(waiting[s], Len(streamBuffers[s]))
              /\ chunksRead[s] = Len(streamBuffers[s]) + Len(waiting[s])

-----------------------------------------------------------------------------
(* How a step can move a visitor's message.                                *)

\* It leaves message id where it was, or another socket or place takes it.
Stays(id) == /\ Nowhere(id)' <=> Nowhere(id)
             /\ SpotsOK(id) => SpotsOK(id)'

\* It puts message x somewhere, once if it was nowhere.
Puts(x) == /\ ~Nowhere(x)'
           /\ Nowhere(x) => SpotsOK(x)'

LEMMA UnchangedStays ==
    ASSUME UNCHANGED <<offline, inbox, lost>>, NEW id
    PROVE  Stays(id)
  BY DEF Stays, Nowhere, SpotsOK, Handed

LEMMA AppendElements ==
    ASSUME NEW q \in Seq(Ids), NEW x \in Ids, NEW id
    PROVE  /\ Elements(Append(q, x)) = Elements(q) \cup {x}
           /\ id # x /\ Once(q, id) => Once(Append(q, x), id)
           /\ x \notin Elements(q) => Once(Append(q, x), x)
  <1> DEFINE r == Append(q, x)
  <1>1. /\ Len(q) \in Nat /\ Len(r) = Len(q) + 1 /\ r[Len(q) + 1] = x
        /\ \A i \in 1 .. Len(q) : r[i] = q[i]
    BY AppendProperties, LenProperties
  <1> HIDE DEF r
  <1>2. \A i \in 1 .. Len(r) : i \in 1 .. Len(q) \/ i = Len(q) + 1
    BY <1>1
  <1>3. (\A i \in 1 .. Len(q) : i \in 1 .. Len(r)) /\ Len(q) + 1 \in 1 .. Len(r)
    BY <1>1
  <1>4. Elements(r) = Elements(q) \cup {x}
    <2>1. \A i \in 1 .. Len(r) : r[i] \in Elements(q) \cup {x}
      BY <1>1, <1>2 DEF Elements
    <2>2. Elements(r) \subseteq Elements(q) \cup {x}
      BY <2>1 DEF Elements
    <2>3. \A i \in 1 .. Len(q) : q[i] \in Elements(r)
      BY <1>1, <1>3 DEF Elements
    <2>4. Elements(q) \subseteq Elements(r)
      BY <2>3 DEF Elements
    <2>5. x \in Elements(r)
      BY <1>1, <1>3 DEF Elements
    <2> QED BY <2>2, <2>4, <2>5
  <1>5. id # x /\ Once(q, id) => Once(r, id)
    BY <1>1, <1>2 DEF Once
  <1>6. x \notin Elements(q) => Once(r, x)
    BY <1>1, <1>2 DEF Once, Elements
  <1> QED BY <1>4, <1>5, <1>6 DEF r

LEMMA ConcatElements ==
    ASSUME NEW q \in Seq(Ids), NEW r \in Seq(Ids), NEW id
    PROVE  /\ Elements(q \o r) = Elements(q) \cup Elements(r)
           /\ id \notin Elements(q) /\ Once(r, id) => Once(q \o r, id)
           /\ id \notin Elements(r) /\ Once(q, id) => Once(q \o r, id)
  <1> DEFINE c == q \o r
  <1>1. /\ Len(q) \in Nat /\ Len(r) \in Nat /\ Len(c) = Len(q) + Len(r)
        /\ \A i \in 1 .. Len(c) : c[i] = IF i <= Len(q) THEN q[i] ELSE r[i - Len(q)]
    BY ConcatProperties, LenProperties
  <1> HIDE DEF c
  <1>2. \A i \in 1 .. Len(c) : \/ i \in 1 .. Len(q) /\ c[i] = q[i]
                               \/ i - Len(q) \in 1 .. Len(r) /\ c[i] = r[i - Len(q)]
    BY <1>1
  <1>3. \A i \in 1 .. Len(q) : i \in 1 .. Len(c) /\ c[i] = q[i]
    BY <1>1
  <1>4. \A i \in 1 .. Len(r) : i + Len(q) \in 1 .. Len(c) /\ c[i + Len(q)] = r[i]
    <2> TAKE i \in 1 .. Len(r)
    <2>1. i + Len(q) \in 1 .. Len(c) /\ ~(i + Len(q) <= Len(q)) /\ (i + Len(q)) - Len(q) = i
      BY <1>1
    <2> QED BY <1>1, <2>1
  <1>5. Elements(c) = Elements(q) \cup Elements(r)
    <2>1. \A i \in 1 .. Len(c) : c[i] \in Elements(q) \cup Elements(r)
      BY <1>2 DEF Elements
    <2>2. Elements(c) \subseteq Elements(q) \cup Elements(r)
      BY <2>1 DEF Elements
    <2>3. \A i \in 1 .. Len(q) : q[i] \in Elements(c)
      <3> TAKE i \in 1 .. Len(q)
      <3>1. c[i] \in Elements(c)
        BY <1>3 DEF Elements
      <3> QED BY <1>3, <3>1
    <2>4. \A i \in 1 .. Len(r) : r[i] \in Elements(c)
      <3> TAKE i \in 1 .. Len(r)
      <3>1. c[i + Len(q)] \in Elements(c)
        BY <1>4 DEF Elements
      <3> QED BY <1>4, <3>1
    <2>5. \A S, p : (\A i \in 1 .. Len(p) : p[i] \in S) => Elements(p) \subseteq S
      BY DEF Elements
    <2>6. Elements(q) \subseteq Elements(c) /\ Elements(r) \subseteq Elements(c)
      BY <2>3, <2>4, <2>5
    <2> QED BY <2>2, <2>6
  <1>6. ASSUME id \notin Elements(q), Once(r, id), NEW i \in 1 .. Len(c), NEW j \in 1 .. Len(c),
               c[i] = id, c[j] = id
        PROVE  i = j
    <2>1. /\ i - Len(q) \in 1 .. Len(r) /\ r[i - Len(q)] = id
          /\ j - Len(q) \in 1 .. Len(r) /\ r[j - Len(q)] = id
      BY <1>2, <1>6 DEF Elements
    <2>2. i - Len(q) = j - Len(q)
      BY <1>6, <2>1 DEF Once
    <2> QED BY <1>1, <2>2
  <1>7. ASSUME id \notin Elements(r), Once(q, id), NEW i \in 1 .. Len(c), NEW j \in 1 .. Len(c),
               c[i] = id, c[j] = id
        PROVE  i = j
    <2>1. i \in 1 .. Len(q) /\ q[i] = id /\ j \in 1 .. Len(q) /\ q[j] = id
      BY <1>2, <1>7 DEF Elements
    <2> QED BY <1>7, <2>1 DEF Once
  <1> QED BY <1>5, <1>6, <1>7 DEF c, Once

\* LTRIM keeps the newest, so the message itself, and no message twice.
LEMMA EnqueuedElements ==
    ASSUME NEW q \in Seq(Ids), NEW x \in Ids, NEW id
    PROVE  /\ x \in Elements(Enqueued(q, x))
           /\ Elements(Enqueued(q, x)) \subseteq Elements(q) \cup {x}
           /\ id # x /\ Once(q, id) => Once(Enqueued(q, x), id)
           /\ x \notin Elements(q) => Once(Enqueued(q, x), x)
  <1> DEFINE r == Append(q, x)
             n == Len(r)
             first == n - (IF n < MaxQueue THEN n ELSE MaxQueue) + 1
             e == SubSeq(r, first, n)
  <1>1. r \in Seq(Ids) /\ n \in Nat /\ n > 0 /\ r[n] = x
    BY AppendProperties, LenProperties
  <1>2. Enqueued(q, x) = e
    BY DEF Enqueued
  <1>3. /\ Elements(r) = Elements(q) \cup {x}
        /\ id # x /\ Once(q, id) => Once(r, id)
        /\ x \notin Elements(q) => Once(r, x)
    BY AppendElements
  <1> HIDE DEF r
  <1>4. first \in 1 .. n
    <2> HIDE DEF n
    <2> QED BY <1>1
  <1> HIDE DEF first
  <1>5. /\ Len(e) = n - first + 1
        /\ \A i \in 1 .. (n - first + 1) : e[i] = r[first + i - 1]
    <2>1. \A i \in first .. n : r[i] \in Ids
      <3> TAKE i \in first .. n
      <3>1. i \in 1 .. n
        BY <1>1, <1>4
      <3> QED BY <1>1, <3>1, ElementOfSeq
    <2> QED BY <1>1, <1>4, <2>1, SubSeqProperties
  <1> HIDE DEF e, n
  <1>6. \A i \in 1 .. Len(e) : first + i - 1 \in 1 .. n /\ e[i] = r[first + i - 1]
    BY <1>1, <1>4, <1>5
  <1>7. n - first + 1 \in 1 .. Len(e) /\ e[n - first + 1] = x
    <2>1. n - first + 1 \in 1 .. Len(e) /\ first + (n - first + 1) - 1 = n
      BY <1>1, <1>4, <1>5
    <2> QED BY <1>1, <1>6, <2>1
  <1>8. x \in Elements(e)
    BY <1>7 DEF Elements
  <1>9. Elements(e) \subseteq Elements(r)
    BY <1>6 DEF Elements, n
  <1>10. ASSUME NEW y, Once(r, y) PROVE Once(e, y)
    <2> SUFFICES ASSUME NEW i \in 1 .. Len(e), NEW j \in 1 .. Len(e), e[i] = y, e[j] = y
                 PROVE  i = j
      BY DEF Once
    <2>1. first + i - 1 = first + j - 1
      BY <1>6, <1>10 DEF Once, n
    <2> QED BY <1>4, <2>1
  <1> QED BY <1>2, <1>3, <1>8, <1>9, <1>10

\* A queue that an agent's socket takes is in that socket then.
LEMMA DrainStays ==
    ASSUME ChatIInv, NEW c \in AgentConns, DrainOfflineQueue(c), NEW id \in Ids
    PROVE  Stays(id)
  <1> DEFINE a == AgentOf[c]
             q == offline[a]
  <1>1. /\ a \in Agents /\ offline \in [Agents -> Seq(Ids)] /\ inbox \in [AgentConns -> Seq(Ids)]
        /\ q \in Seq(Ids) /\ inbox[c] \in Seq(Ids)
    BY DEF ChatIInv, PipelineOK, VisitorSideOK
  <1> HIDE DEF q
  <1>2. CASE UNCHANGED <<offline, inbox, lost>>
    BY <1>2, UnchangedStays
  <1>3. ASSUME offline' = [offline EXCEPT ![a] = <<>>]
        PROVE  /\ \A b \in Agents : offline'[b] = IF b = a THEN <<>> ELSE offline[b]
               /\ Elements(<<>>) = {} /\ Once(<<>>, id)
    BY <1>1, <1>3 DEF Elements, Once
  <1>4. CASE /\ offline' = [offline EXCEPT ![a] = <<>>]
             /\ lost' = lost \cup Elements(q) /\ UNCHANGED inbox
    <2>1. Handed(id)' = Handed(id)
      BY <1>4 DEF Handed
    <2>2. Nowhere(id)' <=> Nowhere(id)
      BY <1>1, <1>3, <1>4, <2>1 DEF Nowhere, q
    <2>3. SpotsOK(id) => SpotsOK(id)'
      BY <1>1, <1>3, <1>4, <2>1 DEF SpotsOK, q
    <2> QED BY <2>2, <2>3 DEF Stays
  <1>5. CASE /\ offline' = [offline EXCEPT ![a] = <<>>]
             /\ inbox' = [inbox EXCEPT ![c] = inbox[c] \o q] /\ UNCHANGED lost
    <2>1. \A d \in AgentConns : inbox'[d] = IF d = c THEN inbox[c] \o q ELSE inbox[d]
      BY <1>1, <1>5
    <2>2. /\ Elements(inbox[c] \o q) = Elements(inbox[c]) \cup Elements(q)
          /\ id \notin Elements(inbox[c]) /\ Once(q, id) => Once(inbox[c] \o q, id)
          /\ id \notin Elements(q) /\ Once(inbox[c], id) => Once(inbox[c] \o q, id)
      BY <1>1, ConcatElements
    <2>3. Handed(id)' = IF id \in Elements(q) THEN Handed(id) \cup {c} ELSE Handed(id)
      BY <2>1, <2>2 DEF Handed
    <2>4. Nowhere(id)' <=> Nowhere(id)
      <3>1. \A b \in Agents : offline'[b] = IF b = a THEN <<>> ELSE offline[b]
        BY <1>3, <1>5
      <3>2. Elements(<<>>) = {} /\ lost' = lost
        BY <1>3, <1>5
      <3> QED BY <1>1, <2>3, <3>1, <3>2 DEF Nowhere, q
    <2>5. ASSUME SpotsOK(id) PROVE SpotsOK(id)'
      <3>1. \A d \in AgentConns : Once(inbox'[d], id)
        <4>1. id \in Elements(q) => Handed(id) = {} /\ Once(q, id)
          BY <1>1, <2>5 DEF SpotsOK, q
        <4>2. Once(inbox[c] \o q, id)
          BY <2>2, <2>5, <4>1 DEF SpotsOK, Handed
        <4> QED BY <2>1, <2>5, <4>2 DEF SpotsOK
      <3>2. ASSUME NEW b \in Agents, id \in Elements(offline'[b])
            PROVE  /\ Handed(id)' = {} /\ id \notin lost'
                   /\ \A d \in Agents : id \in Elements(offline'[d]) => b = d
        <4>1. b # a /\ id \in Elements(offline[b])
          BY <1>3, <1>5, <3>2
        <4>2. id \notin Elements(q)
          BY <1>1, <2>5, <4>1 DEF SpotsOK, q
        <4> QED BY <1>3, <1>5, <2>3, <2>5, <4>1, <4>2 DEF SpotsOK
      <3>3. \A b \in Agents : Once(offline'[b], id)
        BY <1>3, <1>5, <2>5 DEF SpotsOK
      <3> QED BY <3>1, <3>2, <3>3 DEF SpotsOK
    <2> QED BY <2>4, <2>5 DEF Stays
  <1> QED BY <1>2, <1>4, <1>5 DEF DrainOfflineQueue, Drained, DrainFails, q

LEMMA EnqueueMoves ==
    ASSUME ChatIInv, NEW f \in Frames, EnqueueDone(f), UNCHANGED inbox
    PROVE  /\ Puts(IdOf[f])
           /\ \A id \in Ids : id # IdOf[f] => Stays(id)
  <1> DEFINE a == ServedBy[QrOf[On[f]]]
             x == IdOf[f]
             q == offline[a]
             e == Enqueued(q, x)
  <1>1. a \in Agents /\ x \in Ids
    <2>1. On[f] \in VisitorConns
      OBVIOUS
    <2>2. QrOf[On[f]] \in QrCodes
      BY <2>1
    <2> QED BY <2>2
  <1>2. /\ offline \in [Agents -> Seq(Ids)] /\ q \in Seq(Ids)
    BY <1>1 DEF ChatIInv, PipelineOK, VisitorSideOK
  <1>3. /\ offline' = [offline EXCEPT ![a] = e]
        /\ lost' = lost \cup (Elements(Append(q, x)) \ Elements(offline'[a]))
    BY DEF EnqueueDone
  <1> HIDE DEF a, x
  <1>4. Elements(Append(q, x)) = Elements(q) \cup {x}
    BY <1>1, <1>2, AppendElements
  <1>5. /\ x \in Elements(e) /\ Elements(e) \subseteq Elements(q) \cup {x}
        /\ x \notin Elements(q) => Once(e, x)
    BY <1>1, <1>2, EnqueuedElements
  <1>6. \A id : id # x /\ Once(q, id) => Once(e, id)
    BY <1>1, <1>2, EnqueuedElements
  <1> HIDE DEF e, q
  <1>7. /\ \A b \in Agents : offline'[b] = IF b = a THEN e ELSE offline[b]
        /\ lost' = lost \cup ((Elements(q) \cup {x}) \ Elements(e))
        /\ \A id : Handed(id)' = Handed(id)
    BY <1>1, <1>2, <1>3, <1>4 DEF Handed
  <1>8. Puts(x)
    <2>1. ~Nowhere(x)'
      BY <1>1, <1>5, <1>7 DEF Nowhere
    <2>2. ASSUME Nowhere(x) PROVE SpotsOK(x)'
      <3>1. /\ Handed(x)' = {} /\ x \notin lost' /\ x \notin Elements(q)
            /\ \A b \in Agents : x \in Elements(offline'[b]) => b = a
        BY <1>1, <1>5, <1>7, <2>2 DEF Nowhere, q
      <3>2. \A c \in AgentConns : Once(inbox'[c], x)
        BY <3>1 DEF Handed, Once, Elements
      <3>3. \A b \in Agents : Once(offline'[b], x)
        BY <1>5, <1>7, <2>2, <3>1 DEF Nowhere, Once, Elements
      <3> QED BY <3>1, <3>2, <3>3 DEF SpotsOK
    <2> QED BY <2>1, <2>2 DEF Puts
  <1>9. ASSUME NEW id \in Ids, id # x PROVE Stays(id)
    <2>1. id \in lost' <=> id \in lost \/ (id \in Elements(q) /\ id \notin Elements(e))
      BY <1>7, <1>9
    <2>2. id \in Elements(e) => id \in Elements(q)
      BY <1>5, <1>9
    <2>3. Nowhere(id)' <=> Nowhere(id)
      BY <1>1, <1>7, <2>1, <2>2 DEF Nowhere, q
    <2>4. ASSUME SpotsOK(id) PROVE SpotsOK(id)'
      <3>1. \A b \in Agents : Once(offline'[b], id)
        BY <1>1, <1>6, <1>7, <1>9, <2>4 DEF SpotsOK, q
      <3>2. \A b \in Agents : id \in Elements(offline'[b]) => id \in Elements(offline[b])
        BY <1>7, <2>2 DEF q
      <3>3. ASSUME NEW b \in Agents, id \in Elements(offline'[b])
            PROVE  id \notin lost'
        <4>1. id \notin lost
          BY <2>4, <3>2, <3>3 DEF SpotsOK
        <4>2. id \in Elements(q) => b = a
          BY <1>1, <2>4, <3>2, <3>3 DEF SpotsOK, q
        <4> QED BY <1>7, <2>1, <3>3, <4>1, <4>2
      <3> QED BY <1>7, <2>4, <3>1, <3>2, <3>3 DEF SpotsOK
    <2> QED BY <2>3, <2>4 DEF Stays
  <1> QED BY <1>8, <1>9 DEF x

LEMMA ForwardMoves ==
    ASSUME ChatIInv, NEW f \in Frames, NEW D \in SUBSET AgentConns, ForwardToAgents(f, D)
    PROVE  /\ D # {} => Puts(IdOf[f])
           /\ D = {} => Stays(IdOf[f])
           /\ \A id \in Ids : id # IdOf[f] => Stays(id)
  <1> DEFINE x == IdOf[f]
  <1>1. /\ x \in Ids /\ inbox \in [AgentConns -> Seq(Ids)] /\ UNCHANGED <<offline, lost>>
    BY DEF ChatIInv, PipelineOK, VisitorSideOK, ForwardToAgents
  <1>2. \A c \in AgentConns : inbox'[c] = IF c \in D THEN Append(inbox[c], x) ELSE inbox[c]
    BY DEF ForwardToAgents
  <1> HIDE DEF x
  <1>3. ASSUME NEW c \in AgentConns
        PROVE  /\ Elements(inbox'[c]) = IF c \in D THEN Elements(inbox[c]) \cup {x}
                                        ELSE Elements(inbox[c])
               /\ \A id : id # x /\ Once(inbox[c], id) => Once(inbox'[c], id)
               /\ x \notin Elements(inbox[c]) => Once(inbox'[c], x)
    <2>1. inbox[c] \in Seq(Ids)
      BY <1>1
    <2>2. CASE c \in D
      <3>1. inbox'[c] = Append(inbox[c], x)
        BY <1>2, <2>2
      <3>2. /\ Elements(inbox'[c]) = Elements(inbox[c]) \cup {x}
            /\ x \notin Elements(inbox[c]) => Once(inbox'[c], x)
        BY <1>1, <2>1, <3>1, AppendElements
      <3>3. ASSUME NEW id, id # x, Once(inbox[c], id) PROVE Once(inbox'[c], id)
        BY <1>1, <2>1, <3>1, <3>3, AppendElements
      <3> QED BY <2>2, <3>2, <3>3
    <2>3. CASE c \notin D
      <3>1. inbox'[c] = inbox[c]
        BY <1>2, <2>3
      <3>2. x \notin Elements(inbox[c]) => Once(inbox[c], x)
        BY DEF Elements, Once
      <3> QED BY <2>3, <3>1, <3>2
    <2> QED BY <2>2, <2>3
  <1>4. ASSUME NEW id, id # x PROVE Stays(id)
    <2>1. \A c \in AgentConns : id \in Elements(inbox'[c]) <=> id \in Elements(inbox[c])
      BY <1>3, <1>4
    <2>2. Handed(id)' = Handed(id)
      BY <2>1 DEF Handed
    <2>3. \A c \in AgentConns : Once(inbox[c], id) => Once(inbox'[c], id)
      BY <1>3, <1>4
    <2> QED BY <1>1, <2>2, <2>3 DEF Stays, Nowhere, SpotsOK
  <1>5. Handed(x)' = Handed(x) \cup D
    <2>1. \A c \in AgentConns : x \in Elements(inbox'[c]) <=> c \in D \/ x \in Elements(inbox[c])
      BY <1>3
    <2> QED BY <2>1 DEF Handed
  <1>6. ASSUME D # {} PROVE Puts(x)
    <2>1. ~Nowhere(x)'
      BY <1>5, <1>6 DEF Nowhere
    <2>2. ASSUME Nowhere(x) PROVE SpotsOK(x)'
      <3>1. \A c \in AgentConns : x \notin Elements(inbox[c])
        BY <2>2 DEF Nowhere, Handed
      <3>2. \A c \in AgentConns : Once(inbox'[c], x)
        BY <1>3, <3>1
      <3>3. \A a \in Agents : Once(offline'[a], x) /\ x \notin Elements(offline'[a])
        BY <1>1, <2>2 DEF Nowhere, Once, Elements
      <3> QED BY <3>2, <3>3 DEF SpotsOK
    <2> QED BY <2>1, <2>2 DEF Puts
  <1>7. ASSUME D = {} PROVE Stays(x)
    <2>1. Handed(x)' = Handed(x) /\ \A c \in AgentConns : inbox'[c] = inbox[c]
      BY <1>2, <1>5, <1>7
    <2> QED BY <1>1, <2>1 DEF Stays, Nowhere, SpotsOK
  <1> QED BY <1>4, <1>6, <1>7 DEF x

-----------------------------------------------------------------------------
(* What a handler's step does to the messages.                             *)

\* The part of the invariant about the visitors' messages.
MessagesIInv == (\A id \in Ids : MessageOK(id)) /\ AcceptedOK

\* Only the handler of f goes on.
OnlyMoves(f) == \A g \in Frames : g # f => stage'[g] = stage[g] /\ answers'[g] = answers[g]

Delivering == {"queueing", "prompting", "requeueing"}

LEMMA FramesAreNoReplies == Frames \cap ReplyIds = {}
  OBVIOUS

LEMMA GotoFacts ==
    ASSUME FlowOK, NEW f \in Frames \cup ReplyIds, NEW s, Goto(f, s)
    PROVE  /\ stage'[f] = s
           /\ \A g \in Frames \cup ReplyIds : g # f => stage'[g] = stage[g]
  BY DEF FlowOK, Goto

LEMMA AnswerFacts ==
    ASSUME FlowOK, NEW f \in Frames \cup ReplyIds, NEW kind, Answer(f, kind)
    PROVE  /\ answers'[f] = answers[f] \cup {kind}
           /\ \A g \in Frames \cup ReplyIds : g # f => answers'[g] = answers[g]
  BY DEF FlowOK, Answer

\* A step that leaves a message, its handlers and its key alone.
LEMMA OtherMessage ==
    ASSUME NEW id, MessageOK(id), Stays(id), unchecked \subseteq unchecked',
           id \in dedup' <=> id \in dedup,
           \A g \in Frames : IdOf[g] = id => stage'[g] = stage[g] /\ answers'[g] = answers[g]
    PROVE  MessageOK(id)'
  <1>1. AllChecked(id)' => AllChecked(id)
    BY DEF AllChecked
  <1>2. Trying(id)' = Trying(id)
    BY DEF Trying
  <1>3. RejectedFrames(id)' = RejectedFrames(id)
    BY DEF RejectedFrames
  <1> QED BY <1>1, <1>2, <1>3 DEF MessageOK, Stays

LEMMA OwnSets ==
    ASSUME NEW f \in Frames, OnlyMoves(f)
    PROVE  /\ Trying(IdOf[f])' = IF stage'[f] \in Delivering THEN Trying(IdOf[f]) \cup {f}
                                 ELSE Trying(IdOf[f]) \ {f}
           /\ RejectedFrames(IdOf[f])' = IF "rejected" \in answers'[f]
                                         THEN RejectedFrames(IdOf[f]) \cup {f}
                                         ELSE RejectedFrames(IdOf[f]) \ {f}
           /\ f \in Trying(IdOf[f]) <=> stage[f] \in Delivering
           /\ f \in RejectedFrames(IdOf[f]) <=> "rejected" \in answers[f]
  <1> DEFINE x == IdOf[f]
  <1>1. \A g \in Frames : g \in Trying(x)' <=> IF g = f THEN stage'[f] \in Delivering
                                               ELSE g \in Trying(x)
    BY DEF OnlyMoves, Trying, Delivering
  <1>2. \A g \in Frames : g \in RejectedFrames(x)' <=> IF g = f THEN "rejected" \in answers'[f]
                                                       ELSE g \in RejectedFrames(x)
    BY DEF OnlyMoves, RejectedFrames
  <1>3. /\ Trying(x) \subseteq Frames /\ Trying(x)' \subseteq Frames
        /\ RejectedFrames(x) \subseteq Frames /\ RejectedFrames(x)' \subseteq Frames
    BY DEF Trying, RejectedFrames
  <1>4. /\ f \in Trying(x) <=> stage[f] \in Delivering
        /\ f \in RejectedFrames(x) <=> "rejected" \in answers[f]
    BY DEF Trying, RejectedFrames, Delivering
  <1> HIDE DEF x
  <1>5. Trying(x)' = IF stage'[f] \in Delivering THEN Trying(x) \cup {f} ELSE Trying(x) \ {f}
    BY <1>1, <1>3
  <1>6. RejectedFrames(x)' = IF "rejected" \in answers'[f] THEN RejectedFrames(x) \cup {f}
                             ELSE RejectedFrames(x) \ {f}
    BY <1>2, <1>3
  <1> QED BY <1>4, <1>5, <1>6 DEF x

\* So a step of f's handler keeps the invariant if it keeps it for f's message.
LEMMA HandlerStep ==
    ASSUME MessagesIInv, NEW f \in Frames, OnlyMoves(f), unchecked \subseteq unchecked',
           dedup \subseteq dedup', dedup' \subseteq dedup \cup {IdOf[f]},
           \A id \in Ids : id # IdOf[f] => Stays(id),
           Stays(IdOf[f]) \/ Puts(IdOf[f]), unqueued \subseteq unqueued',
           MessageOK(IdOf[f])',
           stage'[f] \in {"persisting", "over"} /\ answers'[f] = {"accepted"} =>
               ~Nowhere(IdOf[f])' \/ f \in unqueued'
    PROVE  MessagesIInv'
  <1>1. ASSUME NEW id \in Ids PROVE MessageOK(id)'
    <2>1. CASE id # IdOf[f]
      <3>1. MessageOK(id) /\ Stays(id) /\ (id \in dedup' <=> id \in dedup)
        BY <2>1 DEF MessagesIInv
      <3>2. \A g \in Frames : IdOf[g] = id => stage'[g] = stage[g] /\ answers'[g] = answers[g]
        BY <2>1 DEF OnlyMoves
      <3> QED BY <3>1, <3>2, OtherMessage
    <2> QED BY <2>1
  <1>2. \A id \in Ids : ~Nowhere(id) => ~Nowhere(id)'
    BY DEF Stays, Puts
  <1>3. AcceptedOK'
    <2> SUFFICES ASSUME NEW g \in Frames, stage'[g] \in {"persisting", "over"},
                        answers'[g] = {"accepted"}
                 PROVE  ~Nowhere(IdOf[g])' \/ g \in unqueued'
      BY DEF AcceptedOK
    <2>1. CASE g = f
      BY <2>1
    <2>2. CASE g # f
      <3>1. IdOf[g] \in Ids /\ (~Nowhere(IdOf[g]) \/ g \in unqueued)
        BY <2>2 DEF MessagesIInv, AcceptedOK, OnlyMoves
      <3> QED BY <1>2, <3>1
    <2> QED BY <2>1, <2>2
  <1> QED BY <1>1, <1>3 DEF MessagesIInv

\* A step that admits no one and hands nothing over.
LEMMA QuietStep ==
    ASSUME MessagesIInv, NEW f \in Frames, OnlyMoves(f),
           UNCHANGED <<offline, inbox, lost, unchecked, unqueued>>,
           dedup \subseteq dedup', dedup' \subseteq dedup \cup {IdOf[f]},
           stage'[f] \in Delivering => stage[f] \in Delivering,
           "rejected" \in answers'[f] => "rejected" \in answers[f],
           stage'[f] \in {"persisting", "over"} /\ answers'[f] = {"accepted"} =>
               ~Nowhere(IdOf[f]) \/ f \in unqueued
    PROVE  MessagesIInv'
  <1> DEFINE x == IdOf[f]
  <1>1. x \in Ids /\ MessageOK(x) /\ \A id : Stays(id)
    BY UnchangedStays DEF MessagesIInv
  <1>2. Trying(x)' \subseteq Trying(x) /\ RejectedFrames(x)' \subseteq RejectedFrames(x)
    BY OwnSets
  <1>3. AllChecked(x)' <=> AllChecked(x)
    BY DEF AllChecked
  <1> HIDE DEF x
  <1>4. MessageOK(x)'
    BY <1>1, <1>2, <1>3 DEF MessageOK, Stays
  <1>5. Nowhere(x)' <=> Nowhere(x)
    BY <1>1 DEF Stays
  <1> QED BY <1>1, <1>4, <1>5, HandlerStep DEF x

LEMMA ReadVisitorMessageMoves ==
    ASSUME ChatIInv, MessagesIInv, NEW f \in Frames, ReadVisitorMessage(f)
    PROVE  MessagesIInv'
  <1>1. UNCHANGED <<dedup, unchecked, offline, inbox, lost, unqueued, answers>>
    BY DEF ReadVisitorMessage, visitorSide
  <1>2. stage'[f] = "checking" /\ OnlyMoves(f)
    BY <1>1, GotoFacts DEF ReadVisitorMessage, OnlyMoves, ChatIInv, PipelineOK
  <1> QED BY <1>1, <1>2, QuietStep DEF Delivering

LEMMA PersistedMoves ==
    ASSUME ChatIInv, MessagesIInv, NEW f \in Frames, Persisted(f)
    PROVE  MessagesIInv'
  <1>1. UNCHANGED <<dedup, unchecked, offline, inbox, lost, unqueued, answers>>
        /\ stage[f] = "persisting"
    BY DEF Persisted, visitorSide
  <1>2. stage'[f] = "over" /\ OnlyMoves(f)
    BY <1>1, GotoFacts DEF Persisted, OnlyMoves, ChatIInv, PipelineOK
  <1>3. answers[f] = {"accepted"} => ~Nowhere(IdOf[f]) \/ f \in unqueued
    BY <1>1 DEF MessagesIInv, AcceptedOK
  <1> QED BY <1>1, <1>2, <1>3, QuietStep DEF Delivering

\* The key admits one of the frames with an id.
LEMMA CheckedMoves ==
    ASSUME ChatIInv, MessagesIInv, NEW f \in Frames, Checked(f)
    PROVE  MessagesIInv'
  <1> DEFINE x == IdOf[f]
  <1>1. UNCHANGED <<offline, inbox, lost, unqueued>> /\ stage[f] = "checking" /\ FlowOK /\ x \in Ids
    BY DEF Checked, ChatIInv, PipelineOK
  <1>2. CASE \E kind \in {"limited", "duplicate", "error"} :
                Goto(f, "over") /\ Answer(f, kind) /\ UNCHANGED unchecked
                /\ dedup' \in {dedup, dedup \cup {x}}
    <2> PICK kind \in {"limited", "duplicate", "error"} :
                Goto(f, "over") /\ Answer(f, kind) /\ UNCHANGED unchecked
                /\ dedup' \in {dedup, dedup \cup {x}}
      BY <1>2
    <2>1. stage'[f] = "over" /\ answers'[f] = answers[f] \cup {kind} /\ OnlyMoves(f)
      BY <1>1, GotoFacts, AnswerFacts DEF OnlyMoves
    <2>2. answers'[f] # {"accepted"} /\ ("rejected" \in answers'[f] => "rejected" \in answers[f])
      BY <2>1
    <2> QED BY <1>1, <2>1, <2>2, QuietStep DEF Delivering
  <1>3. \A id : Stays(id)
    BY <1>1, UnchangedStays
  <1>4. ASSUME RouteVisitorMessage(f)
        PROVE  /\ OnlyMoves(f)
               /\ answers'[f] # {"accepted"} \/ stage'[f] \in Delivering
               /\ redis => /\ stage'[f] \in Delivering
                           /\ "rejected" \in answers'[f] => "rejected" \in answers[f]
    <2>1. CASE redis /\ Goto(f, "queueing") /\ UNCHANGED answers
      BY <1>1, <2>1, GotoFacts DEF OnlyMoves, Delivering
    <2>2. CASE Goto(f, "prompting") /\ Answer(f, "accepted")
      BY <1>1, <2>2, GotoFacts, AnswerFacts DEF OnlyMoves, Delivering
    <2>3. CASE ~redis /\ Goto(f, "over") /\ Answer(f, "rejected")
      <3>1. OnlyMoves(f) /\ answers'[f] = answers[f] \cup {"rejected"}
        BY <1>1, <2>3, GotoFacts, AnswerFacts DEF OnlyMoves
      <3>2. "rejected" \in answers'[f] /\ "rejected" # "accepted"
        BY <3>1
      <3>3. answers'[f] # {"accepted"}
        BY <3>2
      <3> QED BY <2>3, <3>1, <3>3
    <2> QED BY <1>4, <2>1, <2>2, <2>3 DEF RouteVisitorMessage, Enqueue
  <1>5. CASE /\ redis /\ RouteVisitorMessage(f)
             /\ x \notin dedup /\ dedup' = dedup \cup {x} /\ UNCHANGED unchecked
    <2>1. Trying(x)' = Trying(x) \cup {f} /\ RejectedFrames(x)' \subseteq RejectedFrames(x)
      BY <1>4, <1>5, OwnSets
    <2>2. MessageOK(x) /\ (AllChecked(x)' <=> AllChecked(x))
      BY <1>1, <1>5 DEF MessagesIInv, AllChecked
    <2> HIDE DEF x
    <2>3. MessageOK(x)'
      BY <1>3, <1>5, <2>1, <2>2 DEF MessageOK, Stays
    <2> QED BY <1>1, <1>3, <1>4, <1>5, <2>3, HandlerStep DEF x, Delivering
  <1>6. CASE RouteVisitorMessage(f) /\ UNCHANGED dedup /\ unchecked' = unchecked \cup {f}
    <2>1. MessageOK(x)'
      BY <1>6 DEF MessageOK, AllChecked
    <2> QED BY <1>1, <1>3, <1>4, <1>6, <2>1, HandlerStep DEF Delivering
  <1> QED BY <1>2, <1>5, <1>6 DEF Checked

\* A frame taken by an agent's socket; or by none, and queued or refused for
\* good.
LEMMA ForwardToAgentsMoves ==
    ASSUME ChatIInv, MessagesIInv, NEW f \in Frames, NEW D \in SUBSET AgentConns,
           ForwardToAgents(f, D)
    PROVE  MessagesIInv'
  <1> DEFINE x == IdOf[f]
  <1>1. /\ UNCHANGED <<dedup, unchecked, unqueued>> /\ stage[f] = "prompting" /\ FlowOK /\ x \in Ids
        /\ IF D = {} THEN Enqueue(f, "requeueing") ELSE Goto(f, "persisting") /\ UNCHANGED answers
    BY DEF ForwardToAgents, ChatIInv, PipelineOK
  <1>2. /\ D # {} => Puts(x)
        /\ D = {} => Stays(x)
        /\ \A id \in Ids : id # x => Stays(id)
    BY ForwardMoves
  <1>3. MessageOK(x) /\ (AllChecked(x)' <=> AllChecked(x)) /\ stage[f] \in Delivering
    BY <1>1 DEF MessagesIInv, AllChecked, Delivering
  <1>4. CASE D # {}
    <2>1. stage'[f] = "persisting" /\ answers'[f] = answers[f] /\ OnlyMoves(f)
      BY <1>1, <1>4, GotoFacts DEF OnlyMoves
    <2>2. /\ f \in Trying(x) /\ Trying(x)' = Trying(x) \ {f}
          /\ RejectedFrames(x)' \subseteq RejectedFrames(x)
      BY <1>3, <2>1, OwnSets DEF Delivering
    <2> HIDE DEF x
    <2>3. MessageOK(x)' /\ ~Nowhere(x)'
      BY <1>1, <1>2, <1>3, <1>4, <2>2 DEF MessageOK, Puts
    <2> QED BY <1>1, <1>2, <1>4, <2>1, <2>3, HandlerStep DEF x
  <1>5. CASE D = {} /\ Goto(f, "requeueing") /\ UNCHANGED answers
    <2>1. stage'[f] = "requeueing" /\ answers'[f] = answers[f] /\ OnlyMoves(f)
      BY <1>1, <1>5, GotoFacts DEF OnlyMoves
    <2>2. /\ f \in Trying(x) /\ Trying(x)' = Trying(x) \cup {f}
          /\ RejectedFrames(x)' \subseteq RejectedFrames(x)
      BY <1>3, <2>1, OwnSets DEF Delivering
    <2> HIDE DEF x
    <2>3. MessageOK(x)'
      BY <1>1, <1>2, <1>3, <1>5, <2>2 DEF MessageOK, Stays
    <2> QED BY <1>1, <1>2, <1>5, <2>1, <2>3, HandlerStep DEF x
  <1>6. CASE D = {} /\ Goto(f, "over") /\ Answer(f, "rejected")
    <2>1. /\ stage'[f] = "over" /\ "rejected" \in answers'[f] /\ answers'[f] # {"accepted"}
          /\ OnlyMoves(f)
      BY <1>1, <1>6, GotoFacts, AnswerFacts DEF OnlyMoves
    <2>2. f \in Trying(x) /\ Trying(x)' = Trying(x) \ {f}
      BY <1>3, <2>1, OwnSets DEF Delivering
    <2> HIDE DEF x
    <2>3. MessageOK(x)'
      BY <1>1, <1>2, <1>3, <1>6, <2>2 DEF MessageOK, Stays
    <2> QED BY <1>1, <1>2, <1>6, <2>1, <2>3, HandlerStep DEF x
  <1> QED BY <1>1, <1>4, <1>5, <1>6 DEF Enqueue

\* The queue takes the message, or its commands fail.
LEMMA QueueMoves ==
    ASSUME ChatIInv, MessagesIInv, NEW f \in Frames, Queued(f) \/ Requeued(f)
    PROVE  MessagesIInv'
  <1> DEFINE x == IdOf[f]
  <1>1. /\ UNCHANGED <<dedup, unchecked, inbox>> /\ stage[f] \in Delivering /\ FlowOK /\ x \in Ids
        /\ EnqueueOfflineMessage(f)
    BY DEF Queued, Requeued, ChatIInv, PipelineOK, Delivering
  <1>2. /\ stage'[f] \in {"over", "persisting"} /\ OnlyMoves(f)
        /\ "rejected" \in answers'[f] => "rejected" \in answers[f]
    <2>1. \E s \in {"over", "persisting"} : Goto(f, s)
      BY DEF Queued, Requeued
    <2>2. UNCHANGED answers \/ Answer(f, "accepted")
      BY DEF Queued, Requeued
    <2>3. stage'[f] \in {"over", "persisting"} /\ \A g \in Frames : g # f => stage'[g] = stage[g]
      BY <1>1, <2>1, GotoFacts
    <2>4. /\ "rejected" \in answers'[f] => "rejected" \in answers[f]
          /\ \A g \in Frames : g # f => answers'[g] = answers[g]
      BY <1>1, <2>2, AnswerFacts
    <2> QED BY <2>3, <2>4 DEF OnlyMoves
  <1>3. /\ f \in Trying(x) /\ Trying(x)' = Trying(x) \ {f}
        /\ RejectedFrames(x)' \subseteq RejectedFrames(x)
    BY <1>1, <1>2, OwnSets DEF Delivering
  <1>4. MessageOK(x) /\ (AllChecked(x)' <=> AllChecked(x))
    BY <1>1 DEF MessagesIInv, AllChecked
  <1>5. CASE EnqueueDone(f)
    <2>1. Puts(x) /\ \A id \in Ids : id # x => Stays(id)
      BY <1>1, <1>5, EnqueueMoves
    <2>2. UNCHANGED unqueued
      BY <1>5 DEF EnqueueDone
    <2> HIDE DEF x
    <2>3. MessageOK(x)' /\ ~Nowhere(x)'
      BY <1>1, <1>3, <1>4, <2>1 DEF MessageOK, Puts
    <2> QED BY <1>1, <1>2, <2>1, <2>2, <2>3, HandlerStep DEF x
  <1>6. CASE unqueued' = unqueued \cup {f} /\ UNCHANGED <<offline, lost>>
    <2>1. \A id : Stays(id)
      BY <1>1, <1>6, UnchangedStays
    <2> HIDE DEF x
    <2>2. MessageOK(x)'
      BY <1>1, <1>3, <1>4, <2>1 DEF MessageOK, Stays
    <2> QED BY <1>1, <1>2, <1>6, <2>1, <2>2, HandlerStep DEF x
  <1> QED BY <1>1, <1>5, <1>6 DEF EnqueueOfflineMessage, EnqueueFails

\* A step of anything but a frame's handler.
LEMMA OtherStep ==
    ASSUME MessagesIInv, \A g \in Frames : stage'[g] = stage[g] /\ answers'[g] = answers[g],
           UNCHANGED <<dedup, unchecked, unqueued>>, \A id \in Ids : Stays(id)
    PROVE  MessagesIInv'
  <1>1. \A id \in Ids : MessageOK(id)'
    BY OtherMessage DEF MessagesIInv
  <1>2. \A id \in Ids : Nowhere(id)' <=> Nowhere(id)
    BY DEF Stays
  <1>3. AcceptedOK'
    <2> SUFFICES ASSUME NEW g \in Frames, stage'[g] \in {"persisting", "over"},
                        answers'[g] = {"accepted"}
                 PROVE  ~Nowhere(IdOf[g])' \/ g \in unqueued'
      BY DEF AcceptedOK
    <2>1. IdOf[g] \in Ids /\ (~Nowhere(IdOf[g]) \/ g \in unqueued)
      BY DEF MessagesIInv, AcceptedOK
    <2> QED BY <1>2, <2>1
  <1> QED BY <1>1, <1>3 DEF MessagesIInv

\* A step of a reply's or a stream's handler.
LEMMA ReplyStep ==
    ASSUME ChatIInv, MessagesIInv, NEW m \in ReplyIds, UNCHANGED visitorSide,
           UNCHANGED stage \/ \E s \in Stages : Goto(m, s),
           UNCHANGED answers \/ \E kind \in Answers : Answer(m, kind)
    PROVE  MessagesIInv'
  <1>1. m \notin Frames /\ FlowOK
    BY FramesAreNoReplies DEF ChatIInv, PipelineOK
  <1>2. \A g \in Frames : stage'[g] = stage[g]
    BY <1>1, GotoFacts
  <1>3. \A g \in Frames : answers'[g] = answers[g]
    BY <1>1, AnswerFacts
  <1>4. UNCHANGED <<dedup, unchecked, offline, inbox, lost, unqueued>>
    BY DEF visitorSide
  <1>5. \A id \in Ids : Stays(id)
    BY <1>4, UnchangedStays
  <1> QED BY <1>2, <1>3, <1>4, <1>5, OtherStep

LEMMA RepliesMove ==
    ASSUME ChatIInv, MessagesIInv, NEW m \in ReplyIds,
           \/ ReadAgentMessage(m) \/ RouteAgentMessage(m) \/ ForwardAgentMessage(m)
           \/ ReadStreamChunk(m) \/ StreamChunkChecked(m) \/ ReadStreamEnd(m) \/ ForwardStreamEnd(m)
    PROVE  MessagesIInv'
  <1>1. UNCHANGED visitorSide
    BY DEF ReadAgentMessage, RouteAgentMessage, ForwardAgentMessage, ReadStreamChunk,
           StreamChunkChecked, ReadStreamEnd, ForwardStreamEnd
  <1>2. {"checking", "over", "persisting"} \subseteq Stages
        /\ {"limited", "error", "accepted"} \subseteq Answers
    BY DEF Stages, Answers
  <1>3. UNCHANGED stage \/ \E s \in {"checking", "over", "persisting"} : Goto(m, s)
    BY DEF ReadAgentMessage, RouteAgentMessage, ForwardAgentMessage, ReadStreamChunk,
           StreamChunkChecked, ReadStreamEnd, ForwardStreamEnd
  <1>4. UNCHANGED answers \/ \E kind \in {"limited", "error", "accepted"} : Answer(m, kind)
    BY DEF ReadAgentMessage, RouteAgentMessage, ForwardAgentMessage, ReadStreamChunk,
           StreamChunkChecked, ReadStreamEnd, ForwardStreamEnd
  <1> QED BY <1>1, <1>2, <1>3, <1>4, ReplyStep

LEMMA MessagesNext ==
    ASSUME ChatIInv, MessagesIInv, [ChatNext]_chatVars
    PROVE  MessagesIInv'
  <1>1. CASE Registry \/ RedisChanges \/ UNCHANGED chatVars \/ \E c \in AgentConns : AgentRegisters(c)
    <2>1. UNCHANGED <<stage, answers, dedup, unchecked, offline, inbox, lost, unqueued>>
      BY <1>1 DEF Registry, RedisChanges, AgentRegisters, visitorSide, chatVars
    <2>2. \A id \in Ids : Stays(id)
      BY <2>1, UnchangedStays
    <2> QED BY <2>1, <2>2, OtherStep
  <1>2. CASE \E c \in AgentConns : DrainOfflineQueue(c)
    <2> PICK c \in AgentConns : DrainOfflineQueue(c)
      BY <1>2
    <2>1. UNCHANGED <<stage, answers, dedup, unchecked, unqueued>>
      BY DEF DrainOfflineQueue
    <2>2. \A id \in Ids : Stays(id)
      BY DrainStays
    <2> QED BY <2>1, <2>2, OtherStep
  <1>3. CASE \E f \in Frames :
                \/ ReadVisitorMessage(f) \/ Checked(f) \/ Queued(f) \/ Requeued(f) \/ Persisted(f)
                \/ \E D \in SUBSET AgentConns : ForwardToAgents(f, D)
    BY <1>3, ReadVisitorMessageMoves, CheckedMoves, QueueMoves, PersistedMoves, ForwardToAgentsMoves
  <1>4. CASE \E m \in Replies :
                ReadAgentMessage(m) \/ RouteAgentMessage(m) \/ ForwardAgentMessage(m)
    <2>1. Replies \subseteq ReplyIds
      BY DEF ReplyIds
    <2> QED BY <1>4, <2>1, RepliesMove
  <1>5. CASE \E s \in Streams : \/ ReadStreamChunk(s) \/ StreamChunkChecked(s)
                                \/ ReadStreamEnd(s) \/ ForwardStreamEnd(s)
    <2>1. Streams \subseteq ReplyIds
      BY DEF ReplyIds
    <2> QED BY <1>5, <2>1, RepliesMove
  <1> QED BY <1>1, <1>2, <1>3, <1>4, <1>5 DEF ChatNext

LEMMA MessagesInitial == ChatInit => MessagesIInv
  <1> SUFFICES ASSUME ChatInit PROVE MessagesIInv
    OBVIOUS
  <1>1. /\ inbox = [c \in AgentConns |-> <<>>] /\ offline = [a \in Agents |-> <<>>]
        /\ lost = {} /\ answers = [f \in Frames \cup ReplyIds |-> {}]
    BY DEF ChatInit
  <1>2. \A f \in Frames : stage[f] \in {"idle", "over"}
    BY DEF ChatInit
  <1>3. ASSUME NEW id PROVE Nowhere(id) /\ SpotsOK(id)
    <2>1. Elements(<<>>) = {} /\ Once(<<>>, id)
      BY DEF Elements, Once
    <2> QED BY <1>1, <2>1 DEF Nowhere, SpotsOK, Handed
  <1>4. ASSUME NEW id PROVE Trying(id) = {} /\ RejectedFrames(id) = {}
    BY <1>1, <1>2 DEF Trying, RejectedFrames
  <1>5. AcceptedOK
    BY <1>1 DEF AcceptedOK
  <1> QED BY <1>3, <1>4, <1>5 DEF MessagesIInv, MessageOK

\* Unless it slipped past the keys in an outage, an id is on no socket twice and
\* never on a socket and in a queue; while its one admitted handler has handed
\* nothing over it is nowhere.
THEOREM MessagesInvariant == ChatSpec => []MessagesIInv
  <1>1. ChatIInv /\ MessagesIInv /\ [ChatNext]_chatVars => MessagesIInv'
    BY MessagesNext
  <1> QED BY <1>1, MessagesInitial, ChatInvariant, PTL DEF ChatSpec

\* A message and its retry reach the agents' sockets once, or a queue, and not
\* both (checkAndSetDedup, fanoutFrame, enqueueOfflineMessage, drainOfflineQueue).
THEOREM MessagesHandedOverOnce == ChatSpec => []HandedOverOnce
  <1>1. MessagesIInv => HandedOverOnce
    BY DEF MessagesIInv, MessageOK, SpotsOK, HandedOverOnce
  <1> QED BY <1>1, MessagesInvariant, PTL

\* What was acknowledged, and not refused afterwards, reached a socket or a
\* queue, unless Redis failed the commands of the queue (fanoutFrame and
\* enqueueOfflineMessage, whose true does not tell).
THEOREM AcceptedIsSomewhere == ChatSpec => []AcceptedIsAccountedFor
  <1>1. MessagesIInv => AcceptedIsAccountedFor
    BY DEF MessagesIInv, AcceptedOK, Nowhere, AcceptedIsAccountedFor, AcceptedAtLast, Forwarded
  <1> QED BY <1>1, MessagesInvariant, PTL

\* What the visitor is told was rejected never reaches an agent.
THEOREM RejectedNeverArrives == ChatSpec => []RejectedIsNotDelivered
  <1>1. ASSUME MessagesIInv PROVE RejectedIsNotDelivered
    <2> SUFFICES ASSUME NEW f \in Frames, "rejected" \in answers[f], AllChecked(IdOf[f])
                 PROVE  Nowhere(IdOf[f])
      BY DEF RejectedIsNotDelivered, Nowhere
    <2>1. IdOf[f] \in Ids /\ MessageOK(IdOf[f])
      BY <1>1 DEF MessagesIInv
    <2>2. f \in RejectedFrames(IdOf[f])
      BY DEF RejectedFrames
    <2> QED BY <2>1, <2>2 DEF MessageOK
  <1> QED BY <1>1, MessagesInvariant, PTL

-----------------------------------------------------------------------------
(* The order of a stream's chunks.                                         *)

StreamsIInv == (\A s \in Streams : StreamInOrder(s)) /\ StoredStreamIsPrefix

LEMMA EmptyInOrder == \A n : InOrder(<<>>, n)
  BY DEF InOrder

LEMMA AppendInOrder ==
    ASSUME NEW q \in Seq(Int), NEW n \in Nat, InOrder(q, n)
    PROVE  InOrder(Append(q, n + Len(q) + 1), n)
  <1> DEFINE x == n + Len(q) + 1
             a == Append(q, x)
  <1>1. /\ Len(q) \in Nat /\ Len(a) = Len(q) + 1 /\ a[Len(q) + 1] = x
        /\ \A i \in 1 .. Len(q) : a[i] = q[i]
    OBVIOUS
  <1> HIDE DEF a
  <1> SUFFICES ASSUME NEW i \in 1 .. Len(a) PROVE a[i] = n + i
    BY DEF InOrder, a
  <1>2. CASE i \in 1 .. Len(q)
    BY <1>1, <1>2 DEF InOrder
  <1>3. CASE i = Len(q) + 1
    BY <1>1, <1>3
  <1> QED BY <1>1, <1>2, <1>3

LEMMA StreamsInitial == ChatInit => StreamsIInv
  <1> SUFFICES ASSUME ChatInit PROVE StreamsIInv
    OBVIOUS
  <1>1. \A s \in Streams : /\ fullContent[s] = <<>> /\ streamBuffers[s] = <<>> /\ waiting[s] = <<>>
                           /\ chunksRead[s] = 0
    BY DEF ChatInit
  <1>2. ASSUME NEW s \in Streams PROVE StreamInOrder(s)
    <2>1. /\ fullContent[s] = <<>> /\ streamBuffers[s] = <<>> /\ waiting[s] = <<>>
          /\ chunksRead[s] = 0 /\ Len(<<>>) = 0
      BY <1>1
    <2>2. InOrder(<<>>, 0)
      BY EmptyInOrder
    <2> QED BY <2>1, <2>2 DEF StreamInOrder
  <1>3. StoredStreamIsPrefix
    BY DEF ChatInit, StoredStreamIsPrefix
  <1> QED BY <1>2, <1>3 DEF StreamsIInv

\* A stream that a step leaves alone, but for a refusal.
LEMMA StreamUntouched ==
    ASSUME NEW s \in Streams, StreamInOrder(s), stage'[s] = "idle" => stage[s] = "idle",
           answers[s] \subseteq answers'[s], fullContent'[s] = fullContent[s],
           streamBuffers'[s] = streamBuffers[s], waiting'[s] = waiting[s],
           chunksRead'[s] = chunksRead[s], overtaken \subseteq overtaken'
    PROVE  StreamInOrder(s)'
  BY DEF StreamInOrder

\* Rows that a step keeps, beside those of other messages.
LEMMA StoredKept ==
    ASSUME StoredStreamIsPrefix, \A row \in stored' : row \in stored \/ row.id \notin Streams,
           \A s \in Streams : answers[s] \subseteq answers'[s], overtaken \subseteq overtaken'
    PROVE  StoredStreamIsPrefix'
  BY DEF StoredStreamIsPrefix

\* The answers only grow, and a handler that began is never idle again.
LEMMA FlowGrows ==
    ASSUME FlowOK, NEW f \in Frames \cup ReplyIds,
           UNCHANGED stage \/ \E t : t # "idle" /\ Goto(f, t),
           UNCHANGED answers \/ \E kind : Answer(f, kind)
    PROVE  \A s \in Frames \cup ReplyIds : /\ stage'[s] = "idle" => stage[s] = "idle"
                                           /\ answers[s] \subseteq answers'[s]
  <1> TAKE s \in Frames \cup ReplyIds
  <1>1. stage'[s] = "idle" => stage[s] = "idle"
    BY GotoFacts
  <1>2. answers[s] \subseteq answers'[s]
    BY AnswerFacts
  <1> QED BY <1>1, <1>2

\* A step in which no stream's handler moves.
LEMMA StreamsUntouched ==
    ASSUME StreamsIInv, UNCHANGED <<chunksRead, waiting, overtaken, streamBuffers, fullContent>>,
           \A s \in Streams : /\ stage'[s] = "idle" => stage[s] = "idle"
                              /\ answers[s] \subseteq answers'[s],
           \A row \in stored' : row \in stored \/ row.id \notin Streams
    PROVE  StreamsIInv'
  <1>1. \A s \in Streams : StreamInOrder(s)'
    BY StreamUntouched DEF StreamsIInv
  <1> QED BY <1>1, StoredKept DEF StreamsIInv

\* The chunk just read is the next one, of those that wait or of the buffer.
LEMMA ReadStreamChunkInOrder ==
    ASSUME ChatIInv, StreamsIInv, NEW s \in Streams, ReadStreamChunk(s)
    PROVE  StreamsIInv'
  <1> DEFINE b == streamBuffers[s]
             w == waiting[s]
             k == chunksRead[s]
  <1>1. /\ UNCHANGED <<fullContent, stage, answers, stored>> /\ StreamsOK /\ stage[s] = "idle"
        /\ chunksRead' = [chunksRead EXCEPT ![s] = k + 1]
        /\ overtaken \subseteq overtaken'
        /\ \/ /\ waiting' = [waiting EXCEPT ![s] = Append(w, chunksRead'[s])]
              /\ UNCHANGED <<overtaken, streamBuffers>>
           \/ /\ streamBuffers' = [streamBuffers EXCEPT ![s] = Append(b, chunksRead'[s])]
              /\ w = <<>> \/ s \in overtaken'
              /\ UNCHANGED waiting
    BY DEF ReadStreamChunk, BufferChunk, ChatIInv, PipelineOK
  <1>2. StreamInOrder(s)'
    <2> SUFFICES ASSUME s \notin overtaken', "limited" \notin answers[s] PROVE StreamInOrder(s)'
      BY <1>1 DEF StreamInOrder
    <2>1. InOrder(fullContent[s], 0) /\ InOrder(b, 0) /\ InOrder(w, Len(b)) /\ k = Len(b) + Len(w)
      BY <1>1 DEF StreamsIInv, StreamInOrder
    <2>2. /\ w \in Seq(Int) /\ b \in Seq(Int) /\ Len(w) \in Nat /\ Len(b) \in Nat
          /\ chunksRead'[s] = k + 1
      BY <1>1 DEF StreamsOK
    <2>3. CASE waiting'[s] = Append(w, k + 1) /\ streamBuffers'[s] = b
      <3> HIDE DEF b, w, k
      <3>1. InOrder(Append(w, k + 1), Len(b))
        <4>1. k + 1 = Len(b) + Len(w) + 1
          BY <2>1, <2>2
        <4> QED BY <2>1, <2>2, <4>1, AppendInOrder
      <3>2. k + 1 = Len(b) + Len(Append(w, k + 1))
        BY <2>1, <2>2
      <3> QED BY <1>1, <2>1, <2>2, <2>3, <3>1, <3>2 DEF StreamInOrder
    <2>4. CASE waiting'[s] = w /\ w = <<>> /\ streamBuffers'[s] = Append(b, k + 1)
      <3> HIDE DEF b, w, k
      <3>1. Len(w) = 0 /\ k + 1 = 0 + Len(b) + 1
        BY <2>1, <2>2, <2>4
      <3>2. InOrder(Append(b, k + 1), 0)
        BY <2>1, <2>2, <3>1, AppendInOrder
      <3>3. k + 1 = Len(Append(b, k + 1)) + Len(w)
        BY <2>2, <3>1
      <3>4. InOrder(w, Len(Append(b, k + 1)))
        BY <2>4, EmptyInOrder
      <3> QED BY <1>1, <2>1, <2>2, <2>4, <3>2, <3>3, <3>4 DEF StreamInOrder
    <2> QED BY <1>1, <2>2, <2>3, <2>4 DEF StreamsOK
  <1>3. ASSUME NEW r \in Streams, r # s PROVE StreamInOrder(r)'
    <2>1. /\ waiting'[r] = waiting[r] /\ streamBuffers'[r] = streamBuffers[r]
          /\ chunksRead'[r] = chunksRead[r]
      BY <1>1, <1>3 DEF StreamsOK
    <2> QED BY <1>1, <2>1, StreamUntouched DEF StreamsIInv
  <1>4. StoredStreamIsPrefix'
    BY <1>1, StoredKept DEF StreamsIInv
  <1> QED BY <1>2, <1>3, <1>4 DEF StreamsIInv

\* The oldest chunk that waits is the next one of the buffer.
LEMMA StreamChunkCheckedInOrder ==
    ASSUME ChatIInv, StreamsIInv, NEW s \in Streams, StreamChunkChecked(s)
    PROVE  StreamsIInv'
  <1>1. s \in ReplyIds
    BY DEF ReplyIds
  <1>2. /\ UNCHANGED <<chunksRead, overtaken, fullContent, stage, stored>> /\ StreamsOK /\ FlowOK
        /\ waiting[s] # <<>> /\ waiting' = [waiting EXCEPT ![s] = Tail(@)]
        /\ \/ /\ streamBuffers' = [streamBuffers EXCEPT ![s] = Append(@, Head(waiting[s]))]
              /\ UNCHANGED answers
           \/ Answer(s, "limited") /\ UNCHANGED streamBuffers
    BY DEF StreamChunkChecked, BufferChunk, ChatIInv, PipelineOK
  <1>3. \A r \in Streams : answers[r] \subseteq answers'[r]
    BY <1>1, <1>2, AnswerFacts DEF ReplyIds
  <1>4. StreamInOrder(s)'
    <2> SUFFICES ASSUME s \notin overtaken', "limited" \notin answers'[s] PROVE StreamInOrder(s)'
      BY DEF StreamInOrder
    <2>1. streamBuffers' = [streamBuffers EXCEPT ![s] = Append(@, Head(waiting[s]))]
      BY <1>1, <1>2, AnswerFacts
    <2>2. s \notin overtaken /\ "limited" \notin answers[s] /\ InOrder(fullContent[s], 0)
      BY <1>2, <1>3 DEF StreamsIInv, StreamInOrder
    <2>3. ASSUME stage[s] = "idle"
          PROVE  /\ InOrder(streamBuffers'[s], 0)
                 /\ InOrder(waiting'[s], Len(streamBuffers'[s]))
                 /\ chunksRead[s] = Len(streamBuffers'[s]) + Len(waiting'[s])
      <3> DEFINE b == streamBuffers[s]
                 w == waiting[s]
                 t == Tail(w)
                 h == Head(w)
                 c == Append(b, h)
      <3>1. InOrder(b, 0) /\ InOrder(w, Len(b)) /\ chunksRead[s] = Len(b) + Len(w)
        BY <2>2, <2>3 DEF StreamsIInv, StreamInOrder
      <3>2. w \in Seq(1 .. Chunks) /\ b \in Seq(1 .. Chunks) /\ w # <<>>
        BY <1>2 DEF StreamsOK
      <3>3. streamBuffers'[s] = c /\ waiting'[s] = t
        BY <1>2, <2>1 DEF StreamsOK
      <3> HIDE DEF b, w
      <3>4. /\ Len(b) \in Nat /\ Len(w) \in Nat \ {0} /\ Len(t) = Len(w) - 1 /\ Len(c) = Len(b) + 1
            /\ h = w[1] /\ b \in Seq(Int)
            /\ \A i \in 1 .. (Len(w) - 1) : t[i] = w[i + 1]
        BY <3>2
      <3> HIDE DEF t, h
      <3>5. h = 0 + Len(b) + 1
        BY <3>1, <3>4 DEF InOrder
      <3>6. InOrder(c, 0)
        BY <3>1, <3>4, <3>5, AppendInOrder
      <3> HIDE DEF c
      <3>7. InOrder(t, Len(c))
        <4> SUFFICES ASSUME NEW i \in 1 .. Len(t) PROVE t[i] = Len(c) + i
          BY DEF InOrder
        <4>1. i + 1 \in 1 .. Len(w) /\ t[i] = w[i + 1]
          BY <3>4
        <4>2. w[i + 1] = Len(b) + (i + 1)
          BY <3>1, <4>1 DEF InOrder
        <4> QED BY <3>4, <4>1, <4>2
      <3>8. chunksRead[s] = Len(c) + Len(t)
        BY <3>1, <3>4
      <3> QED BY <3>3, <3>6, <3>7, <3>8
    <2> QED BY <1>2, <2>2, <2>3 DEF StreamInOrder
  <1>5. ASSUME NEW r \in Streams, r # s PROVE StreamInOrder(r)'
    <2>1. waiting'[r] = waiting[r] /\ streamBuffers'[r] = streamBuffers[r]
      BY <1>2, <1>5 DEF StreamsOK
    <2> QED BY <1>2, <1>3, <2>1, StreamUntouched DEF StreamsIInv
  <1>6. StoredStreamIsPrefix'
    BY <1>2, <1>3, StoredKept DEF StreamsIInv
  <1> QED BY <1>4, <1>5, <1>6 DEF StreamsIInv

\* stream_end takes what is buffered.
LEMMA ReadStreamEndInOrder ==
    ASSUME ChatIInv, StreamsIInv, NEW s \in Streams, ReadStreamEnd(s)
    PROVE  StreamsIInv'
  <1>1. s \in ReplyIds
    BY DEF ReplyIds
  <1>2. /\ UNCHANGED <<chunksRead, waiting, overtaken, answers, stored>> /\ StreamsOK /\ FlowOK
        /\ stage[s] = "idle" /\ \E t \in {"over", "persisting"} : Goto(s, t)
        /\ fullContent' = [fullContent EXCEPT ![s] = streamBuffers[s]]
        /\ streamBuffers' = [streamBuffers EXCEPT ![s] = <<>>]
    BY DEF ReadStreamEnd, ChatIInv, PipelineOK
  <1>3. stage'[s] # "idle" /\ \A r \in Streams : r # s => stage'[r] = stage[r]
    BY <1>1, <1>2, GotoFacts DEF ReplyIds
  <1>4. StreamInOrder(s)'
    <2>1. fullContent'[s] = streamBuffers[s]
      BY <1>2 DEF StreamsOK
    <2> QED BY <1>2, <1>3, <2>1 DEF StreamsIInv, StreamInOrder
  <1>5. ASSUME NEW r \in Streams, r # s PROVE StreamInOrder(r)'
    <2>1. fullContent'[r] = fullContent[r] /\ streamBuffers'[r] = streamBuffers[r]
      BY <1>2, <1>5 DEF StreamsOK
    <2> QED BY <1>2, <1>3, <1>5, <2>1, StreamUntouched DEF StreamsIInv
  <1>6. StoredStreamIsPrefix'
    BY <1>2 DEF StreamsIInv, StoredStreamIsPrefix
  <1> QED BY <1>4, <1>5, <1>6 DEF StreamsIInv

\* What a reply's handler stores is in order, if what it has is.
LEMMA StoreInOrder ==
    ASSUME StoredStreamIsPrefix, NEW m, NEW token, NEW content \in Seq(1 .. Chunks),
           m \in Streams /\ m \notin overtaken /\ "limited" \notin answers[m] => InOrder(content, 0),
           Store(m, token, content) \/ UNCHANGED stored,
           \A s \in Streams : answers[s] \subseteq answers'[s], overtaken \subseteq overtaken'
    PROVE  StoredStreamIsPrefix'
  <1> DEFINE new == [id |-> m, token |-> token, content |-> content]
  <1>1. stored' \subseteq stored \cup {new}
    BY DEF Store
  <1> SUFFICES ASSUME NEW row \in stored', row.id \in Streams, row.id \notin overtaken',
                      "limited" \notin answers'[row.id]
               PROVE  row.content = [i \in 1 .. Len(row.content) |-> i]
    BY DEF StoredStreamIsPrefix
  <1>2. row.id \notin overtaken /\ "limited" \notin answers[row.id]
    OBVIOUS
  <1>3. CASE row \in stored
    BY <1>2, <1>3 DEF StoredStreamIsPrefix
  <1>4. CASE row = new
    <2>1. row.content = content /\ row.id = m
      BY <1>4
    <2>2. InOrder(content, 0)
      BY <1>2, <2>1
    <2>3. content = [i \in 1 .. Len(content) |-> content[i]] /\ Len(content) \in Nat
      OBVIOUS
    <2>4. \A i \in 1 .. Len(content) : content[i] = i
      BY <2>2, <2>3 DEF InOrder
    <2>5. content = [i \in 1 .. Len(content) |-> i]
      BY <2>3, <2>4
    <2> QED BY <2>1, <2>5
  <1> QED BY <1>1, <1>3, <1>4

LEMMA ForwardInOrder ==
    ASSUME ChatIInv, StreamsIInv, NEW m \in ReplyIds, ForwardAgentMessage(m) \/ ForwardStreamEnd(m),
           m \in Streams \/ ForwardAgentMessage(m)
    PROVE  StreamsIInv'
  <1>1. /\ UNCHANGED <<chunksRead, waiting, overtaken, streamBuffers, fullContent>>
        /\ Goto(m, "over") /\ Answer(m, "accepted") /\ StreamsOK /\ FlowOK
    BY DEF ForwardAgentMessage, ForwardStreamEnd, ChatIInv, PipelineOK
  <1>2. \A s \in Streams : /\ stage'[s] = "idle" => stage[s] = "idle"
                           /\ answers[s] \subseteq answers'[s]
    BY <1>1, FlowGrows DEF ReplyIds
  <1>3. \A s \in Streams : StreamInOrder(s)'
    BY <1>1, <1>2, StreamUntouched DEF StreamsIInv
  <1>4. StoredStreamIsPrefix'
    <2>1. CASE ForwardAgentMessage(m)
      <3>1. Store(m, TokenOf[visitorEntry[m]], <<>>) \/ UNCHANGED stored
        BY <2>1 DEF ForwardAgentMessage, PersistReply
      <3> QED BY <1>1, <1>2, <3>1, StoreInOrder, EmptyInOrder, EmptySeq DEF StreamsIInv
    <2>2. CASE ForwardStreamEnd(m) /\ m \in Streams
      <3>1. Store(m, TokenOf[visitorEntry[m]], fullContent[m]) \/ UNCHANGED stored
        BY <2>2 DEF ForwardStreamEnd, PersistReply
      <3>2. fullContent[m] \in Seq(1 .. Chunks)
        BY <1>1, <2>2 DEF StreamsOK
      <3>3. m \notin overtaken /\ "limited" \notin answers[m] => InOrder(fullContent[m], 0)
        BY <2>2 DEF StreamsIInv, StreamInOrder
      <3> QED BY <1>1, <1>2, <3>1, <3>2, <3>3, StoreInOrder DEF StreamsIInv
    <2> QED BY <2>1, <2>2
  <1> QED BY <1>3, <1>4 DEF StreamsIInv

LEMMA StreamsNext ==
    ASSUME ChatIInv, StreamsIInv, [ChatNext]_chatVars
    PROVE  StreamsIInv'
  <1>1. FlowOK /\ Streams \subseteq ReplyIds /\ Replies \subseteq ReplyIds
    BY DEF ChatIInv, PipelineOK, ReplyIds
  <1>2. CASE \/ Registry \/ RedisChanges \/ UNCHANGED chatVars
             \/ \E c \in AgentConns : AgentRegisters(c) \/ DrainOfflineQueue(c)
    <2>1. UNCHANGED <<stage, answers, chunksRead, waiting, overtaken, streamBuffers, fullContent,
                    stored>>
      BY <1>2 DEF Registry, RedisChanges, AgentRegisters, DrainOfflineQueue, agentSide, chatVars
    <2> QED BY <2>1, StreamsUntouched
  <1>3. CASE \E f \in Frames :
                \/ ReadVisitorMessage(f) \/ Checked(f) \/ Queued(f) \/ Requeued(f) \/ Persisted(f)
                \/ \E D \in SUBSET AgentConns : ForwardToAgents(f, D)
    <2> PICK f \in Frames :
                \/ ReadVisitorMessage(f) \/ Checked(f) \/ Queued(f) \/ Requeued(f) \/ Persisted(f)
                \/ \E D \in SUBSET AgentConns : ForwardToAgents(f, D)
      BY <1>3
    <2>1. UNCHANGED <<chunksRead, waiting, overtaken, streamBuffers, fullContent>>
      BY DEF ReadVisitorMessage, Checked, Queued, Requeued, Persisted, ForwardToAgents, agentSide
    <2>2. \E t : t # "idle" /\ Goto(f, t)
      BY DEF ReadVisitorMessage, Checked, RouteVisitorMessage, Enqueue, Queued, Requeued,
             Persisted, ForwardToAgents
    <2>3. UNCHANGED answers \/ \E kind : Answer(f, kind)
      BY DEF ReadVisitorMessage, Checked, RouteVisitorMessage, Enqueue, Queued, Requeued,
             Persisted, ForwardToAgents
    <2>4. \A s \in Streams : /\ stage'[s] = "idle" => stage[s] = "idle"
                             /\ answers[s] \subseteq answers'[s]
      BY <1>1, <2>2, <2>3, FlowGrows
    <2>5. \A row \in stored' : row \in stored \/ row.id \notin Streams
      <3>1. CASE Persisted(f)
        <4>1. IdOf[f] \in Ids /\ IdOf[f] \notin Streams
          BY <1>1
        <4> QED BY <3>1, <4>1 DEF Persisted, Store
      <3>2. CASE ~Persisted(f)
        BY <3>2 DEF ReadVisitorMessage, Checked, Queued, Requeued, ForwardToAgents
      <3> QED BY <3>1, <3>2
    <2> QED BY <2>1, <2>4, <2>5, StreamsUntouched
  <1>4. CASE \E m \in Replies :
                ReadAgentMessage(m) \/ RouteAgentMessage(m) \/ ForwardAgentMessage(m)
    <2> PICK m \in Replies : ReadAgentMessage(m) \/ RouteAgentMessage(m) \/ ForwardAgentMessage(m)
      BY <1>4
    <2>1. CASE ForwardAgentMessage(m)
      BY <1>1, <2>1, ForwardInOrder
    <2>2. CASE ReadAgentMessage(m) \/ RouteAgentMessage(m)
      <3>1. UNCHANGED <<chunksRead, waiting, overtaken, streamBuffers, fullContent, stored>>
        BY <2>2 DEF ReadAgentMessage, RouteAgentMessage, agentSide
      <3>2. \E t : t # "idle" /\ Goto(m, t)
        BY <2>2 DEF ReadAgentMessage, RouteAgentMessage
      <3>3. UNCHANGED answers \/ \E kind : Answer(m, kind)
        BY <2>2 DEF ReadAgentMessage, RouteAgentMessage
      <3>4. \A s \in Streams : /\ stage'[s] = "idle" => stage[s] = "idle"
                               /\ answers[s] \subseteq answers'[s]
        BY <1>1, <3>2, <3>3, FlowGrows
      <3> QED BY <3>1, <3>4, StreamsUntouched
    <2> QED BY <2>1, <2>2
  <1>5. CASE \E s \in Streams : \/ ReadStreamChunk(s) \/ StreamChunkChecked(s)
                                \/ ReadStreamEnd(s) \/ ForwardStreamEnd(s)
    BY <1>1, <1>5, ReadStreamChunkInOrder, StreamChunkCheckedInOrder, ReadStreamEndInOrder,
       ForwardInOrder
  <1> QED BY <1>2, <1>3, <1>4, <1>5 DEF ChatNext

\* With no chunk refused, and none that passed a waiting one because Redis was
\* gone, a stored stream is its beginning (handleStreamChunk buffers in the order
\* of Redis's answers, handleStreamEnd takes the buffer).
THEOREM StoredStreamsArePrefixes == ChatSpec => []StoredStreamIsPrefix
  <1>1. ChatIInv /\ StreamsIInv /\ [ChatNext]_chatVars => StreamsIInv'
    BY StreamsNext
  <1>2. StreamsIInv => StoredStreamIsPrefix
    BY DEF StreamsIInv
  <1> QED BY <1>1, <1>2, StreamsInitial, ChatInvariant, PTL DEF ChatSpec

=============================================================================

----------------------------- MODULE VisitorChat -----------------------------
(***************************************************************************)
(* The chat between visitors of a QR code and the agent behind it: the     *)
(* message pipeline (gateway/src/ws/router.ts), the deduplication keys and *)
(* offline queues in Redis (gateway/src/redis/*.ts) and the storing of     *)
(* messages (gateway/src/db/persist.ts), on top of VisitorRegistry.        *)
(*                                                                         *)
(* A frame's handler is not awaited by the one that reads the next frame,  *)
(* so handlers interleave at their awaits; an action is the code between   *)
(* two of them.  Awaits between which nothing is read are one.             *)
(*                                                                         *)
(* A message is its id; of a stream's content, the numbers of its chunks   *)
(* are kept.  Left out: typing and receipt frames, the expiry of the       *)
(* 5-minute deduplication keys and of the 24-hour queues, and the keys a   *)
(* message is encrypted with.  A command of Redis whose reply is lost has  *)
(* been executed or not; that the client may send it once more is not      *)
(* modelled.                                                               *)
(***************************************************************************)
EXTENDS VisitorRegistry, Sequences

CONSTANTS
    Frames,        \* visitor_message frames
    IdOf,          \* the message id of a frame; a retry has the same one
    Replies,       \* agent_message frames, by their id
    Streams,       \* streamed replies, by their id
    On,            \* the connection that brings a frame, or a stream's frames
    ServedBy,      \* the agent of a QR code
    To,            \* the session (conversation_id) of a reply or a stream
    Chunks,        \* chunks of a stream
    MaxQueue,      \* MAX_QUEUE_LENGTH
    RedisFails,    \* whether the connection to Redis may be lost, and commands fail
    Scenarios      \* the connections and messages of a behaviour, one of these

ReplyIds == Replies \cup Streams
Ids == {IdOf[f] : f \in Frames}
ASSUME FramesAssumption == /\ IdOf \in [Frames -> Ids]
                           /\ On \in [Frames \cup ReplyIds -> Conns]
                           /\ \A f \in Frames : On[f] \in VisitorConns
                           /\ \A m \in ReplyIds : On[m] \in AgentConns
ASSUME IdsAssumption == Ids \cap ReplyIds = {}
ASSUME ToAssumption == To \in [ReplyIds -> Tokens]
ASSUME ServedByAssumption == ServedBy \in [QrCodes -> Agents]
ASSUME BoundsAssumption == Chunks \in Nat /\ MaxQueue \in Nat \ {0}

VARIABLES
    redis,        \* isRedisConnected()
    dedup,        \* ids with a deduplication key
    stage,        \* stage[f]: where the handler of a frame stands, see Stages
    answers,      \* answers[f]: the acks and errors sent for it
    unchecked,    \* frames admitted without a look at the keys (history)
    offline,      \* offline[a]: the ids queued for agent a
    draining,     \* connections whose drainOfflineQueue is not answered
    inbox,        \* inbox[c]: visitors' messages that ws.send took on c
    lost,         \* ids that left a queue for nowhere (history)
    unqueued,     \* frames taken for queued whose commands failed (history)
    visitorEntry, \* visitorEntry[m]: what a reply's handler looked up
    chunksRead,   \* chunksRead[s]: chunk frames of a stream read so far
    waiting,      \* waiting[s]: their handlers that await, in order
    overtaken,    \* streams with a chunk that passed waiting ones (history)
    streamBuffers,\* streamBuffers[s]: the chunks buffered
    fullContent,  \* fullContent[s]: what stream_end found there
    shown,        \* shown[c]: replies and chunks that ws.send took on c
    stored        \* rows of messages: id, session, chunks

visitorSide == <<dedup, unchecked, offline, draining, inbox, lost, unqueued>>
agentSide == <<visitorEntry, chunksRead, waiting, overtaken, streamBuffers, fullContent, shown>>
chatVars == <<chatRegistryVars, redis, visitorSide, agentSide, stage, answers, stored>>

(***************************************************************************)
(* checking    awaiting the rate limit and the deduplication key           *)
(* queueing    no agent: awaiting the offline queue                        *)
(* prompting   accepted; awaiting the system prompt                        *)
(* requeueing  no agent took it: awaiting the offline queue                *)
(* persisting  awaiting the database                                       *)
(***************************************************************************)
Stages == {"idle", "checking", "queueing", "prompting", "requeueing", "persisting", "over"}
Answers == {"accepted", "duplicate", "rejected", "limited", "error"}

ChatTypeOK ==
    /\ RegistryTypeOK
    /\ redis \in BOOLEAN
    /\ dedup \subseteq Ids
    /\ stage \in [Frames \cup ReplyIds -> Stages]
    /\ answers \in [Frames \cup ReplyIds -> SUBSET Answers]
    /\ unchecked \subseteq Frames
    /\ offline \in [Agents -> Seq(Ids)]
    /\ draining \subseteq AgentConns
    /\ inbox \in [AgentConns -> Seq(Ids)]
    /\ lost \subseteq Ids
    /\ unqueued \subseteq Frames
    /\ visitorEntry \in [ReplyIds -> VisitorConns \cup {NoConn}]
    /\ chunksRead \in [Streams -> 0 .. Chunks]
    /\ waiting \in [Streams -> Seq(1 .. Chunks)]
    /\ overtaken \subseteq Streams
    /\ streamBuffers \in [Streams -> Seq(1 .. Chunks)]
    /\ fullContent \in [Streams -> Seq(1 .. Chunks)]
    /\ shown \in [VisitorConns -> Seq(ReplyIds \X (0 .. Chunks + 1))]
    /\ stored \subseteq [id : Ids \cup ReplyIds, token : Tokens, content : Seq(1 .. Chunks)]

ChatInit ==
    /\ \E used \in Scenarios :
          /\ RegistryInit(used)
          /\ stage = [f \in Frames \cup ReplyIds |-> IF f \in used THEN "idle" ELSE "over"]
    /\ redis = TRUE
    /\ dedup = {}
    /\ answers = [f \in Frames \cup ReplyIds |-> {}]
    /\ unchecked = {}
    /\ offline = [a \in Agents |-> <<>>]
    /\ draining = {}
    /\ inbox = [c \in AgentConns |-> <<>>]
    /\ lost = {}
    /\ unqueued = {}
    /\ visitorEntry = [m \in ReplyIds |-> NoConn]
    /\ chunksRead = [s \in Streams |-> 0]
    /\ waiting = [s \in Streams |-> <<>>]
    /\ overtaken = {}
    /\ streamBuffers = [s \in Streams |-> <<>>]
    /\ fullContent = [s \in Streams |-> <<>>]
    /\ shown = [c \in VisitorConns |-> <<>>]
    /\ stored = {}

-----------------------------------------------------------------------------
(* Helpers.                                                                *)

\* sendFrame takes the frame if the socket is OPEN, unless it is backlogged.
CanTake(c) == sock[c] = "open"

Goto(f, s) == stage' = [stage EXCEPT ![f] = s]

Answer(f, kind) == answers' = [answers EXCEPT ![f] = @ \cup {kind}]

\* insertMessage: a row with that id makes the insert a no-op.
Store(id, token, content) ==
    stored' = IF \E row \in stored : row.id = id THEN stored
              ELSE stored \cup {[id |-> id, token |-> token, content |-> content]}

\* A frame to session t: fanoutFrame looks the connection up again.
FanoutToVisitor(t, item) ==
    LET c == GetVisitorConnection(t)
    IN  \/ c # NoConn /\ CanTake(c) /\ shown' = [shown EXCEPT ![c] = Append(@, item)]
        \/ UNCHANGED shown

Elements(q) == {q[i] : i \in 1 .. Len(q)}

\* RPUSH and LTRIM of enqueueOfflineMessage
Enqueued(q, id) ==
    LET r == Append(q, id)
    IN  SubSeq(r, Len(r) - (IF Len(r) < MaxQueue THEN Len(r) ELSE MaxQueue) + 1, Len(r))

\* The commands of enqueueOfflineMessage are executed.
EnqueueDone(f) ==
    LET a == ServedBy[QrOf[On[f]]]
    IN  /\ offline' = [offline EXCEPT ![a] = Enqueued(@, IdOf[f])]
        /\ lost' = lost \cup (Elements(Append(offline[a], IdOf[f])) \ Elements(offline'[a]))
        /\ UNCHANGED unqueued

\* They fail; pipeline.exec() reports that in its results, which are not looked
\* at.
EnqueueFails(f) ==
    /\ RedisFails
    /\ unqueued' = unqueued \cup {f}
    /\ UNCHANGED <<offline, lost>>

\* enqueueOfflineMessage, called with Redis connected, comes back with true.
EnqueueOfflineMessage(f) == EnqueueDone(f) \/ EnqueueFails(f)

-----------------------------------------------------------------------------
(* Connections.  An agent that registers has its queue drained.            *)

Registry ==
    /\ \E c \in Conns : ConnectVisitor(c) \/ ReplaceAgent(c) \/ PeerClose(c) \/ CloseEvent(c)
    /\ UNCHANGED <<redis, visitorSide, agentSide, stage, answers, stored>>

\* completeAuth of an agent after its await.  drainOfflineQueue is called, and
\* returns nothing at once where Redis is not connected.
AgentRegisters(c) ==
    /\ c \in AgentConns
    /\ \E list \in {{}, {q \in QrCodes : ServedBy[q] = AgentOf[c]}} : ResolvedAgent(c, list)
    /\ draining' = IF redis THEN draining \cup {c} ELSE draining
    /\ UNCHANGED <<redis, dedup, unchecked, offline, inbox, lost, unqueued, agentSide, stage,
                   answers, stored>>

\* The queue is answered and its messages are sent; what the socket does not
\* take is gone.
Drained(c) ==
    LET q == offline[AgentOf[c]]
    IN  /\ redis
        /\ offline' = [offline EXCEPT ![AgentOf[c]] = <<>>]
        /\ IF CanTake(c) THEN inbox' = [inbox EXCEPT ![c] = @ \o q] /\ UNCHANGED lost
           ELSE lost' = lost \cup Elements(q) /\ UNCHANGED inbox

\* The script fails, before or after it deleted the queue: with its reply lost
\* the messages are gone.
DrainFails(c) ==
    LET q == offline[AgentOf[c]]
    IN  /\ RedisFails
        /\ \/ UNCHANGED <<offline, lost>>
           \/ /\ offline' = [offline EXCEPT ![AgentOf[c]] = <<>>]
              /\ lost' = lost \cup Elements(q)
        /\ UNCHANGED inbox

\* drainOfflineQueue comes back
DrainOfflineQueue(c) ==
    /\ c \in draining
    /\ draining' = draining \ {c}
    /\ Drained(c) \/ DrainFails(c)
    /\ UNCHANGED <<chatRegistryVars, redis, dedup, unchecked, unqueued, agentSide, stage,
                   answers, stored>>

\* The connection to Redis breaks, or is back.
RedisChanges ==
    /\ RedisFails
    /\ redis' = ~redis
    /\ UNCHANGED <<chatRegistryVars, visitorSide, agentSide, stage, answers, stored>>

-----------------------------------------------------------------------------
(* handleVisitorMessage.                                                   *)

\* The frame is read.
ReadVisitorMessage(f) ==
    /\ stage[f] = "idle"
    /\ sock[On[f]] = "open"
    /\ Goto(f, "checking")
    /\ UNCHANGED <<chatRegistryVars, redis, visitorSide, agentSide, answers, stored>>

\* The handler's call of enqueueOfflineMessage, which returns false at once
\* where Redis is not connected.
Enqueue(f, awaiting) ==
    IF redis THEN Goto(f, awaiting) /\ UNCHANGED answers
    ELSE Goto(f, "over") /\ Answer(f, "rejected")

\* The route lookup, where the handler goes on in the step that admits f.
RouteVisitorMessage(f) ==
    IF GetAgentForQrCode(QrOf[On[f]]) = {} THEN Enqueue(f, "queueing")
    ELSE Goto(f, "prompting") /\ Answer(f, "accepted")

\* Slip: the key is looked at and not set.
CheckedNoMark(f) ==
    /\ stage[f] = "checking"
    /\ \/ /\ redis
          /\ IdOf[f] \notin dedup
          /\ RouteVisitorMessage(f)
          /\ UNCHANGED <<dedup, unchecked>>
       \/ /\ ~redis
          /\ unchecked' = unchecked \cup {f}
          /\ RouteVisitorMessage(f)
          /\ UNCHANGED dedup
    /\ UNCHANGED <<chatRegistryVars, redis, offline, draining, inbox, lost, unqueued, agentSide, stored>>

\* The limit and the key are answered.  A key that is new is set by the same
\* command; without Redis both checks are skipped, or the one under way fails.
Checked(f) ==
    /\ stage[f] = "checking"
    /\ \/ /\ redis
          /\ Goto(f, "over")
          /\ Answer(f, "limited")
          /\ UNCHANGED <<dedup, unchecked>>
       \/ /\ redis
          /\ IdOf[f] \in dedup
          /\ Goto(f, "over")
          /\ Answer(f, "duplicate")
          /\ UNCHANGED <<dedup, unchecked>>
       \/ /\ redis
          /\ IdOf[f] \notin dedup
          /\ dedup' = dedup \cup {IdOf[f]}
          /\ RouteVisitorMessage(f)
          /\ UNCHANGED unchecked
       \/ /\ ~redis
          /\ unchecked' = unchecked \cup {f}
          /\ RouteVisitorMessage(f)
          /\ UNCHANGED dedup
       \/ /\ ~redis
          /\ Goto(f, "over")
          /\ Answer(f, "error")
          /\ dedup' \in {dedup, dedup \cup {IdOf[f]}}
          /\ UNCHANGED unchecked
    /\ UNCHANGED <<chatRegistryVars, redis, offline, draining, inbox, lost, unqueued, agentSide, stored>>

\* Slip: what no agent took is taken for delivered.
ForwardToAgentsOnce(f, D) ==
    /\ stage[f] = "prompting"
    /\ D \subseteq {c \in GetAgentForQrCode(QrOf[On[f]]) : CanTake(c)}
    /\ inbox' = [c \in AgentConns |->
                    IF c \in D THEN Append(inbox[c], IdOf[f]) ELSE inbox[c]]
    /\ Goto(f, "persisting") /\ UNCHANGED answers
    /\ UNCHANGED <<chatRegistryVars, redis, dedup, unchecked, offline, draining, lost, unqueued,
                   agentSide, stored>>

\* Slip: a message one of the agents did not take is queued as well.
ForwardToAllAgents(f, D) ==
    /\ stage[f] = "prompting"
    /\ D \subseteq {c \in GetAgentForQrCode(QrOf[On[f]]) : CanTake(c)}
    /\ inbox' = [c \in AgentConns |->
                    IF c \in D THEN Append(inbox[c], IdOf[f]) ELSE inbox[c]]
    /\ IF D # GetAgentForQrCode(QrOf[On[f]]) THEN Enqueue(f, "requeueing")
       ELSE Goto(f, "persisting") /\ UNCHANGED answers
    /\ UNCHANGED <<chatRegistryVars, redis, dedup, unchecked, offline, draining, lost, unqueued,
                   agentSide, stored>>

\* The system prompt is answered: fanoutFrame to the agents there are now.
\* D is the set of connections whose socket takes the frame.
ForwardToAgents(f, D) ==
    /\ stage[f] = "prompting"
    /\ D \subseteq {c \in GetAgentForQrCode(QrOf[On[f]]) : CanTake(c)}
    /\ inbox' = [c \in AgentConns |->
                    IF c \in D THEN Append(inbox[c], IdOf[f]) ELSE inbox[c]]
    /\ IF D = {} THEN Enqueue(f, "requeueing")
       ELSE Goto(f, "persisting") /\ UNCHANGED answers
    /\ UNCHANGED <<chatRegistryVars, redis, dedup, unchecked, offline, draining, lost, unqueued,
                   agentSide, stored>>

\* A message queued because there was no agent is acknowledged now and never
\* stored.
Queued(f) ==
    /\ stage[f] = "queueing"
    /\ EnqueueOfflineMessage(f)
    /\ Goto(f, "over")
    /\ Answer(f, "accepted")
    /\ UNCHANGED <<chatRegistryVars, redis, dedup, unchecked, draining, inbox, agentSide, stored>>

\* One that no agent took was acknowledged before.
Requeued(f) ==
    /\ stage[f] = "requeueing"
    /\ EnqueueOfflineMessage(f)
    /\ Goto(f, "persisting")
    /\ UNCHANGED <<chatRegistryVars, redis, dedup, unchecked, draining, inbox, agentSide,
                   answers, stored>>

\* persistMessage is done; its errors are swallowed.
Persisted(f) ==
    /\ stage[f] = "persisting"
    /\ Goto(f, "over")
    /\ Store(IdOf[f], TokenOf[On[f]], <<>>) \/ UNCHANGED stored
    /\ UNCHANGED <<chatRegistryVars, redis, visitorSide, agentSide, answers>>

-----------------------------------------------------------------------------
(* handleAgentMessage.                                                     *)

ReadAgentMessage(m) ==
    /\ stage[m] = "idle"
    /\ Receiving(On[m])
    /\ Goto(m, "checking")
    /\ UNCHANGED <<chatRegistryVars, redis, visitorSide, agentSide, answers, stored>>

\* The checks are answered, and the visitor is looked up.
RouteAgentMessage(m) ==
    /\ stage[m] = "checking"
    /\ \/ /\ Goto(m, "over")
          /\ Answer(m, IF redis THEN "limited" ELSE "error")
          /\ UNCHANGED visitorEntry
       \/ /\ Goto(m, "persisting")
          /\ visitorEntry' = [visitorEntry EXCEPT ![m] = GetVisitorConnection(To[m])]
          /\ UNCHANGED answers
    /\ UNCHANGED <<chatRegistryVars, redis, visitorSide, chunksRead, waiting, overtaken, streamBuffers,
                   fullContent, shown, stored>>

\* What persistMessage does for a reply: it needs the visitor's QR code and
\* session, which only a connection found for the session provides.
PersistReply(m, content) ==
    IF visitorEntry[m] = NoConn THEN UNCHANGED stored
    ELSE Store(m, TokenOf[visitorEntry[m]], content) \/ UNCHANGED stored

\* persistMessage is done: the reply is forwarded and acknowledged.
ForwardAgentMessage(m) ==
    /\ stage[m] = "persisting"
    /\ Goto(m, "over")
    /\ PersistReply(m, <<>>)
    /\ IF visitorEntry[m] = NoConn THEN UNCHANGED shown ELSE FanoutToVisitor(To[m], <<m, 0>>)
    /\ Answer(m, "accepted")
    /\ UNCHANGED <<chatRegistryVars, redis, visitorSide, visitorEntry, chunksRead, waiting, overtaken,
                   streamBuffers, fullContent>>

-----------------------------------------------------------------------------
(* handleStreamChunk and handleStreamEnd.                                  *)

\* Slip: the buffer is put together latest chunk first.
BufferChunkFront(s, k) ==
    /\ streamBuffers' = [streamBuffers EXCEPT ![s] = <<k>> \o @]
    /\ FanoutToVisitor(To[s], <<s, k>>)

\* The rest of handleStreamChunk, behind the limit: chunk k is buffered and
\* forwarded.
BufferChunk(s, k) ==
    /\ streamBuffers' = [streamBuffers EXCEPT ![s] = Append(@, k)]
    /\ FanoutToVisitor(To[s], <<s, k>>)

\* A chunk is read and awaits the limit.  Without Redis it is admitted at once,
\* before the chunks that still await their answer.
ReadStreamChunk(s) ==
    /\ stage[s] = "idle"
    /\ Receiving(On[s])
    /\ chunksRead[s] < Chunks
    /\ chunksRead' = [chunksRead EXCEPT ![s] = @ + 1]
    /\ IF redis
       THEN /\ waiting' = [waiting EXCEPT ![s] = Append(@, chunksRead'[s])]
            /\ UNCHANGED <<overtaken, streamBuffers, shown>>
       ELSE /\ BufferChunk(s, chunksRead'[s])
            /\ overtaken' = IF waiting[s] = <<>> THEN overtaken ELSE overtaken \cup {s}
            /\ UNCHANGED waiting
    /\ UNCHANGED <<chatRegistryVars, redis, visitorSide, visitorEntry, fullContent,
                   stage, answers, stored>>

\* The limit's commands come back in the order they were sent: the oldest
\* waiting chunk is admitted, or refused and gone.  With the commands failed
\* nothing was counted and it is admitted.
StreamChunkChecked(s) ==
    /\ waiting[s] # <<>>
    /\ waiting' = [waiting EXCEPT ![s] = Tail(@)]
    /\ \/ BufferChunk(s, Head(waiting[s])) /\ UNCHANGED answers
       \/ redis /\ Answer(s, "limited") /\ UNCHANGED <<streamBuffers, shown>>
    /\ UNCHANGED <<chatRegistryVars, redis, visitorSide, visitorEntry, chunksRead, overtaken,
                   fullContent, stage, stored>>

\* resolveFallbackQrCodeId finds one: the agent has exactly one QR code.
HasFallbackQrCode(s) == \E q \in QrCodes : agentToQrCodes[AgentOf[On[s]]] = {q}

\* stream_end is read.  Nothing is awaited before the buffer is taken, so the
\* chunks whose handlers still wait are not in it.
ReadStreamEnd(s) ==
    /\ stage[s] = "idle"
    /\ Receiving(On[s])
    /\ chunksRead[s] > 0
    /\ fullContent' = [fullContent EXCEPT ![s] = streamBuffers[s]]
    /\ streamBuffers' = [streamBuffers EXCEPT ![s] = <<>>]
    /\ visitorEntry' = [visitorEntry EXCEPT ![s] = GetVisitorConnection(To[s])]
    /\ Goto(s, IF visitorEntry'[s] = NoConn /\ ~HasFallbackQrCode(s) THEN "over"
               ELSE "persisting")
    /\ UNCHANGED <<chatRegistryVars, redis, visitorSide, chunksRead, waiting, overtaken, shown,
                   answers, stored>>

\* persistMessage is done (an empty content is not stored): the end is
\* forwarded and acknowledged.
ForwardStreamEnd(s) ==
    /\ stage[s] = "persisting"
    /\ Goto(s, "over")
    /\ IF fullContent[s] = <<>> THEN UNCHANGED stored ELSE PersistReply(s, fullContent[s])
    /\ IF visitorEntry[s] = NoConn THEN UNCHANGED shown
       ELSE FanoutToVisitor(To[s], <<s, Chunks + 1>>)
    /\ Answer(s, "accepted")
    /\ UNCHANGED <<chatRegistryVars, redis, visitorSide, visitorEntry, chunksRead, waiting, overtaken,
                   streamBuffers, fullContent>>

-----------------------------------------------------------------------------
ChatNext ==
    \/ Registry
    \/ \E c \in AgentConns : AgentRegisters(c) \/ DrainOfflineQueue(c)
    \/ RedisChanges
    \/ \E f \in Frames :
          \/ ReadVisitorMessage(f) \/ Checked(f) \/ Queued(f) \/ Requeued(f) \/ Persisted(f)
          \/ \E D \in SUBSET AgentConns : ForwardToAgents(f, D)
    \/ \E m \in Replies : ReadAgentMessage(m) \/ RouteAgentMessage(m) \/ ForwardAgentMessage(m)
    \/ \E s \in Streams :
          ReadStreamChunk(s) \/ StreamChunkChecked(s) \/ ReadStreamEnd(s) \/ ForwardStreamEnd(s)

ChatSpec == ChatInit /\ [][ChatNext]_chatVars

-----------------------------------------------------------------------------
(* Properties.                                                             *)

\* No frame of this message was admitted without a look at the keys.
AllChecked(id) == \A f \in unchecked : IdOf[f] # id

Once(q, id) == \A i, j \in 1 .. Len(q) : q[i] = id /\ q[j] = id => i = j

Handed(id) == {c \in AgentConns : id \in Elements(inbox[c])}

\* A message sent twice under one id is handed over once, whatever agents come
\* and go meanwhile: to no socket twice, and either to sockets or to the queue
\* ("the same message_id is handled once",
\* requirements/technical-specification-supplement-testing.md:265).  Only an
\* outage of Redis, when nothing is deduplicated, is excepted.
HandedOverOnce ==
    \A id \in Ids : AllChecked(id) =>
        /\ \A c \in AgentConns : Once(inbox[c], id)
        /\ \A a \in Agents :
              /\ Once(offline[a], id)
              /\ id \in Elements(offline[a]) => Handed(id) = {} /\ id \notin lost

\* The message of f reached a socket or a queue, though a queue may lose it: to
\* the newest MaxQueue messages, to a socket that was closed before the drained
\* queue came, or with the reply of the script that drains it.
Forwarded(f) ==
    \/ Handed(IdOf[f]) # {}
    \/ \E a \in Agents : IdOf[f] \in Elements(offline[a])
    \/ IdOf[f] \in lost

AcceptedAtLast(f) == stage[f] \in {"persisting", "over"} /\ answers[f] = {"accepted"}

\* A message whose visitor was told `accepted', and nothing worse later, was
\* forwarded or queued when its handler ends, although the acknowledgement
\* precedes the forwarding and agents come and go: only where Redis failed the
\* commands that queue it is it nowhere.
AcceptedIsAccountedFor ==
    \A f \in Frames : AcceptedAtLast(f) => Forwarded(f) \/ f \in unqueued

\* enqueueOfflineMessage "Returns true if enqueued, false if Redis unavailable"
\* (gateway/src/redis/offline-queue.ts:27), so what is acknowledged after it
\* returned true is in the queue.
AcceptedIsForwarded == \A f \in Frames : AcceptedAtLast(f) => Forwarded(f)

\* A message that the visitor is told was rejected is never seen by an agent,
\* neither then nor at a later connection.
RejectedIsNotDelivered ==
    \A f \in Frames : "rejected" \in answers[f] /\ AllChecked(IdOf[f]) =>
        /\ Handed(IdOf[f]) = {}
        /\ \A a \in Agents : IdOf[f] \notin Elements(offline[a])

\* A reply is shown only on connections of the session it is for, and stored
\* under that session, however connections change while it is on its way.
OnlyItsConversation ==
    /\ \A c \in VisitorConns : \A i \in 1 .. Len(shown[c]) : To[shown[c][i][1]] = TokenOf[c]
    /\ \A row \in stored : row.id \in ReplyIds => row.token = To[row.id]

\* What is stored of a stream is its beginning: chunks are missing only at the
\* end, with no chunk refused by the limit, and none read while Redis was down
\* and an earlier one still awaited its answer.
StoredStreamIsPrefix ==
    \A row \in stored :
        row.id \in Streams /\ row.id \notin overtaken /\ "limited" \notin answers[row.id] =>
            row.content = [i \in 1 .. Len(row.content) |-> i]

\* "finalize stream, persist full message" (gateway/src/ws/router.ts:483): the
\* stored message has every chunk that was read before its end.
StreamIsStoredInFull ==
    \A row \in stored : row.id \in Streams /\ "limited" \notin answers[row.id] =>
        Len(row.content) = chunksRead[row.id]
=============================================================================

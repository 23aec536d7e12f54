# TLA+ verification of QRClaw

QRClaw connects people to AI agents. A *gateway* (Node, one process, one event
loop) keeps WebSocket connections to *agent hosts* (a Go program on the owner's
machine that runs Claude, Codex and other providers), hands them *runs* on
behalf of the owner's browser, streams the answers back, and carries the chat
between visitors of a QR code and the owner's agents. Rows live in Supabase
(Postgres over HTTP), queues and presence of the visitor chat in Redis.

This directory holds TLA+ models of that system, the TLC runs that check them
on small instances, and proofs that TLAPS checks for every instance. File and
line references are relative to the repository's root; `gateway/` means
`gateway/src/`.

## Inventory

| part | state it keeps | operations | what must hold |
|---|---|---|---|
| Agent-host registry, `gateway/services/agent-host-registry.ts` | one entry per host, tracked runs with their last sequence number, frames waiting per host | register, unregister on close, heartbeat, capabilities, revoke, sweep of stale hosts, dispatch and flush, record accepted / seq / end of a run | a frame is sent at most once and to its host; an entry belongs to a live, admitted connection; a connected host is not forgotten |
| WebSocket life cycle, `gateway/ws/handler.ts`, `ws/auth.ts` | a socket's state and its timers | verify the ticket, buffer early frames, attach handlers, close | no connection is registered whose end is never noticed |
| Host frame router, `gateway/ws/host-router.ts` | number of events in flight | one handler per frame kind; check the sequence, load the run, record, publish, persist | one answer per run, no gap admitted, none imagined, status and answer agree |
| Owner run service, `gateway/services/owner-agent-chat.ts` | none of its own; rows of runs and messages | send, resend, reset, time out runs, expire messages | a pending message is not executed, limits hold, terminal statuses stay |
| Owner-chat rows, `gateway/db/owner-agent-chat.ts` | runs, messages, events, conversations, keys, hosts | single statements over HTTP | no lost update, unique rows |
| Run stream, `gateway/routes/owner-agent-chat-sse.ts`, `ws/stream-hub.ts` | a subscription, a timer and the open response | subscribe, write frames, finish once, client close | one end per stream, nothing after it, nothing leaks |
| Host process, `qrclaw-agent-host` | a read loop, a goroutine per run | register, heartbeat, take a run, answer | one terminal frame per run it took |
| Host presence, `agent_hosts`, `gateway/db/owner-runtimes.ts` | status rows | written by register, heartbeat, close, sweep | the row agrees with the registry when all is quiet |
| Host tokens, `gateway/routes/owner-host-tokens.ts` | token rows | create, delete | a deleted token's connection is closed |
| Connection registry, `gateway/ws/registry.ts`, `ws/fanout.ts` | five maps of visitors' and agents' connections | register, unregister, register QR codes, look up, fan out | the maps agree; an open connection is found; a runtime keeps its routes |
| Message pipeline, `gateway/ws/router.ts`, `redis/*` | deduplication keys, offline queues, stream buffers | visitor message, agent reply, stream chunk and end, drain of a queue | a message is handed over or queued once; what is accepted is accounted for, what is rejected is not delivered; replies stay in their conversation |
| Keys, `gateway/crypto/*` | a cache of conversation keys, key rows | get, create, unwrap | the cached key is the stored one |
| Persistence, `gateway/db/persist.ts` | conversations, messages | insert | a message is stored once, under its own session |
| Owner chat in the browser, `web/src/stores/owner-agent-chat-store.ts` | the agent's messages and status, the stream under way | send, stop, take a chunk, a frame, a polled reply, a history | a finished send stays finished, stop reaches the stream, texts are not lost or mixed |
| OpenClaw plugin, `plugins/openclaw/src` | a connection with its attempts and timers, the set of seen message ids, a replay | connect, reconnect, disconnect, take a frame, replay the stored messages | it goes on trying, one attempt at a time; a message is handed over once; a disconnect is final |
| Rest of the web client, macOS application, edge functions, contracts | | | left out, see below |

How they interact, on the owner's side: the HTTP request of the owner creates
the rows and calls the registry, which writes to the host's socket; the host's
frames come back through the router, which updates the registry, publishes to
the stream hub (which the SSE response listens to) and starts database writes
it does not wait for. The close event of a socket, a heartbeat timer and the
deletion of a token change the registry from outside. The browser gets a run's
answer from the response and from its own WebSocket, polls the stored
conversation, and loads the history; nothing orders the four. On the visitors'
side the router takes a message from a visitor's socket to the sockets of the
agent behind the QR code, or to a queue in Redis that is drained when the agent
connects, and takes replies and streams back by the visitor's session token.
The agent's end of such a socket is the plugin, which also fetches what was
stored meanwhile.

What is hard here: frame handlers are not awaited (`ws/handler.ts:457`), so two
frames of one host interleave at every `await`; database writes are separate
HTTP requests that may be answered in any order; sweeps await between their
iterations; connections are replaced while the old one's close event is still
to come; an answer or a message arrives on several ways at once. `PROJECT.json`
lists each such hazard at its line.

## Modules

- `HostRegistry` - the registry with the socket life cycle that drives it. One
  action is the code between two awaits. `hostConnections`, `pendingDispatches`
  are the maps of that name; `activeHost` and `lastSeq` are `activeRuns`;
  `lastSeen` abstracts the time stamps to fresh and stale; `sweep[c]` is what is
  left of the sweeps started by the timer of connection `c`, one of which may
  begin while the one before it awaits; `wire[c]` is what
  `ws.send` took on `c`; `target` is a history variable. `socket[c]` includes
  `zombie`: a connection whose peer died while its ticket was verified, and
  whose close handler was therefore attached after the close event.
- `RunDispatch` - the abstract dispatcher: a frame is idle, queued, sent or
  lost. `HostRegistry` implements it (`DispatchSpec`).
- `OwnerRun` - extends `HostRegistry` with everything a run passes through: the
  request's stages (`req`), the rows (`runRow`, `msgRow`, `answers`), the
  database writes under way (`jobs`), the handlers that await
  `loadAuthorizedRun` (`handlers`), the frames of the host not yet read (`up`),
  the host's goroutines (`taken`, `work`, `emitted`) and what is given to
  `publishRunFrame` (`published`). A write and the code that resumes when it is
  answered are one step. A completion may carry a `final_message` or not
  (`final`); without one no answer is written. Any request of a handler to the
  database may fail (`HandlerThrows`, `WriteThrows`), and the reaper may list a
  run in any state it asks for (`ListTimedOut`).
- `RunFrames` - what the router promises about the frames it publishes for a
  run. `OwnerRun` implements it (`PublishedAsPromised`) and `RunStream` starts
  from it, so that the stream is checked against every order of frames without
  the thousands of states behind them.
- `RunStream` - one request of the OpenAI-compatible route. The variables are
  the closure's (`streamOpened`, `subscription`, `heartbeat`, `finished`,
  `wroteTextDelta`); `due` counts the published frames that must show, as
  thinking and events without a text write nothing; `phase` is where the
  handler awaits, `slicesLeft` where the loop of `emitCompletionChunks` sleeps,
  `out` the kinds of what was written. The hub calls its listener
  synchronously, so publishing a frame and handling it are one action
  (`Publish`).
- `VisitorRegistry` - the connection registry and the life of the connections
  that drives it. The maps have the code's names; `sock[c]` says where a
  connection stands between its ticket and its close handler. An agent's
  connection is replaced and registered in two actions, because `completeAuth`
  awaits its QR codes in between. `lost` and `zombie` are connections whose
  close event came before there was a handler for it.
- `VisitorChat` - extends `VisitorRegistry` with the pipeline: `stage[f]` is
  where the handler of a frame awaits, `waiting` the chunks whose handlers
  await the limit, `dedup` and `offline` what Redis holds, `inbox[c]` and
  `shown[c]` what the sockets took, `stored` the rows. Redis may be lost and
  come back between any two steps, and its commands may fail, executed or not:
  `unqueued` and `lost` record the messages this costs, `overtaken` the streams
  in which a chunk passed others that await the limit. It implements
  `VisitorRegistry`: its steps on the registry's variables are steps of
  `RegistrySpec`.
- `OwnerChatStore` - the chat of one agent in the browser. `list` is
  `messagesByAgent` (the agent's messages), `active` is `activeStreams`, `pc` is
  where `sendMessage` awaits. A run's answer is a sequence of pieces that the
  gateway writes to the response and to the WebSocket, each in order, frames
  possibly lost or repeated. An abort ends a pending `fetch` or `read` in a
  microtask, so its end is a part of the step that aborts (`Cut`, `AfterCut`).
- `PluginConnection` - `QRClawConnection` of the plugin: tickets under way,
  sockets and timers are counted apart from `this.ws`, which names the last
  socket only.
- `AgentPlugin` - extends it with what is handed to the agent: live frames, the
  shared set of seen ids (`seen`, first in first out), and the replay that pages
  through the stored rows from the newest, those of the agent itself included. A
  read that fails comes as an empty page, and the agent may throw at a message.
  It implements `PluginConnection`.
- `Loops` - lemmas about loops that are recursive functions; the proofs about
  `OwnerChatStore` and `AgentPlugin` use them.
- `*_proofs` - the theorems about the module of that name.
- `MC*` - instances for TLC.

Some definitions are marked *slip*: a way to get a definition of the code
wrong. They are used by no specification; `PROJECT.json` ("mutants") names for
each property a slip that violates it, which shows that the property can fail.

## Runs

| run | instance | shows |
|---|---|---|
| `registry_safety` | 2 hosts, 3 connections (2 of one host), 2 runs; about 208,000 states | at most one dispatch, right host, live entries, tracked runs were sent, only a sweep forgets an open connection, refinement of `RunDispatch` |
| `registry_sweep` | the same, 1 run; violation | `OpenHostIsRegistered` fails: finding 1 |
| `owner_gohost` | 1 host, 2 connections, a run and its resend, dead registrations; about 970,000 states | one answer and one end per run; no false `seq_gap` for the Go host |
| `owner_events` | 1 run, 2 events, 1 event in flight, completions with and without an answer, a failing database and the reaper, one connection refused; about 1,260,000 states | a completed run has the answer it brought and all events; what is published implements `RunFrames` |
| `owner_liveness` | 1 run, dead registrations, revocation and sweeps, completions with and without an answer, under fairness; about 207,000 states | a dispatched run ends or its connection is lost; a shown answer is stored |
| `owner_final` | 1 run and the reaper; violation | finding 2 |
| `owner_pending` | violation | finding 3 |
| `stream` | 1 request, 4 slices, 2 events, 2 heartbeat comments; about 47,000 states | one end per stream and nothing after it, no frame missed that makes a text or a comment, the answer once, listener and timer released, no stream hangs on a run that is over |
| `chat` | 2 runtimes of an agent, 3 visitor connections of 2 sessions, a message and its retry, a reply, a stream of 2 chunks, a queue of 1, outages of Redis and failing commands; about 1,610,000 states | the maps agree, routes and sessions are kept, a message is handed over once, accepted and rejected mean what they say unless Redis failed the queueing, replies and stored streams are right |
| `chat_session` | the same; violation | finding 4 |
| `store` | 2 overlapping sends, or a send of 2 pieces and a run of another page; about 1,210,000 states | a finished send stays finished, status and stop follow the live send, texts are in their own bubble and stay |
| `plugin` | 3 sockets, or 2 sockets and 3 messages (1 of them the agent's), 2 attempts, 2 seen ids, pages of 2, failing reads and dispatches; about 610,000 states | it goes on trying, one attempt at a time, a disconnect is final, a message is handed over once, a replay misses only what is behind a seen row |

The type invariants of `HostRegistry`, `RunStream` and `VisitorChat` are proved
for every instance and are not run.

### Bounds

Two connections of one host are what every replacement needs; the third, of
another host, is what a sweep needs to await something. Two runs are needed for
a queue in which one frame blocks another. A connection is used once, so a
process that restarts is a new connection. `MaxSeq` is the largest number a
frame carries in the instance. `MaxEvents` = 2 is the least with an event
between the first and the completion, and `MaxInFlight` = 1 then reaches
backpressure. `Faults` selects what can go wrong in an instance of `OwnerRun`
(dead registrations, revocation and sweeps, failing database requests, the
reaper), `FinalMessages` whether completions carry an answer, `ResendFrom` how
early an owner resends: in `owner_gohost` after the first request was answered
`pending`. A resend before that is admitted by the code and not by that
instance, which would not finish. For the same reason connection faults and a
failing database are not in one instance, and `ReaperOrSecond` lets the reaper
of `owner_events` work only while the second connection, which is refused, is
unused. The proofs have all of these together.

`Slices` = 4 is what the shortest long answer is cut into
(`RHYTHM_MIN_CHUNKS`), two events are what a text after a comment, or an error
after a text, need.

`Scenarios` of the last three modules are sets of connections, messages and
runs: a behaviour uses those of one set and the others are over from the start,
so that one run covers combinations which together would not finish. `Mortal`
are the connections that may end by themselves; one of each role is what a late
close beside a newer connection takes. Two connections of one session and one
of another visitor, a message and its retry, and two chunks are the least with
which an entry can be taken away, a message handed over twice and a stream cut.
`MaxQueue` = 1 reaches the queue's limit with nothing but a retry. In the
store, `Deltas` is 1 where two sends overlap and 2 for the send beside another
page's run, so that a frame can come between two pieces; `Repeated` are the
runs whose frames may come twice. In the plugin `MaxAttempts` = 2 reaches the
limit, `Capacity` = 2 with three messages evicts, `Limit` = 2 has a page with a
row behind a seen one and a page behind it; `Replies` are the agent's own
messages, and those of visitors are symmetric, as nothing compares them.
`RedisFails` lets the connection to Redis be lost and its commands fail.

Deadlock is not checked: connections are used once, so every instance ends
when they are used up, and a request ends with its response.

### Fairness

`FairRunSpec` assumes weak fairness of: the delivery of frames in both
directions on a connection that is up; the end of a connection that was closed
or lost being reported; a run's goroutine making its next step (the provider is
run with a timeout, `run.go:253`); and every database request being answered;
the instance has no failing requests, with which neither property would hold.
Each is justified by the runtime or a timeout of the code. Nothing is assumed
of owners, of failures, or of a host connecting again. `FairStreamSpec` assumes
that the timer of a pause fires and that the write of `pending` is answered or
fails; nothing of the run. The visitor chat, the store and the plugin are
checked for safety only: their waits end by a timeout of a library or of
another service, which the models do not count on.

## Findings

1. `registry_sweep`: `cleanupStaleHostConnections`
   (`agent-host-registry.ts:270-281`) walks a snapshot, awaits the offline write
   of one stale host, and then deletes the next by host id. If that host has
   registered again meanwhile its *new* entry is deleted and the *old* socket is
   closed. `ForgottenOnlyBySweep` shows that nothing else forgets an open
   connection.
2. `owner_final`: the write of `running` that a dispatch starts is not awaited
   (`owner-agent-chat.ts:519`), and no write of a status is conditional. Answered
   after the write of the run's end, it takes a failed or completed run back to
   `running`, which the reaper fails later. The answer of a completed run is there
   all the same (`ShownAnswerIsKept`).
3. `owner_pending`: a frame refused by a dying socket is queued and executed
   when the host registers again, while its request was answered `pending`; the
   specification says pending messages are not executed by a reconnection.
4. `chat_session`: `unregisterConnection` (`gateway/ws/registry.ts:102-104`)
   deletes the session's entry whichever connection it names. A visitor that
   reconnects before the end of its older connection is noticed loses the entry
   of the newer one with that late close: its socket stays open and gets no
   reply any more. `SessionLostOnlyWithin` shows that only connections of the
   same session can do that to one another.

Four more statements of the code's documents do not hold. They are definitions
of the modules and have no run of their own; TLC finds each violated when it is
put in the place of the properties of the configuration named here:

- `CompletedIsNotTimedOut` (`MCOwnerRun_final.cfg`): `failTimedOutRuns` lists the
  old runs and then fails each by its id (`owner-agent-chat.ts:561-583`), and the
  request that starts it does not wait. A run that is completed between the two
  reads `failed` with `timeout`, its answer being in the conversation.
- `AcceptedIsForwarded` (`MCVisitorChat_chat.cfg`): `enqueueOfflineMessage` does
  not look at the results of the commands it sent (`redis/offline-queue.ts:43`)
  and says that the message is queued though they failed. The visitor is told
  `accepted`, and the message is nowhere. `AcceptedIsAccountedFor` shows that
  nothing else loses a message between its acknowledgement and a socket or a
  queue.
- `StreamIsStoredInFull` (`MCVisitorChat_chat.cfg`): the end of a stream takes
  the buffer while chunks still wait for the rate limit (`router.ts:382`,
  `496-498`), so the stored message may lack its last chunks, which reach the
  visitor after the end and leave a buffer behind.
- `RepliesAreNotReplayed` (`MCAgentPlugin_plugin.cfg`): `decrypted-messages`
  serves the rows of both roles (`index.ts:477`), and a replay hands every unseen
  one to the agent (`history.ts:97-107`), its own replies among them, though live
  frames of the agent are left out (`inbound.ts:123`).

Other behaviours met while modelling, stated here and not run:

- A host that sends numbered events without waiting fails its own run with
  `seq_gap`, because the number is checked before an `await` and recorded after
  it (`host-router.ts:228`). `NoFalseFailure` is about the Go host, which sends
  one numbered frame per run (`owner_gohost`); it says nothing of hosts with
  events, for which it is false.
- The chat route opens its stream before it looks at the status `pending`, so
  its branch for 502 is dead (`owner-agent-chat-sse.ts:181-207`), where a test
  (`tests/integration/gateway/owner-agent-chat-sse.test.ts:207`) and
  `docs/wave10/r2-c4-sse-spec-final.md:257` have a JSON 502.
  `NoStreamWithoutHost` in `RunStream` states it.
- `PendingWithinLimit` in `OwnerRun`: 50 pending messages, counted before the
  insert.
- A flush that stops at a frame has deleted the queue before
  (`agent-host-registry.ts:331`), so the frames behind it are lost.
  `DispatchSpec` documents this, as `lost` of `RunDispatch`; it does not forbid
  it.
- A connection that died while its ticket was verified still registers, and
  displaces a live one (`handler.ts:374`). Its entry stays until a sweep or the
  host's next registration. The properties of the registry except such an entry;
  none of them forbids it.
- An answered run whose write of `completed` fails stays `running` until the
  reaper fails it (`host-router.ts:347`). The other order does not occur
  (`CompletedHasAnswer`).
- With Redis disconnected a chunk does not wait for the rate limit
  (`rate-limiter.ts:27`) and passes earlier chunks that do, in what is stored
  and in what the visitor sees. `StoredStreamIsPrefix` excepts such a stream.
- The script that drains a queue deletes it; when its reply is lost, so are the
  messages (`offline-queue.ts:64`).
- A failed read of `decrypted-messages` is an empty page with status 200
  (`index.ts:433-435`, `498-501`): it is not retried, the replay ends without an
  error (`history.ts:109`), and what is stored waits for another replay.
- A reply to a visitor without a connection is acknowledged and not stored: the
  QR code of its conversation is unknown (`router.ts:318` says "will be
  persisted"). A visitor's message queued because no agent is connected is never
  stored (`router.ts:218`).
- A message's key is set before it is handled (`router.ts:171`), so the retry of
  a message whose handling failed is answered `duplicate`.
- Two runtimes of one agent that authenticate at the same time both register
  (`handler.ts:263-282`), and both are handed every message. Messages drained
  for a socket that has closed meanwhile are gone (`handler.ts:320-337`).
- A frame of the owner's WebSocket that fills an empty bubble before the first
  chunk of the response makes the text appear twice. A frame of a run that no
  bubble has takes over the latest bubble in flight, until the response's next
  chunk names its own run again (`owner-agent-chat-store.ts:1047-1064`);
  `TextIsOwn` says when that cannot happen.
- The end of an aborted send sets the agent's status to `online` while the next
  send runs. Stop during the response leaves an empty bubble as failed, not as
  cancelled.
- In the plugin, a connection that cannot be made is reported by `error` and
  `close`, and each starts another attempt (`client.ts:102-106`, `178-180`):
  `OneAttempt` excepts it. A ticket under way at `disconnect()` still makes a
  socket. A replay stops at the first page that has a seen row, so older rows
  that were missed stay missed (`history.ts:98-110`), which `MissedBehindSeen`
  makes precise for replays whose pages were read and taken whole. When the
  agent throws at a message (`DispatchThrows`), the rest of its page waits for
  another replay, which stops at the ids that were marked.

## Proofs

All of the following hold for any number of hosts, connections, runs, sessions,
messages and so on, from the assumptions that the modules state of their
constants. Each property is a theorem `Spec => []P` or `Spec => P` of its
specification; the table names it, and the text below says along which
invariant. The inductive invariants were checked by TLC on the runs' instances
first.

| module | proved | inductive invariant |
|---|---|---|
| `HostRegistry_proofs` | `TypeOK`, `EntryIsLive`, `AtMostOnceDispatch`, `RightHost`, `TrackedRunsWereSent`, `ForgottenOnlyBySweep`, `DispatchSpec` (refinement) | `IInv` |
| `OwnerRun_proofs` | `Spec` of `HostRegistry` (refinement), `RunTypeOK`, `OneAnswer`, `CompletedHasAnswer`, `CompletedStreamsAllEvents`, `NoFalseFailure`, `PublishedAsPromised` (refinement of `RunFrames`) | `RunIInv` |
| `RunStream_proofs` | `StreamTypeOK`, `DoneIsLast`, `FinishedIsReleased`, `NoFrameMissed`, `StopShowsAnswerOnce` | `StreamIInv`, `AnsweredIInv` |
| `VisitorRegistry_proofs` | `RegistryTypeOK`, `MapsAgree`, `RegisteredWhileOpen`, `RuntimeKeepsRoutes`, `SessionLostOnlyWithin` | `RegistryIInv` |
| `VisitorChat_proofs` | `RegistrySpec` (refinement) and with it the four above, `ChatTypeOK`, `OnlyItsConversation`, `HandedOverOnce`, `AcceptedIsAccountedFor`, `RejectedIsNotDelivered`, `StoredStreamIsPrefix` | `ChatIInv`, `MessagesIInv`, `StreamsIInv` |
| `OwnerChatStore_proofs` | `StoreTypeOK`, `SettledStays`, `RunningHasSender`, `StopReaches`, `ShownTextStays`, `TextIsOwn` | `StoreIInv`, `OwnIInv` |
| `AgentPlugin_proofs` | `ConnectionSpec` (refinement), `KeepsTrying`, `OneAttempt`, `DisconnectIsFinal`, `PluginTypeOK`, `DispatchedOnce`, `MissedBehindSeen` | `ConnectionIInv`, `HandedOver` |

**Registry.** `EntryIsLive` is inductive with `TypeOK`: a register makes the
entry for an open or zombie, admitted connection of its host, and the only step
to `closed` takes the entry along. A zombie is never closed, so the property
leaves its entry where it is. `AtMostOnceDispatch` and `RightHost` are
inductive only together. That a flush sends nothing twice needs that the frames
of a queue are distinct and are on no wire; that a new dispatch is nowhere yet
needs `RightHost` (a frame on a wire or in a queue has a target, and a run is
dispatched while it has none); that the flushed frames go to the host's own
connection needs `EntryIsLive`. For `ForgottenOnlyBySweep` each action is shown
to keep the entry, to close the connection it takes it from, or to be
`SweepContinue` with another connection in its snapshot. For the refinement of
`RunDispatch`, `IInv` gives each frame one place, and each step is a submission,
a flush of frames of one host, or changes no place.

**Runs.** `OwnerRun` steps the registry as the registry is specified, so `IInv`
holds of it and a run's frame is on one wire, once. From there the argument
follows the frames of the run's host. A frame is known by its sequence number
and is in one place: on its way, in one handler, or *spent*, that is published
or being written (`InOnePlace`, `Spent`). Numbers are recorded and admitted in
order (`RecordedInOrder`): an event in a handler that was not rejected is the
next one of its run, and a completion in such a handler follows all of them. So
what is published has one `accepted`, one end, and before `completed` every
event (`ShownInOrder`). The answer a completion carries is written once, behind
the completion and before the status (`AnsweredInOrder`): a write of
`completed` is under way or done only when the answer is there, or there is
none (`Settled`), which failing writes and the reaper leave as it is.
`NoFalseFailure` is proved for `MaxEvents` = 0, which is the Go host; with
events it is false, as said under Findings.

**Streams.** That nothing follows the end needs that a finished stream is
released, and that the end was not written before needs that a stream that may
still be written to has written none (`MayWrite => OpenEnded(out)`). The two
properties that count chunks need more: an open stream is subscribed, no frame
was published before it was open, and each frame that makes a text or a comment
was counted when it was handled (`FramesIInv`, `due`); and an answer exists
only when the run has published `completed`, so that no text follows, and only
the pauses of a long answer keep its stream open, with `Slices - slicesLeft`
slices written (`AnswerIInv`). A stream may be given any frames that
`RunFrames` allows, and `PublishedAsPromised` says that a run of `OwnerRun`
publishes no others, so the two results join.

**Visitors.** `RegistryIInv` joins the first three properties of the connection
registry to the type: that a late close leaves the other runtime's routes alone
needs that the agent's index is exact, and that a replaced runtime is in no map
needs that what is registered is open, ended or a zombie. Every step of the
pipeline is a step of the registry or leaves it alone. `ChatIInv` adds that a
visitor looked up before an await belongs to the session of its reply.
`MessagesIInv` is about the frames with one id: the deduplication keys admit
one of them (unless Redis failed and a frame went past the keys), the id is
nowhere until that frame's handler puts it on sockets or in a queue, or is told
that it did (`unqueued`), and no step from there leaves it in two places.
`StreamsIInv` says that until its end is read the chunks of a stream that is
not `overtaken` are its first ones, those in the buffer before those that wait.

**Owner chat.** `StoreIInv` is the type with the three invariants and
`RowsWhole`, that a message of the history shows its whole answer. The actions
are grouped by what they do to the list: `ListStep` says that no bubble of a
finished send is put in flight by any of them. `ShownTextStays` needs what
`mergeMessages` does to lists of any length, an induction over its loop.
`OwnIInv` is for `TextIsOwn`. Its premise (`Undisturbed`) holds in a state only
if it held in the state before, so the invariant may have it as a premise too.
Under it every message shows the run of its id, each id is there once
(`OwnList`), a send that knows its run has a message with it, and the bubble of
one that does not, and is not aborted, is the last in flight (`Finds`). So a
frame, which needs a request that has left (`Orderly`), takes over no bubble
but its own: of the sends that wait for a response only the active one is not
aborted (`StopReaches`), and an abort ends a pending `fetch` at once. The merge
is shown to keep the last bubble in flight last, or to replace it by a row of
its run. The only assumption on the ids is `ClientIdsAssumption`: what `genId`
makes (line 412) is no id of a run.

**Plugin.** `ConnectionIInv` adds that nothing is under way before `connect()`,
that a socket has failed only after one was reported by error and close, and
that none is closing before `disconnect()`. `HandedOver` says that what was
handed over is marked or its mark was evicted, and that between two pages a
replay has handed over every row above its cursor that was there when it began
(`OwnPaged`), wherever rows were stored meanwhile; a page of any size is again
an induction over a loop.

**Loops.** `mergeMessages` and the page of a replay are recursive functions of
the number of rounds. `Loops` proves, from `WellFoundedInduction`, that a set of
numbers with 0 and each successor below a bound has all numbers up to it
(`UpTo`), and from that that such a loop has a value behind every round
(`LoopHasValues`); the inductions over lists and pages are stated with sets of
round numbers, as the provers cannot instantiate theorems about operators.
Cardinalities come from `FiniteSetTheorems`.

Only model-checked: the liveness properties (`DispatchedRunEnds`,
`ShownAnswerIsKept`, `RunEndEndsStream`), as TLAPS does not prove liveness under
fairness, and the violations under Findings. Every invariant and every action
property of the passing runs is a theorem.

## What is not modelled

- The web client but for its owner chat, the macOS application, the other edge
  functions, the provider adapters and the setup of the host: user interface,
  supervision of other programs, single requests. They are most of the
  repository's lines and keep little state that steps could put in a wrong
  order.
- In the modelled parts: contents, encryption and keys, formatting, logging,
  metrics, and failing database requests except those of frame handlers, the
  sweep's offline write and the storing of chat messages.
- `OwnerRun`: the sequence numbers a host may report at registration
  (`in_flight_runs`, which the Go host does not send), the expiry of pending
  messages, the reset of a conversation, runs of several hosts. Drops of the Go
  host's channel of 16 run requests (`client.go:241`): its reader starts a
  goroutine per frame and does not block.
- The status rows of hosts and agents (`agent_hosts`, `agent_runtimes`, presence
  in Redis): columns that every heartbeat rewrites.
- `VisitorChat`: the wait for an auth frame, typing and receipt frames, the
  expiry of deduplication keys and queues, the eviction of stale stream
  buffers, conversation creation. A command that failed is not sent again: the
  client of Redis may do that after a reconnection, and a message whose `RPUSH`
  was executed without its reply would then be queued twice.
- `OwnerChatStore`: the owner's own messages, the list of agents and their
  status, agent creation, tokens, and the reconnection of the page's WebSocket.
  The last has a hazard of its own: a socket that is closing lets
  `ensureOwnerWsSubscription` make a second one (lines 966-967), and the close
  of either forgets the other (1140-1143); frames that come twice are in the
  model.
- The plugin: its heartbeat, outbound texts and streams, tools, and several
  accounts, which share nothing but the process. Several conversations of one
  account share the set of seen ids: those of one take from the capacity that
  another's have, which the model has for the messages of one conversation only.

## Plan

Done: `HostRegistry`, `RunDispatch`, `OwnerRun`, `RunFrames`, `RunStream`,
`VisitorRegistry`, `VisitorChat`, `OwnerChatStore`, `PluginConnection`,
`AgentPlugin`, and the theorems above. What would come next:

1. the status rows of hosts against the registry, and the cache of conversation
   keys against their rows;
2. several hosts in `OwnerRun`, with the shared limit of events in flight.

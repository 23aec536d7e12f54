--------------------------- MODULE OwnerChatStore ---------------------------
(***************************************************************************)
(* The chat of one agent in the owner's browser                            *)
(* (web/src/stores/owner-agent-chat-store.ts).  An answer reaches the list *)
(* of messages on four ways that know nothing of one another: the response *)
(* of the chat request, the frames of the owner's WebSocket, the polling   *)
(* of the stored conversation, and the history that is loaded and merged.  *)
(*                                                                         *)
(* Of the list only the agent's messages are modelled; a run's answer is   *)
(* the pieces <<r, 1>>, ..., <<r, Deltas[r]>>.  The gateway is external: it    *)
(* writes the pieces it has to the response and to the WebSocket, each in  *)
(* order.  A frame of the WebSocket may be lost while the subscription is  *)
(* down, and come twice while the page has two sockets.                    *)
(***************************************************************************)
EXTENDS Naturals, Sequences, SequencesExt

CONSTANTS
    SendSeq, \* the calls of sendMessage in this page, in order; each has its run
    Others,  \* runs of the same agent that another page started
    Deltas,  \* Deltas[r]: pieces of the answer of run r
    Scenarios, \* the runs that a behaviour uses: one of these sets
    Repeated, \* the runs whose frames may come twice in this instance
    NoSend

Sends == ToSet(SendSeq)
Runs == Sends \cup Others

ASSUME DeltasAssumption == Deltas \in [Runs -> Nat \ {0}]
ASSUME RunsAssumption ==
    /\ SendSeq \in Seq(Sends)
    /\ IsFiniteSet(Others)
    /\ Sends \cap Others = {}
    /\ NoSend \notin Sends

VARIABLES
    list,     \* messagesByAgent[agentId], the agent's messages
    status,   \* statusByAgent[agentId]: running, or what the host's is
    active,   \* activeStreams.get(agentId)
    aborted,  \* sends whose controller is aborted
    posted,   \* sends whose request has left
    pc,       \* where sendMessage(c) awaits
    read,     \* pieces that sendMessage(c) took from the response
    polled,   \* the run_id that sendMessage(c) waits for a reply of
    adopted,  \* sends that have read their run_id
    count,    \* pieces of run r that the gateway has
    end,      \* how run r ended there
    frames    \* frames of run r that the WebSocket is past

sendVars == <<active, aborted, posted, pc, read, polled, adopted>>
gatewayVars == <<count, end>>
storeVars == <<list, status, sendVars, gatewayVars, frames>>

Bubble(c) == <<"assistant", c>>
ClientId(c) == <<"client", c>>

\* The id that genId gives a send is no id of a run.
ASSUME ClientIdsAssumption == \A c \in Sends : ClientId(c) \notin Runs

Answer(r) == [i \in 1..Deltas[r] |-> <<r, i>>]
Notice(what) == <<<<what, 0>>>>

Message(id, run, st, runStatus, text) ==
    [id |-> id, run |-> run, status |-> st, runStatus |-> runStatus, text |-> text]

InFlight(m) == m.status = "streaming" \/ m.runStatus = "running"
Live(c) == pc[c] \notin {"idle", "done"}

\* A message of the list: whose id it has, the run that it shows, and its pieces.
RunIds == Runs \cup {ClientId(c) : c \in Sends}
Texts == Seq((Runs \cup {"failed", "cancelled"}) \X Nat)
Messages ==
    [id : {Bubble(c) : c \in Sends} \cup ({"evt", "row"} \X Runs),
     run : RunIds,
     status : {"streaming", "sent", "failed"},
     runStatus : {"running", "completed", "failed"},
     text : Texts]

Stages == {"idle", "auth", "fetching", "reading", "late", "fallback", "done"}

StoreTypeOK ==
    /\ list \in Seq(Messages)
    /\ status \in {"online", "running"}
    /\ active \in Sends \cup {NoSend}
    /\ aborted \subseteq Sends
    /\ posted \subseteq Sends
    /\ pc \in [Sends -> Stages]
    /\ read \in [Sends -> Nat] /\ \A c \in Sends : read[c] <= Deltas[c]
    /\ polled \in [Sends -> RunIds]
    /\ adopted \subseteq Sends
    /\ count \in [Runs -> Nat] /\ \A r \in Runs : count[r] <= Deltas[r]
    /\ end \in [Runs -> {"open", "completed", "failed"}]
    /\ frames \in [Runs -> Nat] /\ \A r \in Runs : frames[r] <= Deltas[r] + 1

\* A run that is not used is over.
StoreInit ==
    \E used \in Scenarios :
        /\ list = <<>>
        /\ status = "online"
        /\ active = NoSend
        /\ aborted = {}
        /\ posted = {}
        /\ pc = [c \in Sends |-> IF c \in used THEN "idle" ELSE "done"]
        /\ read = [c \in Sends |-> 0]
        /\ polled = [c \in Sends |-> ClientId(c)]
        /\ adopted = {}
        /\ count = [r \in Runs |-> 0]
        /\ end = [r \in Runs |-> IF r \in used THEN "open" ELSE "failed"]
        /\ frames = [r \in Runs |-> IF r \in used THEN 0 ELSE 1]

-----------------------------------------------------------------------------
(* The gateway and the host of the run.                                    *)

Started(r) == IF r \in Others THEN TRUE ELSE r \in posted

HostEmits(r) ==
    /\ Started(r)
    /\ end[r] = "open"
    /\ count[r] < Deltas[r]
    /\ count' = [count EXCEPT ![r] = @ + 1]
    /\ UNCHANGED <<list, status, sendVars, end, frames>>

\* The whole answer comes with the completion when no event brought any of it.
HostEnds(r) ==
    /\ Started(r)
    /\ end[r] = "open"
    /\ \/ count[r] \in {0, Deltas[r]} /\ end' = [end EXCEPT ![r] = "completed"]
       \/ end' = [end EXCEPT ![r] = "failed"]
    /\ UNCHANGED <<list, status, sendVars, count, frames>>

-----------------------------------------------------------------------------
(* sendMessage and streamMessage.                                          *)

\* The messages with f applied to those that have the id.
WithId(l, id, f(_)) == [i \in DOMAIN l |-> IF l[i].id = id THEN f(l[i]) ELSE l[i]]

\* The settling update behind the stream, applied to l.
Settled(c, l) ==
    LET settle(m) == IF m.text # <<>>
                     THEN [m EXCEPT !.status = "sent", !.runStatus = "completed"]
                     ELSE [m EXCEPT !.status = "failed", !.runStatus = "failed",
                                    !.text = Notice("failed")]
    IN  WithId(l, Bubble(c), settle)

\* The update of the catch block, applied to l.
CaughtIn(c, l, isAborted) ==
    LET settle(m) ==
            [m EXCEPT !.status = IF isAborted THEN "sent" ELSE "failed",
                      !.runStatus = IF isAborted THEN "completed" ELSE "failed",
                      !.text = IF @ # <<>> THEN @
                               ELSE Notice(IF isAborted THEN "cancelled" ELSE "failed")]
    IN  WithId(l, Bubble(c), settle)

\* An abort rejects a pending fetch and ends a pending read, in a microtask: no
\* other event comes between.  The other awaits of a send go on.
Cut == IF active # NoSend /\ pc[active] \in {"fetching", "reading"} THEN {active} ELSE {}

AfterCut(l) ==
    IF Cut = {} THEN l
    ELSE IF pc[active] = "fetching" THEN CaughtIn(active, l, TRUE)
    ELSE Settled(active, l)

\* sendMessage up to the request: the previous send of the agent is aborted
\* and an empty bubble is shown.  If the abort ends the previous send, that
\* end comes last and shows the agent as online.
SendMessage(c) ==
    /\ pc[c] = "idle"
    /\ \A i, j \in DOMAIN SendSeq : i < j /\ SendSeq[j] = c => pc[SendSeq[i]] # "idle"
    /\ aborted' = aborted \cup ({active} \ {NoSend})
    /\ list' = AfterCut(Append(list,
                   Message(Bubble(c), ClientId(c), "streaming", "running", <<>>)))
    /\ status' = IF Cut = {} THEN "running" ELSE "online"
    /\ active' = c
    /\ pc' = [d \in Sends |-> IF d = c THEN "auth" ELSE IF d \in Cut THEN "done" ELSE pc[d]]
    /\ UNCHANGED <<posted, read, polled, adopted, gatewayVars, frames>>

StopStream ==
    /\ active # NoSend
    /\ aborted' = aborted \cup {active}
    /\ list' = AfterCut(list)
    /\ status' = IF Cut = {} THEN status ELSE "online"
    /\ active' = IF Cut = {} THEN active ELSE NoSend
    /\ pc' = [d \in Sends |-> IF d \in Cut THEN "done" ELSE pc[d]]
    /\ UNCHANGED <<posted, read, polled, adopted, gatewayVars, frames>>

\* Slip: the end of a send forgets whichever controller the agent has.
FinishAny(c) ==
    /\ pc' = [pc EXCEPT ![c] = "done"]
    /\ active' = NoSend
    /\ status' = "online"

\* Slip: an aborted send leaves the status to the next one.
FinishAborted(c) ==
    /\ pc' = [pc EXCEPT ![c] = "done"]
    /\ active' = IF active = c THEN NoSend ELSE active
    /\ status' = IF c \in aborted THEN status ELSE "online"

\* What every end of sendMessage does, the finally block with it.
Finish(c) ==
    /\ pc' = [pc EXCEPT ![c] = "done"]
    /\ active' = IF active = c THEN NoSend ELSE active
    /\ status' = "online"

Caught(c) ==
    /\ list' = CaughtIn(c, list, c \in aborted)
    /\ Finish(c)
    /\ UNCHANGED <<aborted, posted, read, polled, adopted>>

\* Behind the loop over the stream, when the messages are l: wait for the
\* stored reply unless the bubble is settled, gone or its send aborted.
AfterStream(c, l) ==
    LET bubbles == {i \in DOMAIN l : l[i].id = Bubble(c)}
        waiting == {i \in bubbles : c \notin aborted /\ (l[i].text = <<>> \/ InFlight(l[i]))}
    IN  IF waiting # {}
        THEN /\ list' = l
             /\ pc' = [pc EXCEPT ![c] = "fallback"]
             /\ polled' = [polled EXCEPT ![c] = l[CHOOSE i \in waiting : TRUE].run]
             /\ UNCHANGED <<status, active>>
        ELSE /\ list' = Settled(c, l)
             /\ Finish(c)
             /\ UNCHANGED polled

\* The access token is there and the request leaves.
Post(c) ==
    /\ pc[c] = "auth"
    /\ c \notin aborted
    /\ pc' = [pc EXCEPT ![c] = "fetching"]
    /\ posted' = posted \cup {c}
    /\ UNCHANGED <<list, status, active, aborted, read, polled, adopted, gatewayVars, frames>>

\* The list when a chunk of the response brings text to the bubble: every
\* chunk carries the run_id, which the bubble adopts each time.
Chunk(c, text) ==
    LET take(m) == [m EXCEPT !.run = c, !.text = @ \o text]
    IN  WithId(list, Bubble(c), take)

\* The response arrives, and with it the run_id, in its header and in a first
\* chunk without text.
Respond(c) ==
    /\ pc[c] = "fetching"
    /\ pc' = [pc EXCEPT ![c] = "reading"]
    /\ adopted' = adopted \cup {c}
    /\ list' = Chunk(c, <<>>)
    /\ UNCHANGED <<status, active, aborted, posted, read, polled, gatewayVars, frames>>

\* No session, a failing request, a response that is refused, or an abort.
FetchFails(c) ==
    /\ pc[c] \in {"auth", "fetching"}
    /\ Caught(c)
    /\ UNCHANGED <<gatewayVars, frames>>

\* Slip: the whole answer comes behind the events that brought it.
DeltaAgain(c) ==
    /\ pc[c] = "reading"
    /\ read[c] < IF end[c] = "completed" THEN count[c] + Deltas[c] ELSE count[c]
    /\ read' = [read EXCEPT ![c] = @ + 1]
    /\ list' = Chunk(c, <<<<c, read[c] + 1>>>>)
    /\ UNCHANGED <<status, active, aborted, posted, pc, polled, adopted, gatewayVars, frames>>

\* A delta of the response: a text event, or a slice of the whole answer.
Delta(c) ==
    /\ pc[c] = "reading"
    /\ read[c] < IF end[c] = "completed" THEN Deltas[c] ELSE count[c]
    /\ read' = [read EXCEPT ![c] = @ + 1]
    /\ list' = Chunk(c, <<<<c, read[c] + 1>>>>)
    /\ UNCHANGED <<status, active, aborted, posted, pc, polled, adopted, gatewayVars, frames>>

\* `done' breaks the loop, which ends streamMessage at its yield: the wait for
\* a stored reply at the end of streamMessage is for a response without it.
Done(c) ==
    /\ pc[c] = "reading"
    /\ end[c] = "completed"
    /\ read[c] = Deltas[c]
    /\ AfterStream(c, Chunk(c, <<>>))
    /\ UNCHANGED <<aborted, posted, read, adopted, gatewayVars, frames>>

\* An `error' event: of the gateway, whose last chunk has a text for the reader,
\* or of a broken response.
StreamError(c) ==
    /\ pc[c] = "reading"
    /\ \/ list' = CaughtIn(c, Chunk(c, Notice("failed")), c \in aborted)
       \/ list' = CaughtIn(c, list, c \in aborted)
    /\ Finish(c)
    /\ UNCHANGED <<aborted, posted, read, polled, adopted, gatewayVars, frames>>

\* The response ends without `done'.
StreamCloses(c) ==
    /\ pc[c] = "reading"
    /\ IF read[c] = 0
       THEN /\ pc' = [pc EXCEPT ![c] = "late"]
            /\ UNCHANGED <<list, status, active, polled>>
       ELSE AfterStream(c, list)
    /\ UNCHANGED <<aborted, posted, read, adopted, gatewayVars, frames>>

\* The reply that streamMessage waits for, in vain after 20 seconds; the token
\* may have expired, which throws.
LateReply(c) ==
    LET append(m) == [m EXCEPT !.text = @ \o Answer(c)]
    IN  /\ pc[c] = "late"
        /\ \/ end[c] = "completed" /\ AfterStream(c, WithId(list, Bubble(c), append))
              /\ UNCHANGED <<aborted, posted, read, adopted>>
           \/ AfterStream(c, list) /\ UNCHANGED <<aborted, posted, read, adopted>>
           \/ Caught(c)
        /\ UNCHANGED <<gatewayVars, frames>>

\* The reply that sendMessage waits for, or 20 seconds without one.
FallbackReply(c) ==
    LET fill(m) == [m EXCEPT !.text = IF @ # <<>> THEN @ ELSE Answer(polled[c])]
    IN  /\ pc[c] = "fallback"
        /\ \/ /\ polled[c] \in Runs
              /\ end[polled[c]] = "completed"
              /\ list' = Settled(c, WithId(list, Bubble(c), fill))
           \/ list' = Settled(c, list)
        /\ Finish(c)
        /\ UNCHANGED <<aborted, posted, read, polled, adopted, gatewayVars, frames>>

-----------------------------------------------------------------------------
(* The frames of the owner's WebSocket.                                    *)

\* Slip: the first bubble in flight takes the frame.
AdoptedFirst(r) ==
    LET inFlight == {i \in DOMAIN list : InFlight(list[i])}
        first == CHOOSE i \in inFlight : \A j \in inFlight : i <= j
    IN  IF (\E i \in DOMAIN list : list[i].run = r) \/ inFlight = {} THEN list
        ELSE [list EXCEPT ![first].run = r]

\* The list with the run's id on the latest bubble in flight, when no message
\* has it: also on a bubble that has adopted another run.
Adopted(r) ==
    LET inFlight == {i \in DOMAIN list : InFlight(list[i])}
        last == CHOOSE i \in inFlight : \A j \in inFlight : j <= i
    IN  IF (\E i \in DOMAIN list : list[i].run = r) \/ inFlight = {} THEN list
        ELSE [list EXCEPT ![last].run = r]

\* Slip: an event shows its bubble as running again.
OnTextRestarts(r, text, isCompleted) ==
    LET l == Adopted(r)
        ofRun == {i \in DOMAIN l : l[i].run = r}
        first == CHOOSE i \in ofRun : \A j \in ofRun : i <= j
        runStatus == IF isCompleted THEN "completed" ELSE "running"
    IN  /\ list' = IF ofRun = {}
                   THEN Append(l, Message(<<"evt", r>>, r, "sent", runStatus, text))
                   ELSE [l EXCEPT ![first].text = IF @ = <<>> THEN text ELSE @,
                                  ![first].runStatus = runStatus]
        /\ status' = IF isCompleted THEN "online" ELSE status

\* owner_agent_run_event and owner_agent_run_completed with a text
OnText(r, text, isCompleted) ==
    LET l == Adopted(r)
        ofRun == {i \in DOMAIN l : l[i].run = r}
        first == CHOOSE i \in ofRun : \A j \in ofRun : i <= j
        shown == [l EXCEPT ![first].text = IF @ = <<>> THEN text ELSE @]
    IN  /\ list' = IF ofRun = {}
                   THEN Append(l, Message(<<"evt", r>>, r, "sent",
                                    IF isCompleted THEN "completed" ELSE "running", text))
                   ELSE IF isCompleted
                   THEN [shown EXCEPT ![first].status = "sent", ![first].runStatus = "completed"]
                   ELSE shown
        /\ status' = IF isCompleted THEN "online" ELSE status

\* owner_agent_run_failed
OnFailed(r) ==
    /\ list' = [i \in DOMAIN list |->
           IF list[i].run # r THEN list[i]
           ELSE [list[i] EXCEPT !.status = "failed", !.runStatus = "failed",
                                !.text = IF @ = <<>> THEN Notice("failed") ELSE @]]
    /\ status' = "online"

\* The next frame of run r; it may come once more, or not at all.
WsFrame(r) ==
    LET last == IF end[r] = "open" THEN count[r] ELSE count[r] + 1
    IN  /\ frames[r] < last
        /\ \/ frames' = [frames EXCEPT ![r] = @ + 1]
           \/ r \in Repeated /\ UNCHANGED frames
        /\ \/ frames[r] < count[r] /\ OnText(r, <<<<r, frames[r] + 1>>>>, FALSE)
           \/ frames[r] = count[r] /\ end[r] = "completed" /\ OnText(r, Answer(r), TRUE)
           \/ frames[r] = count[r] /\ end[r] = "failed" /\ OnFailed(r)
           \/ UNCHANGED <<list, status>>
        /\ UNCHANGED <<sendVars, gatewayVars>>

-----------------------------------------------------------------------------
(* History and reset.                                                      *)

\* mergeMessages: the history, then what it does not repeat.
TryAdd(merged, m) ==
    IF \E i \in DOMAIN merged :
           \/ merged[i].id = m.id
           \/ m.text # <<>> /\ merged[i].run = m.run /\ merged[i].text = m.text
    THEN merged ELSE Append(merged, m)

\* Slip: the history is all there is.
MergeHistory(history, current) == history

MergeMessages(history, current) ==
    LET merged[n \in 0..Len(current)] ==
            IF n = 0 THEN history ELSE TryAdd(merged[n - 1], current[n])
    IN  merged[Len(current)]

\* loadMessagesForAgent is answered: some of the answers that are complete.
LoadMessages ==
    \E rows \in SUBSET {r \in Runs : end[r] = "completed"} :
        LET row(r) == Message(<<"row", r>>, r, "sent", "completed", Answer(r))
            order == SetToSeq(rows)
            history == [i \in DOMAIN order |-> row(order[i])]
        IN  /\ list' = MergeMessages(history, list)
            /\ UNCHANGED <<status, sendVars, gatewayVars, frames>>

ResetContext ==
    /\ status' = "online"
    /\ UNCHANGED <<list, sendVars, gatewayVars, frames>>

-----------------------------------------------------------------------------
SendStep(c) ==
    \/ SendMessage(c)
    \/ Post(c)
    \/ Respond(c)
    \/ FetchFails(c)
    \/ Delta(c)
    \/ Done(c)
    \/ StreamError(c)
    \/ StreamCloses(c)
    \/ LateReply(c)
    \/ FallbackReply(c)

StoreNext ==
    \/ \E c \in Sends : SendStep(c)
    \/ \E r \in Runs : HostEmits(r) \/ HostEnds(r) \/ WsFrame(r)
    \/ StopStream
    \/ LoadMessages
    \/ ResetContext

StoreSpec == StoreInit /\ [][StoreNext]_storeVars

-----------------------------------------------------------------------------
(* Properties.                                                             *)

BubbleInFlight(c) == \E i \in DOMAIN list : list[i].id = Bubble(c) /\ InFlight(list[i])

\* A send that is over leaves no bubble that is still thinking, and no frame,
\* reply or history that comes later starts it again: the composer is locked
\* while a bubble of the agent is in flight.
SettledStays == \A c \in Sends : pc[c] = "done" => ~BubbleInFlight(c)

\* The agent is shown as running only while a send is, whichever of the sends
\* that overlap ends first: loadAgents never corrects that status.
RunningHasSender == status = "running" => \E c \in Sends : Live(c)

\* Stop reaches the send that is not aborted: the end of an aborted one, which
\* comes after the next has begun, does not forget the controller of the next.
StopReaches == \A c \in Sends : Live(c) /\ c \notin aborted => active = c

\* As long as no other page runs the agent and no request ended before it
\* knew its run, every text is in the bubble of its own send, also when a frame
\* comes before the response and an older bubble still waits for its reply.
TextIsOwn ==
    /\ \A x \in Others : count[x] = 0 /\ end[x] # "completed"
    /\ \A c \in posted \ adopted : pc[c] = "fetching"
    => \A i \in DOMAIN list, c \in Sends : list[i].id = Bubble(c) =>
           \A k \in DOMAIN list[i].text : list[i].text[k] \in {<<c, n>> : n \in 1..Deltas[c]}
                                           \/ list[i].text[k][2] = 0

\* What is on the screen stays there or grows, an empty bubble too: no late
\* frame overwrites it and no history that lacks it removes it.  The exception is two messages of one
\* id, which frames of two runs can make of a bubble that waits for its end.
ShownTextStays ==
    [][list' # list => \A i \in DOMAIN list :
          \/ \E j \in DOMAIN list' :
                /\ IsPrefix(list[i].text, list'[j].text)
                /\ list[i].text = <<>> => list'[j].id = list[i].id
          \/ \E j \in DOMAIN list : j # i /\ list[j].id = list[i].id]_storeVars
=============================================================================

---------------------------- MODULE AgentPlugin ----------------------------
(***************************************************************************)
(* What the OpenClaw plugin hands to the agent (plugins/openclaw/src):     *)
(* the frames of the connection (inbound.ts), and after every              *)
(* acknowledgement the stored messages of a conversation, which it pages   *)
(* through from the newest (channel.ts, history.ts).  Both share one set   *)
(* of message ids that were handed over.                                   *)
(*                                                                         *)
(* One conversation of one account.  A message reaches a connection or the *)
(* store, both or neither, and a connection at most once.                  *)
(***************************************************************************)
EXTENDS PluginConnection, Sequences, SequencesExt

CONSTANTS
    Msgs,      \* message ids
    Replies,   \* those of messages that the agent itself has written
    Capacity,  \* LIVE_DEDUP_CAPACITY
    Limit,     \* messages on a page
    Scenarios  \* the sockets and messages that a behaviour uses: one of these sets

ASSUME CapacityAssumption == Capacity \in Nat \ {0}
ASSUME LimitAssumption == Limit \in Nat \ {0}

VARIABLES
    sent,      \* messages that are written in this behaviour
    rows,      \* the stored messages, by sent_at
    got,       \* got[w]: messages of the frames that came in on w
    seen,      \* liveSeenByAccount.get(label), in order of insertion
    log,       \* messages given to dispatchInbound, also if it threw
    deferred,  \* replays put off by setTimeout(0)
    replay,    \* where the replay in flight awaits
    cursor,    \* the oldest row of the last page, or 0
    there,     \* history: the rows that were stored at the first page
    own,       \* history: rows that this replay handed over
    evicted    \* history: messages that fell out of `seen'

replayVars == <<replay, cursor, there, own>>
pluginVars == <<connectionVars, sent, rows, got, seen, log, deferred, replayVars, evicted>>

PluginTypeOK ==
    /\ ConnectionTypeOK
    /\ sent \subseteq Msgs
    /\ rows \in Seq(sent) /\ IsInjective(rows)
    /\ got \in [Socks -> SUBSET Msgs]
    /\ seen \in Seq(Msgs) /\ IsInjective(seen)
    /\ log \in Seq(Msgs)
    /\ deferred \in Nat
    /\ replay \in {"idle", "listing", "paging"}
    /\ cursor \in 0..Len(rows)
    /\ there \subseteq ToSet(rows)
    /\ own \subseteq Msgs
    /\ evicted \subseteq Msgs

PluginInit ==
    /\ \E used \in Scenarios : ConnectionInit(used) /\ sent = used \cap Msgs
    /\ got = [w \in Socks |-> {}]
    /\ rows = <<>>
    /\ seen = <<>>
    /\ log = <<>>
    /\ deferred = 0
    /\ replay = "idle"
    /\ cursor = 0
    /\ there = {}
    /\ own = {}
    /\ evicted = {}

-----------------------------------------------------------------------------
(* The connection.  An acknowledgement puts a replay off.                  *)

Connection ==
    /\ \/ Connect
       \/ TicketFails
       \/ TimerFires
       \/ Disconnect
       \/ \E w \in Socks : TicketAnswered(w) \/ ConnectError(w) \/ CloseEvent(w)
    /\ UNCHANGED <<sent, rows, got, seen, log, deferred, replayVars, evicted>>

Connected(w) ==
    /\ Acked(w)
    /\ deferred' = deferred + 1
    /\ UNCHANGED <<sent, rows, got, seen, log, replayVars, evicted>>

-----------------------------------------------------------------------------
(* Messages.                                                               *)

\* insertMessage: a row takes its place by the time that its sender gave it, so
\* rows that are there may be newer.
Stored(m) ==
    /\ m \in sent \ ToSet(rows)
    /\ \E i \in 1..(Len(rows) + 1) :
          /\ rows' = InsertAt(rows, i, m)
          /\ cursor' = IF i <= cursor THEN cursor + 1 ELSE cursor
    /\ UNCHANGED <<connectionVars, sent, got, seen, log, deferred, replay, there, own, evicted>>

\* isLiveDuplicate adds m: the oldest id makes room for it.
SeenWith(m) == IF Len(seen) + 1 > Capacity THEN Append(Tail(seen), m) ELSE Append(seen, m)

\* Slip: a frame's message is handed over without being marked.
LiveFrameUnmarked(w, m) ==
    /\ sock[w] \in {"acked", "closing"}
    /\ m \in (sent \ Replies) \ got[w]
    /\ got' = [got EXCEPT ![w] = @ \cup {m}]
    /\ log' = IF m \in ToSet(seen) THEN log ELSE Append(log, m)
    /\ UNCHANGED <<connectionVars, sent, rows, seen, deferred, replayVars, evicted>>

\* handleInboundFrame of a visitor's message, also on a socket that closes; it
\* leaves out the agent's own.  The id is marked before dispatchInbound, which
\* may throw, is called.
LiveFrame(w, m) ==
    /\ sock[w] \in {"acked", "closing"}
    /\ m \in (sent \ Replies) \ got[w]
    /\ got' = [got EXCEPT ![w] = @ \cup {m}]
    /\ IF m \in ToSet(seen) THEN UNCHANGED <<seen, log, evicted>>
       ELSE /\ log' = Append(log, m)
            /\ seen' = SeenWith(m)
            /\ evicted' = evicted \cup (ToSet(seen) \ ToSet(seen'))
    /\ UNCHANGED <<connectionVars, sent, rows, deferred, replayVars>>

-----------------------------------------------------------------------------
(* The replay of the stored messages.                                      *)

\* triggerReplay: the caller of a replay in flight gets that one.
TriggerReplay ==
    /\ replay' = IF destroyed \/ replay # "idle" THEN replay ELSE "listing"
    /\ UNCHANGED <<cursor, there, own>>

ReplayFires ==
    /\ deferred > 0
    /\ deferred' = deferred - 1
    /\ TriggerReplay
    /\ UNCHANGED <<connectionVars, sent, rows, got, seen, log, evicted>>

\* onConnectionStateChange: the host may ask for a replay itself.
HostTriggers ==
    /\ \E w \in Socks : sock[w] = "acked"
    /\ TriggerReplay
    /\ UNCHANGED <<connectionVars, sent, rows, got, seen, log, deferred, evicted>>

\* listConversations names the conversation.
Listed ==
    /\ replay = "listing"
    /\ replay' = "paging"
    /\ UNCHANGED <<connectionVars, sent, rows, got, seen, log, deferred, cursor, there, own, evicted>>

EndReplay ==
    /\ replay' = "idle"
    /\ cursor' = 0
    /\ there' = {}
    /\ own' = {}

\* A request fails, after its retries, or no conversation is listed.
ReplayFails ==
    /\ replay # "idle"
    /\ EndReplay
    /\ UNCHANGED <<connectionVars, sent, rows, got, seen, log, deferred, evicted>>

\* The newest Limit rows below the cursor, newest first.
FirstRow == IF cursor = 0 THEN Len(rows) ELSE cursor - 1
LastRow == IF FirstRow > Limit THEN FirstRow - Limit + 1 ELSE 1
Page == Reverse(SubSeq(rows, LastRow, FirstRow))

\* The messages of the page that were not handed over, in the page's order.
Unseen ==
    LET of[n \in 0..Len(Page)] ==
            IF n = 0 THEN <<>>
            ELSE IF Page[n] \in ToSet(seen) THEN of[n - 1] ELSE Append(of[n - 1], Page[n])
    IN  of[Len(Page)]

\* replayConversation marks messages and hands them over; `seen' is not kept to
\* its capacity here.
HandOver(ms) ==
    /\ log' = log \o ms
    /\ seen' = seen \o ms

HitSeen == ToSet(Page) \cap ToSet(seen) # {}

\* Slip: the row of the cursor is left out of the next page.
PageAnsweredSkips ==
    /\ replay = "paging"
    /\ HandOver(Unseen)
    /\ IF LastRow > 2 /\ ~HitSeen
       THEN /\ cursor' = LastRow - 1
            /\ there' = IF cursor = 0 THEN ToSet(rows) ELSE there
            /\ own' = own \cup ToSet(Unseen)
            /\ UNCHANGED replay
       ELSE EndReplay
    /\ UNCHANGED <<connectionVars, sent, rows, got, deferred, evicted>>

\* A page is there: its unseen rows are handed over, and unless one was seen
\* or it was the last, the next page is asked for.  The function's reading of
\* the page is a part of the step: a row stored after it could be stored later.
PageAnswered ==
    /\ replay = "paging"
    /\ HandOver(Unseen)
    /\ IF LastRow > 1 /\ ~HitSeen
       THEN /\ cursor' = LastRow
            /\ there' = IF cursor = 0 THEN ToSet(rows) ELSE there
            /\ own' = own \cup ToSet(Unseen)
            /\ UNCHANGED replay
       ELSE EndReplay
    /\ UNCHANGED <<connectionVars, sent, rows, got, deferred, evicted>>

\* dispatchInbound throws at a message of the page: it is marked, the rest of
\* the page is not, and the replay of the conversation ends with an error.
DispatchThrows ==
    /\ replay = "paging"
    /\ \E n \in 1..Len(Unseen) : HandOver(SubSeq(Unseen, 1, n))
    /\ EndReplay
    /\ UNCHANGED <<connectionVars, sent, rows, got, deferred, evicted>>

\* The function could not read the key or the rows: it answers with an empty
\* page and status 200, and the replay ends as behind a last page.
EmptyPage ==
    /\ replay = "paging"
    /\ EndReplay
    /\ UNCHANGED <<connectionVars, sent, rows, got, seen, log, deferred, evicted>>

PluginNext ==
    \/ Connection
    \/ ReplayFires
    \/ HostTriggers
    \/ Listed
    \/ ReplayFails
    \/ PageAnswered
    \/ DispatchThrows
    \/ EmptyPage
    \/ \E m \in Msgs : Stored(m)
    \/ \E w \in Socks : Connected(w) \/ (\E m \in Msgs : LiveFrame(w, m))

PluginSpec == PluginInit /\ [][PluginNext]_pluginVars

-----------------------------------------------------------------------------
(* Properties.                                                             *)

\* A message is handed over once, whatever frames and replays bring it, until
\* its id has made room for another one's.
DispatchedOnce ==
    \A i, j \in 1..Len(log) : log[i] = log[j] => i = j \/ log[i] \in evicted

\* A replay that ends at a page which was read from the database, and whose
\* messages the agent took, has left out a row that was there when it began only
\* if a newer one had come in as a frame or by an earlier replay.
MissedBehindSeen ==
    [][PageAnswered /\ replay' = "idle" =>
          \A i \in 1..Len(rows) :
             \/ cursor # 0 /\ rows[i] \notin there
             \/ rows[i] \in ToSet(log')
             \/ \E j \in (i + 1)..Len(rows) : rows[j] \in ToSet(seen) \ own]_pluginVars

\* A replay brings the messages of visitors (history.ts: "Replay visitor
\* messages from the decrypted-messages Edge Function"), so the agent is not
\* given its own replies to answer.  It does not hold: the function serves the
\* rows of both roles, and replayConversation does not look at the role.
RepliesAreNotReplayed == ToSet(log) \cap Replies = {}
=============================================================================

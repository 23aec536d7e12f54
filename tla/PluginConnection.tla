-------------------------- MODULE PluginConnection --------------------------
(***************************************************************************)
(* The connection of one account of the OpenClaw plugin to the gateway     *)
(* (QRClawConnection, plugins/openclaw/src/client.ts): a ticket is fetched, *)
(* a WebSocket is opened and acknowledged, and what fails is tried again   *)
(* after a delay, MaxAttempts times in a row at most.                      *)
(*                                                                         *)
(* The gateway, the network and the ws library are external.  The library  *)
(* reports a connection that cannot be made by `error' and then `close'.   *)
(* Left out: the heartbeat, which only sends, and the lengths of delays.   *)
(***************************************************************************)
EXTENDS Naturals, FiniteSets

CONSTANTS
    Socks,        \* WebSockets, each made once
    MaxAttempts,  \* maxReconnectAttempts
    NoSock

ASSUME SocksAssumption == IsFiniteSet(Socks)
ASSUME MaxAttemptsAssumption == MaxAttempts \in Nat
ASSUME NoSockAssumption == NoSock \notin Socks

VARIABLES
    sock,        \* sock[w]: see SockStates
    ws,          \* this.ws
    started,     \* connect() was called
    destroyed,   \* this.destroyed
    attempts,    \* this.reconnectAttempts
    tickets,     \* doConnect()s that await requestTicket
    timers,      \* pending timers of maybeReconnect
    errored      \* history: some connection was reported by error and close

connectionVars == <<sock, ws, started, destroyed, attempts, tickets, timers, errored>>

(***************************************************************************)
(* unused   not made yet, in an instance that has it                       *)
(* opening  made, connection_ack not received                              *)
(* failed   `error' was reported before the ack, `close' is to come        *)
(* acked    acknowledged: frames come in                                   *)
(* closing  close() was called on it                                       *)
(* closed   the close handler has run                                      *)
(***************************************************************************)
SockStates == {"unused", "opening", "failed", "acked", "closing", "closed"}

ConnectionTypeOK ==
    /\ sock \in [Socks -> SockStates]
    /\ ws \in Socks \cup {NoSock}
    /\ started \in BOOLEAN
    /\ destroyed \in BOOLEAN
    /\ attempts \in 0..MaxAttempts
    /\ tickets \in Nat
    /\ timers \in Nat
    /\ errored \in BOOLEAN

ConnectionInit(used) ==
    /\ sock = [w \in Socks |-> IF w \in used THEN "unused" ELSE "closed"]
    /\ ws = NoSock
    /\ started = FALSE
    /\ destroyed = FALSE
    /\ attempts = 0
    /\ tickets = 0
    /\ timers = 0
    /\ errored = FALSE

-----------------------------------------------------------------------------
\* Slip: one attempt too many is made.
MaybeReconnectOnceMore(n) ==
    IF destroyed \/ n > MaxAttempts THEN UNCHANGED timers /\ attempts' = n
    ELSE timers' = timers + 1 /\ attempts' = n + 1

\* maybeReconnect, when n attempts were made
MaybeReconnect(n) ==
    IF destroyed \/ n >= MaxAttempts THEN UNCHANGED timers /\ attempts' = n
    ELSE timers' = timers + 1 /\ attempts' = n + 1

Connect ==
    /\ ~started
    /\ started' = TRUE
    /\ tickets' = tickets + 1
    /\ UNCHANGED <<sock, ws, destroyed, attempts, timers, errored>>

\* The ticket is there and the WebSocket is made, also after a disconnect.
TicketAnswered(w) ==
    /\ tickets > 0
    /\ sock[w] = "unused"
    /\ tickets' = tickets - 1
    /\ sock' = [sock EXCEPT ![w] = "opening"]
    /\ ws' = w
    /\ UNCHANGED <<started, destroyed, attempts, timers, errored>>

TicketFails ==
    /\ tickets > 0
    /\ tickets' = tickets - 1
    /\ MaybeReconnect(attempts)
    /\ UNCHANGED <<sock, ws, started, destroyed, errored>>

\* connection_ack
Acked(w) ==
    /\ sock[w] = "opening"
    /\ sock' = [sock EXCEPT ![w] = "acked"]
    /\ attempts' = 0
    /\ UNCHANGED <<ws, started, destroyed, tickets, timers, errored>>

\* The error handler: the promise is rejected and doConnect tries again.
ConnectError(w) ==
    /\ sock[w] = "opening"
    /\ sock' = [sock EXCEPT ![w] = "failed"]
    /\ errored' = TRUE
    /\ MaybeReconnect(attempts)
    /\ UNCHANGED <<ws, started, destroyed, tickets>>

\* Slip: a close before the ack is left to doConnect, which is not told of it.
CloseUnnoticed(w) ==
    /\ sock[w] \in {"opening", "failed", "acked", "closing"}
    /\ sock' = [sock EXCEPT ![w] = "closed"]
    /\ ws' = NoSock
    /\ IF sock[w] = "opening" THEN UNCHANGED <<attempts, timers>> ELSE MaybeReconnect(attempts)
    /\ UNCHANGED <<started, destroyed, tickets, errored>>

\* Slip: the close handler goes on after it has rejected the promise.
CloseTwice(w) ==
    /\ sock[w] \in {"opening", "failed", "acked", "closing"}
    /\ sock' = [sock EXCEPT ![w] = "closed"]
    /\ ws' = NoSock
    /\ IF sock[w] = "opening" /\ ~destroyed /\ attempts + 2 <= MaxAttempts
       THEN timers' = timers + 2 /\ attempts' = attempts + 2
       ELSE MaybeReconnect(attempts)
    /\ UNCHANGED <<started, destroyed, tickets, errored>>

\* The close handler.  this.ws goes, whichever socket it is, and another
\* attempt follows: by the rejected promise before the ack, by the handler
\* after it, and by the handler after an error as well, which had its own.
CloseEvent(w) ==
    /\ sock[w] \in {"opening", "failed", "acked", "closing"}
    /\ sock' = [sock EXCEPT ![w] = "closed"]
    /\ ws' = NoSock
    /\ MaybeReconnect(attempts)
    /\ UNCHANGED <<started, destroyed, tickets, errored>>

\* Slip: a timer that fires after the disconnect connects all the same.
TimerFiresAlways ==
    /\ timers > 0
    /\ timers' = timers - 1
    /\ tickets' = tickets + 1
    /\ UNCHANGED <<sock, ws, started, destroyed, attempts, errored>>

TimerFires ==
    /\ timers > 0
    /\ timers' = timers - 1
    /\ tickets' = IF destroyed THEN tickets ELSE tickets + 1
    /\ UNCHANGED <<sock, ws, started, destroyed, attempts, errored>>

\* disconnect(): what is under way goes on, and so does a socket that this.ws
\* does not name.
Disconnect ==
    /\ started
    /\ ~destroyed
    /\ destroyed' = TRUE
    /\ sock' = [w \in Socks |-> IF w = ws /\ sock[w] \in {"opening", "acked"} THEN "closing"
                                ELSE sock[w]]
    /\ ws' = NoSock
    /\ UNCHANGED <<started, attempts, tickets, timers, errored>>

ConnectionNext ==
    \/ Connect
    \/ TicketFails
    \/ TimerFires
    \/ Disconnect
    \/ \E w \in Socks : TicketAnswered(w) \/ Acked(w) \/ ConnectError(w) \/ CloseEvent(w)

ConnectionSpec ==
    (\E used \in SUBSET Socks : ConnectionInit(used)) /\ [][ConnectionNext]_connectionVars

-----------------------------------------------------------------------------
(* Properties.                                                             *)

Alive == {w \in Socks : sock[w] \in {"opening", "failed", "acked"}}

\* The plugin goes on trying until it has failed MaxAttempts times in a row or
\* is disconnected, whichever of ticket, error and close fails at which point.
KeepsTrying ==
    started /\ ~destroyed /\ Alive = {} /\ tickets = 0 /\ timers = 0 => attempts = MaxAttempts

\* Unless a connection was reported by error and close, there is one attempt
\* at a time: one socket, one ticket under way, or one timer.
OneAttempt == ~errored => Cardinality(Alive) + tickets + timers <= 1

\* What can still happen after a disconnect gets less with every step: a ticket
\* under way may become a socket, and nothing starts another attempt.
DisconnectIsFinal ==
    [][destroyed => Cardinality(Alive') + tickets' <= Cardinality(Alive) + tickets]_connectionVars
=============================================================================

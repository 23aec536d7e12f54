--------------------------- MODULE VisitorRegistry ---------------------------
(***************************************************************************)
(* The gateway's registry of WebSocket connections                         *)
(* (gateway/src/ws/registry.ts) with the life of the visitors' and agents' *)
(* connections that drives it (completeAuth in gateway/src/ws/handler.ts). *)
(*                                                                         *)
(* An agent that connects replaces the connections it has, awaits the list *)
(* of its QR codes and registers.  A visitor registers at once, whatever   *)
(* connections its session has.  The end of a connection is noticed by the *)
(* close handler, which completeAuth attaches last.                        *)
(*                                                                         *)
(* Left out: the index of owners' connections, which nothing routes a chat *)
(* through, and hosts, whose connections are modelled in HostRegistry.     *)
(***************************************************************************)
EXTENDS Naturals

CONSTANTS
    AgentConns, VisitorConns, \* connections by the role in their ticket
    Agents, Tokens, QrCodes,
    AgentOf,                  \* the agent of an agent's ticket
    TokenOf, QrOf,            \* the session and the QR code of a visitor's
    Mortal,                   \* connections that may end in this instance
    NoConn

Conns == AgentConns \cup VisitorConns

ASSUME RolesAssumption == AgentConns \cap VisitorConns = {}
ASSUME AgentOfAssumption == AgentOf \in [AgentConns -> Agents]
ASSUME TokenOfAssumption == TokenOf \in [VisitorConns -> Tokens]
ASSUME QrOfAssumption == QrOf \in [VisitorConns -> QrCodes]
ASSUME NoneAssumption == NoConn \notin Conns

VARIABLES
    sock,             \* sock[c]: see SockStates
    byConnectionId,   \* its keys
    byAgentId,        \* byAgentId[a]: connections of agent a
    bySessionToken,   \* bySessionToken[t]: the connection of session t
    agentToQrCodes,   \* agentToQrCodes[a]: QR codes routed to agent a
    byQrCodeVisitors, \* byQrCodeVisitors[q]: visitors of QR code q
    qrCodeIds         \* qrCodeIds[c]: the list completeAuth was given for c

maps == <<byConnectionId, byAgentId, bySessionToken, agentToQrCodes, byQrCodeVisitors>>
chatRegistryVars == <<sock, maps, qrCodeIds>>

(***************************************************************************)
(* new        not authenticated yet                                        *)
(* resolving  an agent's, while getAgentQrCodeIds is awaited               *)
(* lost       died meanwhile: its close event found no handler             *)
(* open       registered, readyState OPEN                                  *)
(* closing    the gateway called close(); frames of the peer still arrive  *)
(* ended      not OPEN any more, the close event is still to come          *)
(* closed     the close handler has run                                    *)
(* zombie     registered after its close event                             *)
(***************************************************************************)
SockStates == {"new", "resolving", "lost", "open", "closing", "ended", "closed", "zombie"}

RegistryTypeOK ==
    /\ sock \in [Conns -> SockStates]
    /\ byConnectionId \in SUBSET Conns
    /\ byAgentId \in [Agents -> SUBSET AgentConns]
    /\ bySessionToken \in [Tokens -> VisitorConns \cup {NoConn}]
    /\ agentToQrCodes \in [Agents -> SUBSET QrCodes]
    /\ byQrCodeVisitors \in [QrCodes -> SUBSET VisitorConns]
    /\ qrCodeIds \in [AgentConns -> SUBSET QrCodes]

\* `used' are the connections that are made in this behaviour.
RegistryInit(used) ==
    /\ sock = [c \in Conns |-> IF c \in used THEN "new" ELSE "closed"]
    /\ byConnectionId = {}
    /\ byAgentId = [a \in Agents |-> {}]
    /\ bySessionToken = [t \in Tokens |-> NoConn]
    /\ agentToQrCodes = [a \in Agents |-> {}]
    /\ byQrCodeVisitors = [q \in QrCodes |-> {}]
    /\ qrCodeIds = [c \in AgentConns |-> {}]

-----------------------------------------------------------------------------
(* Lookups.                                                                *)

\* getAgentConnections
GetAgentConnections(a) == byAgentId[a] \cap byConnectionId

\* getAgentForQrCode
GetAgentForQrCode(q) ==
    UNION {GetAgentConnections(a) : a \in {b \in Agents : q \in agentToQrCodes[b]}}

\* getVisitorConnection
GetVisitorConnection(t) ==
    IF bySessionToken[t] \in byConnectionId THEN bySessionToken[t] ELSE NoConn

\* The peer of c can still have a frame delivered.
Receiving(c) == sock[c] \in {"open", "closing"}

-----------------------------------------------------------------------------
(* registerConnection and unregisterConnection.                            *)

\* Slip: replies go by QR code, to whoever registered for it last.
RegisterVisitorByQrCode(c) ==
    /\ byConnectionId' = byConnectionId \cup {c}
    /\ bySessionToken' = [t \in Tokens |->
           IF \E d \in VisitorConns : TokenOf[d] = t /\ QrOf[d] = QrOf[c] THEN c
           ELSE bySessionToken[t]]
    /\ byQrCodeVisitors' = [byQrCodeVisitors EXCEPT ![QrOf[c]] = @ \cup {c}]
    /\ UNCHANGED <<byAgentId, agentToQrCodes, qrCodeIds>>

RegisterVisitor(c) ==
    /\ byConnectionId' = byConnectionId \cup {c}
    /\ bySessionToken' = [bySessionToken EXCEPT ![TokenOf[c]] = c]
    /\ byQrCodeVisitors' = [byQrCodeVisitors EXCEPT ![QrOf[c]] = @ \cup {c}]
    /\ UNCHANGED <<byAgentId, agentToQrCodes, qrCodeIds>>

\* registerConnection, then registerAgentForQrCodes with the awaited list
RegisterAgent(c, list) ==
    /\ byConnectionId' = byConnectionId \cup {c}
    /\ byAgentId' = [byAgentId EXCEPT ![AgentOf[c]] = @ \cup {c}]
    /\ agentToQrCodes' = [agentToQrCodes EXCEPT ![AgentOf[c]] = @ \cup list]
    /\ qrCodeIds' = [qrCodeIds EXCEPT ![c] = list]
    /\ UNCHANGED <<bySessionToken, byQrCodeVisitors>>

\* Slip: a connection that is not registered any more takes the routes of its
\* agent along all the same.
UnregisterUnknown(S) ==
    /\ byConnectionId' = byConnectionId \ S
    /\ byAgentId' = [a \in Agents |-> byAgentId[a] \ S]
    /\ agentToQrCodes' = [a \in Agents |->
           IF \E c \in S \cap AgentConns : AgentOf[c] = a THEN {} ELSE agentToQrCodes[a]]
    /\ bySessionToken' = [t \in Tokens |->
           IF \E c \in S \cap VisitorConns \cap byConnectionId : TokenOf[c] = t
           THEN NoConn ELSE bySessionToken[t]]
    /\ byQrCodeVisitors' = [q \in QrCodes |-> byQrCodeVisitors[q] \ S]
    /\ UNCHANGED qrCodeIds

\* Slip: an agent stays in the index of its id.
UnregisterKeepsAgent(S) ==
    /\ byConnectionId' = byConnectionId \ S
    /\ bySessionToken' = [t \in Tokens |->
           IF \E c \in S \cap VisitorConns \cap byConnectionId : TokenOf[c] = t
           THEN NoConn ELSE bySessionToken[t]]
    /\ byQrCodeVisitors' = [q \in QrCodes |-> byQrCodeVisitors[q] \ S]
    /\ UNCHANGED <<byAgentId, agentToQrCodes, qrCodeIds>>

\* Slip: the end of any visitor's connection clears every session.
UnregisterAllSessions(S) ==
    /\ byConnectionId' = byConnectionId \ S
    /\ byAgentId' = [a \in Agents |-> byAgentId[a] \ S]
    /\ agentToQrCodes' = [a \in Agents |->
           IF byAgentId[a] \cap S # {} /\ byAgentId[a] \subseteq S THEN {}
           ELSE agentToQrCodes[a]]
    /\ bySessionToken' = [t \in Tokens |->
           IF S \cap VisitorConns \cap byConnectionId # {} THEN NoConn ELSE bySessionToken[t]]
    /\ byQrCodeVisitors' = [q \in QrCodes |-> byQrCodeVisitors[q] \ S]
    /\ UNCHANGED qrCodeIds

\* unregisterConnection for each connection of S.  One that is not registered
\* changes nothing.  A session's entry goes whichever of the session's
\* connections it names; an agent's routes go with its last connection.
Unregister(S) ==
    LET known == S \cap byConnectionId
    IN  /\ byConnectionId' = byConnectionId \ known
        /\ byAgentId' = [a \in Agents |-> byAgentId[a] \ known]
        /\ agentToQrCodes' = [a \in Agents |->
               IF byAgentId[a] \cap known # {} /\ byAgentId[a] \subseteq known THEN {}
               ELSE agentToQrCodes[a]]
        /\ bySessionToken' = [t \in Tokens |->
               IF \E c \in known \cap VisitorConns : TokenOf[c] = t THEN NoConn
               ELSE bySessionToken[t]]
        /\ byQrCodeVisitors' = [q \in QrCodes |-> byQrCodeVisitors[q] \ known]
        /\ UNCHANGED qrCodeIds

-----------------------------------------------------------------------------
(* The life of a connection.                                               *)

\* completeAuth of a visitor; a peer that died while handleConnection awaited
\* is registered all the same.
ConnectVisitor(c) ==
    /\ c \in VisitorConns
    /\ sock[c] = "new"
    /\ \/ sock' = [sock EXCEPT ![c] = "open"]
       \/ c \in Mortal /\ sock' = [sock EXCEPT ![c] = "zombie"]
    /\ RegisterVisitor(c)

\* Slip: the replaced connections' close handlers are to unregister them.
ReplaceAgentCloses(c) ==
    /\ c \in AgentConns
    /\ sock[c] = "new"
    /\ sock' = [d \in Conns |->
           IF d = c THEN "resolving"
           ELSE IF d \in GetAgentConnections(AgentOf[c]) /\ sock[d] = "open" THEN "closing"
           ELSE sock[d]]
    /\ UNCHANGED <<maps, qrCodeIds>>

\* completeAuth of an agent up to its await: the other connections are closed
\* and unregistered.
ReplaceAgent(c) ==
    LET existing == GetAgentConnections(AgentOf[c])
    IN  /\ c \in AgentConns
        /\ sock[c] = "new"
        /\ sock' = [d \in Conns |-> IF d = c THEN "resolving"
                                    ELSE IF d \in existing /\ sock[d] = "open" THEN "closing"
                                    ELSE sock[d]]
        /\ Unregister(existing)

\* The list of QR codes is answered, or empty after an error.
ResolvedAgent(c, list) ==
    /\ c \in AgentConns
    /\ sock[c] \in {"resolving", "lost"}
    /\ sock' = [sock EXCEPT ![c] = IF @ = "lost" THEN "zombie" ELSE "open"]
    /\ RegisterAgent(c, list)

\* The peer goes, or the network breaks.
PeerClose(c) ==
    /\ c \in Mortal
    /\ \/ sock[c] = "open" /\ sock' = [sock EXCEPT ![c] = "ended"]
       \/ sock[c] = "resolving" /\ sock' = [sock EXCEPT ![c] = "lost"]
    /\ UNCHANGED <<maps, qrCodeIds>>

\* The close handler.
CloseEvent(c) ==
    /\ sock[c] \in {"closing", "ended"}
    /\ sock' = [sock EXCEPT ![c] = "closed"]
    /\ Unregister({c})

RegistryNext ==
    \E c \in Conns :
        \/ ConnectVisitor(c)
        \/ ReplaceAgent(c)
        \/ \E list \in SUBSET QrCodes : ResolvedAgent(c, list)
        \/ PeerClose(c)
        \/ CloseEvent(c)

RegistrySpec == (\E used \in SUBSET Conns : RegistryInit(used)) /\ [][RegistryNext]_chatRegistryVars

-----------------------------------------------------------------------------
(* Properties.                                                             *)

\* The five maps never disagree: what an index names is registered, for the
\* agent, session or QR code it is indexed by, and every registered agent and
\* visitor is in the index of its agent or QR code.  Replacements, late close
\* events and connections registered dead change several of them each.
MapsAgree ==
    /\ \A a \in Agents :
          byAgentId[a] = {c \in AgentConns \cap byConnectionId : AgentOf[c] = a}
    /\ \A q \in QrCodes :
          byQrCodeVisitors[q] = {c \in VisitorConns \cap byConnectionId : QrOf[c] = q}
    /\ \A t \in Tokens : bySessionToken[t] # NoConn =>
          /\ bySessionToken[t] \in byConnectionId
          /\ TokenOf[bySessionToken[t]] = t

\* A runtime is routed the QR codes it was registered for as long as it is
\* registered: neither the replaced runtime's late close event nor the other
\* one of two that connected at once takes its routes away.
RuntimeKeepsRoutes ==
    \A c \in AgentConns \cap byConnectionId :
        qrCodeIds[c] \subseteq agentToQrCodes[AgentOf[c]]

\* An open connection is registered; a replaced or closed one is not, whatever
\* the order of replacement, registration and close event.
RegisteredWhileOpen ==
    \A c \in Conns :
        /\ sock[c] = "open" => c \in byConnectionId
        /\ c \in byConnectionId => sock[c] \in {"open", "ended", "zombie"}

\* A session's replies stop going to an open connection only when another
\* connection of the same session registers or closes; no other visitor and no
\* agent can take them away.
SessionLostOnlyWithin ==
    [][\A t \in Tokens :
          LET c == bySessionToken[t]
          IN  c # NoConn /\ sock[c] = "open" /\ sock'[c] = "open" /\ bySessionToken'[t] # c
              => \E d \in VisitorConns \ {c} : TokenOf[d] = t /\ sock'[d] # sock[d]
      ]_chatRegistryVars

\* A session with an open connection is found by its token ("Enables lookup by
\* connectionId, agentId, or sessionToken", gateway/src/ws/registry.ts:3; a
\* duplicate connection replaces the old one,
\* requirements/technical-specification-supplement-protocol.md:1213-1214).
\* The code replaces no visitor's connection, and the end of the older one
\* takes the newer one's entry along.
VisitorIsReachable ==
    \A c \in VisitorConns : sock[c] = "open" => GetVisitorConnection(TokenOf[c]) # NoConn
=============================================================================

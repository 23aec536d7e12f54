----------------------- MODULE VisitorRegistry_proofs -----------------------
(***************************************************************************)
(* Theorems about VisitorRegistry, for any connections, agents, sessions   *)
(* and QR codes.  One inductive invariant, RegistryIInv, proves the three  *)
(* invariants of the maps together: that a close event leaves open         *)
(* connections registered needs the order of a connection's states, and    *)
(* that a runtime keeps its routes needs that the agent's index agrees     *)
(* with the connections.                                                   *)
(***************************************************************************)
EXTENDS VisitorRegistry, TLAPS

USE RolesAssumption, AgentOfAssumption, TokenOfAssumption, QrOfAssumption, NoneAssumption

RegistryIInv == RegistryTypeOK /\ MapsAgree /\ RegisteredWhileOpen /\ RuntimeKeepsRoutes

LEMMA RegistryIInvInit ==
    ASSUME NEW used \in SUBSET Conns, RegistryInit(used)
    PROVE  RegistryIInv
  <1> USE DEF RegistryInit
  <1>1. RegistryTypeOK
    BY DEF RegistryTypeOK, SockStates
  <1>2. MapsAgree
    BY DEF MapsAgree
  <1>3. RegisteredWhileOpen
    BY DEF RegisteredWhileOpen
  <1>4. RuntimeKeepsRoutes
    BY DEF RuntimeKeepsRoutes
  <1> QED BY <1>1, <1>2, <1>3, <1>4 DEF RegistryIInv

-----------------------------------------------------------------------------
(* What unregisterConnection does to the maps, whatever it is called for.  *)

LEMMA UnregisterKeepsMaps ==
    ASSUME RegistryIInv, NEW S \in SUBSET Conns, Unregister(S)
    PROVE  /\ byConnectionId' = byConnectionId \ S
           /\ byAgentId' \in [Agents -> SUBSET AgentConns]
           /\ bySessionToken' \in [Tokens -> VisitorConns \cup {NoConn}]
           /\ agentToQrCodes' \in [Agents -> SUBSET QrCodes]
           /\ byQrCodeVisitors' \in [QrCodes -> SUBSET VisitorConns]
           /\ qrCodeIds' \in [AgentConns -> SUBSET QrCodes]
           /\ MapsAgree'
           /\ RuntimeKeepsRoutes'
  <1> USE DEF RegistryIInv
  <1> DEFINE known == S \cap byConnectionId
  <1>1. byConnectionId' = byConnectionId \ S /\ byConnectionId' = byConnectionId \ known
    BY DEF Unregister
  <1>2. /\ byAgentId' = [a \in Agents |-> byAgentId[a] \ known]
        /\ byAgentId' \in [Agents -> SUBSET AgentConns]
    BY DEF Unregister, RegistryTypeOK
  <1>3. /\ agentToQrCodes' = [a \in Agents |->
               IF byAgentId[a] \cap known # {} /\ byAgentId[a] \subseteq known THEN {}
               ELSE agentToQrCodes[a]]
        /\ agentToQrCodes' \in [Agents -> SUBSET QrCodes]
    BY DEF Unregister, RegistryTypeOK
  <1>4. /\ bySessionToken' = [t \in Tokens |->
               IF \E c \in known \cap VisitorConns : TokenOf[c] = t THEN NoConn
               ELSE bySessionToken[t]]
        /\ bySessionToken' \in [Tokens -> VisitorConns \cup {NoConn}]
    BY DEF Unregister, RegistryTypeOK
  <1>5. /\ byQrCodeVisitors' = [q \in QrCodes |-> byQrCodeVisitors[q] \ known]
        /\ byQrCodeVisitors' \in [QrCodes -> SUBSET VisitorConns]
    BY DEF Unregister, RegistryTypeOK
  <1>6. qrCodeIds' = qrCodeIds /\ qrCodeIds' \in [AgentConns -> SUBSET QrCodes]
    BY DEF Unregister, RegistryTypeOK
  <1>7. MapsAgree'
    <2>1. ASSUME NEW a \in Agents
          PROVE  byAgentId'[a] = {c \in AgentConns \cap byConnectionId' : AgentOf[c] = a}
      BY <1>1, <1>2 DEF MapsAgree
    <2>2. ASSUME NEW q \in QrCodes
          PROVE  byQrCodeVisitors'[q] = {c \in VisitorConns \cap byConnectionId' : QrOf[c] = q}
      BY <1>1, <1>5 DEF MapsAgree
    <2>3. ASSUME NEW t \in Tokens, bySessionToken'[t] # NoConn
          PROVE  bySessionToken'[t] \in byConnectionId' /\ TokenOf[bySessionToken'[t]] = t
      <3>1. /\ bySessionToken'[t] = bySessionToken[t]
            /\ ~ \E c \in known \cap VisitorConns : TokenOf[c] = t
        BY <1>4, <2>3
      <3>2. bySessionToken[t] \in byConnectionId /\ TokenOf[bySessionToken[t]] = t
        BY <2>3, <3>1 DEF MapsAgree
      <3>3. bySessionToken[t] \in VisitorConns
        BY <2>3, <3>1 DEF RegistryTypeOK
      <3> QED BY <1>1, <3>1, <3>2, <3>3
    <2> QED BY <2>1, <2>2, <2>3 DEF MapsAgree
  <1>8. RuntimeKeepsRoutes'
    <2> SUFFICES ASSUME NEW c \in AgentConns, c \in byConnectionId'
                 PROVE  qrCodeIds'[c] \subseteq agentToQrCodes'[AgentOf[c]]
      BY DEF RuntimeKeepsRoutes
    <2>1. c \in byConnectionId /\ c \notin known /\ AgentOf[c] \in Agents
      BY <1>1
    <2>2. c \in byAgentId[AgentOf[c]]
      BY <2>1 DEF MapsAgree
    <2>3. agentToQrCodes'[AgentOf[c]] = agentToQrCodes[AgentOf[c]]
      BY <1>3, <2>1, <2>2
    <2> QED BY <1>6, <2>1, <2>3 DEF RuntimeKeepsRoutes
  <1> QED BY <1>1, <1>2, <1>3, <1>4, <1>5, <1>6, <1>7, <1>8

-----------------------------------------------------------------------------
(* One lemma per action.                                                   *)

LEMMA ConnectVisitorKeeps ==
    ASSUME RegistryIInv, NEW c \in Conns, ConnectVisitor(c)
    PROVE  RegistryIInv'
  <1> USE DEF RegistryIInv
  <1>1. c \in VisitorConns /\ sock[c] = "new" /\ RegisterVisitor(c)
    BY DEF ConnectVisitor
  <1>2. PICK s \in {"open", "zombie"} : sock' = [sock EXCEPT ![c] = s]
    BY DEF ConnectVisitor
  <1>3. TokenOf[c] \in Tokens /\ QrOf[c] \in QrCodes
    BY <1>1
  <1>4. RegistryTypeOK'
    BY <1>1, <1>2, <1>3 DEF RegistryTypeOK, RegisterVisitor, SockStates, Conns
  <1>5. MapsAgree'
    <2>1. ASSUME NEW a \in Agents
          PROVE  byAgentId'[a] = {d \in AgentConns \cap byConnectionId' : AgentOf[d] = a}
      BY <1>1 DEF MapsAgree, RegisterVisitor
    <2>2. ASSUME NEW q \in QrCodes
          PROVE  byQrCodeVisitors'[q] = {d \in VisitorConns \cap byConnectionId' : QrOf[d] = q}
      <3>1. byQrCodeVisitors'[q] = IF q = QrOf[c] THEN byQrCodeVisitors[q] \cup {c}
                                   ELSE byQrCodeVisitors[q]
        BY <1>1, <1>3 DEF RegistryTypeOK, RegisterVisitor
      <3>2. byConnectionId' = byConnectionId \cup {c}
        BY <1>1 DEF RegisterVisitor
      <3> QED BY <1>1, <3>1, <3>2 DEF MapsAgree
    <2>3. ASSUME NEW t \in Tokens, bySessionToken'[t] # NoConn
          PROVE  bySessionToken'[t] \in byConnectionId' /\ TokenOf[bySessionToken'[t]] = t
      <3>1. bySessionToken'[t] = IF t = TokenOf[c] THEN c ELSE bySessionToken[t]
        BY <1>1, <1>3 DEF RegistryTypeOK, RegisterVisitor
      <3>2. byConnectionId' = byConnectionId \cup {c}
        BY <1>1 DEF RegisterVisitor
      <3> QED BY <2>3, <3>1, <3>2 DEF MapsAgree
    <2> QED BY <2>1, <2>2, <2>3 DEF MapsAgree
  <1>6. RegisteredWhileOpen'
    BY <1>1, <1>2 DEF RegisteredWhileOpen, RegistryTypeOK, RegisterVisitor
  <1>7. RuntimeKeepsRoutes'
    BY <1>1 DEF RuntimeKeepsRoutes, RegisterVisitor
  <1> QED BY <1>4, <1>5, <1>6, <1>7

\* The connections an agent replaces are its registered ones.
LEMMA AgentsOwn ==
    ASSUME RegistryIInv, NEW a \in Agents
    PROVE  GetAgentConnections(a) \subseteq AgentConns \cap byConnectionId
  BY DEF RegistryIInv, RegistryTypeOK, GetAgentConnections

LEMMA ReplaceAgentKeeps ==
    ASSUME RegistryIInv, NEW c \in Conns, ReplaceAgent(c)
    PROVE  RegistryIInv'
  <1> DEFINE existing == GetAgentConnections(AgentOf[c])
  <1>1. c \in AgentConns /\ AgentOf[c] \in Agents /\ sock[c] = "new" /\ Unregister(existing)
    BY DEF ReplaceAgent
  <1>2. existing \subseteq AgentConns \cap byConnectionId /\ existing \in SUBSET Conns
    BY <1>1, AgentsOwn DEF Conns
  <1>3. sock' = [d \in Conns |-> IF d = c THEN "resolving"
                                 ELSE IF d \in existing /\ sock[d] = "open" THEN "closing"
                                 ELSE sock[d]]
    BY DEF ReplaceAgent
  <1> HIDE DEF existing
  <1>4. /\ byConnectionId' = byConnectionId \ existing
        /\ byAgentId' \in [Agents -> SUBSET AgentConns]
        /\ bySessionToken' \in [Tokens -> VisitorConns \cup {NoConn}]
        /\ agentToQrCodes' \in [Agents -> SUBSET QrCodes]
        /\ byQrCodeVisitors' \in [QrCodes -> SUBSET VisitorConns]
        /\ qrCodeIds' \in [AgentConns -> SUBSET QrCodes]
        /\ MapsAgree' /\ RuntimeKeepsRoutes'
    BY <1>1, <1>2, UnregisterKeepsMaps
  <1>5. RegistryTypeOK'
    BY <1>3, <1>4 DEF RegistryIInv, RegistryTypeOK, SockStates
  <1>6. RegisteredWhileOpen'
    BY <1>1, <1>3, <1>4 DEF RegistryIInv, RegisteredWhileOpen
  <1> QED BY <1>4, <1>5, <1>6 DEF RegistryIInv

LEMMA ResolvedAgentKeeps ==
    ASSUME RegistryIInv, NEW c \in Conns, NEW list \in SUBSET QrCodes, ResolvedAgent(c, list)
    PROVE  RegistryIInv'
  <1> USE DEF RegistryIInv
  <1>1. /\ c \in AgentConns /\ AgentOf[c] \in Agents
        /\ sock[c] \in {"resolving", "lost"} /\ RegisterAgent(c, list)
    BY DEF ResolvedAgent
  <1>2. PICK s \in {"open", "zombie"} : sock' = [sock EXCEPT ![c] = s]
    BY DEF ResolvedAgent
  <1>3. /\ byConnectionId' = byConnectionId \cup {c}
        /\ \A a \in Agents : byAgentId'[a] = IF a = AgentOf[c] THEN byAgentId[a] \cup {c}
                                             ELSE byAgentId[a]
        /\ \A a \in Agents :
              agentToQrCodes'[a] = IF a = AgentOf[c] THEN agentToQrCodes[a] \cup list
                                   ELSE agentToQrCodes[a]
        /\ \A d \in AgentConns : qrCodeIds'[d] = IF d = c THEN list ELSE qrCodeIds[d]
        /\ UNCHANGED <<bySessionToken, byQrCodeVisitors>>
    BY <1>1 DEF RegistryTypeOK, RegisterAgent
  <1>4. RegistryTypeOK'
    BY <1>1, <1>2 DEF RegistryTypeOK, RegisterAgent, SockStates, Conns
  <1>5. MapsAgree'
    <2>1. ASSUME NEW a \in Agents
          PROVE  byAgentId'[a] = {d \in AgentConns \cap byConnectionId' : AgentOf[d] = a}
      <3>1. byAgentId[a] = {d \in AgentConns \cap byConnectionId : AgentOf[d] = a}
        BY DEF MapsAgree
      <3> QED BY <1>1, <1>3, <3>1
    <2>2. ASSUME NEW q \in QrCodes
          PROVE  byQrCodeVisitors'[q] = {d \in VisitorConns \cap byConnectionId' : QrOf[d] = q}
      BY <1>1, <1>3 DEF MapsAgree
    <2>3. ASSUME NEW t \in Tokens, bySessionToken'[t] # NoConn
          PROVE  bySessionToken'[t] \in byConnectionId' /\ TokenOf[bySessionToken'[t]] = t
      BY <1>3, <2>3 DEF MapsAgree
    <2> QED BY <2>1, <2>2, <2>3 DEF MapsAgree
  <1>6. RegisteredWhileOpen'
    BY <1>1, <1>2, <1>3 DEF RegisteredWhileOpen, RegistryTypeOK
  <1>7. RuntimeKeepsRoutes'
    BY <1>1, <1>3 DEF RuntimeKeepsRoutes
  <1> QED BY <1>4, <1>5, <1>6, <1>7

LEMMA PeerCloseKeeps ==
    ASSUME RegistryIInv, NEW c \in Conns, PeerClose(c)
    PROVE  RegistryIInv'
  <1> USE DEF RegistryIInv
  <1>1. PICK s \in {"ended", "lost"} :
           /\ sock' = [sock EXCEPT ![c] = s]
           /\ s = "ended" <=> sock[c] = "open"
           /\ s = "lost" <=> sock[c] = "resolving"
    BY DEF PeerClose
  <1>2. UNCHANGED <<maps, qrCodeIds>>
    BY DEF PeerClose
  <1>3. RegistryTypeOK'
    BY <1>1, <1>2 DEF RegistryTypeOK, SockStates, maps
  <1>4. MapsAgree' /\ RuntimeKeepsRoutes'
    BY <1>2 DEF MapsAgree, RuntimeKeepsRoutes, maps
  <1>5. RegisteredWhileOpen'
    BY <1>1, <1>2 DEF RegisteredWhileOpen, RegistryTypeOK, maps
  <1> QED BY <1>3, <1>4, <1>5

LEMMA CloseEventKeeps ==
    ASSUME RegistryIInv, NEW c \in Conns, CloseEvent(c)
    PROVE  RegistryIInv'
  <1>1. /\ sock[c] \in {"closing", "ended"}
        /\ sock' = [sock EXCEPT ![c] = "closed"]
        /\ Unregister({c})
    BY DEF CloseEvent
  <1>2. /\ byConnectionId' = byConnectionId \ {c}
        /\ byAgentId' \in [Agents -> SUBSET AgentConns]
        /\ bySessionToken' \in [Tokens -> VisitorConns \cup {NoConn}]
        /\ agentToQrCodes' \in [Agents -> SUBSET QrCodes]
        /\ byQrCodeVisitors' \in [QrCodes -> SUBSET VisitorConns]
        /\ qrCodeIds' \in [AgentConns -> SUBSET QrCodes]
        /\ MapsAgree' /\ RuntimeKeepsRoutes'
    BY <1>1, UnregisterKeepsMaps
  <1>3. RegistryTypeOK'
    BY <1>1, <1>2 DEF RegistryIInv, RegistryTypeOK, SockStates
  <1>4. RegisteredWhileOpen'
    BY <1>1, <1>2 DEF RegistryIInv, RegistryTypeOK, RegisteredWhileOpen
  <1> QED BY <1>2, <1>3, <1>4 DEF RegistryIInv

LEMMA RegistryIInvNext == RegistryIInv /\ [RegistryNext]_chatRegistryVars => RegistryIInv'
  <1> SUFFICES ASSUME RegistryIInv, [RegistryNext]_chatRegistryVars PROVE RegistryIInv'
    OBVIOUS
  <1>1. CASE RegistryNext
    <2> PICK c \in Conns :
           \/ ConnectVisitor(c)
           \/ ReplaceAgent(c)
           \/ \E list \in SUBSET QrCodes : ResolvedAgent(c, list)
           \/ PeerClose(c)
           \/ CloseEvent(c)
      BY <1>1 DEF RegistryNext
    <2> QED BY ConnectVisitorKeeps, ReplaceAgentKeeps, ResolvedAgentKeeps, PeerCloseKeeps,
               CloseEventKeeps
  <1>2. CASE UNCHANGED chatRegistryVars
    BY <1>2 DEF chatRegistryVars, maps, RegistryIInv, RegistryTypeOK, MapsAgree,
                RegisteredWhileOpen, RuntimeKeepsRoutes
  <1> QED BY <1>1, <1>2

-----------------------------------------------------------------------------
(* The theorems.                                                           *)

\* The inductive invariant holds.
THEOREM RegistryInvariant == RegistrySpec => []RegistryIInv
  <1>1. (\E used \in SUBSET Conns : RegistryInit(used)) => RegistryIInv
    BY RegistryIInvInit
  <1> QED BY <1>1, RegistryIInvNext, PTL DEF RegistrySpec

\* The maps have their types (registerConnection and unregisterConnection).
THEOREM RegistryTypeCorrect == RegistrySpec => []RegistryTypeOK
  <1>1. RegistryIInv => RegistryTypeOK
    BY DEF RegistryIInv
  <1> QED BY <1>1, RegistryInvariant, PTL

\* The five maps agree, however connections are replaced, lost and closed.
THEOREM MapsAlwaysAgree == RegistrySpec => []MapsAgree
  <1>1. RegistryIInv => MapsAgree
    BY DEF RegistryIInv
  <1> QED BY <1>1, RegistryInvariant, PTL

\* An open connection is registered, and a registered one is not closed by the
\* gateway or forgotten by it.
THEOREM OpenIsRegistered == RegistrySpec => []RegisteredWhileOpen
  <1>1. RegistryIInv => RegisteredWhileOpen
    BY DEF RegistryIInv
  <1> QED BY <1>1, RegistryInvariant, PTL

\* A registered runtime is routed the QR codes it was registered for.
THEOREM RoutesAreKept == RegistrySpec => []RuntimeKeepsRoutes
  <1>1. RegistryIInv => RuntimeKeepsRoutes
    BY DEF RegistryIInv
  <1> QED BY <1>1, RegistryInvariant, PTL

-----------------------------------------------------------------------------
(* Who may take a session's entry away.                                    *)

SessionStep ==
    \A t \in Tokens :
        LET c == bySessionToken[t]
        IN  c # NoConn /\ sock[c] = "open" /\ sock'[c] = "open" /\ bySessionToken'[t] # c
            => \E d \in VisitorConns \ {c} : TokenOf[d] = t /\ sock'[d] # sock[d]

\* An unregistration takes the entry of session t only with one of its
\* connections.
LEMMA UnregisteredSession ==
    ASSUME NEW S, Unregister(S), NEW t \in Tokens, bySessionToken'[t] # bySessionToken[t]
    PROVE  \E d \in S \cap VisitorConns : TokenOf[d] = t
  BY DEF Unregister

LEMMA SessionStepHolds ==
    ASSUME RegistryIInv, [RegistryNext]_chatRegistryVars
    PROVE  SessionStep
  <1> SUFFICES ASSUME NEW t \in Tokens, bySessionToken[t] # NoConn,
                      sock[bySessionToken[t]] = "open", sock'[bySessionToken[t]] = "open",
                      bySessionToken'[t] # bySessionToken[t]
               PROVE  \E d \in VisitorConns \ {bySessionToken[t]} :
                         TokenOf[d] = t /\ sock'[d] # sock[d]
    BY DEF SessionStep
  <1> USE DEF RegistryIInv
  <1>1. PICK e \in Conns :
           \/ ConnectVisitor(e)
           \/ ReplaceAgent(e)
           \/ \E list \in SUBSET QrCodes : ResolvedAgent(e, list)
           \/ PeerClose(e)
           \/ CloseEvent(e)
    BY DEF RegistryNext, chatRegistryVars, maps
  <1>2. CASE ConnectVisitor(e)
    <2>1. e \in VisitorConns /\ sock[e] = "new" /\ sock'[e] # "new"
      BY <1>2 DEF ConnectVisitor, RegistryTypeOK
    <2>2. t = TokenOf[e]
      BY <1>2 DEF ConnectVisitor, RegisterVisitor, RegistryTypeOK
    <2> QED BY <2>1, <2>2
  <1>3. CASE ReplaceAgent(e)
    <2>1. e \in AgentConns /\ AgentOf[e] \in Agents
          /\ Unregister(GetAgentConnections(AgentOf[e]))
      BY <1>3 DEF ReplaceAgent
    <2>2. GetAgentConnections(AgentOf[e]) \subseteq AgentConns
      BY <2>1, AgentsOwn
    <2> QED BY <2>1, <2>2, UnregisteredSession
  <1>4. CASE \E list \in SUBSET QrCodes : ResolvedAgent(e, list)
    BY <1>4 DEF ResolvedAgent, RegisterAgent
  <1>5. CASE PeerClose(e)
    BY <1>5 DEF PeerClose, maps
  <1>6. CASE CloseEvent(e)
    <2>1. e \in VisitorConns /\ TokenOf[e] = t
      BY <1>6, UnregisteredSession DEF CloseEvent
    <2>2. sock[e] # "closed" /\ sock'[e] = "closed"
      BY <1>6 DEF CloseEvent, RegistryTypeOK
    <2> QED BY <2>1, <2>2
  <1> QED BY <1>1, <1>2, <1>3, <1>4, <1>5, <1>6

\* No other visitor and no agent takes away the entry of a session whose
\* connection stays open.
THEOREM OnlySessionTakesEntry == RegistrySpec => SessionLostOnlyWithin
  <1>1. RegistryIInv /\ [RegistryNext]_chatRegistryVars => [SessionStep]_chatRegistryVars
    BY SessionStepHolds
  <1>2. [][SessionStep]_chatRegistryVars => SessionLostOnlyWithin
    BY DEF SessionLostOnlyWithin, SessionStep
  <1> QED BY <1>1, <1>2, RegistryInvariant, PTL DEF RegistrySpec
=============================================================================

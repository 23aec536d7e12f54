------------------------- MODULE AgentPlugin_proofs -------------------------
(***************************************************************************)
(* Theorems about the OpenClaw plugin, for any number of sockets, attempts *)
(* and messages.  AgentPlugin implements PluginConnection, so what is      *)
(* proved of the connection holds while messages come in and replays run.  *)
(* One inductive invariant, ConnectionIInv, proves it together: that       *)
(* attempts do not multiply needs that a socket is closing only after a    *)
(* disconnect and failed only after a reported error, and that nothing is  *)
(* under way before connect().  A second one, HandedOver, is about the     *)
(* messages: what was handed over is marked unless its mark was evicted,   *)
(* and a replay between two pages has handed over every row above its      *)
(* cursor that was there when it began.                                    *)
(***************************************************************************)
EXTENDS AgentPlugin, FiniteSetTheorems, Loops

USE SocksAssumption, MaxAttemptsAssumption, NoSockAssumption

\* Sockets close after a disconnect, fail with an error, and come after connect().
Ordered ==
    /\ \A w \in Socks : sock[w] = "closing" => destroyed
    /\ \A w \in Socks : sock[w] = "failed" => errored
    /\ ~started => Alive = {} /\ tickets = 0 /\ timers = 0
    /\ destroyed => started

ConnectionIInv == ConnectionTypeOK /\ Ordered /\ KeepsTrying /\ OneAttempt

-----------------------------------------------------------------------------
(* Counting the sockets that are alive.                                    *)

LEMMA AliveIsFinite == IsFiniteSet(Alive) /\ Cardinality(Alive) \in Nat
  <1>1. Alive \in SUBSET Socks
    BY DEF Alive
  <1>2. IsFiniteSet(Alive)
    BY <1>1, FS_Subset
  <1> QED BY <1>2, FS_CardinalityType

LEMMA AliveGains ==
    ASSUME NEW w \in Socks, sock[w] = "unused", ConnectionTypeOK,
           sock' = [sock EXCEPT ![w] = "opening"]
    PROVE  Alive' = Alive \cup {w} /\ Cardinality(Alive') = Cardinality(Alive) + 1
  <1>1. Alive' = Alive \cup {w} /\ w \notin Alive
    BY DEF Alive, ConnectionTypeOK
  <1> QED BY <1>1, AliveIsFinite, FS_AddElement

LEMMA AliveLoses ==
    ASSUME NEW w \in Socks, ConnectionTypeOK, sock' = [sock EXCEPT ![w] = "closed"]
    PROVE  /\ Alive' = Alive \ {w}
           /\ Cardinality(Alive') = IF w \in Alive THEN Cardinality(Alive) - 1
                                    ELSE Cardinality(Alive)
  <1>1. Alive' = Alive \ {w}
    BY DEF Alive, ConnectionTypeOK
  <1> QED BY <1>1, AliveIsFinite, FS_RemoveElement

LEMMA AliveIsNone == Cardinality(Alive) = 0 <=> Alive = {}
  BY AliveIsFinite, FS_EmptySet

LEMMA AliveShrinks ==
    ASSUME Alive' \subseteq Alive
    PROVE  Cardinality(Alive') \in Nat /\ Cardinality(Alive') <= Cardinality(Alive)
  <1>1. IsFiniteSet(Alive')
    BY AliveIsFinite, FS_Subset
  <1> QED BY <1>1, AliveIsFinite, FS_Subset, FS_CardinalityType

\* maybeReconnect puts at most one timer up, none after a disconnect, and one
\* unless the attempts are used up.
LEMMA MaybeReconnectCounts ==
    ASSUME ConnectionTypeOK, MaybeReconnect(attempts)
    PROVE  /\ attempts' \in 0..MaxAttempts /\ timers' \in Nat
           /\ destroyed => timers' = timers
           /\ timers' = timers \/ timers' = timers + 1
           /\ ~destroyed => timers' > 0 \/ attempts' = MaxAttempts
  BY DEF ConnectionTypeOK, MaybeReconnect

-----------------------------------------------------------------------------
(* The invariant.                                                          *)

LEMMA ConnectionInitial ==
    ASSUME NEW used, ConnectionInit(used)
    PROVE  ConnectionIInv
  <1> USE DEF ConnectionInit
  <1>1. ConnectionTypeOK
    <2>1. sock \in [Socks -> SockStates]
      BY DEF SockStates
    <2>2. 0 \in 0..MaxAttempts
      OBVIOUS
    <2> QED BY <2>1, <2>2 DEF ConnectionTypeOK
  <1>2. Alive = {}
    BY DEF Alive
  <1>3. Ordered /\ KeepsTrying
    BY <1>2 DEF Ordered, KeepsTrying
  <1>4. OneAttempt
    BY <1>2, AliveIsNone DEF OneAttempt
  <1> QED BY <1>1, <1>3, <1>4 DEF ConnectionIInv

LEMMA ConnectKeeps ==
    ASSUME ConnectionIInv, Connect
    PROVE  ConnectionIInv'
  <1> USE DEF ConnectionIInv, Connect
  <1>1. ConnectionTypeOK'
    BY DEF ConnectionTypeOK
  <1>2. Alive' = Alive /\ Alive = {} /\ tickets = 0 /\ timers = 0
    BY DEF Alive, Ordered
  <1>3. Ordered' /\ KeepsTrying'
    BY <1>1, <1>2 DEF Ordered, KeepsTrying
  <1>4. OneAttempt'
    BY <1>2, AliveIsNone DEF OneAttempt
  <1> QED BY <1>1, <1>3, <1>4

LEMMA TicketAnsweredKeeps ==
    ASSUME ConnectionIInv, NEW w \in Socks, TicketAnswered(w)
    PROVE  ConnectionIInv'
  <1> USE DEF ConnectionIInv
  <1>1. /\ tickets > 0 /\ sock[w] = "unused" /\ tickets' = tickets - 1
        /\ sock' = [sock EXCEPT ![w] = "opening"] /\ ws' = w
        /\ UNCHANGED <<started, destroyed, attempts, timers, errored>>
    BY DEF TicketAnswered
  <1>2. ConnectionTypeOK'
    BY <1>1 DEF ConnectionTypeOK, SockStates
  <1>3. Alive' = Alive \cup {w} /\ Cardinality(Alive') = Cardinality(Alive) + 1
    BY <1>1, AliveGains
  <1>4. Ordered' /\ KeepsTrying'
    BY <1>1, <1>3 DEF Ordered, KeepsTrying, ConnectionTypeOK
  <1>5. OneAttempt'
    BY <1>1, <1>3, AliveIsFinite DEF OneAttempt, ConnectionTypeOK
  <1> QED BY <1>2, <1>4, <1>5

LEMMA TicketFailsKeeps ==
    ASSUME ConnectionIInv, TicketFails
    PROVE  ConnectionIInv'
  <1> USE DEF ConnectionIInv
  <1>1. /\ tickets > 0 /\ tickets' = tickets - 1
        /\ UNCHANGED <<sock, ws, started, destroyed, errored>>
    BY DEF TicketFails
  <1>2. /\ attempts' \in 0..MaxAttempts /\ timers' \in Nat
        /\ timers' = timers \/ timers' = timers + 1
        /\ ~destroyed => timers' > 0 \/ attempts' = MaxAttempts
    BY MaybeReconnectCounts DEF TicketFails
  <1>3. ConnectionTypeOK' /\ Alive' = Alive
    BY <1>1, <1>2 DEF ConnectionTypeOK, Alive
  <1>4. Ordered' /\ KeepsTrying'
    BY <1>1, <1>2, <1>3 DEF Ordered, KeepsTrying, ConnectionTypeOK
  <1>5. OneAttempt'
    BY <1>1, <1>2, <1>3, AliveIsFinite DEF OneAttempt, ConnectionTypeOK
  <1> QED BY <1>3, <1>4, <1>5

LEMMA AckedKeeps ==
    ASSUME ConnectionIInv, NEW w \in Socks, Acked(w)
    PROVE  ConnectionIInv'
  <1> USE DEF ConnectionIInv
  <1>1. /\ sock[w] = "opening" /\ sock' = [sock EXCEPT ![w] = "acked"] /\ attempts' = 0
        /\ UNCHANGED <<ws, started, destroyed, tickets, timers, errored>>
    BY DEF Acked
  <1>2. ConnectionTypeOK'
    BY <1>1 DEF ConnectionTypeOK, SockStates
  <1>3. Alive' = Alive /\ w \in Alive
    BY <1>1 DEF Alive, ConnectionTypeOK
  <1>4. Ordered' /\ KeepsTrying' /\ OneAttempt'
    BY <1>1, <1>3 DEF Ordered, KeepsTrying, OneAttempt, ConnectionTypeOK
  <1> QED BY <1>2, <1>4

LEMMA ConnectErrorKeeps ==
    ASSUME ConnectionIInv, NEW w \in Socks, ConnectError(w)
    PROVE  ConnectionIInv'
  <1> USE DEF ConnectionIInv
  <1>1. /\ sock[w] = "opening" /\ sock' = [sock EXCEPT ![w] = "failed"] /\ errored' = TRUE
        /\ UNCHANGED <<ws, started, destroyed, tickets>>
    BY DEF ConnectError
  <1>2. attempts' \in 0..MaxAttempts /\ timers' \in Nat
    BY MaybeReconnectCounts DEF ConnectError
  <1>3. ConnectionTypeOK'
    BY <1>1, <1>2 DEF ConnectionTypeOK, SockStates
  <1>4. Alive' = Alive /\ w \in Alive
    BY <1>1 DEF Alive, ConnectionTypeOK
  <1>5. Ordered' /\ KeepsTrying' /\ OneAttempt'
    BY <1>1, <1>4 DEF Ordered, KeepsTrying, OneAttempt, ConnectionTypeOK
  <1> QED BY <1>3, <1>5

LEMMA CloseEventKeeps ==
    ASSUME ConnectionIInv, NEW w \in Socks, CloseEvent(w)
    PROVE  ConnectionIInv'
  <1> USE DEF ConnectionIInv
  <1>1. /\ sock[w] \in {"opening", "failed", "acked", "closing"}
        /\ sock' = [sock EXCEPT ![w] = "closed"] /\ ws' = NoSock
        /\ UNCHANGED <<started, destroyed, tickets, errored>>
    BY DEF CloseEvent
  <1>2. /\ attempts' \in 0..MaxAttempts /\ timers' \in Nat
        /\ destroyed => timers' = timers
        /\ timers' = timers \/ timers' = timers + 1
        /\ ~destroyed => timers' > 0 \/ attempts' = MaxAttempts
    BY MaybeReconnectCounts DEF CloseEvent
  <1>3. ConnectionTypeOK'
    BY <1>1, <1>2 DEF ConnectionTypeOK, SockStates
  <1>4. /\ Alive' = Alive \ {w}
        /\ Cardinality(Alive') = IF w \in Alive THEN Cardinality(Alive) - 1
                                 ELSE Cardinality(Alive)
    BY <1>1, AliveLoses
  <1>5. w \in Alive \/ destroyed
    BY <1>1 DEF Alive, Ordered
  <1>6. Ordered'
    <2>1. ~started => ~(w \in Alive) /\ timers' = timers
      BY <1>2, <1>5 DEF Ordered
    <2> QED BY <1>1, <1>4, <2>1 DEF Ordered, ConnectionTypeOK
  <1>7. KeepsTrying'
    BY <1>1, <1>2 DEF KeepsTrying, ConnectionTypeOK
  <1>8. OneAttempt'
    BY <1>1, <1>2, <1>4, <1>5, AliveIsFinite DEF OneAttempt, ConnectionTypeOK
  <1> QED BY <1>3, <1>6, <1>7, <1>8

LEMMA TimerFiresKeeps ==
    ASSUME ConnectionIInv, TimerFires
    PROVE  ConnectionIInv'
  <1> USE DEF ConnectionIInv
  <1>1. /\ timers > 0 /\ timers' = timers - 1
        /\ tickets' = IF destroyed THEN tickets ELSE tickets + 1
        /\ UNCHANGED <<sock, ws, started, destroyed, attempts, errored>>
    BY DEF TimerFires
  <1>2. ConnectionTypeOK' /\ Alive' = Alive
    BY <1>1 DEF ConnectionTypeOK, Alive
  <1>3. Ordered' /\ KeepsTrying'
    BY <1>1, <1>2 DEF Ordered, KeepsTrying, ConnectionTypeOK
  <1>4. OneAttempt'
    BY <1>1, <1>2, AliveIsFinite DEF OneAttempt, ConnectionTypeOK
  <1> QED BY <1>2, <1>3, <1>4

LEMMA DisconnectKeeps ==
    ASSUME ConnectionIInv, Disconnect
    PROVE  ConnectionIInv'
  <1> USE DEF ConnectionIInv
  <1>1. /\ started /\ destroyed' = TRUE /\ ws' = NoSock
        /\ sock' = [w \in Socks |-> IF w = ws /\ sock[w] \in {"opening", "acked"}
                                    THEN "closing" ELSE sock[w]]
        /\ UNCHANGED <<started, attempts, tickets, timers, errored>>
    BY DEF Disconnect
  <1>2. ConnectionTypeOK'
    BY <1>1 DEF ConnectionTypeOK, SockStates
  <1>3. Alive' \subseteq Alive
    BY <1>1 DEF Alive
  <1>4. Ordered' /\ KeepsTrying'
    BY <1>1 DEF Ordered, KeepsTrying, ConnectionTypeOK
  <1>5. OneAttempt'
    BY <1>1, <1>3, AliveShrinks, AliveIsFinite DEF OneAttempt, ConnectionTypeOK
  <1> QED BY <1>2, <1>4, <1>5

LEMMA ConnectionIInvNext == ConnectionIInv /\ [ConnectionNext]_connectionVars => ConnectionIInv'
  <1> SUFFICES ASSUME ConnectionIInv, [ConnectionNext]_connectionVars PROVE ConnectionIInv'
    OBVIOUS
  <1>1. CASE ConnectionNext
    BY <1>1, ConnectKeeps, TicketAnsweredKeeps, TicketFailsKeeps, AckedKeeps,
       ConnectErrorKeeps, CloseEventKeeps, TimerFiresKeeps, DisconnectKeeps DEF ConnectionNext
  <1>2. CASE UNCHANGED connectionVars
    BY <1>2 DEF connectionVars, ConnectionIInv, ConnectionTypeOK, Ordered, KeepsTrying,
                OneAttempt, Alive
  <1> QED BY <1>1, <1>2

-----------------------------------------------------------------------------
(* The plugin.                                                             *)

\* Frames and replays leave the connection alone: client.ts alone connects.
THEOREM PluginImplementsConnection == PluginSpec => ConnectionSpec
  <1>1. PluginInit => \E used \in SUBSET Socks : ConnectionInit(used)
    <2> SUFFICES ASSUME PluginInit PROVE \E used \in SUBSET Socks : ConnectionInit(used)
      OBVIOUS
    <2>1. PICK used \in Scenarios : ConnectionInit(used)
      BY DEF PluginInit
    <2>2. ConnectionInit(used \cap Socks)
      BY <2>1 DEF ConnectionInit
    <2> QED BY <2>2
  <1>2. [PluginNext]_pluginVars => [ConnectionNext]_connectionVars
    <2> SUFFICES ASSUME [PluginNext]_pluginVars PROVE [ConnectionNext]_connectionVars
      OBVIOUS
    <2>1. CASE Connection
      BY <2>1 DEF Connection, ConnectionNext
    <2>2. CASE \E w \in Socks : Connected(w)
      BY <2>2 DEF Connected, ConnectionNext
    <2>3. CASE \E m \in Msgs : Stored(m) \/ \E w \in Socks : LiveFrame(w, m)
      BY <2>3 DEF Stored, LiveFrame
    <2>4. CASE \/ ReplayFires \/ HostTriggers \/ Listed \/ ReplayFails
               \/ PageAnswered \/ DispatchThrows \/ EmptyPage
      BY <2>4 DEF ReplayFires, HostTriggers, Listed, ReplayFails, PageAnswered, DispatchThrows,
                  EmptyPage
    <2>5. CASE UNCHANGED pluginVars
      BY <2>5 DEF pluginVars
    <2> QED BY <2>1, <2>2, <2>3, <2>4, <2>5 DEF PluginNext
  <1> QED BY <1>1, <1>2, PTL DEF PluginSpec, ConnectionSpec

\* The connection's invariant holds of the plugin.
THEOREM ConnectionInvariant == PluginSpec => []ConnectionIInv
  <1>1. (\E used \in SUBSET Socks : ConnectionInit(used)) => ConnectionIInv
    BY ConnectionInitial
  <1>2. ConnectionSpec => []ConnectionIInv
    BY <1>1, ConnectionIInvNext, PTL DEF ConnectionSpec
  <1> QED BY <1>2, PluginImplementsConnection, PTL

\* The plugin does not fall silent: while it is neither disconnected nor out of
\* attempts, a socket, a ticket or a timer is there (doConnect, the close handler
\* and maybeReconnect cover every way to fail).
THEOREM PluginKeepsTrying == PluginSpec => []KeepsTrying
  <1>1. ConnectionIInv => KeepsTrying
    BY DEF ConnectionIInv
  <1> QED BY <1>1, ConnectionInvariant, PTL

\* Attempts multiply only through a connection reported by error and close.
THEOREM AttemptsDoNotMultiply == PluginSpec => []OneAttempt
  <1>1. ConnectionIInv => OneAttempt
    BY DEF ConnectionIInv
  <1> QED BY <1>1, ConnectionInvariant, PTL

-----------------------------------------------------------------------------
(* What follows a disconnect.                                              *)

DisconnectStep == destroyed => Cardinality(Alive') + tickets' <= Cardinality(Alive) + tickets

LEMMA DisconnectStepHolds ==
    ASSUME ConnectionIInv, [ConnectionNext]_connectionVars
    PROVE  DisconnectStep
  <1> SUFFICES ASSUME destroyed
               PROVE  Cardinality(Alive') + tickets' <= Cardinality(Alive) + tickets
    BY DEF DisconnectStep
  <1>1. ConnectionTypeOK /\ ConnectionTypeOK'
    BY ConnectionIInvNext DEF ConnectionIInv
  <1>2. Cardinality(Alive) \in Nat /\ tickets \in Nat /\ tickets' \in Nat
    BY <1>1, AliveIsFinite DEF ConnectionTypeOK
  <1>3. CASE Alive' \subseteq Alive /\ tickets' <= tickets
    BY <1>2, <1>3, AliveShrinks
  <1>4. CASE Connect
    BY <1>4 DEF Connect, ConnectionIInv, Ordered
  <1>5. CASE \E w \in Socks : TicketAnswered(w)
    <2> PICK w \in Socks : TicketAnswered(w)
      BY <1>5
    <2>1. Cardinality(Alive') = Cardinality(Alive) + 1 /\ tickets' = tickets - 1
      BY <1>1, AliveGains DEF TicketAnswered
    <2> QED BY <1>2, <2>1
  <1>6. CASE \E w \in Socks : Acked(w) \/ ConnectError(w) \/ CloseEvent(w)
    <2>1. Alive' \subseteq Alive /\ tickets' = tickets
      BY <1>1, <1>6 DEF Acked, ConnectError, CloseEvent, Alive, ConnectionTypeOK
    <2> QED BY <1>2, <1>3, <2>1
  <1>7. CASE TicketFails \/ TimerFires \/ Disconnect
    <2>1. Alive' \subseteq Alive
      BY <1>7 DEF TicketFails, TimerFires, Disconnect, Alive
    <2>2. tickets' = tickets - 1 \/ tickets' = tickets
      BY <1>7 DEF TicketFails, TimerFires, Disconnect
    <2>3. tickets' <= tickets
      BY <1>2, <2>2
    <2> QED BY <1>3, <2>1, <2>3
  <1>8. CASE UNCHANGED connectionVars
    <2>1. Alive' = Alive /\ tickets' = tickets
      BY <1>8 DEF connectionVars, Alive
    <2> QED BY <1>2, <1>3, <2>1
  <1> QED BY <1>4, <1>5, <1>6, <1>7, <1>8 DEF ConnectionNext

\* After disconnect() no further attempt is started.
THEOREM PluginStaysDisconnected == PluginSpec => DisconnectIsFinal
  <1>1. ConnectionIInv /\ [ConnectionNext]_connectionVars => [DisconnectStep]_connectionVars
    BY DisconnectStepHolds
  <1>2. [][DisconnectStep]_connectionVars => DisconnectIsFinal
    BY DEF DisconnectIsFinal, DisconnectStep
  <1> QED BY <1>1, <1>2, ConnectionInvariant, PluginImplementsConnection, PTL DEF ConnectionSpec


-----------------------------------------------------------------------------
(* Sequences of messages and their elements.                               *)

LEMMA AppendFacts ==
    ASSUME NEW T, NEW s \in Seq(T), NEW x \in T
    PROVE  /\ Append(s, x) \in Seq(T)
           /\ ToSet(Append(s, x)) = ToSet(s) \cup {x}
           /\ IsInjective(s) /\ x \notin ToSet(s) => IsInjective(Append(s, x))
  <1> DEFINE a == Append(s, x)
  <1>1. /\ a \in Seq(T) /\ DOMAIN s = 1..Len(s) /\ Len(s) \in Nat
        /\ DOMAIN a = 1..(Len(s) + 1)
        /\ a[Len(s) + 1] = x
        /\ \A i \in 1..Len(s) : a[i] = s[i]
        /\ \A i \in 1..(Len(s) + 1) : i \in 1..Len(s) \/ i = Len(s) + 1
    OBVIOUS
  <1> HIDE DEF a
  <1>2. ToSet(a) = ToSet(s) \cup {x}
    <2>1. \A i \in 1..Len(s) : i \in 1..(Len(s) + 1)
      BY <1>1
    <2>2. Len(s) + 1 \in 1..(Len(s) + 1)
      BY <1>1
    <2> QED BY <1>1, <2>1, <2>2 DEF ToSet
  <1>3. IsInjective(s) /\ x \notin ToSet(s) => IsInjective(a)
    BY <1>1 DEF ToSet, IsInjective
  <1> QED BY <1>1, <1>2, <1>3 DEF a

LEMMA ConcatFacts ==
    ASSUME NEW T, NEW s \in Seq(T), NEW t \in Seq(T)
    PROVE  /\ s \o t \in Seq(T)
           /\ Len(s \o t) = Len(s) + Len(t)
           /\ \A i \in 1..(Len(s) + Len(t)) :
                 (s \o t)[i] = IF i <= Len(s) THEN s[i] ELSE t[i - Len(s)]
           /\ ToSet(s \o t) = ToSet(s) \cup ToSet(t)
           /\ IsInjective(s) /\ IsInjective(t) /\ ToSet(s) \cap ToSet(t) = {}
                  => IsInjective(s \o t)
  <1> DEFINE c == s \o t
  <1>1. /\ c \in Seq(T) /\ Len(s) \in Nat /\ Len(t) \in Nat
        /\ DOMAIN s = 1..Len(s) /\ DOMAIN t = 1..Len(t)
        /\ Len(c) = Len(s) + Len(t) /\ DOMAIN c = 1..(Len(s) + Len(t))
        /\ \A i \in 1..(Len(s) + Len(t)) : c[i] = IF i <= Len(s) THEN s[i] ELSE t[i - Len(s)]
    OBVIOUS
  <1> HIDE DEF c
  <1>2. \A i \in 1..Len(s) : i \in 1..(Len(s) + Len(t)) /\ c[i] = s[i]
    BY <1>1
  <1>3. \A i \in 1..Len(t) : i + Len(s) \in 1..(Len(s) + Len(t)) /\ c[i + Len(s)] = t[i]
    <2> TAKE i \in 1..Len(t)
    <2>1. i + Len(s) \in 1..(Len(s) + Len(t)) /\ ~(i + Len(s) <= Len(s)) /\ (i + Len(s)) - Len(s) = i
      BY <1>1
    <2> QED BY <1>1, <2>1
  <1>4. \A i \in 1..(Len(s) + Len(t)) :
            \/ i \in 1..Len(s) /\ c[i] = s[i]
            \/ i - Len(s) \in 1..Len(t) /\ c[i] = t[i - Len(s)]
    BY <1>1
  <1>5. ToSet(c) = ToSet(s) \cup ToSet(t)
    BY <1>1, <1>2, <1>3, <1>4 DEF ToSet
  <1>6. ASSUME IsInjective(s), IsInjective(t), ToSet(s) \cap ToSet(t) = {}
        PROVE  IsInjective(c)
    <2> SUFFICES ASSUME NEW i \in 1..(Len(s) + Len(t)), NEW j \in 1..(Len(s) + Len(t)),
                        c[i] = c[j]
                 PROVE  i = j
      BY <1>1 DEF IsInjective
    <2>1. CASE i \in 1..Len(s) /\ j \in 1..Len(s)
      BY <1>1, <1>2, <1>6, <2>1 DEF IsInjective
    <2>2. CASE i - Len(s) \in 1..Len(t) /\ j - Len(s) \in 1..Len(t)
      <3>1. t[i - Len(s)] = t[j - Len(s)]
        BY <1>1, <2>2
      <3>2. i - Len(s) = j - Len(s)
        BY <1>1, <1>6, <2>2, <3>1 DEF IsInjective
      <3> QED BY <1>1, <3>2
    <2>5. \A k \in 1..Len(s), n \in 1..Len(t) : s[k] # t[n]
      <3> SUFFICES ASSUME NEW k \in 1..Len(s), NEW n \in 1..Len(t) PROVE s[k] # t[n]
        OBVIOUS
      <3>1. s[k] \in ToSet(s) /\ t[n] \in ToSet(t)
        BY <1>1 DEF ToSet
      <3> QED BY <1>6, <3>1
    <2>3. CASE i \in 1..Len(s) /\ j - Len(s) \in 1..Len(t)
      BY <1>1, <1>4, <2>3, <2>5
    <2>4. CASE i - Len(s) \in 1..Len(t) /\ j \in 1..Len(s)
      BY <1>1, <1>4, <2>4, <2>5
    <2> QED BY <1>4, <2>1, <2>2, <2>3, <2>4
  <1> QED BY <1>1, <1>5, <1>6 DEF c

\* InsertAt moves the elements behind it up by one.
LEMMA InsertFacts ==
    ASSUME NEW T, NEW s \in Seq(T), NEW x \in T, NEW i \in 1..(Len(s) + 1)
    PROVE  /\ InsertAt(s, i, x) \in Seq(T)
           /\ Len(InsertAt(s, i, x)) = Len(s) + 1
           /\ \A k \in 1..(Len(s) + 1) :
                 InsertAt(s, i, x)[k] = IF k < i THEN s[k] ELSE IF k = i THEN x ELSE s[k - 1]
           /\ ToSet(InsertAt(s, i, x)) = ToSet(s) \cup {x}
           /\ IsInjective(s) /\ x \notin ToSet(s) => IsInjective(InsertAt(s, i, x))
  <1> DEFINE a == SubSeq(s, 1, i - 1)
             b == SubSeq(s, i, Len(s))
             ax == Append(a, x)
             c == InsertAt(s, i, x)
  <1>1. Len(s) \in Nat /\ DOMAIN s = 1..Len(s)
    OBVIOUS
  <1>2. /\ a \in Seq(T) /\ Len(a) = i - 1
        /\ b \in Seq(T) /\ Len(b) = Len(s) - i + 1
        /\ \A k \in 1..(i - 1) : a[k] = s[k]
        /\ \A k \in 1..(Len(s) - i + 1) : b[k] = s[i + k - 1]
    BY <1>1
  <1>3. c = (a \o <<x>>) \o b
    BY DEF InsertAt
  <1> HIDE DEF a, b, c
  <1>4. /\ ax \in Seq(T) /\ Len(ax) = i /\ ax[i] = x
        /\ \A k \in 1..(i - 1) : ax[k] = s[k]
    BY <1>2
  <1>5. a \o <<x>> = ax
    BY <1>2
  <1> HIDE DEF ax
  <1>6. /\ c \in Seq(T) /\ Len(c) = i + (Len(s) - i + 1)
        /\ \A k \in 1..(i + (Len(s) - i + 1)) : c[k] = IF k <= i THEN ax[k] ELSE b[k - i]
    <2> DEFINE d == ax \o b
    <2>1. d \in Seq(T) /\ Len(d) = Len(ax) + Len(b)
      BY <1>2, <1>4, ConcatFacts
    <2>2. \A k \in 1..(Len(ax) + Len(b)) : d[k] = IF k <= Len(ax) THEN ax[k] ELSE b[k - Len(ax)]
      BY <1>2, <1>4, ConcatFacts
    <2>3. c = d
      BY <1>3, <1>5
    <2> HIDE DEF d
    <2> QED BY <1>2, <1>4, <2>1, <2>2, <2>3
  <1>7. i + (Len(s) - i + 1) = Len(s) + 1
    BY <1>1
  <1>8. ASSUME NEW k \in 1..(Len(s) + 1)
        PROVE  c[k] = IF k < i THEN s[k] ELSE IF k = i THEN x ELSE s[k - 1]
    <2>1. CASE k < i
      BY <1>4, <1>6, <1>7, <2>1
    <2>2. CASE k = i
      BY <1>4, <1>6, <1>7, <2>2
    <2>3. CASE k > i
      <3>1. k - i \in 1..(Len(s) - i + 1) /\ i + (k - i) - 1 = k - 1
        BY <1>1, <2>3
      <3>2. b[k - i] = s[i + (k - i) - 1]
        BY <1>2, <3>1
      <3> QED BY <1>6, <1>7, <2>3, <3>1, <3>2
    <2> QED BY <2>1, <2>2, <2>3
  <1>9. DOMAIN c = 1..(Len(s) + 1)
    BY <1>6, <1>7
  <1>10. \A k \in 1..(Len(s) + 1) :
            \/ k < i /\ k \in 1..Len(s) /\ c[k] = s[k]
            \/ k = i /\ c[k] = x
            \/ k > i /\ k - 1 \in 1..Len(s) /\ c[k] = s[k - 1]
    BY <1>1, <1>8
  <1>11. ToSet(c) = ToSet(s) \cup {x}
    <2>1. ASSUME NEW k \in 1..Len(s) PROVE \E n \in 1..(Len(s) + 1) : c[n] = s[k]
      <3>1. CASE k < i
        BY <1>1, <1>8, <3>1
      <3>2. CASE k >= i
        <4>1. k + 1 \in 1..(Len(s) + 1) /\ ~(k + 1 < i) /\ k + 1 # i /\ (k + 1) - 1 = k
          BY <1>1, <3>2
        <4>2. c[k + 1] = s[k]
          BY <1>8, <4>1
        <4> QED BY <4>1, <4>2
      <3> QED BY <3>1, <3>2
    <2>2. i \in 1..(Len(s) + 1) /\ c[i] = x
      BY <1>8
    <2>3. \A k \in 1..(Len(s) + 1) : c[k] = x \/ \E n \in 1..Len(s) : c[k] = s[n]
      BY <1>10
    <2>4. ToSet(c) = {c[k] : k \in 1..(Len(s) + 1)} /\ ToSet(s) = {s[k] : k \in 1..Len(s)}
      BY <1>1, <1>9 DEF ToSet
    <2> QED BY <2>1, <2>2, <2>3, <2>4
  <1>12. ASSUME IsInjective(s), x \notin ToSet(s) PROVE IsInjective(c)
    <2>1. \A k \in 1..Len(s) : s[k] # x
      BY <1>1, <1>12 DEF ToSet
    <2>2. \A k, n \in 1..Len(s) : s[k] = s[n] => k = n
      BY <1>1, <1>12 DEF IsInjective
    <2> SUFFICES ASSUME NEW k \in 1..(Len(s) + 1), NEW n \in 1..(Len(s) + 1), c[k] = c[n]
                 PROVE  k = n
      BY <1>9 DEF IsInjective
    <2>3. \/ k < i /\ k \in 1..Len(s) /\ c[k] = s[k]
          \/ k = i /\ c[k] = x
          \/ k > i /\ k - 1 \in 1..Len(s) /\ c[k] = s[k - 1]
      BY <1>10
    <2>4. \/ n < i /\ n \in 1..Len(s) /\ c[n] = s[n]
          \/ n = i /\ c[n] = x
          \/ n > i /\ n - 1 \in 1..Len(s) /\ c[n] = s[n - 1]
      BY <1>10
    <2>5. CASE k > i /\ k - 1 \in 1..Len(s) /\ c[k] = s[k - 1]
               /\ n > i /\ n - 1 \in 1..Len(s) /\ c[n] = s[n - 1]
      <3>1. k - 1 = n - 1
        BY <2>2, <2>5
      <3> QED BY <1>1, <3>1
    <2>6. CASE k < i /\ k \in 1..Len(s) /\ c[k] = s[k]
               /\ n > i /\ n - 1 \in 1..Len(s) /\ c[n] = s[n - 1]
      <3>1. k = n - 1
        BY <2>2, <2>6
      <3> QED BY <2>6, <3>1
    <2>7. CASE n < i /\ n \in 1..Len(s) /\ c[n] = s[n]
               /\ k > i /\ k - 1 \in 1..Len(s) /\ c[k] = s[k - 1]
      <3>1. n = k - 1
        BY <2>2, <2>7
      <3> QED BY <2>7, <3>1
    <2> QED BY <2>1, <2>2, <2>3, <2>4, <2>5, <2>6, <2>7
  <1> QED BY <1>6, <1>7, <1>8, <1>11, <1>12 DEF c

\* The first elements of a sequence.
LEMMA FirstFacts ==
    ASSUME NEW T, NEW s \in Seq(T), NEW n \in 1..Len(s)
    PROVE  /\ SubSeq(s, 1, n) \in Seq(T)
           /\ ToSet(SubSeq(s, 1, n)) \subseteq ToSet(s)
           /\ IsInjective(s) => IsInjective(SubSeq(s, 1, n))
  <1> DEFINE a == SubSeq(s, 1, n)
  <1>1. /\ a \in Seq(T) /\ DOMAIN a = 1..n /\ DOMAIN s = 1..Len(s) /\ Len(s) \in Nat
        /\ \A k \in 1..n : a[k] = s[k] /\ k \in 1..Len(s)
    OBVIOUS
  <1> HIDE DEF a
  <1>2. ToSet(a) \subseteq ToSet(s)
    BY <1>1 DEF ToSet
  <1>3. IsInjective(s) => IsInjective(a)
    BY <1>1 DEF IsInjective
  <1> QED BY <1>1, <1>2, <1>3 DEF a

\* g[k] is what is left of the first k elements of p without those of S.
Filtering(p, S, g) ==
    \A k \in 0..Len(p) :
        g[k] = IF k = 0 THEN <<>>
               ELSE IF p[k] \in S THEN g[k - 1] ELSE Append(g[k - 1], p[k])

\* The loop over a page leaves what was not seen, each once.
LEMMA FilteringLeaves ==
    ASSUME NEW T, NEW p \in Seq(T), NEW S, NEW g, Filtering(p, S, g)
    PROVE  /\ g[Len(p)] \in Seq(T)
           /\ ToSet(g[Len(p)]) = ToSet(p) \ S
           /\ IsInjective(p) => IsInjective(g[Len(p)])
  <1> DEFINE L == Len(p)
             First(n) == {p[i] : i \in 1..n} \ S
             Good(n) == /\ g[n] \in Seq(T)
                        /\ ToSet(g[n]) = First(n)
                        /\ IsInjective(p) => IsInjective(g[n])
             R == {n \in 0..L : Good(n)}
  <1>1. L \in Nat /\ DOMAIN p = 1..L /\ \A i \in 1..L : p[i] \in T
    OBVIOUS
  <1>2. \A k \in 0..L : g[k] = IF k = 0 THEN <<>>
                               ELSE IF p[k] \in S THEN g[k - 1] ELSE Append(g[k - 1], p[k])
    BY DEF Filtering
  <1>3. 0 \in R
    <2>1. g[0] = <<>> /\ 0 \in 0..L
      BY <1>1, <1>2
    <2>2. <<>> \in Seq(T) /\ ToSet(<<>>) = {} /\ IsInjective(<<>>)
      BY DEF ToSet, IsInjective
    <2>3. First(0) = {}
      OBVIOUS
    <2> QED BY <2>1, <2>2, <2>3
  <1>4. ASSUME NEW n \in 0..L, n \in R, n + 1 \in 0..L PROVE n + 1 \in R
    <2>1. n + 1 \in 1..L /\ p[n + 1] \in T /\ n + 1 # 0 /\ (n + 1) - 1 = n
      BY <1>1, <1>4
    <2>2. g[n + 1] = IF p[n + 1] \in S THEN g[n] ELSE Append(g[n], p[n + 1])
      BY <1>2, <1>4, <2>1
    <2>3. {p[i] : i \in 1..(n + 1)} = {p[i] : i \in 1..n} \cup {p[n + 1]}
      <3>1. \A i \in 1..(n + 1) : i \in 1..n \/ i = n + 1
        OBVIOUS
      <3>2. \A i \in 1..n : i \in 1..(n + 1)
        OBVIOUS
      <3>3. n + 1 \in 1..(n + 1)
        OBVIOUS
      <3> QED BY <3>1, <3>2, <3>3
    <2>4. CASE p[n + 1] \in S
      <3>1. First(n + 1) = First(n) /\ g[n + 1] = g[n]
        BY <2>2, <2>3, <2>4
      <3> QED BY <1>4, <3>1
    <2>5. CASE p[n + 1] \notin S
      <3>1. First(n + 1) = First(n) \cup {p[n + 1]} /\ g[n + 1] = Append(g[n], p[n + 1])
        BY <2>2, <2>3, <2>5
      <3>2. g[n] \in Seq(T) /\ ToSet(g[n]) = First(n) /\ (IsInjective(p) => IsInjective(g[n]))
        BY <1>4
      <3>3. IsInjective(p) => p[n + 1] \notin First(n)
        <4> SUFFICES ASSUME IsInjective(p), NEW i \in 1..n, p[i] = p[n + 1] PROVE FALSE
          OBVIOUS
        <4>1. i \in 1..L /\ i # n + 1
          BY <1>1, <1>4
        <4> QED BY <1>1, <2>1, <4>1 DEF IsInjective
      <3> HIDE DEF First
      <3>4. /\ g[n + 1] \in Seq(T) /\ ToSet(g[n + 1]) = First(n + 1)
            /\ IsInjective(p) => IsInjective(g[n + 1])
        <4> DEFINE l == g[n]
                   m == p[n + 1]
        <4>1. l \in Seq(T) /\ m \in T
          BY <2>1, <3>2
        <4> HIDE DEF l, m
        <4>2. /\ Append(l, m) \in Seq(T) /\ ToSet(Append(l, m)) = ToSet(l) \cup {m}
              /\ IsInjective(l) /\ m \notin ToSet(l) => IsInjective(Append(l, m))
          BY <4>1, AppendFacts
        <4> QED BY <3>1, <3>2, <3>3, <4>2 DEF l, m
      <3> QED BY <1>4, <3>4
    <2> QED BY <2>4, <2>5
  <1>5. L \in R
    <2>1. \A n \in 0..L : n \in R /\ n + 1 \in 0..L => n + 1 \in R
      BY <1>4
    <2> HIDE DEF R
    <2>2. 0..L \subseteq R
      BY <1>1, <1>3, <2>1, UpTo, Zenon
    <2> QED BY <1>1, <2>2
  <1>6. First(L) = ToSet(p) \ S
    BY <1>1 DEF ToSet
  <1> QED BY <1>5, <1>6


\* The loop over the page has a value behind every message.
LEMMA UnseenLoop ==
    ASSUME NEW T, Page \in Seq(T)
    PROVE  \E g : Filtering(Page, ToSet(seen), g) /\ Unseen = g[Len(Page)]
  <1> DEFINE p == Page
             S == ToSet(seen)
             L == Len(p)
             step == [x \in Seq(T) \X (1..L) |->
                         IF p[x[2]] \in S THEN x[1] ELSE Append(x[1], p[x[2]])]
             Defines(g) == g = [k \in 0..L |->
                                  IF k = 0 THEN <<>>
                                  ELSE IF p[k] \in S THEN g[k - 1] ELSE Append(g[k - 1], p[k])]
             of == CHOOSE f : Defines(f)
  <1>1. Unseen = of[L]
    BY DEF Unseen
  <1>2. p \in Seq(T)
    OBVIOUS
  <1> HIDE DEF p, S
  <1>3. L \in Nat /\ (\A i \in 1..L : p[i] \in T) /\ <<>> \in Seq(T)
    BY <1>2
  <1>4. step \in [Seq(T) \X (1..L) -> Seq(T)]
    BY <1>3
  <1>5. PICK g \in [0..L -> Seq(T)] : Rounds(<<>>, step, L, g)
    <2> HIDE DEF step
    <2> QED BY <1>3, <1>4, LoopHasValues
  <1>6. \A k \in 1..L : g[k] = IF p[k] \in S THEN g[k - 1] ELSE Append(g[k - 1], p[k])
    <2> TAKE k \in 1..L
    <2>1. k - 1 \in 0..L
      BY <1>3
    <2>2. g[k - 1] \in Seq(T)
      BY <2>1
    <2>3. g[k] = step[<<g[k - 1], k>>]
      BY <1>5 DEF Rounds
    <2> QED BY <2>2, <2>3
  <1>7. Defines(g)
    <2>1. ASSUME NEW k \in 0..L
          PROVE  g[k] = IF k = 0 THEN <<>>
                        ELSE IF p[k] \in S THEN g[k - 1] ELSE Append(g[k - 1], p[k])
      <3>1. CASE k = 0
        BY <1>5, <3>1 DEF Rounds
      <3>2. CASE k # 0
        <4>1. k \in 1..L
          BY <1>3, <3>2
        <4> QED BY <1>6, <3>2, <4>1
      <3> QED BY <3>1, <3>2
    <2> QED BY <2>1
  <1>8. Defines(of)
    BY <1>7
  <1> HIDE DEF of
  <1>9. Filtering(p, S, of)
    BY <1>8 DEF Filtering
  <1> QED BY <1>1, <1>9 DEF p, S

\* A page is the rows from LastRow to FirstRow, which are below the cursor.
LEMMA PageFacts ==
    ASSUME NEW T, rows \in Seq(T), IsInjective(rows), cursor \in 0..Len(rows)
    PROVE  /\ FirstRow \in 0..Len(rows) /\ LastRow \in 1..(FirstRow + 1)
           /\ LastRow > 1 => LastRow \in 1..FirstRow
           /\ Page \in Seq(T) /\ IsInjective(Page)
           /\ ToSet(Page) = {rows[k] : k \in LastRow..FirstRow}
  <1> USE LimitAssumption
  <1>1. /\ FirstRow \in 0..Len(rows) /\ LastRow \in 1..(FirstRow + 1)
        /\ LastRow > 1 => LastRow \in 1..FirstRow
    BY DEF FirstRow, LastRow
  <1> DEFINE first == FirstRow
             last == LastRow
             part == SubSeq(rows, last, first)
             n == first - last + 1
  <1> HIDE DEF first, last
  <1>2. first \in 0..Len(rows) /\ last \in 1..(first + 1) /\ Len(rows) \in Nat /\ n \in Nat
    BY <1>1 DEF first, last
  <1>3. /\ part \in Seq(T) /\ Len(part) = n
        /\ \A i \in 1..n : part[i] = rows[last + i - 1]
    BY <1>2
  <1> HIDE DEF part
  <1>4. Page = [i \in 1..n |-> part[n - i + 1]]
    BY <1>3 DEF Page, Reverse, part, first, last
  <1>5. \A i \in 1..n : n - i + 1 \in 1..n /\ first - i + 1 \in last..first
                        /\ last + (n - i + 1) - 1 = first - i + 1
    BY <1>2
  <1>6. ASSUME NEW i \in 1..n PROVE Page[i] = rows[first - i + 1]
    <2>1. Page[i] = part[n - i + 1]
      BY <1>4
    <2>2. part[n - i + 1] = rows[last + (n - i + 1) - 1]
      BY <1>3, <1>5
    <2> QED BY <1>5, <2>1, <2>2
  <1>7. \A k \in last..first : k \in 1..Len(rows) /\ rows[k] \in T
    BY <1>2
  <1>8. Page \in Seq(T) /\ DOMAIN Page = 1..n
    <2>1. Page \in [1..n -> T]
      BY <1>4, <1>5, <1>6, <1>7
    <2> QED BY <1>2, <2>1
  <1> HIDE DEF n
  <1>9. IsInjective(Page)
    <2> SUFFICES ASSUME NEW i \in 1..n, NEW j \in 1..n, Page[i] = Page[j] PROVE i = j
      BY <1>8 DEF IsInjective
    <2> DEFINE a == first - i + 1
               b == first - j + 1
    <2>1. a \in last..first /\ b \in last..first
      BY <1>5
    <2>2. rows[a] = rows[b]
      BY <1>6
    <2> HIDE DEF a, b
    <2>3. a \in DOMAIN rows /\ b \in DOMAIN rows
      BY <1>7, <2>1
    <2>4. a = b
      BY <2>2, <2>3 DEF IsInjective
    <2>5. first - i + 1 = first - j + 1
      BY <2>4 DEF a, b
    <2> QED BY <1>2, <2>5
  <1>10. ToSet(Page) = {rows[k] : k \in last..first}
    <2>1. ASSUME NEW k \in last..first
          PROVE  \E i \in 1..n : Page[i] = rows[k]
      <3> DEFINE i == first - k + 1
      <3>1. i \in 1..n /\ first - i + 1 = k
        BY <1>2 DEF n
      <3> HIDE DEF i
      <3>2. Page[i] = rows[first - i + 1]
        BY <1>6, <3>1
      <3> QED BY <3>1, <3>2
    <2>2. ASSUME NEW i \in 1..n
          PROVE  \E k \in last..first : Page[i] = rows[k]
      <3>1. first - i + 1 \in last..first
        BY <1>5
      <3> QED BY <1>6, <3>1
    <2>3. ToSet(Page) = {Page[i] : i \in 1..n}
      BY <1>8 DEF ToSet
    <2> QED BY <2>1, <2>2, <2>3
  <1> QED BY <1>1, <1>8, <1>9, <1>10 DEF first, last

LEMMA UnseenFacts ==
    ASSUME NEW T, rows \in Seq(T), IsInjective(rows), cursor \in 0..Len(rows)
    PROVE  /\ Unseen \in Seq(T)
           /\ ToSet(Unseen) = ToSet(Page) \ ToSet(seen)
           /\ IsInjective(Unseen)
  <1>1. Page \in Seq(T) /\ IsInjective(Page)
    BY PageFacts
  <1>2. PICK g : Filtering(Page, ToSet(seen), g) /\ Unseen = g[Len(Page)]
    BY <1>1, UnseenLoop
  <1> QED BY <1>1, <1>2, FilteringLeaves

-----------------------------------------------------------------------------
(* What was handed over.                                                   *)

\* What was marked was handed over, and what was handed over is marked unless
\* its id made room for another one's.
Marked ==
    /\ ToSet(seen) \subseteq ToSet(log)
    /\ ToSet(log) \subseteq ToSet(seen) \cup evicted

\* Between two pages a replay has handed over the rows from its cursor upwards
\* that were there when it began.
OwnPaged ==
    IF cursor = 0 THEN own = {}
    ELSE /\ replay = "paging"
         /\ \A k \in cursor..Len(rows) : rows[k] \in there => rows[k] \in own
         /\ own \subseteq {rows[k] : k \in cursor..Len(rows)}
         /\ own \subseteq ToSet(log)

\* The inductive invariant, beside the connection's type invariant.
HandedOver == PluginTypeOK /\ Marked /\ DispatchedOnce /\ OwnPaged

LEMMA HandedOverInitial == PluginInit => HandedOver
  <1> SUFFICES ASSUME PluginInit PROVE HandedOver
    OBVIOUS
  <1> USE DEF PluginInit
  <1>1. ConnectionTypeOK
    BY ConnectionInitial DEF ConnectionIInv
  <1>2. ToSet(<<>>) = {} /\ IsInjective(<<>>) /\ (\A T : <<>> \in Seq(T)) /\ Len(<<>>) = 0
    BY DEF ToSet, IsInjective
  <1>3. sent \subseteq Msgs
    OBVIOUS
  <1>4. PluginTypeOK
    BY <1>1, <1>2, <1>3 DEF PluginTypeOK
  <1>5. Marked /\ OwnPaged
    BY <1>2 DEF Marked, OwnPaged
  <1>6. DispatchedOnce
    BY <1>2 DEF DispatchedOnce
  <1> QED BY <1>4, <1>5, <1>6 DEF HandedOver

\* One more message is handed over: it is new or made room once.
LEMMA OnceMore ==
    ASSUME NEW m \in Msgs, log \in Seq(Msgs), log' = Append(log, m), m \in ToSet(log) => m \in evicted',
           evicted \subseteq evicted', DispatchedOnce
    PROVE  DispatchedOnce'
  <1>1. /\ Len(log) \in Nat /\ DOMAIN log = 1..Len(log)
        /\ Len(log') = Len(log) + 1 /\ log'[Len(log) + 1] = m
        /\ \A i \in 1..Len(log) : log'[i] = log[i]
        /\ \A i \in 1..(Len(log) + 1) : i \in 1..Len(log) \/ i = Len(log) + 1
    OBVIOUS
  <1>2. \A i \in 1..Len(log) : log[i] \in ToSet(log)
    BY <1>1 DEF ToSet
  <1> QED BY <1>1, <1>2 DEF DispatchedOnce

\* The same for what a page hands over.
LEMMA OnceForAPage ==
    ASSUME NEW t \in Seq(Msgs), IsInjective(t), ToSet(t) \cap ToSet(log) \subseteq evicted,
           log \in Seq(Msgs), log' = log \o t, evicted' = evicted, DispatchedOnce
    PROVE  DispatchedOnce'
  <1> DEFINE c == log \o t
  <1>1. /\ Len(log) \in Nat /\ Len(t) \in Nat /\ Len(c) = Len(log) + Len(t)
        /\ \A i \in 1..(Len(log) + Len(t)) : c[i] = IF i <= Len(log) THEN log[i] ELSE t[i - Len(log)]
    BY ConcatFacts
  <1> HIDE DEF c
  <1>2. \A i \in 1..(Len(log) + Len(t)) :
            \/ i \in 1..Len(log) /\ c[i] = log[i]
            \/ i - Len(log) \in 1..Len(t) /\ c[i] = t[i - Len(log)]
    BY <1>1
  <1>3. DOMAIN log = 1..Len(log) /\ DOMAIN t = 1..Len(t)
    OBVIOUS
  <1>4. \A i \in 1..Len(log), j \in 1..Len(t) : log[i] = t[j] => log[i] \in evicted
    BY <1>3 DEF ToSet
  <1>5. \A i, j \in 1..Len(c) : c[i] = c[j] => i = j \/ c[i] \in evicted
    <2> SUFFICES ASSUME NEW i \in 1..(Len(log) + Len(t)), NEW j \in 1..(Len(log) + Len(t)), c[i] = c[j]
                 PROVE  i = j \/ c[i] \in evicted
      BY <1>1
    <2>1. CASE i \in 1..Len(log) /\ c[i] = log[i] /\ j \in 1..Len(log) /\ c[j] = log[j]
      BY <2>1 DEF DispatchedOnce
    <2>2. CASE i - Len(log) \in 1..Len(t) /\ c[i] = t[i - Len(log)]
               /\ j - Len(log) \in 1..Len(t) /\ c[j] = t[j - Len(log)]
      <3>1. i - Len(log) = j - Len(log)
        BY <1>3, <2>2 DEF IsInjective
      <3> QED BY <1>1, <3>1
    <2>3. CASE i \in 1..Len(log) /\ c[i] = log[i]
               /\ j - Len(log) \in 1..Len(t) /\ c[j] = t[j - Len(log)]
      BY <1>4, <2>3
    <2>4. CASE i - Len(log) \in 1..Len(t) /\ c[i] = t[i - Len(log)]
               /\ j \in 1..Len(log) /\ c[j] = log[j]
      BY <1>4, <2>4
    <2> QED BY <1>2, <2>1, <2>2, <2>3, <2>4
  <1>6. log' = c
    BY DEF c
  <1> QED BY <1>5, <1>6 DEF DispatchedOnce

\* The set of marks keeps each id once, and the new one last.
LEMMA SeenWithFacts ==
    ASSUME NEW m \in Msgs \ ToSet(seen), seen \in Seq(Msgs), IsInjective(seen)
    PROVE  /\ SeenWith(m) \in Seq(Msgs) /\ IsInjective(SeenWith(m))
           /\ ToSet(SeenWith(m)) \subseteq ToSet(seen) \cup {m}
           /\ m \in ToSet(SeenWith(m))
  <1>1. CASE Len(seen) + 1 > Capacity
    <2>1. seen # <<>> /\ Len(seen) \in Nat /\ Len(seen) > 0
      BY <1>1, CapacityAssumption
    <2> DEFINE l == Tail(seen)
    <2>2. /\ l \in Seq(Msgs) /\ DOMAIN l = 1..(Len(seen) - 1) /\ DOMAIN seen = 1..Len(seen)
          /\ \A i \in 1..(Len(seen) - 1) : l[i] = seen[i + 1] /\ i + 1 \in 1..Len(seen)
      BY <2>1
    <2> HIDE DEF l
    <2>3. ToSet(l) \subseteq ToSet(seen)
      BY <2>2 DEF ToSet
    <2>4. IsInjective(l)
      <3> SUFFICES ASSUME NEW a \in 1..(Len(seen) - 1), NEW b \in 1..(Len(seen) - 1), l[a] = l[b]
                   PROVE  a = b
        BY <2>2 DEF IsInjective
      <3>1. seen[a + 1] = seen[b + 1] /\ a + 1 \in DOMAIN seen /\ b + 1 \in DOMAIN seen
        BY <2>2
      <3>2. a + 1 = b + 1
        BY <3>1 DEF IsInjective
      <3> QED BY <2>1, <3>2
    <2>5. SeenWith(m) = Append(l, m)
      BY <1>1 DEF SeenWith, l
    <2> QED BY <2>2, <2>3, <2>4, <2>5, AppendFacts
  <1>2. CASE ~(Len(seen) + 1 > Capacity)
    <2>1. SeenWith(m) = Append(seen, m)
      BY <1>2 DEF SeenWith
    <2> QED BY <2>1, AppendFacts
  <1> QED BY <1>1, <1>2

LEMMA FrameKeepsHandedOver ==
    ASSUME HandedOver, ConnectionTypeOK', NEW w \in Socks, NEW m \in Msgs, LiveFrame(w, m)
    PROVE  HandedOver'
  <1>1. /\ got' = [got EXCEPT ![w] = @ \cup {m}]
        /\ UNCHANGED <<sent, rows, deferred, replay, cursor, there, own>>
    BY DEF LiveFrame, replayVars
  <1>2. PluginTypeOK /\ Marked /\ DispatchedOnce /\ OwnPaged
    BY DEF HandedOver
  <1>3. seen \in Seq(Msgs) /\ IsInjective(seen) /\ log \in Seq(Msgs) /\ evicted \subseteq Msgs
        /\ got \in [Socks -> SUBSET Msgs]
    BY <1>2 DEF PluginTypeOK
  <1>4. got' \in [Socks -> SUBSET Msgs]
    BY <1>1, <1>3
  <1>5. CASE m \in ToSet(seen)
    <2>1. UNCHANGED <<seen, log, evicted>>
      BY <1>5 DEF LiveFrame
    <2>2. PluginTypeOK'
      BY <1>1, <1>2, <1>4, <2>1 DEF PluginTypeOK
    <2> QED BY <1>1, <1>2, <2>1, <2>2 DEF HandedOver, Marked, DispatchedOnce, OwnPaged
  <1>6. CASE m \notin ToSet(seen)
    <2>1. /\ log' = Append(log, m) /\ seen' = SeenWith(m)
          /\ evicted' = evicted \cup (ToSet(seen) \ ToSet(seen'))
      BY <1>6 DEF LiveFrame
    <2>2. /\ seen' \in Seq(Msgs) /\ IsInjective(seen')
          /\ ToSet(seen') \subseteq ToSet(seen) \cup {m} /\ m \in ToSet(seen')
      BY <1>3, <1>6, <2>1, SeenWithFacts
    <2>3. log' \in Seq(Msgs) /\ ToSet(log') = ToSet(log) \cup {m}
      BY <1>3, <2>1, AppendFacts
    <2>4. ToSet(seen) \subseteq Msgs
      BY <1>3 DEF ToSet
    <2>5. PluginTypeOK'
      BY <1>1, <1>2, <1>3, <1>4, <2>1, <2>2, <2>3, <2>4 DEF PluginTypeOK
    <2>6. Marked'
      BY <1>2, <2>1, <2>2, <2>3 DEF Marked
    <2>7. DispatchedOnce'
      <3>1. m \in ToSet(log) => m \in evicted'
        BY <1>2, <1>6, <2>1 DEF Marked
      <3> QED BY <1>2, <1>3, <2>1, <3>1, OnceMore
    <2>8. OwnPaged'
      BY <1>1, <1>2, <2>3 DEF OwnPaged
    <2> QED BY <2>5, <2>6, <2>7, <2>8 DEF HandedOver
  <1> QED BY <1>5, <1>6

LEMMA StoredKeepsHandedOver ==
    ASSUME HandedOver, ConnectionTypeOK', NEW m \in Msgs, Stored(m)
    PROVE  HandedOver'
  <1>1. PICK i \in 1..(Len(rows) + 1) : /\ rows' = InsertAt(rows, i, m)
                                        /\ cursor' = IF i <= cursor THEN cursor + 1 ELSE cursor
    BY DEF Stored
  <1>2. /\ m \in sent \ ToSet(rows)
        /\ UNCHANGED <<sent, got, seen, log, deferred, replay, there, own, evicted>>
    BY DEF Stored
  <1>3. PluginTypeOK /\ Marked /\ DispatchedOnce /\ OwnPaged
    BY DEF HandedOver
  <1>4. /\ rows \in Seq(sent) /\ IsInjective(rows) /\ cursor \in 0..Len(rows)
        /\ there \subseteq ToSet(rows) /\ Len(rows) \in Nat /\ DOMAIN rows = 1..Len(rows)
    BY <1>3 DEF PluginTypeOK
  <1>5. /\ rows' \in Seq(sent) /\ IsInjective(rows') /\ Len(rows') = Len(rows) + 1
        /\ ToSet(rows') = ToSet(rows) \cup {m}
        /\ \A k \in 1..(Len(rows) + 1) :
              rows'[k] = IF k < i THEN rows[k] ELSE IF k = i THEN m ELSE rows[k - 1]
    <2> DEFINE c == InsertAt(rows, i, m)
    <2>1. m \in sent /\ m \notin ToSet(rows) /\ rows' = c
      BY <1>1, <1>2
    <2>2. /\ c \in Seq(sent)
          /\ Len(c) = Len(rows) + 1
          /\ \A k \in 1..(Len(rows) + 1) :
                c[k] = IF k < i THEN rows[k] ELSE IF k = i THEN m ELSE rows[k - 1]
          /\ ToSet(c) = ToSet(rows) \cup {m}
          /\ IsInjective(rows) /\ m \notin ToSet(rows) => IsInjective(c)
      BY <1>4, <2>1, InsertFacts, Zenon
    <2> HIDE DEF c
    <2> QED BY <1>4, <2>1, <2>2
  <1>6. cursor' \in 0..Len(rows')
    BY <1>1, <1>4, <1>5
  <1>7. PluginTypeOK'
    BY <1>2, <1>3, <1>4, <1>5, <1>6 DEF PluginTypeOK
  <1>8. OwnPaged'
    <2>1. CASE cursor = 0
      BY <1>1, <1>2, <1>3, <2>1 DEF OwnPaged
    <2>2. CASE cursor # 0
      <3>1. /\ \A k \in cursor..Len(rows) : rows[k] \in there => rows[k] \in own
            /\ own \subseteq {rows[k] : k \in cursor..Len(rows)}
            /\ cursor' # 0
        BY <1>1, <1>3, <1>4, <2>2 DEF OwnPaged
      <3>2. ASSUME NEW k \in cursor'..Len(rows'), rows'[k] \in there PROVE rows'[k] \in own
        <4>1. k \in 1..(Len(rows) + 1) /\ m \notin there
          BY <1>2, <1>4, <1>5, <1>6, <3>1
        <4>2. CASE k < i
          <5>1. k \in cursor..Len(rows) /\ rows'[k] = rows[k]
            BY <1>1, <1>4, <1>5, <4>1, <4>2
          <5> QED BY <3>1, <3>2, <5>1
        <4>3. CASE k = i
          BY <1>5, <3>2, <4>1, <4>3
        <4>4. CASE k > i
          <5>1. k - 1 \in cursor..Len(rows) /\ rows'[k] = rows[k - 1]
            BY <1>1, <1>4, <1>5, <4>1, <4>4
          <5> QED BY <3>1, <3>2, <5>1
        <4> QED BY <4>1, <4>2, <4>3, <4>4
      <3>3. ASSUME NEW k \in cursor..Len(rows)
            PROVE  \E n \in cursor'..Len(rows') : rows'[n] = rows[k]
        <4>1. CASE k < i
          BY <1>1, <1>4, <1>5, <4>1, <2>2
        <4>2. CASE k >= i
          <5>1. /\ k + 1 \in cursor'..Len(rows') /\ k + 1 \in 1..(Len(rows) + 1)
                /\ ~(k + 1 < i) /\ k + 1 # i /\ (k + 1) - 1 = k
            BY <1>1, <1>4, <1>5, <4>2, <2>2
          <5>2. rows'[k + 1] = rows[k]
            BY <1>5, <5>1
          <5> QED BY <5>1, <5>2
        <4> QED BY <1>4, <4>1, <4>2
      <3>4. own \subseteq {rows'[k] : k \in cursor'..Len(rows')}
        BY <3>1, <3>3
      <3> QED BY <1>2, <1>3, <2>2, <3>1, <3>2, <3>4 DEF OwnPaged
    <2> QED BY <2>1, <2>2
  <1>9. Marked' /\ DispatchedOnce'
    BY <1>2, <1>3 DEF Marked, DispatchedOnce
  <1> QED BY <1>7, <1>8, <1>9 DEF HandedOver

\* What is handed over of a page is new.
LEMMA HandOverFacts ==
    ASSUME HandedOver, evicted' = evicted,
           NEW u \in Seq(Msgs), IsInjective(u), ToSet(u) \cap ToSet(seen) = {}, HandOver(u)
    PROVE  /\ log' \in Seq(Msgs) /\ seen' \in Seq(Msgs) /\ IsInjective(seen')
           /\ ToSet(log') = ToSet(log) \cup ToSet(u)
           /\ Marked' /\ DispatchedOnce'
  <1>1. PluginTypeOK /\ Marked /\ DispatchedOnce
    BY DEF HandedOver
  <1>2. seen \in Seq(Msgs) /\ IsInjective(seen) /\ log \in Seq(Msgs)
    BY <1>1 DEF PluginTypeOK
  <1>3. log' = log \o u /\ seen' = seen \o u
    BY DEF HandOver
  <1>4. log' \in Seq(Msgs) /\ ToSet(log') = ToSet(log) \cup ToSet(u)
    BY <1>2, <1>3, ConcatFacts
  <1>5. seen' \in Seq(Msgs) /\ ToSet(seen') = ToSet(seen) \cup ToSet(u) /\ IsInjective(seen')
    BY <1>2, <1>3, ConcatFacts
  <1>6. Marked'
    BY <1>1, <1>4, <1>5 DEF Marked
  <1>7. DispatchedOnce'
    <2>1. ToSet(u) \cap ToSet(log) \subseteq evicted
      BY <1>1 DEF Marked
    <2> QED BY <1>1, <1>2, <1>3, <2>1, OnceForAPage
  <1> QED BY <1>4, <1>5, <1>6, <1>7

\* A page's rows are all handed over then, by this step or before.
LEMMA PageFactsHandedOver ==
    ASSUME HandedOver, evicted' = evicted, HandOver(Unseen)
    PROVE  /\ log' \in Seq(Msgs) /\ seen' \in Seq(Msgs) /\ IsInjective(seen')
           /\ ToSet(log) \subseteq ToSet(log') /\ ToSet(Page) \subseteq ToSet(log')
           /\ ToSet(Unseen) = ToSet(Page) \ ToSet(seen)
           /\ Marked' /\ DispatchedOnce'
  <1>1. PluginTypeOK /\ Marked
    BY DEF HandedOver
  <1>2. rows \in Seq(Msgs) /\ IsInjective(rows) /\ cursor \in 0..Len(rows)
    BY <1>1 DEF PluginTypeOK
  <1>3. /\ Unseen \in Seq(Msgs) /\ IsInjective(Unseen)
        /\ ToSet(Unseen) = ToSet(Page) \ ToSet(seen)
    BY <1>2, UnseenFacts
  <1>4. ToSet(Unseen) \cap ToSet(seen) = {}
    BY <1>3
  <1>5. /\ log' \in Seq(Msgs) /\ seen' \in Seq(Msgs) /\ IsInjective(seen')
        /\ ToSet(log') = ToSet(log) \cup ToSet(Unseen)
        /\ Marked' /\ DispatchedOnce'
    BY <1>3, <1>4, HandOverFacts
  <1> QED BY <1>1, <1>3, <1>5 DEF Marked

LEMMA PageKeepsHandedOver ==
    ASSUME HandedOver, ConnectionTypeOK', PageAnswered
    PROVE  HandedOver'
  <1>1. UNCHANGED <<sent, rows, got, deferred, evicted>> /\ HandOver(Unseen)
    BY DEF PageAnswered
  <1>2. PluginTypeOK /\ OwnPaged
    BY DEF HandedOver
  <1>3. /\ log' \in Seq(Msgs) /\ seen' \in Seq(Msgs) /\ IsInjective(seen')
        /\ ToSet(log) \subseteq ToSet(log') /\ ToSet(Page) \subseteq ToSet(log')
        /\ ToSet(Unseen) = ToSet(Page) \ ToSet(seen)
        /\ Marked' /\ DispatchedOnce'
    BY <1>1, PageFactsHandedOver
  <1>4. /\ rows \in Seq(Msgs) /\ IsInjective(rows) /\ cursor \in 0..Len(rows)
        /\ there \subseteq ToSet(rows) /\ Len(rows) \in Nat /\ own \subseteq Msgs
    BY <1>2 DEF PluginTypeOK
  <1>5. /\ FirstRow \in 0..Len(rows) /\ (LastRow > 1 => LastRow \in 1..FirstRow)
        /\ ToSet(Page) = {rows[k] : k \in LastRow..FirstRow} /\ Page \in Seq(Msgs)
    BY <1>4, PageFacts
  <1>6. CASE EndReplay
    <2>1. replay' = "idle" /\ cursor' = 0 /\ there' = {} /\ own' = {}
      BY <1>6 DEF EndReplay
    <2>2. PluginTypeOK'
      BY <1>1, <1>2, <1>3, <1>4, <2>1 DEF PluginTypeOK
    <2>3. OwnPaged'
      BY <2>1 DEF OwnPaged
    <2> QED BY <1>3, <2>2, <2>3 DEF HandedOver
  <1>7. CASE ~EndReplay
    <2>1. /\ LastRow > 1 /\ ~HitSeen /\ cursor' = LastRow
          /\ there' = IF cursor = 0 THEN ToSet(rows) ELSE there
          /\ own' = own \cup ToSet(Unseen) /\ replay' = replay /\ replay = "paging"
      BY <1>7 DEF PageAnswered
    <2>2. own' = own \cup ToSet(Page) /\ ToSet(Page) \subseteq Msgs
      <3>1. ToSet(Page) \cap ToSet(seen) = {}
        BY <2>1 DEF HitSeen
      <3>2. ToSet(Unseen) = ToSet(Page)
        BY <1>3, <3>1
      <3>3. ToSet(Page) \subseteq Msgs
        BY <1>5 DEF ToSet
      <3> QED BY <2>1, <3>2, <3>3
    <2>3. LastRow \in 1..FirstRow /\ cursor' \in 1..Len(rows) /\ there' \subseteq ToSet(rows)
      BY <1>4, <1>5, <2>1
    <2>4. PluginTypeOK'
      BY <1>1, <1>2, <1>3, <1>4, <2>1, <2>2, <2>3 DEF PluginTypeOK
    <2>5. \A k \in LastRow..Len(rows) : 
            k \in LastRow..FirstRow \/ (cursor # 0 /\ k \in cursor..Len(rows))
      BY <1>4, <1>5, <2>3 DEF FirstRow
    <2>6. /\ \A k \in LastRow..FirstRow : k \in LastRow..Len(rows)
          /\ cursor # 0 => \A k \in cursor..Len(rows) : k \in LastRow..Len(rows)
      BY <1>4, <1>5, <2>3 DEF FirstRow
    <2>7. \A k \in LastRow..Len(rows) : rows[k] \in there' => rows[k] \in own'
      <3> SUFFICES ASSUME NEW k \in LastRow..Len(rows), rows[k] \in there' PROVE rows[k] \in own'
        OBVIOUS
      <3>1. CASE k \in LastRow..FirstRow
        BY <1>5, <2>2, <3>1
      <3>2. CASE cursor # 0 /\ k \in cursor..Len(rows)
        BY <1>2, <2>1, <3>2 DEF OwnPaged
      <3> QED BY <2>5, <3>1, <3>2
    <2>8. own' \subseteq {rows[k] : k \in LastRow..Len(rows)}
      <3>1. ToSet(Page) \subseteq {rows[k] : k \in LastRow..Len(rows)}
        BY <1>5, <2>6
      <3>2. own \subseteq {rows[k] : k \in LastRow..Len(rows)}
        BY <1>2, <2>6 DEF OwnPaged
      <3> QED BY <2>2, <3>1, <3>2
    <2>9. own' \subseteq ToSet(log')
      <3>1. own \subseteq ToSet(log)
        BY <1>2 DEF OwnPaged
      <3> QED BY <1>3, <2>2, <3>1
    <2>10. OwnPaged'
      BY <1>1, <2>1, <2>3, <2>7, <2>8, <2>9 DEF OwnPaged
    <2> QED BY <1>3, <2>4, <2>10 DEF HandedOver
  <1> QED BY <1>6, <1>7

LEMMA ThrowKeepsHandedOver ==
    ASSUME HandedOver, ConnectionTypeOK', DispatchThrows
    PROVE  HandedOver'
  <1>1. UNCHANGED <<sent, rows, got, deferred, evicted>> /\ EndReplay
    BY DEF DispatchThrows
  <1>2. PICK n \in 1..Len(Unseen) : HandOver(SubSeq(Unseen, 1, n))
    BY DEF DispatchThrows
  <1>3. PluginTypeOK
    BY DEF HandedOver
  <1>4. rows \in Seq(Msgs) /\ IsInjective(rows) /\ cursor \in 0..Len(rows)
    BY <1>3 DEF PluginTypeOK
  <1>5. /\ Unseen \in Seq(Msgs) /\ IsInjective(Unseen)
        /\ ToSet(Unseen) = ToSet(Page) \ ToSet(seen)
    BY <1>4, UnseenFacts
  <1> DEFINE u == SubSeq(Unseen, 1, n)
  <1>6. u \in Seq(Msgs) /\ IsInjective(u) /\ ToSet(u) \subseteq ToSet(Unseen)
    BY <1>5, FirstFacts
  <1>7. HandOver(u)
    BY <1>2
  <1> HIDE DEF u
  <1>8. ToSet(u) \cap ToSet(seen) = {}
    BY <1>5, <1>6
  <1>9. /\ log' \in Seq(Msgs) /\ seen' \in Seq(Msgs) /\ IsInjective(seen')
        /\ Marked' /\ DispatchedOnce'
    BY <1>1, <1>6, <1>7, <1>8, HandOverFacts
  <1>10. replay' = "idle" /\ cursor' = 0 /\ there' = {} /\ own' = {}
    BY <1>1 DEF EndReplay
  <1>11. PluginTypeOK'
    BY <1>1, <1>3, <1>4, <1>9, <1>10 DEF PluginTypeOK
  <1>12. OwnPaged'
    BY <1>10 DEF OwnPaged
  <1> QED BY <1>9, <1>11, <1>12 DEF HandedOver

LEMMA OthersKeepHandedOver ==
    ASSUME HandedOver, ConnectionTypeOK',
           \/ Connection
           \/ \E w \in Socks : Connected(w)
           \/ ReplayFires \/ HostTriggers \/ Listed \/ ReplayFails \/ EmptyPage
           \/ UNCHANGED pluginVars
    PROVE  HandedOver'
  <1>1. PluginTypeOK /\ Marked /\ DispatchedOnce /\ OwnPaged
    BY DEF HandedOver
  <1>2. UNCHANGED <<sent, rows, got, seen, log, evicted>>
    BY DEF Connection, Connected, ReplayFires, HostTriggers, Listed, ReplayFails, EmptyPage,
           pluginVars
  <1>3. deferred' \in Nat
    <2>1. deferred \in Nat
      BY <1>1 DEF PluginTypeOK
    <2>2. deferred' = deferred \/ deferred' = deferred + 1 \/ (deferred > 0 /\ deferred' = deferred - 1)
      BY DEF Connection, Connected, ReplayFires, HostTriggers, Listed, ReplayFails, EmptyPage,
           pluginVars
    <2> QED BY <2>1, <2>2
  <1>4. \/ UNCHANGED <<replay, cursor, there, own>>
        \/ /\ UNCHANGED <<cursor, there, own>> /\ replay = "idle" /\ replay' = "listing"
        \/ /\ UNCHANGED <<cursor, there, own>> /\ replay = "listing" /\ replay' = "paging"
        \/ replay' = "idle" /\ cursor' = 0 /\ there' = {} /\ own' = {}
    BY DEF Connection, Connected, ReplayFires, HostTriggers, TriggerReplay, Listed, ReplayFails,
           EmptyPage, EndReplay, pluginVars, replayVars
  <1>5. PluginTypeOK'
    <2>1. Len(rows) \in Nat
      BY <1>1 DEF PluginTypeOK
    <2> QED BY <1>1, <1>2, <1>3, <1>4, <2>1 DEF PluginTypeOK
  <1>6. OwnPaged'
    BY <1>1, <1>2, <1>4 DEF OwnPaged
  <1>7. Marked' /\ DispatchedOnce'
    BY <1>1, <1>2 DEF Marked, DispatchedOnce
  <1> QED BY <1>5, <1>6, <1>7 DEF HandedOver

LEMMA HandedOverNext ==
    ASSUME HandedOver, ConnectionTypeOK', [PluginNext]_pluginVars
    PROVE  HandedOver'
  BY FrameKeepsHandedOver, StoredKeepsHandedOver, PageKeepsHandedOver,
     ThrowKeepsHandedOver, OthersKeepHandedOver
     DEF PluginNext

\* What was handed over is marked or its mark was evicted; between two pages a
\* replay has handed over every row from its cursor to where it began.
THEOREM PluginInvariant == PluginSpec => []HandedOver
  <1>1. PluginInit => HandedOver
    BY HandedOverInitial
  <1>2. ConnectionIInv' => ConnectionTypeOK'
    BY DEF ConnectionIInv
  <1>3. HandedOver /\ ConnectionTypeOK' /\ [PluginNext]_pluginVars => HandedOver'
    BY HandedOverNext
  <1> QED BY <1>1, <1>2, <1>3, ConnectionInvariant, PTL DEF PluginSpec

\* The plugin's state has its type; no id is in liveSeenByAccount twice.
THEOREM PluginTypeCorrect == PluginSpec => []PluginTypeOK
  <1>1. HandedOver => PluginTypeOK
    BY DEF HandedOver
  <1> QED BY <1>1, PluginInvariant, PTL

\* A message is handed to the agent once, whichever frames and replays bring it
\* (isLiveDuplicate, replayConversation), until its id was evicted.
THEOREM MessagesDispatchedOnce == PluginSpec => []DispatchedOnce
  <1>1. HandedOver => DispatchedOnce
    BY DEF HandedOver
  <1> QED BY <1>1, PluginInvariant, PTL

\* The step of MissedBehindSeen.
EndedPage ==
    PageAnswered /\ replay' = "idle" =>
        \A i \in 1..Len(rows) :
           \/ cursor # 0 /\ rows[i] \notin there
           \/ rows[i] \in ToSet(log')
           \/ \E j \in (i + 1)..Len(rows) : rows[j] \in ToSet(seen) \ own

LEMMA EndedPageHolds ==
    ASSUME HandedOver
    PROVE  EndedPage
  <1> SUFFICES ASSUME PageAnswered, replay' = "idle", NEW i \in 1..Len(rows),
                      cursor = 0 \/ rows[i] \in there
               PROVE  \/ rows[i] \in ToSet(log')
                      \/ \E j \in (i + 1)..Len(rows) : rows[j] \in ToSet(seen) \ own
    BY DEF EndedPage
  <1>1. PluginTypeOK /\ OwnPaged
    BY DEF HandedOver
  <1>2. /\ rows \in Seq(Msgs) /\ IsInjective(rows) /\ cursor \in 0..Len(rows)
        /\ Len(rows) \in Nat /\ DOMAIN rows = 1..Len(rows)
    BY <1>1 DEF PluginTypeOK
  <1>3. ToSet(log) \subseteq ToSet(log') /\ ToSet(Page) \subseteq ToSet(log')
    BY PageFactsHandedOver DEF PageAnswered
  <1>4. /\ FirstRow \in 0..Len(rows) /\ LastRow \in 1..(FirstRow + 1)
        /\ ToSet(Page) = {rows[k] : k \in LastRow..FirstRow}
    BY <1>2, PageFacts
  <1>5. CASE i \in LastRow..FirstRow
    BY <1>3, <1>4, <1>5
  <1>6. CASE i > FirstRow
    <2>1. cursor # 0 /\ i \in cursor..Len(rows)
      BY <1>2, <1>6 DEF FirstRow
    <2>2. rows[i] \in ToSet(log)
      BY <1>1, <2>1 DEF OwnPaged
    <2> QED BY <1>3, <2>2
  <1>7. CASE i < LastRow
    <2>1. LastRow > 1
      BY <1>4, <1>7
    <2>2. HitSeen
      BY <1>4, <2>1, <1>1 DEF PageAnswered, OwnPaged
    <2>3. PICK j \in LastRow..FirstRow : rows[j] \in ToSet(seen)
      BY <1>4, <2>2 DEF HitSeen
    <2>4. j \in (i + 1)..Len(rows) /\ j \in 1..Len(rows)
      BY <1>4, <1>7
    <2>5. rows[j] \notin own
      <3>1. CASE cursor = 0
        BY <1>1, <3>1 DEF OwnPaged
      <3>2. CASE cursor # 0
        <4>1. own \subseteq {rows[k] : k \in cursor..Len(rows)} /\ FirstRow = cursor - 1
          BY <1>1, <3>2 DEF OwnPaged, FirstRow
        <4>2. \A k \in cursor..Len(rows) : k \in 1..Len(rows) /\ k # j
          BY <1>2, <1>4, <3>2, <4>1
        <4>3. \A k \in cursor..Len(rows) : rows[k] # rows[j]
          BY <1>2, <2>4, <4>2 DEF IsInjective
        <4> QED BY <4>1, <4>3
      <3> QED BY <3>1, <3>2
    <2> QED BY <2>3, <2>4, <2>5
  <1> QED BY <1>4, <1>5, <1>6, <1>7

\* A replay that ends at a page which was read, and of which dispatchInbound
\* threw at no message, has handed over every row there was when it began, or
\* the rows it left out are older than one that a frame or an earlier replay had
\* brought (replayConversation stops there).
THEOREM ReplayMissesBehindSeen == PluginSpec => MissedBehindSeen
  <1>1. HandedOver => EndedPage
    BY EndedPageHolds
  <1>2. [][EndedPage]_pluginVars => MissedBehindSeen
    BY DEF MissedBehindSeen, EndedPage
  <1> QED BY <1>1, <1>2, PluginInvariant, PTL

=============================================================================

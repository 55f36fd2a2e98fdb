------------------------- MODULE ChatRequests_proofs -------------------------
(***************************************************************************)
(* Proofs about ChatRequests: that its variables keep their types, that no *)
(* request awaits a handle that nobody settles, that what is active is     *)
(* awaited, that open connections are found again and that HTTP bodies are *)
(* complete, for any sets of requests and connections.                     *)
(***************************************************************************)
EXTENDS ChatRequests, TLAPS

PCs == {"idle", "token", "connecting", "send", "first", "stream", "ping",
        "http", "succeeded", "failed", "canceled"}
Outcomes == {"none", "error", "canceled"} \cup StreamEnds \cup ServiceErrors

(***************************************************************************)
(* The inductive invariant.  A request that is on a connection has been    *)
(* given one; it reads a stream once, since its fallback uses HTTP; and    *)
(* when it is about to send, its connection is the manager's or one it     *)
(* made itself.                                                            *)
(***************************************************************************)
RequestSound(r) ==
  /\ pc[r] \in {"connecting", "send", "first", "stream"} =>
       connection[r] \in Connections /\ transport[r] = "websocket"
  /\ r \in fallback => transport[r] = "http" /\ pc[r] # "idle"
  /\ r \notin fallback /\ pc[r] \in {"idle", "token", "connecting", "send", "first"} =>
       stream[r] = "none"
  /\ pc[r] = "send" /\ IsOpen(connection[r]) =>
       \/ entry = connection[r]
       \/ connection[r] \in disposed /\ maker[connection[r]] = r

\* A connection that is being opened is awaited by the request that made it; an
\* open one has an open socket; only an open one has an active request.
ConnectionSound(c) ==
  /\ maker[c] = NoRequest => socket[c] = "none"
  /\ socket[c] = "opening" =>
       /\ maker[c] \in Requests
       /\ pc[maker[c]] = "connecting" /\ connection[maker[c]] = c
       /\ entry = c \/ c \in disposed
  /\ state[c] = "Open" => socket[c] = "open"
  /\ active[c] # NoRequest => state[c] = "Open"

ChatIInv ==
  /\ ChatTypeOK
  /\ \A r \in Requests : RequestSound(r)
  /\ \A c \in Connections : ConnectionSound(c)
  /\ AwaitedIsActive /\ ActiveIsAwaited /\ OpenIsFound /\ HttpSendsAll
------------------------------------------------------------------------------
\* A failure makes a request wait for the ping or fail.
LEMMA AfterFailureEnds ==
  ASSUME NEW r
  PROVE  AfterFailure(r) \in {"ping", "failed"}
BY DEF AfterFailure

\* What Settle does to a request: one that awaits no longer does, and any other
\* is left as the step has it.
LEMMA SettleEffect ==
  ASSUME ChatTypeOK, NEW rs, NEW how \in {"error", "canceled"},
         NEW pcs \in [Requests -> PCs], Settle(rs, how, pcs)
  PROVE  /\ pc' \in [Requests -> PCs]
         /\ stream' \in [Requests -> Outcomes]
         /\ \A r \in Requests :
              /\ r \notin rs \/ pc[r] # "first" => pc'[r] = pcs[r]
              /\ r \in rs /\ pc[r] = "first" => pc'[r] \in {"ping", "failed", "canceled"}
              /\ r \in rs /\ pc[r] = "stream" => stream'[r] = how
              /\ r \notin rs \/ pc[r] # "stream" => stream'[r] = stream[r]
<1>1. /\ pc' = [r \in Requests |->
              IF r \notin rs \/ pc[r] # "first" THEN pcs[r]
              ELSE IF how = "canceled" THEN "canceled" ELSE AfterFailure(r)]
      /\ stream' = [r \in Requests |->
                  IF r \in rs /\ pc[r] = "stream" THEN how ELSE stream[r]]
  BY Zenon DEF Settle
<1>2. \A r \in Requests :
        /\ r \notin rs \/ pc[r] # "first" => pc'[r] = pcs[r]
        /\ r \in rs /\ pc[r] = "first" => pc'[r] \in {"ping", "failed", "canceled"}
  BY <1>1, AfterFailureEnds
<1>3. pc' \in [Requests -> PCs]
  BY <1>1, <1>2, AfterFailureEnds DEF PCs
<1>4. QED
  BY <1>1, <1>2, <1>3 DEF ChatTypeOK, Outcomes

\* Where the first event takes a request.
LEMMA FirstEventIs ==
  ASSUME NEW r, NEW e \in Events
  PROVE  /\ r \in cancelled => FirstEvent(r, e) = "canceled"
         /\ r \notin cancelled /\ e \in {"delta"} \cup StreamEnds => FirstEvent(r, e) = "stream"
         /\ FirstEvent(r, e) \in {"canceled", "ping", "failed", "stream"}
BY AfterFailureEnds DEF FirstEvent, Events, StreamEnds, ServiceErrors
------------------------------------------------------------------------------
LEMMA InitSound == ChatInit => ChatIInv
BY ChatAssumption DEF ChatInit, ChatIInv, ChatTypeOK, RequestSound, ConnectionSound,
   AwaitedIsActive, ActiveIsAwaited, OpenIsFound, HttpSendsAll, Awaits, IsOpen,
   NoResponse, OverHttp, Responses

(* A step of a request that is not awaited, before or after, and leaves all *)
(* connections alone.                                                       *)
LEMMA AsideSound ==
  ASSUME ChatIInv, NEW r \in Requests,
         UNCHANGED <<cancelled, managerVars, connectionVars>>,
         pc[r] # "connecting", ~Awaits(r), pc'[r] \notin {"first", "stream"},
         connection'[r] = connection[r] \/ r \notin cancelled,
         \A q \in Requests : q # r =>
           /\ pc'[q] = pc[q] /\ connection'[q] = connection[q] /\ stream'[q] = stream[q]
           /\ transport'[q] = transport[q] /\ (q \in fallback' <=> q \in fallback)
  PROVE  /\ \A q \in Requests : q # r => RequestSound(q)'
         /\ \A c \in Connections : ConnectionSound(c)'
         /\ AwaitedIsActive' /\ ActiveIsAwaited' /\ OpenIsFound'
<1>1. UNCHANGED <<cancelled, entry, maker, state, disposed, socket, active>>
  BY DEF managerVars, connectionVars
<1>2. \A c \in Connections : ConnectionSound(c)'
  BY <1>1 DEF ChatIInv, ConnectionSound
<1>3. AwaitedIsActive'
  BY <1>1 DEF ChatIInv, AwaitedIsActive, Awaits, IsOpen
<1>4. ActiveIsAwaited'
  BY <1>1 DEF ChatIInv, ActiveIsAwaited, Awaits
<1>5. OpenIsFound'
  BY <1>1 DEF ChatIInv, OpenIsFound, IsOpen
<1>6. \A q \in Requests : q # r => RequestSound(q)'
  BY <1>1 DEF ChatIInv, RequestSound, IsOpen
<1> QED BY <1>2, <1>3, <1>4, <1>5, <1>6

LEMMA StartSound ==
  ASSUME ChatIInv, NEW r \in Requests, Start(r)
  PROVE  ChatIInv'
<1> DEFINE via == IF fallbacks >= MaxFallbacks THEN "http" ELSE "websocket"
<1>1. /\ pc[r] = "idle" /\ pc' = [pc EXCEPT ![r] = "token"]
      /\ transport' = [transport EXCEPT ![r] = via]
      /\ previous' = [previous EXCEPT ![r] =
                        IF ~IsOpen(entry) \/ via = "http" THEN NoResponse ELSE history]
      /\ UNCHANGED <<cancelled, fallback, connection, stream, history, fallbacks>>
      /\ UNCHANGED <<managerVars, connectionVars>>
  BY DEF Start, Body
<1>2. UNCHANGED <<entry, maker, state, disposed, socket, active, serving>>
  BY <1>1 DEF managerVars, connectionVars
<1>3. ChatTypeOK'
  BY <1>1, <1>2 DEF ChatIInv, ChatTypeOK, Responses
<1>4. RequestSound(r)'
  BY <1>1 DEF ChatIInv, ChatTypeOK, RequestSound
<1>5. HttpSendsAll'
  BY <1>1 DEF ChatIInv, ChatTypeOK, HttpSendsAll
<1>6. /\ \A q \in Requests : q # r => RequestSound(q)'
      /\ \A c \in Connections : ConnectionSound(c)'
      /\ AwaitedIsActive' /\ ActiveIsAwaited' /\ OpenIsFound'
  BY <1>1, AsideSound DEF ChatIInv, ChatTypeOK, Awaits
<1> QED BY <1>3, <1>4, <1>5, <1>6 DEF ChatIInv

LEMMA TokenSound ==
  ASSUME ChatIInv, NEW r \in Requests, TokenArrives(r)
  PROVE  ChatIInv'
<1>1. /\ pc[r] = "token"
      /\ UNCHANGED <<cancelled, transport, fallback, previous, stream, history, fallbacks>>
  BY DEF TokenArrives
<1>2. HttpSendsAll'
  BY <1>1 DEF ChatIInv, HttpSendsAll
<1>3. CASE /\ UNCHANGED <<connection, managerVars, connectionVars>>
           /\ SendHttp(r) \/ StopBeforeFetch(r)
  <2>1. \E p \in {"http", "canceled"} : pc' = [pc EXCEPT ![r] = p]
    BY <1>3 DEF SendHttp, StopBeforeFetch
  <2>2. ChatTypeOK'
    BY <1>1, <1>3, <2>1 DEF ChatIInv, ChatTypeOK, Responses, managerVars, connectionVars
  <2>3. RequestSound(r)'
    BY <1>1, <1>3, <2>1 DEF ChatIInv, ChatTypeOK, RequestSound
  <2>4. /\ \A q \in Requests : q # r => RequestSound(q)'
        /\ \A c \in Connections : ConnectionSound(c)'
        /\ AwaitedIsActive' /\ ActiveIsAwaited' /\ OpenIsFound'
    BY <1>1, <1>3, <2>1, AsideSound DEF ChatIInv, ChatTypeOK, Awaits
  <2> QED BY <1>2, <2>2, <2>3, <2>4 DEF ChatIInv
<1>4. CASE r \notin cancelled /\ transport[r] = "websocket" /\ ReuseConnection(r)
  <2>1. /\ pc' = [pc EXCEPT ![r] = "send"]
        /\ connection' = [connection EXCEPT ![r] = entry]
        /\ entry \in Connections /\ state[entry] = "Open"
        /\ UNCHANGED <<managerVars, connectionVars>>
    BY <1>4 DEF ReuseConnection, IsOpen, ChatIInv, ChatTypeOK
  <2>2. ChatTypeOK'
    BY <1>1, <2>1 DEF ChatIInv, ChatTypeOK, Responses, managerVars, connectionVars
  <2>3. RequestSound(r)'
    BY <1>1, <1>4, <2>1 DEF ChatIInv, ChatTypeOK, RequestSound, managerVars
  <2>4. /\ \A q \in Requests : q # r => RequestSound(q)'
        /\ \A c \in Connections : ConnectionSound(c)'
        /\ AwaitedIsActive' /\ ActiveIsAwaited' /\ OpenIsFound'
    BY <1>1, <1>4, <2>1, AsideSound DEF ChatIInv, ChatTypeOK, Awaits
  <2> QED BY <1>2, <2>2, <2>3, <2>4 DEF ChatIInv
<1>5. CASE r \notin cancelled /\ transport[r] = "websocket" /\ CreateConnection(r)
  <2> DEFINE c == CHOOSE d \in Unmade : TRUE
  <2>1. /\ c \in Connections /\ maker[c] = NoRequest
        /\ socket[c] = "none" /\ state[c] # "Open" /\ active[c] = NoRequest
    BY <1>5 DEF CreateConnection, Unmade, ChatIInv, ConnectionSound
  <2>2. /\ ~IsOpen(entry)
        /\ connection' = [connection EXCEPT ![r] = c]
        /\ entry' = c
        /\ maker' = [maker EXCEPT ![c] = r]
        /\ state' = [DisposedState(Replaced) EXCEPT ![c] = "Connecting"]
        /\ disposed' = disposed \cup Replaced
        /\ socket' = [socket EXCEPT ![c] = "opening"]
        /\ pc' = [pc EXCEPT ![r] = "connecting"]
        /\ UNCHANGED <<active, serving>>
    BY <1>5 DEF CreateConnection
  <2>3. /\ state' \in [Connections -> {"Connecting", "Open", "Closed"}]
        /\ state'[c] = "Connecting"
        /\ \A d \in Connections : d # c =>
             state'[d] = IF d \in Replaced THEN "Closed" ELSE state[d]
        /\ \A d \in Replaced : state[d] # "Open"
        /\ Replaced \subseteq Connections
    BY <2>1, <2>2 DEF DisposedState, Replaced, IsOpen, ChatIInv, ChatTypeOK
  <2> HIDE DEF c
  <2>4. ChatTypeOK'
    BY <1>1, <2>1, <2>2, <2>3 DEF ChatIInv, ChatTypeOK, Responses
  <2>5. ~Awaits(r) /\ ~Awaits(r)' /\ \A q \in Requests : q # r => Awaits(q)' = Awaits(q)
    BY <1>1, <2>2 DEF Awaits, ChatIInv, ChatTypeOK
  <2>6. \A q \in Requests : RequestSound(q)'
    <3> SUFFICES ASSUME NEW q \in Requests PROVE RequestSound(q)'
      OBVIOUS
    <3>1. CASE q = r
      BY <1>1, <1>5, <2>1, <2>2, <3>1 DEF ChatIInv, ChatTypeOK, RequestSound
    <3>2. CASE q # r
      <4>1. RequestSound(q) /\ pc'[q] = pc[q] /\ connection'[q] = connection[q]
        BY <2>2, <3>2 DEF ChatIInv, ChatTypeOK
      <4>2. ASSUME pc[q] = "send", IsOpen(connection[q])'
            PROVE  connection[q] # c /\ IsOpen(connection[q]) /\ entry # connection[q]
        BY <2>2, <2>3, <4>1, <4>2 DEF IsOpen, RequestSound
      <4>3. \A d \in Connections : d # c => maker'[d] = maker[d]
        BY <2>1, <2>2 DEF ChatIInv, ChatTypeOK
      <4> QED BY <1>1, <2>2, <4>1, <4>2, <4>3 DEF RequestSound
    <3> QED BY <3>1, <3>2
  <2>7. \A d \in Connections : ConnectionSound(d)'
    <3> SUFFICES ASSUME NEW d \in Connections PROVE ConnectionSound(d)'
      OBVIOUS
    <3>1. CASE d = c
      BY <2>1, <2>2, <2>3, <3>1, ChatAssumption DEF ChatIInv, ChatTypeOK, ConnectionSound
    <3>2. CASE d # c
      <4>1. /\ ConnectionSound(d) /\ maker'[d] = maker[d] /\ socket'[d] = socket[d]
            /\ active'[d] = active[d] /\ (state[d] = "Open" => state'[d] = "Open")
            /\ state'[d] \in {state[d], "Closed"}
        BY <2>1, <2>2, <2>3, <3>2 DEF ChatIInv, ChatTypeOK
      <4>2. entry = d => d \in disposed'
        BY <2>2, ChatAssumption DEF Replaced
      <4>3. maker[d] \in Requests /\ pc[maker[d]] = "connecting" =>
              pc'[maker[d]] = "connecting" /\ connection'[maker[d]] = connection[maker[d]]
        BY <1>1, <2>2 DEF ChatIInv, ChatTypeOK
      <4> QED BY <2>2, <4>1, <4>2, <4>3 DEF ConnectionSound
    <3> QED BY <3>1, <3>2
  <2>8. AwaitedIsActive'
    BY <2>1, <2>2, <2>3, <2>5 DEF ChatIInv, ChatTypeOK, AwaitedIsActive, IsOpen
  <2>9. ActiveIsAwaited'
    BY <1>1, <1>5, <2>2, <2>5 DEF ChatIInv, ChatTypeOK, ActiveIsAwaited
  <2>10. OpenIsFound'
    <3> SUFFICES ASSUME NEW d \in Connections, IsOpen(d)'
                 PROVE  d \in disposed' /\ active'[d] \in {maker'[d], NoRequest}
      BY DEF OpenIsFound
    <3>1. d # c /\ IsOpen(d) /\ entry # d
      BY <2>2, <2>3 DEF IsOpen
    <3>2. maker'[d] = maker[d]
      BY <2>1, <2>2, <3>1 DEF ChatIInv, ChatTypeOK
    <3> QED BY <2>2, <3>1, <3>2 DEF ChatIInv, OpenIsFound
  <2> QED BY <1>2, <2>4, <2>6, <2>7, <2>8, <2>9, <2>10 DEF ChatIInv
<1> QED BY <1>3, <1>4, <1>5 DEF TokenArrives, FetchViaWebSocket

(* A step that settles requests rs and takes them off their connections,    *)
(* some of which close.                                                     *)
LEMMA SettledSound ==
  ASSUME ChatIInv, Quiet, ChatTypeOK', NEW rs, NEW how \in {"error", "canceled"},
         NEW pcs \in [Requests -> PCs], Settle(rs, how, pcs),
         \A q \in Requests :
           \/ pcs[q] = pc[q]
           \/ /\ pc[q] \notin {"connecting", "first", "stream"}
              /\ pcs[q] \notin {"idle", "token", "connecting", "send", "first", "stream"},
         UNCHANGED <<transport, fallback, connection, maker, previous>>,
         cancelled \subseteq cancelled', disposed \subseteq disposed',
         \/ entry' = entry
         \/ entry' = NoConnection /\ entry \in disposed' /\ state'[entry] # "Open",
         \A c \in Connections :
           /\ socket'[c] = socket[c]
              \/ (socket[c] # "none" /\ socket'[c] \in {"closing", "closed"})
           /\ state'[c] \in {state[c], "Closed"}
           /\ state'[c] = "Open" => socket'[c] = socket[c]
           /\ \/ active'[c] = active[c] /\ active[c] \notin rs /\ state'[c] = state[c]
              \/ active'[c] = NoRequest /\ active[c] \in rs \cup {NoRequest}
  PROVE  ChatIInv'
<1>1. \A q \in Requests :
        /\ pc'[q] = pc[q] \/ pc'[q] \notin {"idle", "token", "connecting", "send", "first", "stream"}
        /\ pc[q] = "connecting" => pc'[q] = "connecting"
        /\ Awaits(q)' => Awaits(q) /\ q \notin rs
        /\ Awaits(q) /\ q \notin rs => Awaits(q)'
        /\ pc[q] # "stream" => stream'[q] = stream[q]
  <2> SUFFICES ASSUME NEW q \in Requests
               PROVE  /\ pc'[q] = pc[q] \/ pc'[q] \notin {"idle", "token", "connecting", "send",
                                                       "first", "stream"}
                      /\ pc[q] = "connecting" => pc'[q] = "connecting"
                      /\ Awaits(q)' => Awaits(q) /\ q \notin rs
                      /\ Awaits(q) /\ q \notin rs => Awaits(q)'
                      /\ pc[q] # "stream" => stream'[q] = stream[q]
    OBVIOUS
  <2>1. /\ q \notin rs \/ pc[q] # "first" => pc'[q] = pcs[q]
        /\ q \in rs /\ pc[q] = "first" => pc'[q] \in {"ping", "failed", "canceled"}
        /\ q \in rs /\ pc[q] = "stream" => stream'[q] = how
        /\ q \notin rs \/ pc[q] # "stream" => stream'[q] = stream[q]
    BY SettleEffect DEF ChatIInv
  <2>2. pcs[q] = pc[q] \/ (/\ pc[q] \notin {"connecting", "first", "stream"}
                          /\ pcs[q] \notin {"idle", "token", "connecting", "send", "first", "stream"})
    OBVIOUS
  <2> QED BY <2>1, <2>2 DEF Awaits
<1>2. \A q \in Requests : RequestSound(q)'
  BY <1>1 DEF ChatIInv, RequestSound, Quiet
<1>3. \A c \in Connections : ConnectionSound(c)'
  <2> SUFFICES ASSUME NEW c \in Connections PROVE ConnectionSound(c)'
    OBVIOUS
  <2>1. ConnectionSound(c)
    BY DEF ChatIInv
  <2> QED BY <1>1, <2>1 DEF ConnectionSound
<1>4. AwaitedIsActive'
  <2> SUFFICES ASSUME NEW q \in Requests, Awaits(q)'
               PROVE  /\ active'[connection[q]] = q /\ IsOpen(connection[q])'
                      /\ socket'[connection[q]] = "open"
    BY DEF AwaitedIsActive
  <2>1. Awaits(q) /\ q \notin rs /\ q # NoRequest
    BY <1>1, ChatAssumption
  <2>2. connection[q] \in Connections
    BY <2>1 DEF Awaits, ChatIInv, RequestSound
  <2> QED BY <2>1, <2>2 DEF ChatIInv, AwaitedIsActive, IsOpen
<1>5. ActiveIsAwaited'
  BY <1>1, ChatAssumption DEF ChatIInv, ActiveIsAwaited
<1>6. OpenIsFound'
  BY DEF ChatIInv, OpenIsFound, IsOpen
<1>7. HttpSendsAll'
  BY DEF ChatIInv, HttpSendsAll
<1> QED BY <1>2, <1>3, <1>4, <1>5, <1>6, <1>7 DEF ChatIInv

LEMMA CloseSound ==
  ASSUME ChatIInv, NEW c \in Connections, ConnectionCloses(c)
  PROVE  ChatIInv'
<1> DEFINE rs == {active[c]}
<1>1. /\ Quiet /\ socket[c] \in {"open", "closing"}
      /\ socket' = [socket EXCEPT ![c] = "closed"]
      /\ state' = [state EXCEPT ![c] = "Closed"]
      /\ Settle(rs, "error", pc)
      /\ active' = [active EXCEPT ![c] = NoRequest]
      /\ serving' = [serving EXCEPT ![c] = {}]
      /\ UNCHANGED <<cancelled, transport, fallback, previous, connection>>
      /\ UNCHANGED <<history, fallbacks, entry, maker, disposed>>
  BY DEF ConnectionCloses, managerVars
<1>2. pc \in [Requests -> PCs]
  BY DEF ChatIInv, ChatTypeOK, PCs
<1>3. ChatTypeOK'
  BY <1>1, <1>2, SettleEffect DEF ChatIInv, ChatTypeOK, PCs, Outcomes, Responses
<1>4. \A d \in Connections : d # c /\ active[d] # NoRequest => active[d] \notin rs
  BY DEF ChatIInv, ChatTypeOK, ActiveIsAwaited
<1>5. \A d \in Connections :
        /\ socket'[d] = socket[d]
           \/ (socket[d] # "none" /\ socket'[d] \in {"closing", "closed"})
        /\ state'[d] \in {state[d], "Closed"}
        /\ state'[d] = "Open" => socket'[d] = socket[d]
        /\ \/ active'[d] = active[d] /\ active[d] \notin rs /\ state'[d] = state[d]
           \/ active'[d] = NoRequest /\ active[d] \in rs \cup {NoRequest}
  BY <1>1, <1>4 DEF ChatIInv, ChatTypeOK
<1> QED
  <2> HIDE DEF rs
  <2> QED BY <1>1, <1>2, <1>3, <1>5, SettledSound

(* Disposing of the manager's connection.                                   *)
LEMMA CloseConnectionSound ==
  ASSUME ChatIInv, Quiet, NEW pcs \in [Requests -> PCs], CloseConnection(pcs),
         \A q \in Requests :
           \/ pcs[q] = pc[q]
           \/ /\ pc[q] \notin {"connecting", "first", "stream"}
              /\ pcs[q] \notin {"idle", "token", "connecting", "send", "first", "stream"},
         UNCHANGED <<cancelled, transport, fallback, previous, connection, maker, serving>>,
         history' \in Responses, fallbacks' \in Nat
  PROVE  ChatIInv'
<1> DEFINE cs == {entry} \ {NoConnection}
           rs == {active[c] : c \in cs}
<1>1. /\ Settle(rs, "error", pcs)
      /\ active' = [c \in Connections |-> IF c \in cs THEN NoRequest ELSE active[c]]
      /\ state' = [c \in Connections |-> IF c \in cs THEN "Closed" ELSE state[c]]
      /\ socket' = [c \in Connections |->
                      IF c \in cs /\ socket[c] = "open" THEN "closing" ELSE socket[c]]
      /\ disposed' = disposed \cup cs
      /\ entry' = NoConnection
  BY DEF CloseConnection, Dispose, DisposedState
<1>2. cs \subseteq Connections
  BY DEF ChatIInv, ChatTypeOK
<1>3. ChatTypeOK'
  <2>1. pc' \in [Requests -> PCs] /\ stream' \in [Requests -> Outcomes]
    <3> HIDE DEF rs, cs
    <3> QED BY <1>1, SettleEffect DEF ChatIInv
  <2>2. /\ active' \in [Connections -> Requests \cup {NoRequest}]
        /\ state' \in [Connections -> {"Connecting", "Open", "Closed"}]
        /\ socket' \in [Connections -> {"none", "opening", "open", "closing", "closed"}]
        /\ disposed' \subseteq Connections
    BY <1>1, <1>2 DEF ChatIInv, ChatTypeOK
  <2> QED BY <1>1, <2>1, <2>2 DEF ChatIInv, ChatTypeOK, PCs, Outcomes
<1>4. \A d \in Connections : d \notin cs /\ active[d] # NoRequest => active[d] \notin rs
  BY <1>2 DEF ChatIInv, ChatTypeOK, ActiveIsAwaited
<1>5. \A c \in Connections :
        /\ socket'[c] = socket[c]
           \/ (socket[c] # "none" /\ socket'[c] \in {"closing", "closed"})
        /\ state'[c] \in {state[c], "Closed"}
        /\ state'[c] = "Open" => socket'[c] = socket[c]
        /\ \/ active'[c] = active[c] /\ active[c] \notin rs /\ state'[c] = state[c]
           \/ active'[c] = NoRequest /\ active[c] \in rs \cup {NoRequest}
  BY <1>1, <1>4
<1>6. \/ entry' = entry
      \/ entry' = NoConnection /\ entry \in disposed' /\ state'[entry] # "Open"
  BY <1>1, <1>2
<1> QED
  <2> HIDE DEF rs, cs
  <2> QED BY <1>1, <1>3, <1>5, <1>6, SettledSound

LEMMA CancellationSound ==
  ASSUME ChatIInv, NEW r \in Requests, CancelRequest(r) \/ LateCancellation(r)
  PROVE  ChatIInv'
<1>1. /\ Quiet /\ cancelled \subseteq cancelled' /\ cancelled' \subseteq Requests
      /\ UNCHANGED <<transport, fallback, previous, connection, history, fallbacks>>
      /\ UNCHANGED <<entry, maker, state, disposed, socket, serving>>
  BY DEF CancelRequest, LateCancellation, managerVars, ChatIInv, ChatTypeOK
<1>2. CASE HandleCancellation(r)
  <2> DEFINE rs == {r}
  <2>1. /\ Settle(rs, "canceled", pc)
        /\ active' = [c \in Connections |-> IF active[c] = r THEN NoRequest ELSE active[c]]
    BY <1>2 DEF HandleCancellation
  <2>2. pc \in [Requests -> PCs]
    BY DEF ChatIInv, ChatTypeOK, PCs
  <2>3. /\ active' \in [Connections -> Requests \cup {NoRequest}]
        /\ \A c \in Connections :
             \/ active'[c] = active[c] /\ active[c] \notin rs
             \/ active'[c] = NoRequest /\ active[c] \in rs
    BY <2>1 DEF ChatIInv, ChatTypeOK
  <2> HIDE DEF rs
  <2>4. pc' \in [Requests -> PCs] /\ stream' \in [Requests -> Outcomes]
    BY <2>1, <2>2, SettleEffect DEF ChatIInv
  <2>5. ChatTypeOK'
    BY <1>1, <2>3, <2>4 DEF ChatIInv, ChatTypeOK, PCs, Outcomes, Responses
  <2> QED BY <1>1, <2>1, <2>2, <2>3, <2>5, SettledSound
<1>3. CASE UNCHANGED <<pc, stream, active>>
  <2>1. ChatTypeOK' /\ HttpSendsAll'
    BY <1>1, <1>3 DEF ChatIInv, ChatTypeOK, HttpSendsAll, Responses
  <2>2. (\A q \in Requests : RequestSound(q)') /\ (\A c \in Connections : ConnectionSound(c)')
    BY <1>1, <1>3 DEF ChatIInv, RequestSound, ConnectionSound, IsOpen
  <2>3. AwaitedIsActive' /\ ActiveIsAwaited' /\ OpenIsFound'
    BY <1>1, <1>3 DEF ChatIInv, AwaitedIsActive, ActiveIsAwaited, OpenIsFound, Awaits, IsOpen
  <2> QED BY <2>1, <2>2, <2>3 DEF ChatIInv
<1> QED BY <1>2, <1>3 DEF CancelRequest, LateCancellation

LEMMA ConnectsSound ==
  ASSUME ChatIInv, NEW c \in Connections, Connects(c)
  PROVE  ChatIInv'
<1> DEFINE r == maker[c]
<1>1. /\ Quiet /\ socket[c] = "opening"
      /\ UNCHANGED <<cancelled, transport, fallback, previous, connection, stream>>
      /\ UNCHANGED <<history, fallbacks, entry, maker, disposed, active, serving>>
  BY DEF Connects, ConnectionOpens, ConnectionFails, managerVars
<1>2. /\ r \in Requests /\ pc[r] = "connecting" /\ connection[r] = c
      /\ entry = c \/ c \in disposed
      /\ state[c] # "Open" /\ active[c] = NoRequest
  BY <1>1 DEF ChatIInv, ConnectionSound
<1>3. PICK p \in {"send", "ping", "failed"} :
        /\ pc' = [pc EXCEPT ![r] = p]
        /\ \/ /\ p = "send" /\ socket' = [socket EXCEPT ![c] = "open"]
              /\ state' = [state EXCEPT ![c] = "Open"]
           \/ /\ p # "send" /\ socket' = [socket EXCEPT ![c] = "closed"]
              /\ state' = [state EXCEPT ![c] = "Closed"] \/ UNCHANGED state
  BY AfterFailureEnds DEF Connects, ConnectionOpens, ConnectionFails
<1> HIDE DEF r
<1>4. ChatTypeOK' /\ HttpSendsAll'
  BY <1>1, <1>2, <1>3 DEF ChatIInv, ChatTypeOK, HttpSendsAll, Responses
<1>5. /\ \A q \in Requests : q # r => pc'[q] = pc[q]
      /\ pc'[r] = p
      /\ \A d \in Connections : d # c => state'[d] = state[d] /\ socket'[d] = socket[d]
      /\ p = "send" => state'[c] = "Open" /\ socket'[c] = "open"
      /\ p # "send" => state'[c] # "Open" /\ socket'[c] = "closed"
  BY <1>2, <1>3 DEF ChatIInv, ChatTypeOK
<1>6. \A q \in Requests : RequestSound(q)'
  <2> SUFFICES ASSUME NEW q \in Requests PROVE RequestSound(q)'
    OBVIOUS
  <2>1. CASE q = r
    BY <1>1, <1>2, <1>5, <2>1 DEF ChatIInv, RequestSound, r
  <2>2. CASE q # r
    BY <1>1, <1>5, <2>2 DEF ChatIInv, RequestSound, Quiet
  <2> QED BY <2>1, <2>2
<1>7. \A d \in Connections : ConnectionSound(d)'
  <2> SUFFICES ASSUME NEW d \in Connections PROVE ConnectionSound(d)'
    OBVIOUS
  <2>1. CASE d = c
    BY <1>1, <1>2, <1>5, <2>1, ChatAssumption DEF ChatIInv, ConnectionSound, r
  <2>2. CASE d # c
    BY <1>1, <1>2, <1>5, <2>2 DEF ChatIInv, ConnectionSound
  <2> QED BY <2>1, <2>2
<1>8. \A q \in Requests : Awaits(q)' = Awaits(q)
  BY <1>1, <1>2, <1>5 DEF Awaits
<1>9. AwaitedIsActive'
  BY <1>1, <1>5, <1>8 DEF ChatIInv, AwaitedIsActive, RequestSound, Awaits, IsOpen
<1>10. ActiveIsAwaited'
  BY <1>1, <1>8 DEF ChatIInv, ActiveIsAwaited
<1>11. OpenIsFound'
  BY <1>1, <1>2, <1>5 DEF ChatIInv, OpenIsFound, IsOpen
<1> QED BY <1>4, <1>6, <1>7, <1>9, <1>10, <1>11 DEF ChatIInv

LEMMA SendSound ==
  ASSUME ChatIInv, NEW r \in Requests, SendRequest(r)
  PROVE  ChatIInv'
<1> DEFINE c == connection[r]
<1>1. /\ pc[r] = "send" /\ c \in Connections /\ transport[r] = "websocket"
      /\ UNCHANGED <<cancelled, transport, fallback, previous, connection>>
      /\ UNCHANGED <<history, fallbacks, entry, maker, state, disposed, socket>>
  BY DEF SendRequest, managerVars, ChatIInv, RequestSound
<1>2. HttpSendsAll'
  BY <1>1 DEF ChatIInv, HttpSendsAll
<1>3. CASE SendThrows(r)
  <2>1. /\ UNCHANGED <<stream, managerVars, connectionVars>>
        /\ \E p \in {"ping", "failed"} : pc' = [pc EXCEPT ![r] = p]
    BY <1>1, <1>3, AfterFailureEnds DEF SendThrows, managerVars, connectionVars
  <2>2. ChatTypeOK'
    BY <1>1, <2>1 DEF ChatIInv, ChatTypeOK, Responses, connectionVars
  <2>3. RequestSound(r)'
    BY <1>1, <2>1 DEF ChatIInv, ChatTypeOK, RequestSound
  <2>4. /\ \A q \in Requests : q # r => RequestSound(q)'
        /\ \A d \in Connections : ConnectionSound(d)'
        /\ AwaitedIsActive' /\ ActiveIsAwaited' /\ OpenIsFound'
    BY <1>1, <2>1, AsideSound DEF ChatIInv, ChatTypeOK, Awaits
  <2> QED BY <1>2, <2>2, <2>3, <2>4 DEF ChatIInv
<1>4. CASE Sends(r)
  <2> DEFINE rs == {active[c]}
             pcs == [pc EXCEPT ![r] = "first"]
  <2>1. /\ state[c] = "Open" /\ socket[c] = "open"
        /\ Settle(rs, "error", pcs)
        /\ active' = [active EXCEPT ![c] = r]
        /\ serving' = [serving EXCEPT ![c] = @ \cup {r}]
    BY <1>1, <1>4 DEF Sends, IsOpen, ChatIInv, ConnectionSound
  <2>2. pcs \in [Requests -> PCs] /\ pcs[r] = "first" /\ \A q \in Requests : q # r => pcs[q] = pc[q]
    BY DEF ChatIInv, ChatTypeOK, PCs
  <2>3. /\ active'[c] = r
        /\ \A d \in Connections : d # c => active'[d] = active[d]
    BY <1>1, <2>1 DEF ChatIInv, ChatTypeOK
  <2>4. \A d \in Connections : d # c /\ active[d] # NoRequest => active[d] \notin rs
    BY <1>1 DEF ChatIInv, ChatTypeOK, ActiveIsAwaited
  <2> HIDE DEF rs, pcs
  <2>5. /\ pc' \in [Requests -> PCs] /\ stream' \in [Requests -> Outcomes]
        /\ pc'[r] = "first" /\ stream'[r] = stream[r]
    <3>1. pc' \in [Requests -> PCs] /\ stream' \in [Requests -> Outcomes]
      BY <2>1, <2>2, SettleEffect DEF ChatIInv
    <3>2. /\ r \notin rs \/ pc[r] # "first" => pc'[r] = pcs[r]
          /\ r \notin rs \/ pc[r] # "stream" => stream'[r] = stream[r]
      BY <2>1, <2>2, SettleEffect DEF ChatIInv
    <3> QED BY <1>1, <2>2, <3>1, <3>2
  <2>6. \A q \in Requests : q # r =>
          /\ pc'[q] = pc[q] \/ pc'[q] \notin {"idle", "token", "connecting", "send", "first", "stream"}
          /\ pc[q] = "connecting" => pc'[q] = "connecting"
          /\ Awaits(q)' => Awaits(q) /\ q \notin rs
          /\ Awaits(q) /\ q \notin rs => Awaits(q)'
          /\ pc[q] # "stream" => stream'[q] = stream[q]
    <3> SUFFICES ASSUME NEW q \in Requests, q # r
                 PROVE  /\ pc'[q] = pc[q] \/ pc'[q] \notin {"idle", "token", "connecting", "send",
                                                         "first", "stream"}
                        /\ pc[q] = "connecting" => pc'[q] = "connecting"
                        /\ Awaits(q)' => Awaits(q) /\ q \notin rs
                        /\ Awaits(q) /\ q \notin rs => Awaits(q)'
                        /\ pc[q] # "stream" => stream'[q] = stream[q]
      OBVIOUS
    <3>1. /\ q \notin rs \/ pc[q] # "first" => pc'[q] = pcs[q]
          /\ q \in rs /\ pc[q] = "first" => pc'[q] \in {"ping", "failed", "canceled"}
          /\ q \in rs /\ pc[q] = "stream" => stream'[q] = "error"
          /\ q \notin rs \/ pc[q] # "stream" => stream'[q] = stream[q]
      BY <2>1, <2>2, SettleEffect DEF ChatIInv
    <3> QED BY <2>2, <3>1 DEF Awaits
  <2>7. ChatTypeOK'
    <3>1. /\ active' \in [Connections -> Requests \cup {NoRequest}]
          /\ serving' \in [Connections -> SUBSET Requests]
      BY <1>1, <2>1 DEF ChatIInv, ChatTypeOK
    <3> QED BY <1>1, <2>5, <3>1 DEF ChatIInv, ChatTypeOK, PCs, Outcomes, Responses
  <2>8. \A q \in Requests : RequestSound(q)'
    <3>1. RequestSound(r)'
      BY <1>1, <2>5 DEF ChatIInv, RequestSound
    <3>2. \A q \in Requests : q # r => RequestSound(q)'
      BY <1>1, <2>6 DEF ChatIInv, RequestSound, IsOpen
    <3> QED BY <3>1, <3>2
  <2>9. \A d \in Connections : ConnectionSound(d)'
    <3> SUFFICES ASSUME NEW d \in Connections PROVE ConnectionSound(d)'
      OBVIOUS
    <3>1. ConnectionSound(d)
      BY DEF ChatIInv
    <3>2. maker[d] \in Requests /\ pc[maker[d]] = "connecting" => pc'[maker[d]] = "connecting"
      BY <1>1, <2>6
    <3> QED BY <1>1, <2>1, <2>3, <3>1, <3>2 DEF ConnectionSound
  <2>10. AwaitedIsActive'
    <3> SUFFICES ASSUME NEW q \in Requests, Awaits(q)'
                 PROVE  /\ active'[connection[q]] = q /\ IsOpen(connection[q])
                        /\ socket[connection[q]] = "open"
      BY <1>1 DEF AwaitedIsActive, IsOpen
    <3>1. CASE q = r
      BY <1>1, <2>1, <2>3, <3>1, ChatAssumption DEF IsOpen
    <3>2. CASE q # r
      <4>1. Awaits(q) /\ q \notin rs
        BY <2>6, <3>2
      <4>2. connection[q] \in Connections
        BY <4>1 DEF Awaits, ChatIInv, RequestSound
      <4>3. connection[q] # c
        BY <4>1 DEF ChatIInv, AwaitedIsActive, rs
      <4> QED BY <2>3, <4>1, <4>2, <4>3 DEF ChatIInv, AwaitedIsActive
    <3> QED BY <3>1, <3>2
  <2>11. ActiveIsAwaited'
    <3> SUFFICES ASSUME NEW d \in Connections, NEW q \in Requests, active'[d] = q
                 PROVE  connection[q] = d /\ (Awaits(q)' \/ q \in cancelled)
      BY <1>1 DEF ActiveIsAwaited
    <3>1. CASE d = c
      BY <2>3, <2>5, <3>1 DEF Awaits
    <3>2. CASE d # c
      <4>1. active[d] = q /\ connection[q] = d /\ (Awaits(q) \/ q \in cancelled) /\ q \notin rs
        BY <2>3, <2>4, <3>2, ChatAssumption DEF ChatIInv, ActiveIsAwaited
      <4>2. q # r
        BY <3>2, <4>1
      <4> QED BY <2>6, <4>1, <4>2
    <3> QED BY <3>1, <3>2
  <2>12. OpenIsFound'
    <3> SUFFICES ASSUME NEW d \in Connections, IsOpen(d), entry # d
                 PROVE  d \in disposed /\ active'[d] \in {maker[d], NoRequest}
      BY <1>1 DEF OpenIsFound, IsOpen
    <3>1. CASE d = c
      BY <1>1, <2>3, <3>1 DEF ChatIInv, RequestSound
    <3>2. CASE d # c
      BY <2>3, <3>2 DEF ChatIInv, OpenIsFound
    <3> QED BY <3>1, <3>2
  <2> QED BY <1>2, <2>7, <2>8, <2>9, <2>10, <2>11, <2>12 DEF ChatIInv
<1> QED BY <1>3, <1>4 DEF SendRequest

LEMMA MessageSound ==
  ASSUME ChatIInv, NEW c \in Connections, NEW e \in Events, NEW k \in Requests,
         MessageArrives(c, k, e)
  PROVE  ChatIInv'
\* the request that is active, before the step
<1>0. PICK r \in Requests \cup {NoRequest} : r = active[c]
  BY DEF ChatIInv, ChatTypeOK
<1>1. /\ Quiet /\ socket[c] = "open"
      /\ IF r = NoRequest THEN UNCHANGED <<pc, stream>> ELSE HandleEvent(r, e)
      /\ active' = IF e = "delta" THEN active ELSE [active EXCEPT ![c] = NoRequest]
      /\ serving' = IF e = "delta" THEN serving ELSE [serving EXCEPT ![c] = @ \ {k}]
      /\ UNCHANGED <<cancelled, transport, fallback, previous, connection>>
      /\ UNCHANGED <<history, fallbacks, entry, maker, state, disposed, socket>>
  BY <1>0 DEF MessageArrives, Deactivated, managerVars
<1>2. HttpSendsAll'
  BY <1>1 DEF ChatIInv, HttpSendsAll
<1>3. /\ active' \in [Connections -> Requests \cup {NoRequest}]
      /\ serving' \in [Connections -> SUBSET Requests]
      /\ \A d \in Connections : d # c \/ e = "delta" => active'[d] = active[d]
      /\ e # "delta" => active'[c] = NoRequest
  BY <1>1 DEF ChatIInv, ChatTypeOK
\* what becomes of the request that is active
<1>4. /\ pc' \in [Requests -> PCs] /\ stream' \in [Requests -> Outcomes]
      /\ \A q \in Requests : q # r => pc'[q] = pc[q] /\ stream'[q] = stream[q]
      /\ r # NoRequest =>
           /\ connection[r] = c
           /\ \/ pc'[r] = pc[r]
              \/ pc[r] = "first" /\ pc'[r] \in {"canceled", "ping", "failed", "stream"}
           /\ pc'[r] \in {"idle", "token", "connecting", "send", "first"} => stream'[r] = stream[r]
           /\ Awaits(r)' => Awaits(r) /\ e = "delta"
           /\ e = "delta" /\ Awaits(r) => Awaits(r)' \/ r \in cancelled
  <2>1. CASE r = NoRequest
    BY <1>1, <2>1 DEF ChatIInv, ChatTypeOK, PCs, Outcomes
  <2>2. CASE r # NoRequest
    <3>1. r \in Requests /\ connection[r] = c /\ (Awaits(r) \/ r \in cancelled)
      BY <1>0, <2>2 DEF ChatIInv, ChatTypeOK, ActiveIsAwaited
    <3>2. /\ pc' = IF pc[r] = "first" THEN [pc EXCEPT ![r] = FirstEvent(r, e)] ELSE pc
          /\ stream' = IF e # "delta" /\ pc'[r] = "stream"
                       THEN [stream EXCEPT ![r] = e] ELSE stream
      BY <1>1, <2>2 DEF HandleEvent
    <3>3. /\ pc' \in [Requests -> PCs]
          /\ \A q \in Requests : q # r => pc'[q] = pc[q]
          /\ pc'[r] = IF pc[r] = "first" THEN FirstEvent(r, e) ELSE pc[r]
      BY <3>1, <3>2, FirstEventIs DEF ChatIInv, ChatTypeOK, PCs
    <3>4. /\ stream' \in [Requests -> Outcomes]
          /\ \A q \in Requests : q # r => stream'[q] = stream[q]
          /\ stream'[r] = IF e # "delta" /\ pc'[r] = "stream" THEN e ELSE stream[r]
      BY <3>1, <3>2 DEF ChatIInv, ChatTypeOK, Outcomes, Events
    <3>5. pc[r] = "first" => stream[r] = "none"
      BY <3>1 DEF ChatIInv, RequestSound
    <3>6. e # "none" /\ (e = "delta" => e \in {"delta"} \cup StreamEnds)
      BY DEF Events, StreamEnds, ServiceErrors
    <3> QED BY <3>1, <3>3, <3>4, <3>5, <3>6, FirstEventIs DEF Awaits
  <2> QED BY <2>1, <2>2
<1>5. ChatTypeOK'
  BY <1>1, <1>3, <1>4 DEF ChatIInv, ChatTypeOK, PCs, Outcomes, Responses
<1>6. \A q \in Requests : RequestSound(q)'
  <2> SUFFICES ASSUME NEW q \in Requests PROVE RequestSound(q)'
    OBVIOUS
  <2>1. RequestSound(q)
    BY DEF ChatIInv
  <2> QED BY <1>1, <1>4, <2>1, ChatAssumption DEF RequestSound, IsOpen
<1>7. \A d \in Connections : ConnectionSound(d)'
  <2> SUFFICES ASSUME NEW d \in Connections PROVE ConnectionSound(d)'
    OBVIOUS
  <2>1. ConnectionSound(d)
    BY DEF ChatIInv
  <2>2. maker[d] \in Requests /\ pc[maker[d]] = "connecting" => pc'[maker[d]] = "connecting"
    BY <1>4, ChatAssumption
  <2> QED BY <1>1, <1>3, <2>1, <2>2 DEF ConnectionSound
<1>8. \A q \in Requests : Awaits(q)' => Awaits(q) /\ (q = r => e = "delta")
  BY <1>4, ChatAssumption DEF Awaits
<1>9. AwaitedIsActive'
  <2> SUFFICES ASSUME NEW q \in Requests, Awaits(q)'
               PROVE  /\ active'[connection[q]] = q /\ IsOpen(connection[q])
                      /\ socket[connection[q]] = "open"
    BY <1>1 DEF AwaitedIsActive, IsOpen
  <2>1. /\ connection[q] \in Connections /\ active[connection[q]] = q
        /\ IsOpen(connection[q]) /\ socket[connection[q]] = "open"
    BY <1>8 DEF Awaits, ChatIInv, RequestSound, AwaitedIsActive
  <2>2. connection[q] = c => q = r
    BY <1>0, <2>1
  <2> QED BY <1>3, <1>8, <2>1, <2>2
<1>10. ActiveIsAwaited'
  <2> SUFFICES ASSUME NEW d \in Connections, NEW q \in Requests, active'[d] = q
               PROVE  connection[q] = d /\ (Awaits(q)' \/ q \in cancelled)
    BY <1>1 DEF ActiveIsAwaited
  <2>1. active[d] = q /\ (d = c => e = "delta")
    BY <1>3, ChatAssumption
  <2>2. connection[q] = d /\ (Awaits(q) \/ q \in cancelled)
    BY <2>1 DEF ChatIInv, ActiveIsAwaited
  <2>3. CASE d = c
    BY <1>4, <2>1, <2>2, <2>3, <1>0, ChatAssumption
  <2>4. CASE d # c
    <3>1. q # r \/ q = NoRequest
      BY <2>2, <2>4, <1>4
    <3> QED BY <1>4, <2>2, <3>1, ChatAssumption DEF Awaits
  <2> QED BY <2>3, <2>4
<1>11. OpenIsFound'
  BY <1>1, <1>3 DEF ChatIInv, OpenIsFound, IsOpen
<1> QED BY <1>2, <1>5, <1>6, <1>7, <1>9, <1>10, <1>11 DEF ChatIInv

LEMMA ReadSound ==
  ASSUME ChatIInv, NEW r \in Requests, StreamIsRead(r)
  PROVE  ChatIInv'
<1>1. /\ pc[r] = "stream" /\ stream[r] # "none"
      /\ \E p \in {"succeeded", "canceled", "ping", "failed"} : pc' = [pc EXCEPT ![r] = p]
      /\ history' \in {history, connection[r]} /\ fallbacks' \in {fallbacks, 0}
      /\ UNCHANGED <<cancelled, transport, fallback, previous, connection, stream>>
      /\ UNCHANGED <<managerVars, connectionVars>>
  BY AfterFailureEnds DEF StreamIsRead, NoFallbacks
<1>2. connection[r] \in Connections
  BY <1>1 DEF ChatIInv, RequestSound
<1>3. ChatTypeOK'
  BY <1>1, <1>2 DEF ChatIInv, ChatTypeOK, Responses, managerVars, connectionVars
<1>4. RequestSound(r)' /\ HttpSendsAll'
  BY <1>1 DEF ChatIInv, ChatTypeOK, RequestSound, HttpSendsAll
<1>5. /\ \A q \in Requests : q # r => RequestSound(q)'
      /\ \A d \in Connections : ConnectionSound(d)'
      /\ AwaitedIsActive' /\ ActiveIsAwaited' /\ OpenIsFound'
  BY <1>1, AsideSound DEF ChatIInv, ChatTypeOK, Awaits
<1> QED BY <1>3, <1>4, <1>5 DEF ChatIInv

LEMMA PingSound ==
  ASSUME ChatIInv, NEW r \in Requests, Ping(r)
  PROVE  ChatIInv'
<1>1. /\ pc[r] = "ping"
      /\ UNCHANGED <<cancelled, connection, stream, history, fallbacks>>
      /\ UNCHANGED <<managerVars, connectionVars>>
      /\ \/ /\ pc' = [pc EXCEPT ![r] = "token"]
            /\ fallback' = fallback \cup {r}
            /\ transport' = [transport EXCEPT ![r] = "http"]
            /\ previous' = [previous EXCEPT ![r] = NoResponse]
         \/ /\ pc' = [pc EXCEPT ![r] = "failed"]
            /\ UNCHANGED <<fallback, transport, previous>>
  BY DEF Ping, Body
<1>2. ChatTypeOK'
  BY <1>1 DEF ChatIInv, ChatTypeOK, Responses, managerVars, connectionVars
<1>3. RequestSound(r)' /\ HttpSendsAll'
  BY <1>1 DEF ChatIInv, ChatTypeOK, RequestSound, HttpSendsAll
<1>4. /\ \A q \in Requests : q # r => RequestSound(q)'
      /\ \A d \in Connections : ConnectionSound(d)'
      /\ AwaitedIsActive' /\ ActiveIsAwaited' /\ OpenIsFound'
  BY <1>1, AsideSound DEF ChatIInv, ChatTypeOK, Awaits
<1> QED BY <1>2, <1>3, <1>4 DEF ChatIInv

LEMMA HttpSound ==
  ASSUME ChatIInv, NEW r \in Requests, HttpEnds(r)
  PROVE  ChatIInv'
<1>1. /\ Quiet /\ pc[r] = "http"
      /\ UNCHANGED <<cancelled, transport, fallback, previous, connection, maker, serving>>
  BY DEF HttpEnds
<1>2. CASE fallbacks' = fallbacks + 1 /\ CloseConnection([pc EXCEPT ![r] = "succeeded"])
           /\ history' = OverHttp
  <2> DEFINE pcs == [pc EXCEPT ![r] = "succeeded"]
  <2>1. /\ pcs \in [Requests -> PCs] /\ pcs[r] = "succeeded"
        /\ \A q \in Requests : q # r => pcs[q] = pc[q]
    BY DEF ChatIInv, ChatTypeOK, PCs
  <2>2. history' \in Responses /\ fallbacks' \in Nat
    BY <1>2 DEF ChatIInv, ChatTypeOK, Responses
  <2>3. CloseConnection(pcs)
    BY <1>2
  <2> HIDE DEF pcs
  <2>4. \A q \in Requests :
          \/ pcs[q] = pc[q]
          \/ /\ pc[q] \notin {"connecting", "first", "stream"}
             /\ pcs[q] \notin {"idle", "token", "connecting", "send", "first", "stream"}
    BY <1>1, <2>1
  <2> QED BY <1>1, <2>1, <2>2, <2>3, <2>4, CloseConnectionSound
<1>3. CASE /\ \E p \in {"succeeded", "ping", "failed", "canceled"} : pc' = [pc EXCEPT ![r] = p]
           /\ history' \in {history, OverHttp}
           /\ UNCHANGED <<fallbacks, stream, entry, active, state, socket, disposed>>
  <2>1. ChatTypeOK'
    BY <1>1, <1>3 DEF ChatIInv, ChatTypeOK, Responses
  <2>2. RequestSound(r)' /\ HttpSendsAll'
    BY <1>1, <1>3 DEF ChatIInv, ChatTypeOK, RequestSound, HttpSendsAll
  <2>3. /\ \A q \in Requests : q # r => RequestSound(q)'
        /\ \A d \in Connections : ConnectionSound(d)'
        /\ AwaitedIsActive' /\ ActiveIsAwaited' /\ OpenIsFound'
    BY <1>1, <1>3, AsideSound DEF ChatIInv, ChatTypeOK, Awaits, managerVars, connectionVars
  <2> QED BY <2>1, <2>2, <2>3 DEF ChatIInv
<1> QED
  <2>1. ASSUME HttpSucceeds(r) PROVE ChatIInv'
    BY <1>2, <1>3, <2>1 DEF HttpSucceeds
  <2>2. ASSUME HttpFails(r) PROVE ChatIInv'
    BY <1>3, <2>2, AfterFailureEnds DEF HttpFails
  <2> QED BY <2>1, <2>2 DEF HttpEnds

LEMMA CloseAllSound ==
  ASSUME ChatIInv, CloseAll
  PROVE  ChatIInv'
BY CloseConnectionSound DEF CloseAll, ChatIInv, ChatTypeOK, PCs

\* What changes nothing but the counter of fallbacks.
LEMMA ElsewhereSound ==
  ASSUME ChatIInv, UNCHANGED <<fetchVars, history, managerVars, connectionVars>>, fallbacks' \in Nat
  PROVE  ChatIInv'
<1>1. /\ UNCHANGED <<pc, cancelled, transport, fallback, previous, connection, stream>>
      /\ UNCHANGED <<history, entry, maker, state, disposed, socket, active, serving>>
  BY DEF fetchVars, managerVars, connectionVars
<1>2. ChatTypeOK' /\ HttpSendsAll'
  BY <1>1 DEF ChatIInv, ChatTypeOK, HttpSendsAll, Responses
<1>3. (\A q \in Requests : RequestSound(q)') /\ (\A c \in Connections : ConnectionSound(c)')
  BY <1>1 DEF ChatIInv, RequestSound, ConnectionSound, IsOpen
<1>4. AwaitedIsActive' /\ ActiveIsAwaited' /\ OpenIsFound'
  BY <1>1 DEF ChatIInv, AwaitedIsActive, ActiveIsAwaited, OpenIsFound, Awaits, IsOpen
<1> QED BY <1>2, <1>3, <1>4 DEF ChatIInv
------------------------------------------------------------------------------
LEMMA StepSound == ChatIInv /\ [ChatNext]_chatVars => ChatIInv'
<1> SUFFICES ASSUME ChatIInv, [ChatNext]_chatVars PROVE ChatIInv'
  OBVIOUS
<1>1. CASE ServerStep
  BY <1>1, MessageSound DEF ServerStep
<1>2. CASE SocketStep
  BY <1>2, ConnectsSound, CloseSound DEF SocketStep
<1>3. CASE UserStep
  <2>1. CASE OtherConversation
    BY <2>1, ElsewhereSound DEF OtherConversation, NoFallbacks, ChatIInv, ChatTypeOK
  <2> QED BY <1>3, <2>1, CloseAllSound, StartSound, CancellationSound DEF UserStep
<1>4. CASE FetchStep
  BY <1>4, TokenSound, SendSound, ReadSound, PingSound, HttpSound, CancellationSound
  DEF FetchStep, RequestStep
<1>5. CASE UNCHANGED chatVars
  BY <1>5, ElsewhereSound DEF chatVars, ChatIInv, ChatTypeOK
<1> QED BY <1>1, <1>2, <1>3, <1>4, <1>5 DEF ChatNext

LEMMA ChatInductive == ChatSpec => []ChatIInv
<1>1. ChatInit /\ [][ChatNext]_chatVars => []ChatIInv
  BY InitSound, StepSound, PTL
<1> QED BY <1>1, PTL DEF ChatSpec

\* Every variable of a chat request, a connection and their manager keeps its
\* type, for any requests and connections.
THEOREM ChatTypes == ChatSpec => []ChatTypeOK
BY ChatInductive, PTL DEF ChatIInv

\* A request that awaits an event of the server is the active request of an open
\* connection: however connections are superseded, replaced, closed and disposed
\* of (chatWebSocketManager.ts:486, :532, :636), it is told.
THEOREM NobodyIsForgotten == ChatSpec => []AwaitedIsActive
BY ChatInductive, PTL DEF ChatIInv

\* Events reach only requests that are awaited or whose cancellation is to come.
THEOREM NobodyIsDisturbed == ChatSpec => []ActiveIsAwaited
BY ChatInductive, PTL DEF ChatIInv

\* The manager finds every open connection again, but for one that was disposed
\* of while it was being opened (chatWebSocketManager.ts:347).
THEOREM NoConnectionIsLost == ChatSpec => []OpenIsFound
BY ChatInductive, PTL DEF ChatIInv

\* A request over HTTP names no previous response (chatMLFetcher.ts:140).
THEOREM HttpIsComplete == ChatSpec => []HttpSendsAll
BY ChatInductive, PTL DEF ChatIInv
------------------------------------------------------------------------------
(***************************************************************************)
(* Why cancelled requests end.                                             *)
(***************************************************************************)
\* A request waits for the ping before its fallback; one whose socket is being
\* opened waits for the socket it has made; who is cancelled has begun.
PingsOnce == \A r \in Requests : pc[r] = "ping" => r \notin fallback
ConnectingOpens ==
  \A r \in Requests : pc[r] = "connecting" =>
    maker[connection[r]] = r /\ socket[connection[r]] = "opening"
CancelledBegun == \A r \in cancelled : pc[r] # "idle"
ProgressIInv == ChatIInv /\ PingsOnce /\ ConnectingOpens /\ CancelledBegun

Gone == {"ping", "failed", "canceled"}
PlacesRanked ==
  /\ PlaceRank["idle"] = 9 /\ PlaceRank["token"] = 8 /\ PlaceRank["connecting"] = 7
  /\ PlaceRank["send"] = 6 /\ PlaceRank["first"] = 5 /\ PlaceRank["stream"] = 3
  /\ PlaceRank["http"] = 2 /\ PlaceRank["ping"] = 1 /\ PlaceRank["succeeded"] = 0
  /\ PlaceRank["failed"] = 0 /\ PlaceRank["canceled"] = 0
LEMMA PlaceRanks == PlacesRanked
BY DEF PlacesRanked, PlaceRank

\* What a step may do to a request it is not a step of: the handle settles, or
\* its stream begins or ends.
Told(q) ==
  \/ pc'[q] = pc[q] /\ (stream'[q] = "none" => stream[q] = "none")
  \/ pc[q] = "first" /\ pc'[q] \in Gone \cup {"stream"}
Spared(q) ==
  /\ q \in fallback' <=> q \in fallback
  /\ IsActive(q)' => IsActive(q)
  /\ Told(q)

\* What its own steps do: it goes on, or to its fallback.
Further(q) ==
  \/ /\ q \in fallback' <=> q \in fallback
     /\ WayRank(q)' < WayRank(q)
  \/ pc[q] = "ping" /\ pc'[q] = "token" /\ q \notin fallback /\ q \in fallback'

LEMMA SparedRank ==
  ASSUME ChatTypeOK, ChatTypeOK', NEW q \in Requests, Spared(q)
  PROVE  RequestRank(q)' <= RequestRank(q) /\ RequestRank(q)' \in Nat
<1>1. pc[q] \in PCs /\ pc'[q] \in PCs
  BY DEF ChatTypeOK, PCs
<1>2. WayRank(q) \in Nat /\ WayRank(q)' \in Nat
  BY <1>1, PlaceRanks DEF WayRank, PlacesRanked, PCs
<1>3. WayRank(q)' <= WayRank(q)
  BY <1>1, PlaceRanks DEF Spared, Told, WayRank, PlacesRanked, PCs, Gone
<1> QED BY <1>2, <1>3 DEF Spared, RequestRank

LEMMA FurtherRank ==
  ASSUME ChatTypeOK, ChatTypeOK', NEW q \in Requests, Further(q)
  PROVE  RequestRank(q)' < RequestRank(q) /\ RequestRank(q)' \in Nat
<1>1. pc[q] \in PCs /\ pc'[q] \in PCs
  BY DEF ChatTypeOK, PCs
<1>2. WayRank(q) \in Nat /\ WayRank(q)' \in Nat
  BY <1>1, PlaceRanks DEF WayRank, PlacesRanked, PCs
<1>3. CASE (q \in fallback' <=> q \in fallback) /\ WayRank(q)' < WayRank(q)
  BY <1>2, <1>3 DEF RequestRank
<1>4. CASE pc[q] = "ping" /\ pc'[q] = "token" /\ q \notin fallback /\ q \in fallback'
  <2>1. WayRank(q) = 1 /\ WayRank(q)' = 8
    BY <1>4, PlaceRanks DEF WayRank, PlacesRanked
  <2> QED BY <1>4, <2>1 DEF RequestRank
<1> QED BY <1>3, <1>4 DEF Further

\* A request that leaves its connection after it was cancelled.
LEMMA LetGoRank ==
  ASSUME ChatTypeOK, ChatTypeOK', NEW q \in Requests, Spared(q), IsActive(q), ~IsActive(q)'
  PROVE  RequestRank(q)' < RequestRank(q) /\ RequestRank(q)' \in Nat
<1>1. pc[q] \in PCs /\ pc'[q] \in PCs
  BY DEF ChatTypeOK, PCs
<1>2. WayRank(q) \in Nat /\ WayRank(q)' \in Nat
  BY <1>1, PlaceRanks DEF WayRank, PlacesRanked, PCs
<1>3. WayRank(q)' <= WayRank(q)
  BY <1>1, PlaceRanks DEF Spared, Told, WayRank, PlacesRanked, PCs, Gone
<1> QED BY <1>2, <1>3 DEF Spared, RequestRank

LEMMA SettleTells ==
  ASSUME ChatTypeOK, NEW rs, NEW how \in {"error", "canceled"},
         NEW pcs \in [Requests -> PCs], Settle(rs, how, pcs)
  PROVE  \A q \in Requests :
           /\ pcs[q] = pc[q] => Told(q)
           /\ pc[q] # "first" => pc'[q] = pcs[q]
<1> SUFFICES ASSUME NEW q \in Requests
             PROVE  (pcs[q] = pc[q] => Told(q)) /\ (pc[q] # "first" => pc'[q] = pcs[q])
  OBVIOUS
<1>1. /\ q \notin rs \/ pc[q] # "first" => pc'[q] = pcs[q]
      /\ q \in rs /\ pc[q] = "first" => pc'[q] \in {"ping", "failed", "canceled"}
      /\ q \in rs /\ pc[q] = "stream" => stream'[q] = how
      /\ q \notin rs \/ pc[q] # "stream" => stream'[q] = stream[q]
  BY SettleEffect
<1> QED BY <1>1 DEF Told, Gone
------------------------------------------------------------------------------
LEMMA StartAdvances ==
  ASSUME ChatTypeOK, NEW r \in Requests, Start(r)
  PROVE  Further(r) /\ \A q \in Requests : q # r => Spared(q)
<1>1. /\ pc[r] = "idle" /\ pc' = [pc EXCEPT ![r] = "token"]
      /\ UNCHANGED <<fallback, stream, active>>
  BY DEF Start, connectionVars
<1>2. pc'[r] = "token" /\ \A q \in Requests : q # r => pc'[q] = pc[q]
  BY <1>1 DEF ChatTypeOK
<1>3. Further(r)
  BY <1>1, <1>2, PlaceRanks DEF Further, WayRank, PlacesRanked
<1> QED BY <1>1, <1>2, <1>3 DEF Spared, Told, IsActive

LEMMA TokenAdvances ==
  ASSUME ChatTypeOK, NEW r \in Requests, TokenArrives(r)
  PROVE  Further(r) /\ \A q \in Requests : q # r => Spared(q)
<1>1. /\ pc[r] = "token" /\ UNCHANGED <<fallback, stream, active>>
  BY DEF TokenArrives, FetchViaWebSocket, ReuseConnection, CreateConnection, connectionVars
<1>2. PICK p \in {"send", "connecting", "http", "canceled"} : pc' = [pc EXCEPT ![r] = p]
  BY DEF TokenArrives, FetchViaWebSocket, ReuseConnection, CreateConnection, SendHttp, StopBeforeFetch
<1>3. pc'[r] = p /\ \A q \in Requests : q # r => pc'[q] = pc[q]
  BY <1>2 DEF ChatTypeOK
<1>4. Further(r)
  BY <1>1, <1>3, PlaceRanks DEF Further, WayRank, PlacesRanked
<1> QED BY <1>1, <1>3, <1>4 DEF Spared, Told, IsActive

LEMMA ConnectAdvances ==
  ASSUME ChatIInv, NEW c \in Connections, Connects(c)
  PROVE  /\ maker[c] \in Requests
         /\ \A r \in Requests : IF r = maker[c] THEN Further(r) ELSE Spared(r)
<1>1. /\ maker[c] \in Requests /\ pc[maker[c]] = "connecting"
      /\ UNCHANGED <<fallback, stream, active>>
  BY DEF Connects, ConnectionOpens, ConnectionFails, ChatIInv, ConnectionSound
<1>2. PICK p \in Gone \cup {"send"} : pc' = [pc EXCEPT ![maker[c]] = p]
  BY AfterFailureEnds DEF Connects, ConnectionOpens, ConnectionFails, Gone
<1>3. pc'[maker[c]] = p /\ \A q \in Requests : q # maker[c] => pc'[q] = pc[q]
  BY <1>1, <1>2 DEF ChatTypeOK, ChatIInv
<1>4. \A r \in Requests : r = maker[c] => Further(r)
  BY <1>1, <1>3, PlaceRanks DEF Further, WayRank, PlacesRanked, Gone
<1> QED BY <1>1, <1>3, <1>4 DEF Spared, Told, IsActive

LEMMA CloseSpares ==
  ASSUME ChatTypeOK, NEW c \in Connections, ConnectionCloses(c)
  PROVE  \A q \in Requests : Spared(q)
<1>1. Settle({active[c]}, "error", pc) /\ pc \in [Requests -> PCs]
  BY DEF ConnectionCloses, ChatTypeOK, PCs
<1>2. \A q \in Requests : Told(q)
  BY <1>1, SettleTells
<1>3. fallback' = fallback /\ active' = [active EXCEPT ![c] = NoRequest]
  BY DEF ConnectionCloses
<1>4. \A q \in Requests : IsActive(q)' => IsActive(q)
  BY <1>3, ChatAssumption DEF IsActive, ChatTypeOK
<1> QED BY <1>2, <1>3, <1>4 DEF Spared

LEMMA SendAdvances ==
  ASSUME ChatTypeOK, NEW r \in Requests, SendRequest(r)
  PROVE  Further(r) /\ \A q \in Requests : q # r => Spared(q)
<1>1. pc[r] = "send" /\ fallback' = fallback
  BY DEF SendRequest
<1>2. CASE SendThrows(r)
  <2>1. PICK p \in Gone : pc' = [pc EXCEPT ![r] = p]
    BY <1>2, AfterFailureEnds DEF SendThrows, Gone
  <2>2. /\ UNCHANGED <<stream, active>>
        /\ pc'[r] = p /\ \A q \in Requests : q # r => pc'[q] = pc[q]
    BY <1>2, <2>1 DEF SendThrows, ChatTypeOK
  <2>3. Further(r)
    BY <1>1, <2>2, PlaceRanks DEF Further, WayRank, PlacesRanked, Gone
  <2> QED BY <1>1, <2>2, <2>3 DEF Spared, Told, IsActive
<1>3. CASE Sends(r)
  <2> DEFINE pcs == [pc EXCEPT ![r] = "first"]
  <2>1. Settle({active[connection[r]]}, "error", pcs) /\ pcs \in [Requests -> PCs]
    BY <1>3 DEF Sends, ChatTypeOK, PCs
  <2>2. pcs[r] = "first" /\ \A q \in Requests : q # r => pcs[q] = pc[q]
    BY DEF ChatTypeOK
  <2> HIDE DEF pcs
  <2>3. pc'[r] = "first" /\ \A q \in Requests : q # r => Told(q)
    BY <1>1, <2>1, <2>2, SettleTells
  <2>4. active' = [active EXCEPT ![connection[r]] = r]
    BY <1>3 DEF Sends
  <2>5. \A q \in Requests : q # r /\ IsActive(q)' => IsActive(q)
    BY <2>4 DEF IsActive, ChatTypeOK
  <2>6. Further(r)
    BY <1>1, <2>3, PlaceRanks DEF Further, WayRank, PlacesRanked
  <2> QED BY <1>1, <2>3, <2>5, <2>6 DEF Spared
<1> QED BY <1>2, <1>3 DEF SendRequest

LEMMA MessageSpares ==
  ASSUME ChatTypeOK, NEW c \in Connections, NEW q \in Requests, NEW e \in Events,
         MessageArrives(c, q, e)
  PROVE  \A p \in Requests : Spared(p)
<1>1. fallback' = fallback /\ active' \in {active, [active EXCEPT ![c] = NoRequest]}
  BY DEF MessageArrives, Deactivated
<1>2. \A p \in Requests : IsActive(p)' => IsActive(p)
  BY <1>1, ChatAssumption DEF IsActive, ChatTypeOK
<1>3. CASE active[c] = NoRequest
  BY <1>1, <1>2, <1>3 DEF MessageArrives, Spared, Told
<1>4. CASE active[c] # NoRequest
  <2>1. active[c] \in Requests /\ HandleEvent(active[c], e)
    BY <1>4 DEF MessageArrives, ChatTypeOK
  <2>2. PICK r \in Requests : HandleEvent(r, e)
    BY <2>1
  <2>3. FirstEvent(r, e) \in Gone \cup {"stream"}
    BY FirstEventIs DEF Gone
  <2>4. \A p \in Requests : \/ pc'[p] = pc[p]
                            \/ pc[p] = "first" /\ pc'[p] \in Gone \cup {"stream"}
    BY <2>2, <2>3 DEF HandleEvent, ChatTypeOK
  <2>5. stream' = stream \/ (stream' = [stream EXCEPT ![r] = e] /\ e # "none")
    BY <2>2 DEF HandleEvent, Events, StreamEnds, ServiceErrors
  <2>6. \A p \in Requests : stream'[p] = "none" => stream[p] = "none"
    BY <2>5 DEF ChatTypeOK
  <2> QED BY <1>1, <1>2, <2>4, <2>6 DEF Spared, Told
<1> QED BY <1>3, <1>4

LEMMA CancelSpares ==
  ASSUME ChatTypeOK, NEW r \in Requests, CancelRequest(r) \/ LateCancellation(r)
  PROVE  /\ \A q \in Requests : Spared(q)
         /\ LateCancellation(r) => IsActive(r) /\ ~IsActive(r)'
<1>1. fallback' = fallback
  BY DEF CancelRequest, LateCancellation
<1>2. CASE UNCHANGED <<pc, stream, active>> /\ ~LateCancellation(r)
  BY <1>1, <1>2 DEF Spared, Told, IsActive
<1>3. CASE HandleCancellation(r)
  <2>1. Settle({r}, "canceled", pc) /\ pc \in [Requests -> PCs]
    BY <1>3 DEF HandleCancellation, ChatTypeOK, PCs
  <2>2. \A q \in Requests : Told(q)
    BY <2>1, SettleTells
  <2>3. active' = [c \in Connections |-> IF active[c] = r THEN NoRequest ELSE active[c]]
    BY <1>3 DEF HandleCancellation
  <2>4. (\A q \in Requests : IsActive(q)' => IsActive(q)) /\ ~IsActive(r)'
    BY <2>3, ChatAssumption DEF IsActive
  <2> QED BY <1>1, <2>2, <2>4 DEF Spared, LateCancellation
<1> QED BY <1>2, <1>3 DEF CancelRequest, LateCancellation

LEMMA ReadAdvances ==
  ASSUME ChatTypeOK, NEW r \in Requests, StreamIsRead(r)
  PROVE  Further(r) /\ \A q \in Requests : q # r => Spared(q)
<1>1. pc[r] = "stream" /\ stream[r] # "none" /\ UNCHANGED <<fallback, stream, active>>
  BY DEF StreamIsRead, connectionVars
<1>2. PICK p \in Gone \cup {"succeeded"} : pc' = [pc EXCEPT ![r] = p]
  BY AfterFailureEnds DEF StreamIsRead, Gone
<1>3. pc'[r] = p /\ \A q \in Requests : q # r => pc'[q] = pc[q]
  BY <1>2 DEF ChatTypeOK
<1>4. Further(r)
  BY <1>1, <1>3, PlaceRanks DEF Further, WayRank, PlacesRanked, Gone
<1> QED BY <1>1, <1>3, <1>4 DEF Spared, Told, IsActive

LEMMA PingAdvances ==
  ASSUME ChatIInv, PingsOnce, NEW r \in Requests, Ping(r)
  PROVE  Further(r) /\ \A q \in Requests : q # r => Spared(q)
<1>1. pc[r] = "ping" /\ UNCHANGED <<stream, active>> /\ ChatTypeOK
  BY DEF Ping, connectionVars, ChatIInv
<1>2. CASE pc' = [pc EXCEPT ![r] = "failed"] /\ fallback' = fallback
  <2>1. pc'[r] = "failed" /\ \A q \in Requests : q # r => pc'[q] = pc[q]
    BY <1>1, <1>2 DEF ChatTypeOK
  <2>2. Further(r)
    BY <1>1, <1>2, <2>1, PlaceRanks DEF Further, WayRank, PlacesRanked
  <2> QED BY <1>1, <1>2, <2>1, <2>2 DEF Spared, Told, IsActive
<1>3. CASE pc' = [pc EXCEPT ![r] = "token"] /\ fallback' = fallback \cup {r}
  <2>1. pc'[r] = "token" /\ \A q \in Requests : q # r => pc'[q] = pc[q]
    BY <1>1, <1>3 DEF ChatTypeOK
  <2>2. r \notin fallback
    BY <1>1 DEF PingsOnce
  <2> QED BY <1>1, <1>3, <2>1, <2>2 DEF Spared, Told, IsActive, Further
<1> QED BY <1>2, <1>3 DEF Ping

LEMMA CloseConnectionSpares ==
  ASSUME ChatTypeOK, NEW pcs \in [Requests -> PCs], CloseConnection(pcs)
  PROVE  \A q \in Requests :
           /\ IsActive(q)' => IsActive(q)
           /\ pcs[q] = pc[q] => Told(q)
           /\ pc[q] # "first" => pc'[q] = pcs[q]
<1> DEFINE cs == {entry} \ {NoConnection}
           rs == {active[c] : c \in cs}
<1>1. /\ Settle(rs, "error", pcs)
      /\ active' = [c \in Connections |-> IF c \in cs THEN NoRequest ELSE active[c]]
  BY DEF CloseConnection, Dispose
<1>2. \A q \in Requests : IsActive(q)' => IsActive(q)
  BY <1>1, ChatAssumption DEF IsActive
<1> HIDE DEF rs
<1> QED BY <1>1, <1>2, SettleTells

LEMMA HttpAdvances ==
  ASSUME ChatTypeOK, NEW r \in Requests, HttpEnds(r)
  PROVE  Further(r) /\ \A q \in Requests : q # r => Spared(q)
<1>1. pc[r] = "http" /\ fallback' = fallback
  BY DEF HttpEnds
<1>2. CASE \E p \in Gone \cup {"succeeded"} : pc' = [pc EXCEPT ![r] = p] /\ UNCHANGED <<stream, active>>
  <2>1. PICK p \in Gone \cup {"succeeded"} : pc' = [pc EXCEPT ![r] = p]
    BY <1>2
  <2>2. pc'[r] = p /\ \A q \in Requests : q # r => pc'[q] = pc[q]
    BY <2>1 DEF ChatTypeOK
  <2>3. Further(r)
    BY <1>1, <2>2, PlaceRanks DEF Further, WayRank, PlacesRanked, Gone
  <2> QED BY <1>1, <1>2, <2>2, <2>3 DEF Spared, Told, IsActive
<1>3. CASE CloseConnection([pc EXCEPT ![r] = "succeeded"])
  <2> DEFINE pcs == [pc EXCEPT ![r] = "succeeded"]
  <2>1. /\ pcs \in [Requests -> PCs] /\ pcs[r] = "succeeded"
        /\ \A q \in Requests : q # r => pcs[q] = pc[q]
    BY DEF ChatTypeOK, PCs
  <2>2. CloseConnection(pcs)
    BY <1>3
  <2> HIDE DEF pcs
  <2>3. pc'[r] = "succeeded" /\ \A q \in Requests : q # r => Spared(q)
    BY <1>1, <2>1, <2>2, CloseConnectionSpares DEF Spared
  <2>4. Further(r)
    BY <1>1, <2>3, PlaceRanks DEF Further, WayRank, PlacesRanked
  <2> QED BY <2>3, <2>4
<1> QED BY <1>2, <1>3, AfterFailureEnds DEF HttpEnds, HttpSucceeds, HttpFails, Gone

LEMMA UserSpares ==
  ASSUME ChatTypeOK, CloseAll \/ OtherConversation
  PROVE  \A q \in Requests : Spared(q)
<1>1. CASE CloseAll
  <2>1. CloseConnection(pc) /\ fallback' = fallback /\ pc \in [Requests -> PCs]
    BY <1>1 DEF CloseAll, ChatTypeOK, PCs
  <2> QED BY <2>1, CloseConnectionSpares DEF Spared
<1>2. CASE OtherConversation
  BY <1>2 DEF OtherConversation, fetchVars, connectionVars, Spared, Told, IsActive
<1> QED BY <1>1, <1>2

\* Every step, of whomever.
LEMMA StepAdvances ==
  ASSUME ChatIInv, ChatTypeOK', PingsOnce, ChatNext, NEW r \in Requests
  PROVE  /\ Further(r) \/ Spared(r)
         /\ RequestStep(r) \/ (\E c \in Connections : maker[c] = r /\ Connects(c)) =>
              Further(r) \/ (Spared(r) /\ IsActive(r) /\ ~IsActive(r)')
<1>1. ChatTypeOK
  BY DEF ChatIInv
<1>2. RequestStep(r) => Further(r) \/ (Spared(r) /\ IsActive(r) /\ ~IsActive(r)')
  BY <1>1, TokenAdvances, SendAdvances, ReadAdvances, PingAdvances, HttpAdvances, CancelSpares
     DEF RequestStep
<1>3. (\E c \in Connections : maker[c] = r /\ Connects(c)) => Further(r)
  BY ConnectAdvances
<1>4. Further(r) \/ Spared(r)
  <2>1. CASE UserStep
    BY <1>1, <2>1, UserSpares, StartAdvances, CancelSpares DEF UserStep
  <2>2. CASE FetchStep
    BY <1>1, <2>2, TokenAdvances, SendAdvances, ReadAdvances, PingAdvances, HttpAdvances, CancelSpares
       DEF FetchStep, RequestStep
  <2>3. CASE SocketStep
    BY <1>1, <2>3, ConnectAdvances, CloseSpares DEF SocketStep
  <2>4. CASE ServerStep
    BY <1>1, <2>4, MessageSpares DEF ServerStep
  <2> QED BY <2>1, <2>2, <2>3, <2>4 DEF ChatNext
<1> QED BY <1>2, <1>3, <1>4
------------------------------------------------------------------------------
\* A failure leads to the ping only before the fallback.
LEMMA PingOnceStep ==
  ASSUME ChatIInv, PingsOnce, [ChatNext]_chatVars
  PROVE  PingsOnce'
<1>1. \A r \in Requests : AfterFailure(r) = "ping" => r \notin fallback
  BY DEF AfterFailure
<1>2. pc \in [Requests -> PCs] /\ ChatTypeOK
  BY DEF ChatIInv, ChatTypeOK, PCs
<1>3. ASSUME NEW rs, NEW how, NEW pcs, Settle(rs, how, pcs), fallback' = fallback,
             \A q \in Requests : pcs[q] = "ping" => pc[q] = "ping"
      PROVE  PingsOnce'
  BY <1>1, <1>3 DEF Settle, PingsOnce
<1>4. ASSUME NEW r \in Requests, NEW p, pc' = [pc EXCEPT ![r] = p], fallback' = fallback,
             p = "ping" => r \notin fallback
      PROVE  PingsOnce'
  BY <1>2, <1>4 DEF PingsOnce
<1>5. CASE UNCHANGED <<pc, fallback>>
  BY <1>5 DEF PingsOnce
<1>6. CASE UserStep
  <2>1. ASSUME NEW r \in Requests, Start(r) PROVE PingsOnce'
    BY <1>4, <2>1 DEF Start
  <2>2. ASSUME NEW r \in Requests, CancelRequest(r) PROVE PingsOnce'
    BY <1>3, <1>5, <2>2 DEF CancelRequest, HandleCancellation
  <2>3. CASE CloseAll
    BY <1>3, <2>3 DEF CloseAll, CloseConnection, Dispose
  <2>4. CASE OtherConversation
    BY <1>5, <2>4 DEF OtherConversation, fetchVars
  <2> QED BY <1>6, <2>1, <2>2, <2>3, <2>4 DEF UserStep
<1>7. ASSUME NEW r \in Requests, RequestStep(r) PROVE PingsOnce'
  <2>1. CASE TokenArrives(r)
    BY <1>4, <2>1 DEF TokenArrives, FetchViaWebSocket, ReuseConnection, CreateConnection, SendHttp,
                      StopBeforeFetch
  <2>2. CASE SendRequest(r)
    <3>1. CASE SendThrows(r)
      BY <1>1, <1>4, <2>2, <3>1 DEF SendRequest, SendThrows
    <3>2. CASE Sends(r)
      <4>1. Settle({active[connection[r]]}, "error", [pc EXCEPT ![r] = "first"])
        BY <3>2 DEF Sends
      <4>2. \A q \in Requests : [pc EXCEPT ![r] = "first"][q] = "ping" => pc[q] = "ping"
        BY <1>2
      <4>3. fallback' = fallback
        BY <2>2 DEF SendRequest
      <4> QED BY <1>3, <4>1, <4>2, <4>3
    <3> QED BY <2>2, <3>1, <3>2 DEF SendRequest
  <2>3. CASE StreamIsRead(r)
    BY <1>1, <1>4, <2>3 DEF StreamIsRead
  <2>4. CASE Ping(r)
    BY <1>2, <2>4 DEF Ping, PingsOnce
  <2>5. CASE HttpEnds(r)
    <3>1. fallback' = fallback
      BY <2>5 DEF HttpEnds
    <3>2. CASE \E p : pc' = [pc EXCEPT ![r] = p] /\ (p = "ping" => r \notin fallback)
      BY <1>4, <3>1, <3>2
    <3>3. CASE CloseConnection([pc EXCEPT ![r] = "succeeded"])
      <4>1. PICK rs : Settle(rs, "error", [pc EXCEPT ![r] = "succeeded"])
        BY <3>3 DEF CloseConnection, Dispose
      <4>2. \A q \in Requests : [pc EXCEPT ![r] = "succeeded"][q] = "ping" => pc[q] = "ping"
        BY <1>2
      <4> QED BY <1>3, <3>1, <4>1, <4>2
    <3>4. \/ \E p \in {AfterFailure(r), "failed", "canceled", "succeeded"} : pc' = [pc EXCEPT ![r] = p]
          \/ CloseConnection([pc EXCEPT ![r] = "succeeded"])
      BY <2>5 DEF HttpEnds, HttpSucceeds, HttpFails
    <3> QED BY <1>1, <3>2, <3>3, <3>4
  <2>6. CASE LateCancellation(r)
    BY <1>3, <2>6 DEF LateCancellation, HandleCancellation
  <2> QED BY <1>7, <2>1, <2>2, <2>3, <2>4, <2>5, <2>6 DEF RequestStep
<1>8. ASSUME NEW c \in Connections, Connects(c) PROVE PingsOnce'
  <2>1. maker[c] \in Requests
    BY <1>8, ConnectAdvances
  <2>2. \E p \in {AfterFailure(maker[c]), "send"} : pc' = [pc EXCEPT ![maker[c]] = p]
    BY <1>8 DEF Connects, ConnectionOpens, ConnectionFails
  <2> QED BY <1>1, <1>4, <1>8, <2>1, <2>2 DEF Connects
<1>9. ASSUME NEW c \in Connections, ConnectionCloses(c) PROVE PingsOnce'
  BY <1>3, <1>9 DEF ConnectionCloses
<1>10. ASSUME NEW c \in Connections, NEW q \in Requests, NEW e \in Events, MessageArrives(c, q, e)
       PROVE  PingsOnce'
  <2>1. FirstEvent(active[c], e) = "ping" => active[c] \notin fallback
    BY DEF FirstEvent, AfterFailure
  <2> QED BY <1>2, <1>4, <1>5, <1>10, <2>1 DEF MessageArrives, HandleEvent, ChatTypeOK
<1> QED BY <1>5, <1>6, <1>7, <1>8, <1>9, <1>10 DEF ChatNext, FetchStep, SocketStep, ServerStep, chatVars,
                                                fetchVars

\* Nobody returns to the place where requests begin.
LEMMA BegunStep ==
  ASSUME ChatIInv, ChatTypeOK', PingsOnce, CancelledBegun, [ChatNext]_chatVars
  PROVE  CancelledBegun'
<1>1. pc \in [Requests -> PCs] /\ pc' \in [Requests -> PCs] /\ ChatTypeOK
  BY DEF ChatIInv, ChatTypeOK, PCs
<1>2. CASE ChatNext
  <2>1. ASSUME NEW q \in Requests, pc'[q] = "idle" PROVE pc[q] = "idle"
    <3>1. Further(q) \/ Spared(q)
      BY <1>2, StepAdvances
    <3>2. pc[q] \in PCs /\ WayRank(q)' = 9
      BY <1>1, <2>1, PlaceRanks DEF WayRank, PlacesRanked
    <3>3. ~Further(q)
      BY <2>1, <3>2, PlaceRanks DEF Further, WayRank, PlacesRanked, PCs
    <3> QED BY <2>1, <3>1, <3>3 DEF Spared, Told, Gone
  <2>2. cancelled' = cancelled \/ \E r \in Requests : CancelRequest(r)
    BY <1>2 DEF ChatNext, UserStep, FetchStep, RequestStep, SocketStep, ServerStep, CloseAll, OtherConversation,
       Start, TokenArrives, SendRequest, StreamIsRead, Ping, HttpEnds, LateCancellation, Connects,
       ConnectionCloses, MessageArrives, fetchVars
  <2>3. \A r \in Requests : CancelRequest(r) => cancelled' = cancelled \cup {r} /\ pc[r] # "idle"
    BY DEF CancelRequest
  <2>4. cancelled' \subseteq Requests
    BY DEF ChatTypeOK
  <2> QED BY <2>1, <2>2, <2>3, <2>4 DEF CancelledBegun
<1>3. CASE UNCHANGED chatVars
  BY <1>3 DEF chatVars, fetchVars, CancelledBegun
<1> QED BY <1>2, <1>3

\* Who is connecting now has made a socket, nobody else's.
LEMMA CreateConnects ==
  ASSUME ChatIInv, ConnectingOpens, NEW r \in Requests, CreateConnection(r)
  PROVE  ConnectingOpens'
<1> DEFINE c == CHOOSE d \in Unmade : TRUE
<1>1. c \in Connections /\ maker[c] = NoRequest /\ socket[c] = "none"
  BY DEF CreateConnection, Unmade, ChatIInv, ConnectionSound
<1>2. /\ connection' = [connection EXCEPT ![r] = c] /\ maker' = [maker EXCEPT ![c] = r]
      /\ socket' = [socket EXCEPT ![c] = "opening"] /\ pc' = [pc EXCEPT ![r] = "connecting"]
  BY DEF CreateConnection
<1>3. /\ pc \in [Requests -> PCs] /\ maker \in [Connections -> Requests \cup {NoRequest}]
      /\ connection \in [Requests -> Connections \cup {NoConnection}]
      /\ socket = [d \in Connections |-> socket[d]] /\ DOMAIN socket = Connections
  BY DEF ChatIInv, ChatTypeOK, PCs
<1> HIDE DEF c
<1>4. maker'[connection'[r]] = r /\ socket'[connection'[r]] = "opening"
  BY <1>1, <1>2, <1>3
<1>5. ASSUME NEW q \in Requests, q # r, pc'[q] = "connecting"
      PROVE  maker'[connection'[q]] = q /\ socket'[connection'[q]] = "opening"
  <2>1. pc[q] = "connecting" /\ connection'[q] = connection[q]
    BY <1>2, <1>3, <1>5
  <2>2. connection[q] # c /\ connection[q] \in Connections
    BY <1>1, <2>1 DEF ConnectingOpens, ChatIInv, RequestSound
  <2> QED BY <1>2, <1>3, <2>1, <2>2 DEF ConnectingOpens
<1> QED BY <1>4, <1>5 DEF ConnectingOpens

\* When a socket opens or fails, the one request that waits for it goes on.
LEMMA ConnectsConnects ==
  ASSUME ChatIInv, ConnectingOpens, NEW c \in Connections, Connects(c)
  PROVE  ConnectingOpens'
<1>1. maker[c] \in Requests
  BY ConnectAdvances
<1>2. PICK p \in {AfterFailure(maker[c]), "send"} : pc' = [pc EXCEPT ![maker[c]] = p]
  BY DEF Connects, ConnectionOpens, ConnectionFails
<1>3. PICK s : socket' = [socket EXCEPT ![c] = s]
  BY DEF Connects, ConnectionOpens, ConnectionFails
<1>4. UNCHANGED <<maker, connection>>
  BY DEF Connects, managerVars
<1>5. pc \in [Requests -> PCs] /\ DOMAIN socket = Connections
  BY DEF ChatIInv, ChatTypeOK, PCs
<1>6. ASSUME NEW q \in Requests, pc'[q] = "connecting" PROVE pc[q] = "connecting" /\ q # maker[c]
  BY <1>1, <1>2, <1>5, <1>6, AfterFailureEnds
<1>7. \A q \in Requests : pc[q] = "connecting" => connection[q] \in Connections
  BY DEF ChatIInv, RequestSound
<1> QED BY <1>3, <1>4, <1>5, <1>6, <1>7 DEF ConnectingOpens

\* Nobody else begins to connect or touches a socket that is being opened.
LEMMA ConnectingStep ==
  ASSUME ChatIInv, ConnectingOpens, [ChatNext]_chatVars
  PROVE  ConnectingOpens'
<1>1. pc \in [Requests -> PCs] /\ socket = [c \in Connections |-> socket[c]]
  BY DEF ChatIInv, ChatTypeOK, PCs
<1>2. ASSUME UNCHANGED <<maker, connection>>,
             \A q \in Requests : pc'[q] = "connecting" => pc[q] = "connecting",
             \A c \in Connections : socket[c] = "opening" => socket'[c] = "opening"
      PROVE  ConnectingOpens'
  BY <1>2 DEF ConnectingOpens, ChatIInv, RequestSound
<1>3. ASSUME NEW rs, NEW how, NEW pcs, Settle(rs, how, pcs), UNCHANGED <<maker, connection>>,
             \A q \in Requests : pcs[q] = "connecting" => pc[q] = "connecting",
             \A c \in Connections : socket[c] = "opening" => socket'[c] = "opening"
      PROVE  ConnectingOpens'
  <2>1. \A q \in Requests : pc'[q] = "connecting" => pcs[q] = "connecting"
    BY <1>3, AfterFailureEnds DEF Settle
  <2> QED BY <1>2, <1>3, <2>1
<1>4. ASSUME NEW r \in Requests, NEW p, pc' = [pc EXCEPT ![r] = p], p # "connecting",
             UNCHANGED <<maker, connection, socket>>
      PROVE  ConnectingOpens'
  BY <1>1, <1>2, <1>4
<1>5. CASE UNCHANGED <<pc, maker, connection, socket>>
  BY <1>2, <1>5
<1>6. ASSUME NEW pcs, CloseConnection(pcs), UNCHANGED <<maker, connection>>,
             \A q \in Requests : pcs[q] = "connecting" => pc[q] = "connecting"
      PROVE  ConnectingOpens'
  <2>1. PICK cs : Dispose(cs, pcs)
    BY <1>6 DEF CloseConnection
  <2>2. PICK rs : Settle(rs, "error", pcs)
    BY <2>1 DEF Dispose
  <2>3. \A c \in Connections : socket[c] = "opening" => socket'[c] = "opening"
    BY <2>1 DEF Dispose
  <2> QED BY <1>3, <1>6, <2>2, <2>3
<1>7. ASSUME NEW r \in Requests, Start(r) PROVE ConnectingOpens'
  BY <1>4, <1>7 DEF Start, managerVars, connectionVars
<1>8. ASSUME NEW r \in Requests, CancelRequest(r) \/ LateCancellation(r) PROVE ConnectingOpens'
  BY <1>3, <1>5, <1>8 DEF CancelRequest, LateCancellation, HandleCancellation, managerVars
<1>9. CASE CloseAll
  BY <1>6, <1>9 DEF CloseAll
<1>10. CASE OtherConversation
  BY <1>5, <1>10 DEF OtherConversation, fetchVars, managerVars, connectionVars
<1>11. ASSUME NEW r \in Requests, TokenArrives(r) PROVE ConnectingOpens'
  <2>1. CASE CreateConnection(r)
    BY <2>1, CreateConnects
  <2>2. CASE ReuseConnection(r)
    <3>1. pc' = [pc EXCEPT ![r] = "send"] /\ connection' = [connection EXCEPT ![r] = entry]
          /\ UNCHANGED <<maker, socket>>
      BY <2>2 DEF ReuseConnection, managerVars, connectionVars
    <3>2. \A q \in Requests : pc'[q] = "connecting" => pc[q] = "connecting" /\ connection'[q] = connection[q]
      BY <1>1, <3>1 DEF ChatIInv, ChatTypeOK
    <3> QED BY <3>1, <3>2 DEF ConnectingOpens
  <2>3. CASE SendHttp(r) /\ UNCHANGED <<connection, managerVars, connectionVars>>
    BY <1>4, <2>3 DEF SendHttp, managerVars, connectionVars
  <2>4. CASE StopBeforeFetch(r) /\ UNCHANGED <<connection, managerVars, connectionVars>>
    BY <1>4, <2>4 DEF StopBeforeFetch, managerVars, connectionVars
  <2> QED BY <1>11, <2>1, <2>2, <2>3, <2>4 DEF TokenArrives, FetchViaWebSocket
<1>12. ASSUME NEW r \in Requests, SendRequest(r) PROVE ConnectingOpens'
  <2>1. UNCHANGED <<maker, connection, socket>>
    BY <1>12 DEF SendRequest, managerVars
  <2>2. CASE SendThrows(r)
    BY <1>4, <2>1, <2>2, AfterFailureEnds DEF SendThrows
  <2>3. CASE Sends(r)
    <3>1. Settle({active[connection[r]]}, "error", [pc EXCEPT ![r] = "first"])
      BY <2>3 DEF Sends
    <3>2. \A q \in Requests : [pc EXCEPT ![r] = "first"][q] = "connecting" => pc[q] = "connecting"
      BY <1>1
    <3> QED BY <1>3, <2>1, <3>1, <3>2
  <2> QED BY <1>12, <2>2, <2>3 DEF SendRequest
<1>13. ASSUME NEW r \in Requests, StreamIsRead(r) PROVE ConnectingOpens'
  <2>1. \E p \in {AfterFailure(r), "failed", "canceled", "succeeded"} : pc' = [pc EXCEPT ![r] = p]
    BY <1>13 DEF StreamIsRead
  <2> QED BY <1>4, <1>13, <2>1, AfterFailureEnds DEF StreamIsRead, managerVars, connectionVars
<1>14. ASSUME NEW r \in Requests, Ping(r) PROVE ConnectingOpens'
  BY <1>4, <1>14 DEF Ping, managerVars, connectionVars
<1>15. ASSUME NEW r \in Requests, HttpEnds(r) PROVE ConnectingOpens'
  <2>1. \/ \E p \in {AfterFailure(r), "failed", "canceled", "succeeded"} :
             pc' = [pc EXCEPT ![r] = p] /\ UNCHANGED socket
        \/ CloseConnection([pc EXCEPT ![r] = "succeeded"])
    BY <1>15 DEF HttpEnds, HttpSucceeds, HttpFails
  <2>2. UNCHANGED <<maker, connection>>
    BY <1>15 DEF HttpEnds
  <2>3. \A q \in Requests : [pc EXCEPT ![r] = "succeeded"][q] = "connecting" => pc[q] = "connecting"
    BY <1>1
  <2> QED BY <1>4, <1>6, <2>1, <2>2, <2>3, AfterFailureEnds
<1>16. ASSUME NEW c \in Connections, ConnectionCloses(c) PROVE ConnectingOpens'
  <2>1. \A d \in Connections : socket[d] = "opening" => socket'[d] = "opening"
    BY <1>1, <1>16 DEF ConnectionCloses
  <2> QED BY <1>3, <1>16, <2>1 DEF ConnectionCloses, managerVars
<1>17. ASSUME NEW c \in Connections, NEW q \in Requests, NEW e \in Events, MessageArrives(c, q, e)
       PROVE  ConnectingOpens'
  <2>1. FirstEvent(active[c], e) # "connecting"
    BY AfterFailureEnds DEF FirstEvent
  <2>2. active[c] = NoRequest \/ active[c] \in Requests
    BY DEF ChatIInv, ChatTypeOK
  <2> QED BY <1>4, <1>5, <1>17, <2>1, <2>2 DEF MessageArrives, HandleEvent, managerVars
<1>18. CASE UNCHANGED chatVars
  BY <1>5, <1>18 DEF chatVars, fetchVars, managerVars, connectionVars
<1> QED BY ConnectsConnects, <1>7, <1>8, <1>9, <1>10, <1>11, <1>12, <1>13, <1>14, <1>15, <1>16, <1>17, <1>18
        DEF ChatNext, UserStep, FetchStep, RequestStep, SocketStep, ServerStep

LEMMA ProgressInit == ChatInit => ProgressIInv
BY InitSound DEF ChatInit, ProgressIInv, PingsOnce, ConnectingOpens, CancelledBegun

LEMMA ProgressStep == ProgressIInv /\ [ChatNext]_chatVars => ProgressIInv'
<1> SUFFICES ASSUME ProgressIInv, [ChatNext]_chatVars PROVE ProgressIInv'
  OBVIOUS
<1>1. ChatIInv' /\ ChatTypeOK'
  BY StepSound DEF ProgressIInv, ChatIInv
<1> QED BY <1>1, PingOnceStep, ConnectingStep, BegunStep DEF ProgressIInv

LEMMA ProgressInductive == ChatSpec => []ProgressIInv
<1>1. ChatInit /\ [][ChatNext]_chatVars => []ProgressIInv
  BY ProgressInit, ProgressStep, PTL
<1> QED BY <1>1, PTL DEF ChatSpec

LEMMA AdvanceStep ==
  ASSUME ChatIInv, ChatTypeOK', PingsOnce, ChatNext
  PROVE  Advance
<1> SUFFICES ASSUME NEW r \in Requests
             PROVE  /\ RequestStep(r) \/ (\E c \in Connections : maker[c] = r /\ Connects(c)) =>
                         RequestRank(r)' < RequestRank(r)
                    /\ RequestRank(r)' <= RequestRank(r) /\ RequestRank(r)' \in Nat
  BY DEF Advance
<1>1. ChatTypeOK
  BY DEF ChatIInv
<1>2. CASE Further(r)
  <2>1. RequestRank(r)' < RequestRank(r) /\ RequestRank(r)' \in Nat
    BY <1>1, <1>2, FurtherRank
  <2>2. RequestRank(r) \in Nat
    BY <1>1, PlaceRanks DEF RequestRank, WayRank, PlacesRanked, ChatTypeOK
  <2> QED BY <2>1, <2>2
<1>3. CASE ~Further(r)
  <2>1. Spared(r)
    BY <1>3, StepAdvances
  <2>2. RequestRank(r)' <= RequestRank(r) /\ RequestRank(r)' \in Nat
    BY <1>1, <2>1, SparedRank
  <2>3. ASSUME RequestStep(r) \/ (\E c \in Connections : maker[c] = r /\ Connects(c))
        PROVE  RequestRank(r)' < RequestRank(r)
    <3>1. IsActive(r) /\ ~IsActive(r)'
      BY <1>3, <2>3, StepAdvances
    <3> QED BY <1>1, <2>1, <3>1, LetGoRank
  <2> QED BY <2>2, <2>3
<1> QED BY <1>2, <1>3

\* Every step of a request, or of the socket it waits for, brings it nearer to its
\* end, and no supersession, disposal, event or cancellation (chatWebSocketManager.ts
\* :486, :532, :592, :636) takes a request back: however many requests, connections
\* and calls of the user, a request takes finitely many steps.
THEOREM RequestsFall == ChatSpec => RequestsAdvance
<1>1. ProgressIInv /\ ProgressIInv' /\ [ChatNext]_chatVars => [Advance]_chatVars
  BY AdvanceStep DEF ProgressIInv, ChatIInv
<1> QED BY <1>1, ProgressInductive, PTL DEF ChatSpec, RequestsAdvance

\* A cancelled request ends or can go on, whatever the user, the server and other
\* requests have done to its connection (chatWebSocketManager.ts:592).
THEOREM CancelledRequestsGoOn == ChatSpec => []CancelledGoOn
<1>1. ProgressIInv => CancelledGoOn
  <2> SUFFICES ASSUME ProgressIInv, NEW r \in cancelled, ~Ended(r), pc[r] # "send"
               PROVE  CanGoOn(r)
    BY DEF CancelledGoOn
  <2>1. r \in Requests /\ pc[r] \in PCs /\ pc[r] # "idle"
    BY DEF ProgressIInv, CancelledBegun, ChatIInv, ChatTypeOK, PCs
  <2>2. CASE pc[r] = "connecting"
    BY <2>1, <2>2 DEF CanGoOn, ProgressIInv, ConnectingOpens, ChatIInv, RequestSound
  <2>3. CASE pc[r] = "first" \/ (pc[r] = "stream" /\ stream[r] = "none")
    <3>1. IsActive(r)
      BY <2>1, <2>3 DEF ProgressIInv, ChatIInv, AwaitedIsActive, Awaits, RequestSound, IsActive
    <3> QED BY <3>1 DEF CanGoOn
  <2> QED BY <2>1, <2>2, <2>3 DEF CanGoOn, PCs, Ended
<1> QED BY <1>1, ProgressInductive, PTL
==============================================================================

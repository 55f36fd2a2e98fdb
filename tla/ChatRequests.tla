----------------------------- MODULE ChatRequests -----------------------------
(***************************************************************************)
(* Chat requests over the web socket of their conversation: ChatEndpoint,  *)
(* ChatMLFetcherImpl (fetchMany and its fallback to HTTP) and              *)
(* ChatWebSocketManager with its connections and their active requests.    *)
(*                                                                         *)
(* Conversations share nothing but the fetcher's counter of fallbacks: one *)
(* is modelled, the others change the counter.  It has at most one         *)
(* connection in the manager's map.  A request that is sent on it          *)
(* supersedes the one that is active there.  A request that fails over the *)
(* web socket is retried once over HTTP.  The server is external: it       *)
(* answers every request it was sent with events, also one the client has  *)
(* given up, since nothing is sent for that.                               *)
(*                                                                         *)
(* JavaScript runs the continuations of settled promises before the next   *)
(* event: events of sockets, timers and users wait until the system is     *)
(* Quiet.  Endpoints with a web socket use the Responses API, which never  *)
(* ends with a filtered completion: the retry after a filter is left out.  *)
(***************************************************************************)
EXTENDS Naturals, FiniteSets

CONSTANTS
  Requests,           \* calls of makeChatRequest2 that want the web socket
  Retrying,           \* requests with enableRetryOnError
  Connections,        \* enough connections for every request
  MaxFallbacks,       \* _maxConsecutiveWebSocketFallbacks
  NoRequest, NoConnection

ASSUME ChatAssumption ==
  /\ Retrying \subseteq Requests
  /\ MaxFallbacks \in Nat \ {0}
  /\ NoRequest \notin Requests
  /\ NoConnection \notin Connections

VARIABLES
  pc,         \* of each request
  cancelled,  \* requests whose token is cancelled
  transport,  \* of the attempt of each request
  fallback,   \* requests whose attempt was made by _retryAfterError
  previous,   \* the response each body names as previous: where it was made
  connection, \* of each request
  stream,     \* how the stream of each request has ended
  history,    \* where the last answer of the conversation was made
  fallbacks,  \* _consecutiveWebSocketRetryFallbacks
  entry,      \* the manager's connection for the conversation
  maker,      \* of each connection: the request that had it made
  state,      \* _state of each connection
  disposed,   \* connections that were disposed of
  socket,     \* the web socket of each connection
  active,     \* _activeRequest of each connection
  serving     \* of each connection: the requests the server still answers

fetchVars == <<pc, cancelled, transport, fallback, previous, connection, stream>>
managerVars == <<entry, maker>>
connectionVars == <<state, disposed, socket, active, serving>>
chatVars == <<fetchVars, history, fallbacks, managerVars, connectionVars>>

(* Where a response was made: on a connection, over HTTP, or there is none. *)
NoResponse == "none"
OverHttp == "http"

Ended(r) == pc[r] \in {"succeeded", "failed", "canceled"}
Quiet == \A r \in Requests : pc[r] # "send"

\* hasActiveConnection, isOpen: a connection is Open only while it has its _ws
IsOpen(c) == c # NoConnection /\ state[c] = "Open"

ChatInit ==
  /\ pc = [r \in Requests |-> "idle"]
  /\ cancelled = {} /\ fallback = {}
  /\ transport = [r \in Requests |-> "websocket"]
  /\ previous = [r \in Requests |-> NoResponse]
  /\ connection = [r \in Requests |-> NoConnection]
  /\ stream = [r \in Requests |-> "none"]
  /\ history = NoResponse
  /\ fallbacks = 0
  /\ entry = NoConnection
  /\ maker = [c \in Connections |-> NoRequest]
  /\ state = [c \in Connections |-> "Closed"]
  /\ disposed = {}
  /\ socket = [c \in Connections |-> "none"]
  /\ active = [c \in Connections |-> NoRequest]
  /\ serving = [c \in Connections |-> {}]
------------------------------------------------------------------------------
(***************************************************************************)
(* How a request learns that its handle has settled.  One that awaits its  *)
(* first event goes on at once: it ends, or it waits for the ping before   *)
(* its fallback.  One that has a stream finds the outcome when it reads it. *)
(***************************************************************************)
\* `enableRetryOnError && useWebSocket` with a failure worth another try
AfterFailure(r) ==
  IF r \in Retrying /\ r \notin fallback THEN "ping" ELSE "failed"

\* Mutant: the promise of the first event is left as it is.
SettleStreams(rs, how, pcs) ==
  /\ pc' = pcs
  /\ stream' = [r \in Requests |->
                  IF r \in rs /\ pc[r] = "stream" THEN how ELSE stream[r]]

\* _finalizeError: handleSuperseded, handleCancellation, handleConnectionClose,
\* handleConnectionDisposed.  pcs is what the step makes of pc otherwise.
Settle(rs, how, pcs) ==
  /\ pc' = [r \in Requests |->
              IF r \notin rs \/ pc[r] # "first" THEN pcs[r]
              ELSE IF how = "canceled" THEN "canceled" ELSE AfterFailure(r)]
  /\ stream' = [r \in Requests |->
                  IF r \in rs /\ pc[r] = "stream" THEN how ELSE stream[r]]

\* dispose of connections; a socket that is still being opened stays so:
\* there is no _ws to close yet
DisposedState(cs) == [c \in Connections |-> IF c \in cs THEN "Closed" ELSE state[c]]
Dispose(cs, pcs) ==
  /\ Settle({active[c] : c \in cs}, "error", pcs)
  /\ active' = [c \in Connections |-> IF c \in cs THEN NoRequest ELSE active[c]]
  /\ state' = DisposedState(cs)
  /\ socket' = [c \in Connections |->
                  IF c \in cs /\ socket[c] = "open" THEN "closing" ELSE socket[c]]
  /\ disposed' = disposed \cup cs
------------------------------------------------------------------------------
(***************************************************************************)
(* makeChatRequest2, and fetchMany to its first await: the body is made    *)
(* before the request has a connection.                                    *)
(***************************************************************************)
\* Mutant: the marker is not ignored when the web socket is turned off.
BodyForgetful(r, ignored, via) ==
  previous' = [previous EXCEPT ![r] =
    IF ignored THEN NoResponse ELSE history]
Body(r, ignored, via) ==
  previous' = [previous EXCEPT ![r] =
    IF ignored \/ via = "http" THEN NoResponse ELSE history]

Start(r) ==
  LET ignored == ~IsOpen(entry)
      via == IF fallbacks >= MaxFallbacks THEN "http" ELSE "websocket"
  IN /\ Quiet
     /\ pc[r] = "idle"
     /\ pc' = [pc EXCEPT ![r] = "token"]
     /\ transport' = [transport EXCEPT ![r] = via]
     /\ Body(r, ignored, via)
     /\ UNCHANGED <<cancelled, fallback, connection, stream, history, fallbacks>>
     /\ UNCHANGED <<managerVars, connectionVars>>

\* getOrCreateConnection: an open connection is reused, any other disposed of
\* and replaced; one that is not open has neither a request nor an open socket
Unmade == {c \in Connections : maker[c] = NoRequest}
ReuseConnection(r) ==
  /\ IsOpen(entry)
  /\ connection' = [connection EXCEPT ![r] = entry]
  /\ pc' = [pc EXCEPT ![r] = "send"]
  /\ UNCHANGED <<managerVars, connectionVars>>

\* Mutant: the connection it replaces is not disposed of.
ReplacedNone == {}
Replaced == {entry} \ {NoConnection}

CreateConnection(r) ==
  LET c == CHOOSE d \in Unmade : TRUE
  IN /\ ~IsOpen(entry)
     /\ Unmade # {}
     /\ connection' = [connection EXCEPT ![r] = c]
     /\ entry' = c
     /\ maker' = [maker EXCEPT ![c] = r]
     /\ state' = [DisposedState(Replaced) EXCEPT ![c] = "Connecting"]
     /\ disposed' = disposed \cup Replaced
     /\ socket' = [socket EXCEPT ![c] = "opening"]
     /\ pc' = [pc EXCEPT ![r] = "connecting"]
     /\ UNCHANGED <<active, serving>>

\* the token has arrived: _doFetchAndStreamChat
StopBeforeFetch(r) == pc' = [pc EXCEPT ![r] = "canceled"]
SendHttp(r) == transport[r] = "http" /\ pc' = [pc EXCEPT ![r] = "http"]
FetchViaWebSocket(r) ==
  transport[r] = "websocket" /\ (ReuseConnection(r) \/ CreateConnection(r))

TokenArrives(r) ==
  /\ Quiet
  /\ pc[r] = "token"
  /\ \/ r \notin cancelled /\ FetchViaWebSocket(r)
     \/ /\ \/ r \notin cancelled /\ SendHttp(r)
           \/ r \in cancelled /\ StopBeforeFetch(r)
        /\ UNCHANGED <<connection, managerVars, connectionVars>>
  /\ UNCHANGED <<cancelled, transport, fallback, previous, stream>>
  /\ UNCHANGED <<history, fallbacks>>
------------------------------------------------------------------------------
(***************************************************************************)
(* The socket of a connection opens or fails, and closes.                  *)
(***************************************************************************)
\* onOpen, also of a connection that was disposed of meanwhile
ConnectionOpens(c) ==
  /\ socket[c] = "opening"
  /\ socket' = [socket EXCEPT ![c] = "open"]
  /\ state' = [state EXCEPT ![c] = "Open"]
  /\ pc' = [pc EXCEPT ![maker[c]] = "send"]

\* onError or onClose during the setup, or createResponsesWebSocket throws:
\* then _state is not reset
ConnectionFails(c) ==
  /\ socket[c] = "opening"
  /\ socket' = [socket EXCEPT ![c] = "closed"]
  /\ \/ state' = [state EXCEPT ![c] = "Closed"]
     \/ UNCHANGED state
  /\ pc' = [pc EXCEPT ![maker[c]] = AfterFailure(maker[c])]

Connects(c) ==
  /\ Quiet
  /\ ConnectionOpens(c) \/ ConnectionFails(c)
  /\ UNCHANGED <<cancelled, transport, fallback, previous, connection, stream>>
  /\ UNCHANGED <<history, fallbacks, managerVars, disposed, active, serving>>

\* the close event of an open or closing socket
ConnectionCloses(c) ==
  /\ Quiet
  /\ socket[c] \in {"open", "closing"}
  /\ socket' = [socket EXCEPT ![c] = "closed"]
  /\ state' = [state EXCEPT ![c] = "Closed"]
  /\ Settle({active[c]}, "error", pc)
  /\ active' = [active EXCEPT ![c] = NoRequest]
  /\ serving' = [serving EXCEPT ![c] = {}]
  /\ UNCHANGED <<cancelled, transport, fallback, previous, connection>>
  /\ UNCHANGED <<history, fallbacks, managerVars, disposed>>
------------------------------------------------------------------------------
(***************************************************************************)
(* sendRequest, and the events of the server.                              *)
(***************************************************************************)
\* `throw new Error('WebSocket is not connected')`
SendThrows(r) ==
  /\ ~IsOpen(connection[r])
  /\ pc' = [pc EXCEPT ![r] = AfterFailure(r)]
  /\ UNCHANGED <<stream, active, serving>>

\* Mutant: the request that is active is forgotten instead of superseded.
SendsAside(r) ==
  /\ IsOpen(connection[r])
  /\ Settle({}, "error", [pc EXCEPT ![r] = "first"])
  /\ active' = [active EXCEPT ![connection[r]] = r]
  /\ serving' = [serving EXCEPT ![connection[r]] = @ \cup {r}]
Sends(r) ==
  /\ IsOpen(connection[r])
  /\ Settle({active[connection[r]]}, "error", [pc EXCEPT ![r] = "first"])
  /\ active' = [active EXCEPT ![connection[r]] = r]
  /\ serving' = [serving EXCEPT ![connection[r]] = @ \cup {r}]

SendRequest(r) ==
  /\ pc[r] = "send"
  /\ Sends(r) \/ SendThrows(r)
  /\ UNCHANGED <<cancelled, transport, fallback, previous, connection>>
  /\ UNCHANGED <<history, fallbacks, managerVars, state, disposed, socket>>

(* Events: a delta; the end of the stream, completed or not; a CAPI error: *)
(* of the service, of the request, or a limit (rate, quota, filter).       *)
StreamEnds == {"completed", "incomplete"}
ServiceErrors == {"server", "bad", "limit"}
Events == {"delta"} \cup StreamEnds \cup ServiceErrors

\* the first event tells the kind of the response, as an HTTP status does
FirstEvent(r, e) ==
  IF r \in cancelled THEN "canceled"
  ELSE IF e \in {"server", "bad"} THEN AfterFailure(r)
  ELSE IF e = "limit" THEN "failed" ELSE "stream"

\* handleEvent of the request that is active, whichever was answered
HandleEvent(r, e) ==
  /\ pc' = IF pc[r] = "first" THEN [pc EXCEPT ![r] = FirstEvent(r, e)] ELSE pc
  /\ stream' = IF e # "delta" /\ pc'[r] = "stream" THEN [stream EXCEPT ![r] = e] ELSE stream

\* the callback of onDidSettle.  Mutant: there is none.
StillActive(c) == active
Deactivated(c) == [active EXCEPT ![c] = NoRequest]

\* a message about request q arrives
MessageArrives(c, q, e) ==
  /\ Quiet
  /\ socket[c] = "open"
  /\ q \in serving[c]
  /\ IF active[c] = NoRequest THEN UNCHANGED <<pc, stream>> ELSE HandleEvent(active[c], e)
  /\ active' = IF e = "delta" THEN active ELSE Deactivated(c)
  /\ serving' = IF e = "delta" THEN serving ELSE [serving EXCEPT ![c] = @ \ {q}]
  /\ UNCHANGED <<cancelled, transport, fallback, previous, connection>>
  /\ UNCHANGED <<history, fallbacks, managerVars, state, disposed, socket>>
------------------------------------------------------------------------------
(***************************************************************************)
(* Cancellation.  The listener of a token that was cancelled before it was *)
(* registered is called from a timer.                                      *)
(***************************************************************************)
HandleCancellation(r) ==
  /\ Settle({r}, "canceled", pc)
  /\ active' = [c \in Connections |-> IF active[c] = r THEN NoRequest ELSE active[c]]

IsActive(r) == \E c \in Connections : active[c] = r

CancelRequest(r) ==
  /\ Quiet
  /\ pc[r] # "idle" /\ ~Ended(r)
  /\ r \notin cancelled
  /\ cancelled' = cancelled \cup {r}
  /\ IF IsActive(r) THEN HandleCancellation(r) ELSE UNCHANGED <<pc, stream, active>>
  /\ UNCHANGED <<transport, fallback, previous, connection>>
  /\ UNCHANGED <<history, fallbacks, managerVars, state, disposed, socket, serving>>

LateCancellation(r) ==
  /\ Quiet
  /\ r \in cancelled
  /\ IsActive(r)
  /\ HandleCancellation(r)
  /\ UNCHANGED <<cancelled, transport, fallback, previous, connection>>
  /\ UNCHANGED <<history, fallbacks, managerVars, state, disposed, socket, serving>>
------------------------------------------------------------------------------
(***************************************************************************)
(* fetchMany with the response, the ping, and the fallback over HTTP.      *)
(***************************************************************************)
\* _consecutiveWebSocketRetryFallbacks after a success
NoFallbacks == 0

\* A completed stream whose completion is repetitive is no success.
StreamIsRead(r) ==
  /\ Quiet
  /\ pc[r] = "stream"
  /\ stream[r] # "none"
  /\ \/ /\ stream[r] = "completed"
        /\ pc' = [pc EXCEPT ![r] = "succeeded"]
        /\ fallbacks' = NoFallbacks
        /\ history' = connection[r]
     \/ /\ pc' = [pc EXCEPT ![r] =
                    IF stream[r] = "canceled" THEN "canceled"
                    ELSE IF stream[r] \in {"error", "server"} THEN AfterFailure(r)
                    ELSE "failed"]
        /\ UNCHANGED <<fallbacks, history>>
  /\ UNCHANGED <<cancelled, transport, fallback, previous, connection, stream>>
  /\ UNCHANGED <<managerVars, connectionVars>>

\* _retryAfterError: one ping succeeds, or all fail
Ping(r) ==
  /\ Quiet
  /\ pc[r] = "ping"
  /\ \/ /\ pc' = [pc EXCEPT ![r] = "token"]
        /\ fallback' = fallback \cup {r}
        /\ transport' = [transport EXCEPT ![r] = "http"]
        /\ Body(r, TRUE, "http")
     \/ /\ pc' = [pc EXCEPT ![r] = "failed"]
        /\ UNCHANGED <<fallback, transport, previous>>
  /\ UNCHANGED <<cancelled, connection, stream, history, fallbacks>>
  /\ UNCHANGED <<managerVars, connectionVars>>

\* closeConnection, "because the retry is transparent"; closeAll
CloseConnection(pcs) ==
  /\ Dispose({entry} \ {NoConnection}, pcs)
  /\ entry' = NoConnection

HttpSucceeds(r) ==
  /\ history' = OverHttp
  /\ \/ /\ r \in fallback
        /\ fallbacks' = fallbacks + 1
        /\ CloseConnection([pc EXCEPT ![r] = "succeeded"])
     \/ /\ r \notin fallback
        /\ pc' = [pc EXCEPT ![r] = "succeeded"]
        /\ UNCHANGED <<fallbacks, stream, entry, active, state, socket, disposed>>

HttpFails(r) ==
  /\ \E p \in {AfterFailure(r), "failed"} \cup (IF r \in cancelled THEN {"canceled"} ELSE {}) :
       pc' = [pc EXCEPT ![r] = p]
  /\ UNCHANGED <<history, fallbacks, stream, entry, active, state, socket, disposed>>

HttpEnds(r) ==
  /\ Quiet
  /\ pc[r] = "http"
  /\ HttpSucceeds(r) \/ HttpFails(r)
  /\ UNCHANGED <<cancelled, transport, fallback, previous, connection>>
  /\ UNCHANGED <<maker, serving>>

CloseAll ==
  /\ Quiet
  /\ entry # NoConnection
  /\ CloseConnection(pc)
  /\ UNCHANGED <<cancelled, transport, fallback, previous, connection>>
  /\ UNCHANGED <<history, fallbacks, maker, serving>>

\* A request of another conversation succeeds, by a fallback or at once; only
\* whether MaxFallbacks is reached matters here.
OtherConversation ==
  /\ Quiet
  /\ \/ fallbacks < MaxFallbacks /\ fallbacks' = fallbacks + 1
     \/ fallbacks' = NoFallbacks
  /\ UNCHANGED <<fetchVars, history, managerVars, connectionVars>>
------------------------------------------------------------------------------
ServerStep == \E c \in Connections, q \in Requests, e \in Events : MessageArrives(c, q, e)
SocketStep == \E c \in Connections : Connects(c) \/ ConnectionCloses(c)
UserStep == CloseAll \/ OtherConversation \/ \E r \in Requests : Start(r) \/ CancelRequest(r)
RequestStep(r) ==
  TokenArrives(r) \/ SendRequest(r) \/ StreamIsRead(r) \/ Ping(r) \/ HttpEnds(r)
    \/ LateCancellation(r)
FetchStep == \E r \in Requests : RequestStep(r)

ChatNext == UserStep \/ FetchStep \/ SocketStep \/ ServerStep

(* The token and the ping are answered, sockets open or fail, timers fire  *)
(* and an aborted fetch ends.  Nothing makes the server answer.            *)
ChatFairness ==
  /\ \A r \in Requests :
       /\ WF_chatVars(TokenArrives(r))
       /\ WF_chatVars(SendRequest(r))
       /\ WF_chatVars(StreamIsRead(r))
       /\ WF_chatVars(Ping(r))
       /\ WF_chatVars(HttpEnds(r) /\ r \in cancelled)
       /\ WF_chatVars(LateCancellation(r))
  /\ \A c \in Connections : WF_chatVars(Connects(c))

ChatSpec == ChatInit /\ [][ChatNext]_chatVars /\ ChatFairness
------------------------------------------------------------------------------
(***************************************************************************)
(* Properties.                                                             *)
(***************************************************************************)
Responses == {NoResponse, OverHttp} \cup Connections

\* Every variable keeps its type.
ChatTypeOK ==
  /\ pc \in [Requests -> {"idle", "token", "connecting", "send", "first", "stream", "ping",
                          "http", "succeeded", "failed", "canceled"}]
  /\ cancelled \subseteq Requests /\ fallback \subseteq Requests
  /\ transport \in [Requests -> {"websocket", "http"}]
  /\ previous \in [Requests -> Responses]
  /\ connection \in [Requests -> Connections \cup {NoConnection}]
  /\ stream \in [Requests -> {"none", "error", "canceled"} \cup StreamEnds \cup ServiceErrors]
  /\ history \in Responses
  /\ fallbacks \in Nat
  /\ entry \in Connections \cup {NoConnection}
  /\ maker \in [Connections -> Requests \cup {NoRequest}]
  /\ state \in [Connections -> {"Connecting", "Open", "Closed"}]
  /\ disposed \subseteq Connections
  /\ socket \in [Connections -> {"none", "opening", "open", "closing", "closed"}]
  /\ active \in [Connections -> Requests \cup {NoRequest}]
  /\ serving \in [Connections -> SUBSET Requests]

\* A request that awaits an event is the active request of its connection, and
\* that connection is open: whatever supersedes, closes or disposes of it tells
\* the request (chatWebSocketManager.ts:486, :532, :636).  Otherwise it would
\* wait for ever, since a request over a web socket has no timeout.
Awaits(r) == pc[r] = "first" \/ (pc[r] = "stream" /\ stream[r] = "none")
AwaitedIsActive == \A r \in Requests :
  Awaits(r) => /\ active[connection[r]] = r
               /\ IsOpen(connection[r])
               /\ socket[connection[r]] = "open"

\* A request is active only on its own connection, and only while it is awaited
\* or has a cancellation to come: one that has ended takes no events of the next.
ActiveIsAwaited == \A c \in Connections : \A r \in Requests :
  active[c] = r => connection[r] = c /\ (Awaits(r) \/ r \in cancelled)

\* An open connection is the one the manager finds for its conversation.  Only
\* one that was disposed of while it was being opened is not: nobody but the
\* request that opened it can use it, and nobody closes it.
OpenIsFound == \A c \in Connections :
  IsOpen(c) => \/ entry = c
               \/ c \in disposed /\ active[c] \in {maker[c], NoRequest}

\* A request over HTTP carries the whole conversation: it names no previous
\* response, whether it is a fallback, or the web socket was turned off between
\* the choice of the transport by the endpoint and by the fetcher.
HttpSendsAll == \A r \in Requests : transport[r] = "http" => previous[r] = NoResponse

\* A cancelled request ends, even if the server never answers anything.
CancelledEnd == \A r \in Requests : r \in cancelled ~> Ended(r)
------------------------------------------------------------------------------
\* chatWebSocketManager.ts:121 says of a handle's `done`: "Resolves when the
\* request has finished (completed or errored)".  The handler of messages gives
\* every event to the request that is active, also those that answer an earlier
\* request the client has given up: they end a request that has not finished.
DoneIsOwn == \A r \in Requests :
  stream[r] \in StreamEnds => r \notin serving[connection[r]]

\* chatWebSocketManager.ts:36 says hasActiveConnection is "Used to decide whether
\* the server already has context from earlier requests in this conversation".
\* An open connection may be younger than the last response of the conversation.
ContextIsThere == \A r \in Requests :
  Awaits(r) /\ previous[r] # NoResponse => previous[r] = connection[r]
------------------------------------------------------------------------------
(***************************************************************************)
(* Why cancelled requests end.  A request goes on from place to place, at  *)
(* most once more over HTTP, and one that is cancelled can always go on.   *)
(***************************************************************************)
PlaceRank ==
  [idle |-> 9, token |-> 8, connecting |-> 7, send |-> 6, first |-> 5, stream |-> 3, http |-> 2,
   ping |-> 1, succeeded |-> 0, failed |-> 0, canceled |-> 0]
WayRank(r) == IF pc[r] = "stream" /\ stream[r] = "none" THEN 4 ELSE PlaceRank[pc[r]]
RequestRank(r) ==
  2 * ((IF r \in fallback THEN 0 ELSE 8) + WayRank(r)) + (IF IsActive(r) THEN 1 ELSE 0)

\* Every step of a request, or of the socket it waits for, lowers its rank, and
\* no step of another request, the user or the server raises it.
Advance ==
  \A r \in Requests :
    /\ RequestStep(r) \/ (\E c \in Connections : maker[c] = r /\ Connects(c)) =>
         RequestRank(r)' < RequestRank(r)
    /\ RequestRank(r)' <= RequestRank(r) /\ RequestRank(r)' \in Nat
RequestsAdvance == [][Advance]_chatVars

\* the guards of a step of r, or of the socket it waits for
CanGoOn(r) ==
  \/ pc[r] = "token" /\ r \in cancelled
  \/ pc[r] \in {"ping", "http"}
  \/ pc[r] = "stream" /\ stream[r] # "none"
  \/ r \in cancelled /\ IsActive(r)
  \/ \E c \in Connections : maker[c] = r /\ socket[c] = "opening"

\* A cancelled request ends, or it can go on, at once or when those that are about
\* to send have sent: a cancellation that comes between two awaits, to a request
\* that waits for its socket, or before the listener is there, is not missed
\* (chatWebSocketManager.ts:592).
CancelledGoOn ==
  \A r \in cancelled : ~Ended(r) => pc[r] = "send" \/ (Quiet => CanGoOn(r))
==============================================================================

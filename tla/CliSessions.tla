------------------------------ MODULE CliSessions ------------------------------
(***************************************************************************)
(* Chat requests on one Copilot CLI session: CopilotCLISessionService with *)
(* its mutex per session id, its reference-counted sessions and the timer  *)
(* that ends them; CopilotCLISession, whose requests start a turn of the   *)
(* SDK or steer the one that runs; and the chat participant that gets a    *)
(* session, hands it one request and lets go of it.                        *)
(*                                                                         *)
(* A session object and a mutex are identified with the request that made  *)
(* them: a request calls getSession once.  The SDK is external: it answers *)
(* every message, one that was aborted too, in any order and with success  *)
(* or failure.  Continuations of settled promises run before the next      *)
(* event (Quiet).                                                          *)
(***************************************************************************)
EXTENDS Integers, Sequences, FiniteSets

CONSTANTS
  Requests,   \* chat requests for one session id
  NoRequest

ASSUME CliAssumption == NoRequest \notin Requests /\ IsFiniteSet(Requests)

VARIABLES
  mutex,      \* the entry of sessionMutexForGetSession
  holder,     \* of each mutex: the request that has locked it
  queue,      \* _acquireQueue of each mutex
  wrapper,    \* the entry of _sessionWrappers
  made,       \* the sessions that were made
  disposed,   \* the sessions that are disposed of
  refs,       \* _counter of each session's reference count
  status,     \* of each session: none, busy, over (completed or failed)
  chain,      \* previousRequest of each session: the requests it awaits
  stream,     \* _stream of each session: the request that attached it
  terminator, \* the session whose timer runs
  expired,    \* the sessions the timer ended, for the properties
  deletion,   \* of deleteSession: no, begun, done
  pc,         \* of each request
  lock,       \* the mutex each request has locked
  session,    \* of each request
  cancelled,  \* requests whose token is cancelled
  steering,   \* requests that found the session busy
  before,     \* of each request: how many its previousRequestSnapshot awaits
  sent,       \* the message of each request: no, out, aborted, ok, failed
  handled,    \* how the promise of handleRequest has settled
  yielded     \* requests the participant has answered before they were done

mutexVars == <<mutex, holder, queue, lock>>
poolVars == <<wrapper, made, disposed, refs, terminator, expired,
              deletion>>
turnVars == <<status, chain, steering, before, sent, handled>>
workVars == <<mutexVars, poolVars, turnVars, stream, pc, session, cancelled>>
cliVars == <<workVars, yielded>>

CliInit ==
  /\ mutex = NoRequest
  /\ holder = [m \in Requests |-> NoRequest]
  /\ queue = [m \in Requests |-> <<>>]
  /\ wrapper = NoRequest
  /\ made = {} /\ disposed = {} /\ expired = {}
  /\ refs = [s \in Requests |-> 0]
  /\ status = [s \in Requests |-> "none"]
  /\ chain = [s \in Requests |-> <<>>]
  /\ stream = [s \in Requests |-> NoRequest]
  /\ terminator = NoRequest
  /\ deletion = "no"
  /\ pc = [r \in Requests |-> "idle"]
  /\ lock = [r \in Requests |-> NoRequest]
  /\ session = [r \in Requests |-> NoRequest]
  /\ cancelled = {} /\ steering = {}
  /\ before = [r \in Requests |-> 0]
  /\ sent = [r \in Requests |-> "no"]
  /\ handled = [r \in Requests |-> "no"]
  /\ yielded = {}

\* requests that hold a reference to session s and will let go of it in the
\* finally of handleRequestImpl, answered already or not
Holders(s) ==
  {r \in Requests : session[r] = s /\ pc[r] \notin {"leaked", "over"}}

\* previousRequestSnapshot: each request's promise is chained behind those
\* before it, so the first one in order that failed decides
Previous(r) == SubSeq(chain[session[r]], 1, before[r])
PreviousResolved(r) ==
  \A i \in DOMAIN Previous(r) : handled[Previous(r)[i]] = "ok"
PreviousRejected(r) ==
  \E i \in DOMAIN Previous(r) :
    /\ handled[Previous(r)[i]] = "failed"
    /\ \A j \in 1..i-1 : handled[Previous(r)[j]] = "ok"

\* Promise.all of the previous request and the own message has settled
SteerFails(r) == sent[r] = "failed" \/ PreviousRejected(r)
SteerSettled(r) ==
  /\ pc[r] = "steering"
  /\ SteerFails(r) \/ (sent[r] = "ok" /\ PreviousResolved(r))

Quiet == \A r \in Requests : pc[r] # "entered" /\ ~SteerSettled(r)
------------------------------------------------------------------------------
(***************************************************************************)
(* Mutex.  A waiter whose token is cancelled goes on without the lock; its *)
(* tryAcquire stays in the queue.                                          *)
(***************************************************************************)
\* Mutant: release forgets the waiters.
UnlocksQuietly(r, pcs) ==
  /\ holder' = [m \in Requests |-> IF m = lock[r] THEN NoRequest ELSE holder[m]]
  /\ lock' = [lock EXCEPT ![r] = NoRequest]
  /\ pc' = pcs
  /\ UNCHANGED queue

\* _release: the next tryAcquire runs; it locks only if its token allows.
\* pcs is what the step makes of pc otherwise.
Unlock(r, pcs) ==
  LET m == lock[r] IN
  IF m = NoRequest \/ queue[m] = <<>> THEN UnlocksQuietly(r, pcs)
  ELSE LET next == Head(queue[m]) IN
       /\ queue' = [queue EXCEPT ![m] = Tail(@)]
       /\ IF next \in cancelled
          THEN /\ holder' = [holder EXCEPT ![m] = NoRequest]
               /\ lock' = [lock EXCEPT ![r] = NoRequest]
               /\ pc' = pcs
          ELSE /\ holder' = [holder EXCEPT ![m] = next]
               /\ lock' = [lock EXCEPT ![r] = NoRequest, ![next] = m]
               /\ pc' = [pcs EXCEPT ![next] = "entered"]

\* Mutant: every call makes a mutex.
FreshMutex(r) == r
MutexOf(r) == IF mutex = NoRequest THEN r ELSE mutex

\* getSession to its first await
GetSession(r) ==
  LET m == MutexOf(r) IN
  /\ Quiet
  /\ pc[r] = "idle"
  /\ mutex' = m
  /\ IF holder[m] = NoRequest
     THEN /\ holder' = [holder EXCEPT ![m] = r]
          /\ lock' = [lock EXCEPT ![r] = m]
          /\ pc' = [pc EXCEPT ![r] = "entered"]
          /\ UNCHANGED queue
     ELSE /\ queue' = [queue EXCEPT ![m] = Append(@, r)]
          /\ pc' = [pc EXCEPT ![r] = "waiting"]
          /\ UNCHANGED <<holder, lock>>
  /\ UNCHANGED <<poolVars, turnVars, stream, session, cancelled>>
------------------------------------------------------------------------------
(***************************************************************************)
(* Reference counts and disposal.                                          *)
(***************************************************************************)
\* what the SDK makes of an abort of session s
Aborted(s) ==
  [q \in Requests |-> IF session[q] = s /\ sent[q] = "out" THEN "aborted" ELSE sent[q]]

\* RefCountedDisposable.release: it disposes at zero exactly
Disposes(s) == s \in made \ disposed /\ refs[s] = 1

\* disposal removes whatever wrapper and mutex the id has by then
Release(s) ==
  /\ refs' = [refs EXCEPT ![s] = @ - 1]
  /\ IF Disposes(s)
     THEN /\ disposed' = disposed \cup {s}
          /\ wrapper' = NoRequest /\ mutex' = NoRequest
          /\ sent' = Aborted(s)
     ELSE UNCHANGED <<disposed, wrapper, mutex, sent>>

\* Mutant: whichever stream is attached is detached.
DetachAny(s, r) == stream' = [stream EXCEPT ![s] = NoRequest]

\* what the participant's finally does, in the order it registered it
Detach(s, r) ==
  stream' = [stream EXCEPT ![s] = IF @ = r THEN NoRequest ELSE @]
LetGo(r) ==
  /\ Detach(session[r], r)
  /\ Release(session[r])
  /\ pc' = [pc EXCEPT ![r] = "over"]
  /\ UNCHANGED <<holder, queue, lock, made, terminator, expired, deletion, status,
                 chain, steering, before, handled, session, cancelled>>

\* getSession returns session s: the participant attaches its stream, or lets
\* go at once if its token is cancelled
Returns(r, s) ==
  Unlock(r, [pc EXCEPT ![r] = IF r \in cancelled THEN "leaving" ELSE "got"])
  /\ session' = [session EXCEPT ![r] = s]
  /\ stream' = [stream EXCEPT ![s] = r]

\* Mutant: the reference is not counted.
ReusesUncounted(r) ==
  /\ wrapper # NoRequest
  /\ UNCHANGED refs
  /\ \/ Returns(r, wrapper)
     \/ /\ pc' = [pc EXCEPT ![r] = "selecting"]
        /\ session' = [session EXCEPT ![r] = wrapper]
        /\ UNCHANGED <<holder, queue, lock, stream>>

\* `this._sessionWrappers.get(sessionId)` after the lock was acquired, or not
Reuses(r) ==
  /\ wrapper # NoRequest
  /\ refs' = [refs EXCEPT ![wrapper] = @ + 1]
  /\ \/ Returns(r, wrapper)
     \/ /\ pc' = [pc EXCEPT ![r] = "selecting"]       \* selectCustomAgent
        /\ session' = [session EXCEPT ![r] = wrapper]
        /\ UNCHANGED <<holder, queue, lock, stream>>
Loads(r) ==
  /\ wrapper = NoRequest
  /\ pc' = [pc EXCEPT ![r] = "loading"]
  /\ UNCHANGED <<holder, queue, lock, refs, session, stream>>
Enter(r) ==
  /\ pc[r] = "entered"
  /\ Reuses(r) \/ Loads(r)
  /\ UNCHANGED <<mutex, wrapper, made, disposed, terminator, expired, deletion,
                 turnVars, cancelled>>

AgentSelected(r) ==
  /\ Quiet
  /\ pc[r] = "selecting"
  /\ Returns(r, session[r])
  /\ UNCHANGED <<mutex, poolVars, turnVars, cancelled>>

\* getSession throws: the reference it has acquired is never released
SelectionFails(r) ==
  /\ Quiet
  /\ pc[r] = "selecting"
  /\ Unlock(r, [pc EXCEPT ![r] = "leaked"])
  /\ UNCHANGED <<mutex, poolVars, turnVars, stream, session, cancelled>>

\* createCopilotSession: the map disposes of the wrapper it replaces
Replaced(r) ==
  IF wrapper = NoRequest
  THEN /\ refs' = [refs EXCEPT ![r] = 1]
       /\ wrapper' = r
       /\ UNCHANGED <<disposed, mutex, sent>>
  ELSE /\ refs' = [refs EXCEPT ![r] = 1, ![wrapper] = @ - 1]
       /\ wrapper' = r
       /\ IF Disposes(wrapper)
          THEN /\ disposed' = disposed \cup {wrapper} /\ mutex' = NoRequest
               /\ sent' = Aborted(wrapper)
          ELSE UNCHANGED <<disposed, mutex, sent>>
SessionLoaded(r) ==
  /\ Quiet
  /\ pc[r] = "loading"
  /\ made' = made \cup {r}
  /\ Replaced(r)
  /\ Returns(r, r)
  /\ UNCHANGED <<terminator, expired, deletion, status, chain, steering, before,
                 handled, cancelled>>

\* no such session, an error, or a token that is cancelled in time
LoadFails(r) ==
  /\ Quiet
  /\ pc[r] = "loading"
  /\ Unlock(r, [pc EXCEPT ![r] = "over"])
  /\ UNCHANGED <<mutex, poolVars, turnVars, stream, session, cancelled>>
------------------------------------------------------------------------------
(***************************************************************************)
(* What ends sessions: the timer, and deleteSession.                       *)
(***************************************************************************)
\* Mutant: a turn that fails leaves its session busy.
FailureIsQuiet(s, st) ==
  IF st = "failed" THEN UNCHANGED <<status, terminator>>
  ELSE /\ status' = [status EXCEPT ![s] = IF st = "busy" THEN st ELSE "over"]
       /\ terminator' = IF s \in disposed THEN terminator
                        ELSE IF st = "busy" THEN NoRequest ELSE s

\* a session says how it fares: the service, until the session is disposed
\* of, stops the timer, or starts it
StatusChanges(s, st) ==
  /\ status' = [status EXCEPT ![s] = IF st = "busy" THEN st ELSE "over"]
  /\ terminator' = IF s \in disposed THEN terminator
                   ELSE IF st = "busy" THEN NoRequest ELSE s

Terminate ==
  /\ Quiet
  /\ terminator # NoRequest
  /\ terminator' = NoRequest
  /\ IF terminator \in disposed
     THEN UNCHANGED <<disposed, expired, wrapper, mutex, sent>>
     ELSE /\ disposed' = disposed \cup {terminator}
          /\ expired' = expired \cup {terminator}
          /\ wrapper' = NoRequest /\ mutex' = NoRequest
          /\ sent' = Aborted(terminator)
  /\ UNCHANGED <<holder, queue, lock, made, refs, deletion, status, chain, steering,
                 before, handled, stream, pc, session, cancelled>>

\* deleteSession releases a reference that is not its own
DeleteSession ==
  /\ Quiet
  /\ deletion = "no"
  /\ deletion' = "begun"
  /\ IF wrapper # NoRequest THEN Release(wrapper)
     ELSE UNCHANGED <<refs, disposed, wrapper, mutex, sent>>
  /\ UNCHANGED <<holder, queue, lock, made, terminator, expired, status, chain,
                 steering, before, handled, stream, pc, session, cancelled>>
SessionDeleted ==
  /\ Quiet
  /\ deletion = "begun"
  /\ deletion' = "done"
  /\ wrapper' = NoRequest
  /\ UNCHANGED <<mutexVars, made, disposed, refs, terminator, expired, turnVars,
                 stream, pc, session, cancelled>>
------------------------------------------------------------------------------
(***************************************************************************)
(* handleRequest.  updateModel is awaited between the look at the status   *)
(* and the turn that follows from it.                                      *)
(***************************************************************************)
\* Mutant: the snapshot is taken after the chain was extended.
SnapshotOfItself(r, c) == before' = [before EXCEPT ![r] = Len(c) + 1]
Snapshot(r, c) == before' = [before EXCEPT ![r] = Len(c)]

HandleRequest(r) ==
  LET s == session[r] IN
  /\ Quiet
  /\ pc[r] = "got"
  /\ s \notin disposed
  /\ steering' = IF status[s] = "busy" THEN steering \cup {r} ELSE steering
  /\ Snapshot(r, chain[s])
  /\ chain' = [chain EXCEPT ![s] = Append(@, r)]
  /\ pc' = [pc EXCEPT ![r] = "modelling"]
  /\ UNCHANGED <<mutexVars, poolVars, status, sent, handled, stream,
                 session, cancelled>>

\* the session is disposed of, or the participant could not resolve the prompt
NotHandled(r) ==
  /\ Quiet
  /\ pc[r] = "got"
  /\ LetGo(r)
Leave(r) ==
  /\ Quiet
  /\ pc[r] \in {"leaving", "finished"}
  /\ LetGo(r)

Settles(r, how) ==
  /\ handled' = [handled EXCEPT ![r] = how]
  /\ pc' = [pc EXCEPT ![r] = "finished"]

\* setSelectedModel rejects
ModelFails(r) ==
  /\ Quiet
  /\ pc[r] = "modelling"
  /\ Settles(r, "failed")
  /\ UNCHANGED <<mutexVars, poolVars, status, chain, steering, before, sent,
                 stream, session, cancelled>>

\* _handleRequestImpl to the send
StartTurn(r) ==
  LET s == session[r] IN
  /\ Quiet
  /\ pc[r] = "modelling" /\ r \notin steering
  /\ StatusChanges(s, "busy")
  /\ pc' = [pc EXCEPT ![r] = "running"]
  /\ sent' = [sent EXCEPT ![r] = IF r \in cancelled THEN "ok" ELSE "out"]
  /\ UNCHANGED <<mutexVars, wrapper, made, disposed, refs, expired, deletion, chain, steering,
                 before, handled, stream, session, cancelled>>

\* _handleRequestSteering to its await
Steer(r) ==
  /\ Quiet
  /\ pc[r] = "modelling" /\ r \in steering
  /\ pc' = [pc EXCEPT ![r] = "steering"]
  /\ sent' = [sent EXCEPT ![r] = "out"]
  /\ UNCHANGED <<mutexVars, poolVars, status, chain, steering, before, handled,
                 stream, session, cancelled>>

\* the SDK answers a message
Answered(r) ==
  /\ Quiet
  /\ sent[r] \in {"out", "aborted"}
  /\ \E how \in {"ok", "failed"} : sent' = [sent EXCEPT ![r] = how]
  /\ UNCHANGED <<mutexVars, poolVars, status, chain, steering, before, handled,
                 stream, pc, session, cancelled>>

\* the rest of _handleRequestImplInner: a failure is caught, and every end of a
\* turn tells the SDK to abort
EndTurn(r) ==
  LET s == session[r] IN
  /\ Quiet
  /\ pc[r] = "running" /\ sent[r] \in {"ok", "failed"}
  /\ StatusChanges(s, IF sent[r] = "ok" THEN "completed" ELSE "failed")
  /\ sent' = Aborted(s)
  /\ Settles(r, "ok")
  /\ UNCHANGED <<mutexVars, wrapper, made, disposed, refs, expired, deletion, chain, steering,
                 before, stream, session, cancelled>>

\* the rest of _handleRequestSteering
EndSteering(r) ==
  /\ SteerSettled(r)
  /\ sent' = Aborted(session[r])
  /\ Settles(r, IF SteerFails(r) THEN "failed" ELSE "ok")
  /\ UNCHANGED <<mutexVars, poolVars, status, chain, steering, before, stream,
                 session, cancelled>>

\* the token: a waiter goes on without the lock, a turn is aborted
CancelToken(r) ==
  /\ Quiet
  /\ pc[r] \notin {"idle", "leaving", "finished", "leaked", "over"} /\ r \notin cancelled
  /\ cancelled' = cancelled \cup {r}
  /\ pc' = IF pc[r] = "waiting" THEN [pc EXCEPT ![r] = "entered"] ELSE pc
  /\ IF pc[r] \in {"running", "steering"} THEN sent' = Aborted(session[r])
     ELSE UNCHANGED sent
  /\ UNCHANGED <<mutexVars, poolVars, status, chain, steering, before, handled,
                 stream, session>>

\* VS Code wants to go on, to steer: the participant's handleRequest returns, and
\* with it the response is closed; handleRequestImpl goes on with its stream
Yield(r) ==
  /\ Quiet
  /\ pc[r] \notin {"idle", "leaked", "over"} /\ r \notin yielded
  /\ yielded' = yielded \cup {r}
  /\ UNCHANGED workVars
------------------------------------------------------------------------------
CliStep(r) ==
  \/ Enter(r) \/ AgentSelected(r) \/ SelectionFails(r) \/ SessionLoaded(r)
  \/ LoadFails(r) \/ HandleRequest(r) \/ NotHandled(r) \/ Leave(r) \/ ModelFails(r)
  \/ StartTurn(r) \/ Steer(r) \/ Answered(r) \/ EndTurn(r) \/ EndSteering(r)

(***************************************************************************)
(* Fairness: while a promise can settle, the SDK owes an answer or the     *)
(* timer runs, something of that happens; nothing is assumed of users.     *)
(* Every request makes a bounded number of steps, so fairness of each      *)
(* request would say no more.                                              *)
(***************************************************************************)
CliGoesOn ==
  /\ (\E r \in Requests : CliStep(r)) \/ Terminate \/ SessionDeleted
  /\ UNCHANGED yielded
CliNext ==
  \/ CliGoesOn
  \/ UNCHANGED yielded /\ \E r \in Requests : GetSession(r) \/ CancelToken(r)
  \/ UNCHANGED yielded /\ DeleteSession
  \/ \E r \in Requests : Yield(r)
CliFairness == WF_cliVars(CliGoesOn)

CliSpec == CliInit /\ [][CliNext]_cliVars /\ CliFairness
------------------------------------------------------------------------------
\* Every variable keeps its type, and previousRequestSnapshot ends just before the
\* request that took it.
CliTypeOK ==
  /\ mutex \in Requests \cup {NoRequest}
  /\ holder \in [Requests -> Requests \cup {NoRequest}]
  /\ queue \in [Requests -> Seq(Requests)]
  /\ lock \in [Requests -> Requests \cup {NoRequest}]
  /\ wrapper \in made \cup {NoRequest} /\ terminator \in made \cup {NoRequest}
  /\ expired \subseteq disposed /\ disposed \subseteq made /\ made \subseteq Requests
  /\ refs \in [Requests -> Int]
  /\ deletion \in {"no", "begun", "done"}
  /\ status \in [Requests -> {"none", "busy", "over"}]
  /\ chain \in [Requests -> Seq(Requests)]
  /\ stream \in [Requests -> Requests \cup {NoRequest}]
  /\ pc \in [Requests -> {"idle", "waiting", "entered", "selecting", "loading", "got",
                          "modelling", "running", "steering", "leaving", "finished",
                          "leaked", "over"}]
  /\ session \in [Requests -> Requests \cup {NoRequest}]
  /\ cancelled \subseteq Requests /\ steering \subseteq Requests /\ yielded \subseteq Requests
  /\ sent \in [Requests -> {"no", "out", "aborted", "ok", "failed"}]
  /\ handled \in [Requests -> {"no", "ok", "failed"}]
  /\ before \in [Requests -> Nat]
  /\ \A r \in Requests : pc[r] \in {"modelling", "running", "steering"} =>
       before[r] + 1 \in DOMAIN chain[session[r]] /\ chain[session[r]][before[r] + 1] = r

\* What the exclusion by the mutex does not survive: a call that is cancelled while
\* it waits, a deletion, and the timer, which removes the mutex a request may hold.
Disturbed == cancelled # {} \/ deletion # "no" \/ expired # {}

Live == made \ disposed

\* One session object at a time works on a session id, as
\* copilotcliSessionService.spec.ts:204 says of concurrent calls.
OneLiveSession == Cardinality(Live) <= 1 \/ Disturbed

\* A session says it is busy only while a turn runs on it (copilotcliSession.ts:348
\* to 766): otherwise every later message would be steered into nothing and the
\* session never end.
BusyIsRunning ==
  \A s \in made : status[s] = "busy" =>
    \E r \in Requests : session[r] = s /\ pc[r] = "running"

\* A stream that is attached to a session (copilotcliSession.ts:170) stays until
\* its request leaves, whether it was answered early or not, or another request
\* is handed the session and attaches its own; it never stays longer.  Requests
\* leave in any order: none detaches the stream of another.
Attaches(r, s) ==
  /\ pc[r] \in {"entered", "selecting", "loading"}
  /\ pc'[r] \in {"got", "leaving"} /\ session'[r] = s
StreamPassesOn ==
  [][\A s \in made : stream[s] # NoRequest =>
       \/ stream'[s] = stream[s] /\ stream[s] \in Holders(s)'
       \/ stream'[s] = NoRequest /\ stream[s] \in Holders(s) \ Holders(s)'
       \/ \E r \in Requests : Attaches(r, s) /\ stream'[s] = r]_cliVars

\* What a turn says goes to a response that is open.  The code does not keep this:
\* a response is closed when its request is asked to yield, before the next one
\* attaches its stream, and a request that leaves first takes its stream with it.
Open(r) == r \notin yielded /\ pc[r] \notin {"leaked", "over"}
TurnIsHeard ==
  \A r \in Requests : pc[r] = "running" =>
    stream[session[r]] # NoRequest /\ Open(stream[session[r]])

\* RefCountedSession: one reference for each request that holds the session and
\* for each that failed in getSession after it acquired one (708-710).
ReferencesCounted ==
  \/ Disturbed
  \/ \A s \in made : refs[s] = Cardinality({r \in Requests : session[r] = s /\ pc[r] # "over"})

\* A turn is aborted only when a request is cancelled or its session disposed of.
\* The code does not keep this: a steering message that fails aborts the turn it
\* was meant for, and of two turns the one that ends first aborts the other.
TurnsAreSpared ==
  \A r \in Requests : pc[r] = "running" /\ sent[r] = "aborted" =>
    cancelled # {} \/ session[r] \in disposed

\* What the code says of the timer: "If in the mean time we get another request,
\* we'll clear the timeout", so that it ends no session a request is to use.
Using(s) ==
  {r \in Holders(s) : pc[r] \in {"selecting", "got", "modelling", "running", "steering"}}
TimerSparesHeld ==
  [][Terminate => terminator \in disposed \/ Using(terminator) = {}]_cliVars

\* Who waits for the mutex gets it; a waiter that is cancelled may swallow the turn
\* of the next one (Mutex, 1212-1236).
WaitersEnter ==
  \A r \in Requests :
    (pc[r] = "waiting") ~> (pc[r] # "waiting" \/ cancelled # {})

\* Every handleRequest returns: the chain of promises has no circle, as
\* copilotcliSession.ts:257-259 says of the snapshot.
RequestsReturn ==
  \A r \in Requests : (pc[r] = "modelling") ~> (pc[r] = "over")

------------------------------------------------------------------------------
(***************************************************************************)
(* Why requests return.  Every step lowers the rank of the request it is a *)
(* step of and raises none, and while a request is under way there is one  *)
(* that can make a step.                                                   *)
(***************************************************************************)
PlaceRank ==
  [idle |-> 8, waiting |-> 7, entered |-> 6, selecting |-> 5, loading |-> 5, got |-> 4,
   modelling |-> 3, running |-> 2, steering |-> 2, leaving |-> 1, finished |-> 1,
   leaked |-> 0, over |-> 0]
AnswerRank == [no |-> 0, out |-> 2, aborted |-> 1, ok |-> 0, failed |-> 0]
RequestRank(r) == 3 * PlaceRank[pc[r]] + AnswerRank[sent[r]]

RequestsAdvance ==
  [][\A r \in Requests :
       /\ CliStep(r) => RequestRank(r)' < RequestRank(r)
       /\ RequestRank(r)' <= RequestRank(r) /\ RequestRank(r)' \in Nat]_cliVars

\* the guards of CliStep(r): what r awaits has settled, or the SDK owes it an answer
CanGoOn(r) ==
  \/ pc[r] = "entered" \/ SteerSettled(r)
  \/ /\ Quiet
     /\ \/ pc[r] \in {"selecting", "loading", "got", "modelling", "leaving", "finished"}
        \/ sent[r] \in {"out", "aborted"}
        \/ pc[r] = "running" /\ sent[r] \in {"ok", "failed"}

(* No request waits for ever: neither in the chain of promises of the      *)
(* session, which has no circle (copilotcliSession.ts:257), nor, unless    *)
(* disturbed, for a mutex nobody will release.                             *)
SomebodyGoesOn ==
  (\E r \in Requests : /\ pc[r] \notin {"idle", "leaked", "over"}
                       /\ pc[r] = "waiting" => ~Disturbed)
    => \E r \in Requests : CanGoOn(r)

(* A session whose turn is over has its timer running, and no other        *)
(* session has taken the timer from it (1034-1053).                        *)
OverIsTimed == Disturbed \/ \A s \in Live : status[s] = "over" => terminator = s
==============================================================================

----------------------------- MODULE ClaudeSession -----------------------------
(***************************************************************************)
(* ClaudeCodeSession (chatSessions/claude/node/claudeCodeAgent.ts): chat   *)
(* requests are queued and fed, one at a time, to a query of the Claude    *)
(* SDK, a process of its own whose messages a loop turns into answers.     *)
(* A query ends when it fails or is aborted: because the user interrupts   *)
(* (yield), a token is cancelled, settings or tools have changed, the MCP  *)
(* gateway is idle, or the session is disposed.                            *)
(*                                                                         *)
(* JavaScript runs the continuations of settled promises before the next   *)
(* event: API calls, timers and events of the SDK's process wait until     *)
(* the session is Quiet.  The SDK is external: a query takes prompts until *)
(* it is aborted, may still deliver messages after that, and ends.         *)
(***************************************************************************)
EXTENDS Naturals, Sequences, FiniteSets

CONSTANTS
  Requests,  \* calls of invoke
  Queries,   \* enough SDK queries for every start of a session
  Modes,     \* what may happen: sets of Kinds
  NoRequest, NoQuery

ASSUME NamesAssumption == NoRequest \notin Requests /\ NoQuery \notin Queries
(* "settings": settings files or the set of tools change; "files": there   *)
(* are settings files; "idle": the gateway's idle timer fires; "yield":    *)
(* the user interrupts requests; "dispose": the session is disposed;       *)
(* "fail": starts and queries fail, tokens are cancelled.                  *)
Kinds == {"settings", "files", "idle", "yield", "dispose", "fail"}
ASSUME ModesAssumption == Modes \subseteq SUBSET Kinds

VARIABLES
  mode,       \* which Kinds happen in this behaviour
  pc,         \* of each call of invoke
  queue,      \* _promptQueue
  current,    \* _currentRequest
  asking,     \* the prompt iterable that awaits _pendingPrompt
  generator,  \* _queryGenerator
  phase,      \* of each query, from the start of its session to its end
  starting,   \* _sessionStarting: the query that is being started
  restarter,  \* a yield's cleanup awaits that start
  feeder,     \* of each query: where its prompt iterable is
  fed,        \* the request whose completion the iterable awaits
  turns,      \* prompts a query has taken and not yet answered
  controlled, \* queries that were given the present _abortController
  spent,      \* the present _abortController has been aborted
  aborted,    \* queries whose controller has been aborted
  yielding,   \* _yieldInProgress
  timer,      \* the gateway's idle timer runs
  disposed

startVars == <<phase, starting, restarter>>
feedVars == <<feeder, fed, turns, current, asking>>
abortVars == <<generator, controlled, spent, aborted>>
flags == <<timer, disposed>>
vars == <<mode, pc, queue, startVars, feedVars, abortVars, yielding, flags>>

Init ==
  /\ mode \in Modes
  /\ pc = [i \in Requests |-> "idle"]
  /\ queue = <<>>
  /\ current = NoRequest
  /\ asking = NoQuery
  /\ generator = NoQuery
  /\ phase = [q \in Queries |-> "none"]
  /\ starting = NoQuery /\ restarter = FALSE
  /\ feeder = [q \in Queries |-> "new"]
  /\ fed = [q \in Queries |-> NoRequest]
  /\ turns = [q \in Queries |-> <<>>]
  /\ controlled = {} /\ aborted = {} /\ spent = FALSE
  /\ yielding = FALSE /\ timer = FALSE /\ disposed = FALSE

InQueue == {queue[k] : k \in DOMAIN queue}
Settled(i) == pc[i] \in {"completed", "failed"}
Queued(i) == pc[i] = "queued"

(* Continuations that run before the next event.                           *)
Resumable(i) == pc[i] = "starting" /\ starting = NoQuery
Unblocked(q) == feeder[q] = "sent" /\ Settled(fed[q])
Quiet == (\A i \in Requests : ~Resumable(i)) /\ (\A q \in Queries : ~Unblocked(q))
------------------------------------------------------------------------------
(***************************************************************************)
(* _restartSession, and the two ways to settle queued requests.            *)
(***************************************************************************)
\* Mutant: the controller is replaced but not aborted.
NoAbort == UNCHANGED aborted
Abort == aborted' = aborted \cup controlled

RestartSession ==
  /\ generator' = NoQuery
  /\ Abort
  /\ controlled' = {} /\ spent' = FALSE

\* Mutants: the completed request stays in the queue; pop instead of shift.
CompleteKept ==
  IF queue = <<>> THEN UNCHANGED <<pc, queue>>
  ELSE pc' = [pc EXCEPT ![Head(queue)] = "completed"] /\ UNCHANGED queue
CompleteLast ==
  IF queue = <<>> THEN UNCHANGED <<pc, queue>>
  ELSE /\ pc' = [pc EXCEPT ![queue[Len(queue)]] = "completed"]
       /\ queue' = SubSeq(queue, 1, Len(queue) - 1)

\* `await completedRequest.deferred.complete()` of the head of the queue
CompleteHead ==
  IF queue = <<>> THEN UNCHANGED <<pc, queue>>
  ELSE /\ pc' = [pc EXCEPT ![Head(queue)] = "completed"]
       /\ queue' = Tail(queue)

\* the promise of an iterable that awaits the next request is rejected
Rejected == [q \in Queries |-> IF q = asking THEN "closed" ELSE feeder[q]]

\* pcs is what the step makes of pc otherwise
RejectPendingRequests(pcs) ==
  /\ pc' = [i \in Requests |-> IF i \in InQueue THEN "failed" ELSE pcs[i]]
  /\ queue' = <<>>
  /\ asking' = NoQuery
  /\ feeder' = Rejected
------------------------------------------------------------------------------
(***************************************************************************)
(* The prompt iterable of a query.  A query that is gone drops what the    *)
(* iterable yields.                                                        *)
(***************************************************************************)
Gone(q) == q \in aborted \/ phase[q] = "over"

Send(q, i) ==
  /\ current' = i
  /\ feeder' = [feeder EXCEPT ![q] = IF Gone(q) THEN "closed" ELSE "sent"]
  /\ fed' = [fed EXCEPT ![q] = i]
  /\ turns' = IF Gone(q) THEN turns ELSE [turns EXCEPT ![q] = Append(@, i)]

\* _getNextRequest: "Don't shift yet, keep for resolution"
GetNextRequest(q) ==
  \/ queue # <<>> /\ Send(q, Head(queue)) /\ UNCHANGED asking
  \/ /\ queue = <<>>
     /\ asking' = q
     /\ feeder' = [feeder EXCEPT ![q] = "asking"]
     /\ UNCHANGED <<fed, turns, current>>

\* the query takes its first prompt
FirstPull(q) ==
  /\ phase[q] \in {"open", "live", "unread"} /\ feeder[q] = "new"
  /\ GetNextRequest(q)
  /\ UNCHANGED <<mode, pc, queue, startVars, abortVars, yielding, flags>>

\* the request the iterable waits for is settled: next one, or throw
Continue(q) ==
  /\ Unblocked(q)
  /\ \/ pc[fed[q]] = "completed" /\ GetNextRequest(q)
     \/ /\ pc[fed[q]] = "failed"
        /\ feeder' = [feeder EXCEPT ![q] = "closed"]
        /\ UNCHANGED <<fed, turns, current, asking>>
  /\ UNCHANGED <<mode, pc, queue, startVars, abortVars, yielding, flags>>
------------------------------------------------------------------------------
(***************************************************************************)
(* invoke                                                                  *)
(***************************************************************************)
\* the request is queued; an iterable that waits for one gets it
Push(i) ==
  /\ pc' = [pc EXCEPT ![i] = "queued"]
  /\ queue' = Append(queue, i)
  /\ asking' = NoQuery
  /\ IF asking = NoQuery THEN UNCHANGED <<current, feeder, fed, turns>>
     ELSE Send(asking, i)
  /\ UNCHANGED <<startVars, abortVars>>

Invoke(i) ==
  /\ pc[i] = "idle" /\ Quiet
  /\ pc' = [pc EXCEPT ![i] = IF disposed THEN "failed"
                             ELSE IF generator = NoQuery THEN "modes" ELSE "checking"]
  /\ timer' = (disposed /\ timer)
  /\ UNCHANGED <<mode, queue, startVars, feedVars, abortVars, yielding, disposed>>

\* Have settings files, or the tools, changed since the snapshot?  A file that
\* a snapshot being taken does not hold yet counts as changed.
SnapshotInProgress == \E q \in Queries : phase[q] = "open"
HasChanges ==
  \/ "settings" \in mode
  \/ "files" \in mode /\ SnapshotInProgress

\* Only an active query is told of a new model or mode ("switching").
Checked(i) ==
  /\ pc[i] = "checking"
  /\ \/ HasChanges /\ RestartSession
     \/ UNCHANGED abortVars
  /\ \E next \in {"modes", "switching"} :
       /\ next = "switching" => generator' # NoQuery
       /\ pc' = [pc EXCEPT ![i] = next]
  /\ UNCHANGED <<mode, queue, startVars, feedVars, yielding, flags>>

\* setModel or setPermissionMode of a query that has died
SwitchFails(i) ==
  /\ pc[i] = "switching" /\ "fail" \in mode /\ Quiet
  /\ pc' = [pc EXCEPT ![i] = "failed"]
  /\ UNCHANGED <<mode, queue, startVars, feedVars, abortVars, yielding, flags>>

Unused == {q \in Queries : phase[q] = "none"}
Fresh == CHOOSE q \in Unused : TRUE

\* Mutant: a start does not look for one in progress.
StartAnyway == TRUE

\* _startSession: one start at a time, which later callers await
MustStart == starting = NoQuery
StartSession(over) ==
  /\ MustStart => Unused # {}  \* the bound Queries
  /\ phase' = [q \in Queries |-> IF q \in over THEN "over"
                                 ELSE IF MustStart /\ q = Fresh THEN "building"
                                 ELSE phase[q]]
  /\ starting' = IF MustStart THEN Fresh ELSE starting

Proceed(i) ==
  /\ pc[i] \in {"modes", "switching"}
  /\ \/ generator # NoQuery /\ Push(i)
     \/ /\ generator = NoQuery
        /\ StartSession({})
        /\ pc' = [pc EXCEPT ![i] = "starting"]
        /\ UNCHANGED <<queue, restarter, feedVars, abortVars>>
  /\ UNCHANGED <<mode, yielding, flags>>

Resume(i) ==
  /\ Resumable(i)
  /\ Push(i)
  /\ UNCHANGED <<mode, yielding, flags>>
------------------------------------------------------------------------------
(***************************************************************************)
(* The loop over a query's messages ends: _cleanup.                        *)
(***************************************************************************)
ResetSessionState ==
  /\ generator' = NoQuery
  /\ controlled' = {} /\ spent' = FALSE
  /\ UNCHANGED aborted

\* Mutant: after a yield the next call has to start the session.
NoRestart == FALSE

\* _restartAfterYield keeps the queue and starts a session for it
Restarting == yielding /\ queue # <<>>
Cleanup(over, pcs) ==
  /\ ResetSessionState
  /\ current' = NoRequest
  /\ yielding' = FALSE
  /\ restarter' = (restarter \/ Restarting)
  /\ IF yielding
     THEN pc' = pcs /\ UNCHANGED <<queue, asking, feeder>>
     ELSE RejectPendingRequests(pcs)
  /\ IF Restarting THEN StartSession(over)
     ELSE /\ phase' = [q \in Queries |-> IF q \in over THEN "over" ELSE phase[q]]
          /\ UNCHANGED starting
  /\ UNCHANGED <<fed, turns>>

EndLoop(q) == Cleanup({q}, pc) /\ UNCHANGED <<mode, flags>>
------------------------------------------------------------------------------
(***************************************************************************)
(* _doStartSession: three awaits, then the loop starts.                    *)
(***************************************************************************)
\* the MCP servers are known: options are built, with the abort controller
BuildOptions(q) ==
  /\ phase[q] = "building"
  /\ phase' = [phase EXCEPT ![q] = "opening"]
  /\ IF spent THEN aborted' = aborted \cup {q} /\ UNCHANGED controlled
     ELSE controlled' = controlled \cup {q} /\ UNCHANGED aborted
  /\ UNCHANGED <<mode, pc, queue, starting, restarter, feedVars, generator,
                 spent, yielding, flags>>

QueryOpened(q) ==
  /\ phase[q] = "opening"
  /\ phase' = [phase EXCEPT ![q] = "open"]
  /\ generator' = q
  /\ UNCHANGED <<mode, pc, queue, starting, restarter, feedVars, controlled,
                 spent, aborted, yielding, flags>>

\* _processMessages iterates over the generator there is by now.  If it is
\* gone, it ends at once; a yield's cleanup then awaits this very start.
SnapshotTaken(q) ==
  /\ phase[q] = "open"
  /\ starting' = NoQuery /\ restarter' = FALSE
  /\ IF generator = q
     THEN /\ phase' = [phase EXCEPT ![q] = "live"]
          /\ UNCHANGED <<pc, queue, feedVars, abortVars, yielding>>
     ELSE /\ phase' = [phase EXCEPT ![q] = "unread"]
          /\ ResetSessionState
          /\ current' = NoRequest
          /\ yielding' = FALSE
          /\ IF yielding THEN UNCHANGED <<pc, queue, asking, feeder>>
             ELSE RejectPendingRequests(pc)
          /\ UNCHANGED <<fed, turns>>
  /\ UNCHANGED <<mode, flags>>

\* the start throws: so do the calls that await it, and a yield's cleanup
\* rejects the queue
StartFails(q) ==
  /\ phase[q] \in {"building", "opening"} /\ "fail" \in mode
  /\ phase' = [phase EXCEPT ![q] = "over"]
  /\ starting' = NoQuery /\ restarter' = FALSE
  /\ LET pcs == [i \in Requests |-> IF pc[i] = "starting" THEN "failed" ELSE pc[i]]
     IN  IF restarter THEN RejectPendingRequests(pcs)
         ELSE pc' = pcs /\ UNCHANGED <<queue, asking, feeder>>
  /\ UNCHANGED <<mode, current, fed, turns, abortVars, yielding, flags>>
------------------------------------------------------------------------------
(***************************************************************************)
(* _processMessages: a message of query q.  Messages that only stream text *)
(* change nothing here.                                                    *)
(***************************************************************************)
Message(q) == phase[q] = "live" /\ turns[q] # <<>> /\ Quiet

\* the token of the current request is cancelled: the loop throws
CancelSeen(q) ==
  /\ Message(q) /\ current # NoRequest /\ "fail" \in mode
  /\ EndLoop(q)

\* _checkYieldRequested, at any message of the turn
YieldSeen(q) ==
  /\ Message(q) /\ current # NoRequest /\ "yield" \in mode
  /\ yielding' = TRUE
  /\ CompleteHead
  /\ current' = NoRequest
  /\ Abort /\ controlled' = {} /\ spent' = TRUE
  /\ turns' \in {turns, [turns EXCEPT ![q] = Tail(@)]}
  /\ UNCHANGED <<mode, startVars, generator, feeder, fed, asking, flags>>

\* the result of q's turn completes the head of the queue, unless there is
\* no current request
Result(q) ==
  /\ Message(q)
  /\ turns' = [turns EXCEPT ![q] = Tail(@)]
  /\ IF current = NoRequest THEN UNCHANGED <<pc, queue, timer>>
     ELSE CompleteHead /\ timer' = TRUE
  /\ current' = NoRequest
  /\ UNCHANGED <<mode, startVars, abortVars, feeder, fed, asking, yielding, disposed>>

\* the query fails, or ends: at any time, and certainly once aborted
QueryEnds(q) ==
  /\ phase[q] = "live" /\ Quiet
  /\ q \in aborted \/ "fail" \in mode
  /\ EndLoop(q)
------------------------------------------------------------------------------
\* the gateway's idle timer
IdleTimeout ==
  /\ timer /\ "idle" \in mode /\ Quiet
  /\ timer' = FALSE
  /\ RestartSession
  /\ UNCHANGED <<mode, pc, queue, startVars, feedVars, yielding, disposed>>

Dispose ==
  /\ ~disposed /\ "dispose" \in mode /\ Quiet
  /\ disposed' = TRUE /\ timer' = FALSE
  /\ Abort /\ controlled' = {} /\ spent' = TRUE
  /\ RejectPendingRequests(pc)
  /\ UNCHANGED <<mode, startVars, fed, turns, current, generator, yielding>>

StartStep(q) == BuildOptions(q) \/ QueryOpened(q) \/ SnapshotTaken(q) \/ StartFails(q)
CallStep(i) == Checked(i) \/ SwitchFails(i) \/ Proceed(i) \/ Resume(i)
Next ==
  \/ \E i \in Requests : Invoke(i) \/ CallStep(i)
  \/ \E q \in Queries :
       \/ StartStep(q) \/ FirstPull(q) \/ Continue(q)
       \/ CancelSeen(q) \/ YieldSeen(q) \/ Result(q) \/ QueryEnds(q)
  \/ IdleTimeout
  \/ Dispose

\* Calls go on, sessions start or fail to, queries take prompts and answer
\* them, and a query that was aborted ends.
Fairness ==
  /\ \A i \in Requests : WF_vars(CallStep(i))
  /\ \A q \in Queries :
       /\ WF_vars(StartStep(q)) /\ WF_vars(FirstPull(q)) /\ WF_vars(Continue(q))
       /\ WF_vars(Result(q))
       /\ WF_vars(q \in aborted /\ QueryEnds(q))
Spec == Init /\ [][Next]_vars /\ Fairness
------------------------------------------------------------------------------
SessionTypeOK ==
  /\ mode \in Modes
  /\ pc \in [Requests -> {"idle", "checking", "switching", "modes", "starting",
                          "queued", "completed", "failed"}]
  /\ queue \in Seq(Requests)
  /\ current \in Requests \cup {NoRequest}
  /\ {asking, generator, starting} \subseteq Queries \cup {NoQuery}
  /\ phase \in [Queries -> {"none", "building", "opening", "open", "live",
                            "unread", "over"}]
  /\ feeder \in [Queries -> {"new", "asking", "sent", "closed"}]
  /\ fed \in [Queries -> Requests \cup {NoRequest}]
  /\ turns \in [Queries -> Seq(Requests)]
  /\ controlled \subseteq Queries /\ aborted \subseteq Queries
  /\ {restarter, spent, yielding, timer, disposed} \subseteq BOOLEAN

(* Whatever ends a session, a request that was queued is in the queue,     *)
(* once, until its promise is settled: cleanup, yield, dispose and results *)
(* settle exactly the requests they take out.                              *)
QueueHoldsUnsettled ==
  /\ InQueue = {i \in Requests : Queued(i)}
  /\ Len(queue) = Cardinality(InQueue)

(* _startSession "guards against concurrent starts (e.g., from yield       *)
(* restart racing with a new invoke)".                                     *)
Starting(q) == phase[q] \in {"building", "opening", "open"}
OneStart == \A q \in Queries : Starting(q) => q = starting

(* In what follows the session is not restarted to reload settings, tools  *)
(* or the gateway, nor taken to be outdated while its snapshot is taken.   *)
NotReloaded == mode \cap {"settings", "files", "idle"} = {}

(* As long as nothing restarts the session, a query that runs was aborted  *)
(* or is stopped by the session's present abort controller: an interrupt   *)
(* or dispose leaves no process running.                                   *)
RunningAbortable ==
  \A q \in Queries : NotReloaded /\ phase[q] \in {"opening", "open", "live"} =>
    q \in controlled \cup aborted

(* A request is completed by the result of its own turn, as long as        *)
(* nothing aborts the query, whatever happened to the queries before it.   *)
OwnTurn(q) ==
  \A i \in Requests : Result(q) /\ Queued(i) /\ pc'[i] = "completed" => Head(turns[q]) = i
UninterruptedOwnTurns ==
  [][\A q \in Queries : NotReloaded /\ q \notin aborted => OwnTurn(q)]_vars

(* "You can queue multiple messages while Claude is working.  They are     *)
(* processed sequentially." (CLAUDE_SESSION_USER_GUIDE.md)                 *)
CompletedByOwnTurn == [][\A q \in Queries : OwnTurn(q)]_vars

(* invoke: "Add this request to the queue and wait for completion": every  *)
(* call settles.                                                           *)
Settles(i) == pc[i] # "idle" ~> Settled(i)
CallsSettle == \A i \in Requests : Settles(i)

(* Every call settles as long as nothing restarts the session.             *)
UndisturbedCallsSettle ==
  \A i \in Requests : NotReloaded /\ pc[i] # "idle" ~> Settled(i)
------------------------------------------------------------------------------
(***************************************************************************)
(* Why calls settle.                                                       *)
(***************************************************************************)
\* A query that runs and has not been told to stop.
Runs(q) == phase[q] \in {"open", "live"}
Works(q) == Runs(q) /\ q \notin aborted

CallRank ==
  [idle |-> 5, checking |-> 4, switching |-> 3, modes |-> 3, starting |-> 2, queued |-> 1,
   completed |-> 0, failed |-> 0]
PhaseRank ==
  [none |-> 5, building |-> 4, opening |-> 3, open |-> 2, live |-> 1, unread |-> 1, over |-> 0]
QueryRank(q) == 2 * PhaseRank[phase[q]] + (IF feeder[q] = "new" THEN 1 ELSE 0)

\* Calls and queries only go forward; an iterable that was woken waits again; and
\* unless the session is reloaded a result settles a call.
Advance ==
  /\ \A i \in Requests :
       /\ CallStep(i) => CallRank[pc'[i]] < CallRank[pc[i]]
       /\ CallRank[pc'[i]] <= CallRank[pc[i]]
  /\ \A q \in Queries :
       /\ StartStep(q) \/ FirstPull(q) \/ CancelSeen(q) \/ QueryEnds(q) =>
            QueryRank(q)' < QueryRank(q)
       /\ QueryRank(q)' <= QueryRank(q)
       /\ Continue(q) => ~Unblocked(q)'
       /\ NotReloaded /\ Works(q) /\ Result(q) =>
            \E i \in Requests : Queued(i) /\ pc'[i] = "completed"
CallsAdvance == [][Advance]_vars

\* the guards of a step of query q: it starts, takes a prompt, answers or ends
QueryGoesOn(q) ==
  \/ Starting(q) \/ Unblocked(q)
  \/ phase[q] = "live" /\ (feeder[q] = "new" \/ turns[q] # <<>> \/ q \in aborted)

(* A call that is not settled can go on, or waits for the session's query, *)
(* or for one that is being started, which can: a message that arrives     *)
(* between two awaits of an interrupt, a cleanup or a start that fails is  *)
(* not left in a queue that nobody reads (claudeCodeAgent.ts:349, :715).   *)
CallsGoOn ==
  \A i \in Requests :
    NotReloaded /\ pc[i] \notin {"idle", "completed", "failed"} =>
      \/ pc[i] \in {"checking", "switching", "modes"} \/ Resumable(i)
      \/ \E q \in Queries \cap {generator, starting} : QueryGoesOn(q)
==============================================================================

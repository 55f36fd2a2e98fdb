--------------------------- MODULE NextEditRequests ---------------------------
(***************************************************************************)
(* NextEditProvider (inlineEdits/node/nextEditProvider.ts): which requests *)
(* for next edit suggestions are in flight, who waits for them, and when   *)
(* they are shared, superseded or cancelled.  A call of getNextEdit starts *)
(* a request or joins one that runs already; when a suggestion is shown, a *)
(* speculative request is made for the document as it would be after       *)
(* accepting it.  Actions are JavaScript turns.                            *)
(*                                                                         *)
(* There is one document.  NextEditCache, edit rebasing and the rejection  *)
(* collector are used through what they may answer: an edit for the        *)
(* content they are asked about, or nothing.  The stateless provider       *)
(* streams edits and ends with a reason; it turns its exceptions into one. *)
(* Speculative requests are enabled.  A provider that fails to find the    *)
(* history of the document is left out.                                    *)
(***************************************************************************)
EXTENDS Integers, FiniteSets

CONSTANTS
  Calls,        \* getNextEdit calls; each may make one request of its own
  Specs,        \* ids of speculative requests: a bound on how many are made
  Docs,         \* contents of the document
  Async,        \* what inlineEdits.asyncCompletions may be when it is read
  Eager,        \* what inlineEdits.eagerBackupRequest may be
  CheckWindow,  \* whether inlineEdits.checkEditWindowOnReuse is set
  NoId, NoDoc, NoEdit, Mixed

ASSUME NECallsAssumption ==
  /\ Calls \cap Specs = {} /\ NoId \notin Calls \cup Specs
  /\ IsFiniteSet(Calls) /\ IsFiniteSet(Specs)
ASSUME NEDocsAssumption ==
  {NoDoc, NoEdit, Mixed} \cap Docs = {} /\ NoDoc \notin {NoEdit, Mixed}
ASSUME NEConfigAssumption == Async \cup Eager \cup {CheckWindow} \subseteq BOOLEAN

Reqs == Calls \cup Specs

VARIABLES
  doc,        \* content of the document
  pending,    \* _pendingStatelessNextEditRequest
  spec,       \* _speculativePendingRequest
  scheduled,  \* _scheduledSpeculativeRequest: the call whose suggestion it is for
  shown,      \* _lastShownSuggestionId
  base,       \* documentBeforeEdits of each request
  mixed,      \* speculative requests made after the document had changed
  stream,     \* state of its edit stream
  first,      \* firstEdit: content the edit leads to, NoEdit for an error
  issued,     \* fetchIssued
  cancelled,  \* cancellationTokenSource
  deps,       \* liveDependentants
  hook,       \* the _hookupCancellation of a call on a request
  doomed,     \* backup requests to be cancelled once they have an edit
  pc,         \* where each call is suspended
  at,         \* document content at its invocation
  target,     \* request it has joined
  answer,     \* its result
  tokenDone,  \* its cancellation token is cancelled
  ui          \* its suggestion: shown, declined (rejected or dismissed) or over

docVars == <<doc, shown, ui>>
slotVars == <<pending, spec, scheduled>>
requestVars == <<base, mixed, stream, first, issued>>
hookVars == <<deps, hook>>
callVars == <<pc, at, target, answer>>
vars == <<docVars, slotVars, requestVars, hookVars, callVars, cancelled, doomed, tokenDone>>

\* a result: content before and after the edit, id of the fetch request it is
\* attributed to; for is the content the edit was computed for and origin the
\* request whose stream it came from (history)
Answers == [before : Docs, after : Docs, header : Reqs, for : Docs \cup {Mixed}, origin : Reqs]
NoAnswer == NoEdit

Init ==
  /\ doc \in Docs
  /\ pending = NoId /\ spec = NoId /\ scheduled = NoId /\ shown = NoId
  /\ base = [r \in Reqs |-> NoDoc]
  /\ mixed = {}
  /\ stream = [r \in Reqs |-> "none"]
  /\ first = [r \in Reqs |-> NoDoc]
  /\ issued = [r \in Reqs |-> FALSE]
  /\ cancelled = [r \in Reqs |-> FALSE]
  /\ deps = [r \in Reqs |-> 0]
  /\ hook = [p \in Calls \X Reqs |-> "none"]
  /\ doomed = {}
  /\ pc = [c \in Calls |-> "idle"]
  /\ at = [c \in Calls |-> NoDoc]
  /\ target = [c \in Calls |-> NoId]
  /\ answer = [c \in Calls |-> NoAnswer]
  /\ tokenDone = [c \in Calls |-> FALSE]
  /\ ui = [c \in Calls |-> "none"]

\* the active document of a request, whose edits are streamed: as projected
\* from the history when the call was made, or with the suggestion applied
ActiveDocument(r) ==
  IF r \in Calls THEN at[r] ELSE IF r \in mixed THEN Mixed ELSE base[r]

Running(r) == stream[r] \in {"fetching", "editing"}
Goto(c, where) == pc' = [pc EXCEPT ![c] = where]
Cancelling(R) == cancelled' = [r \in Reqs |-> cancelled[r] \/ r \in R]

(***************************************************************************)
(* _hookupCancellation: a call that depends on a request is counted until  *)
(* its token is cancelled or the hook is disposed.                         *)
(***************************************************************************)
\* the calls of D stop to count; mutant: removeDependant runs twice for a
\* hook whose token has been cancelled before it is disposed
RemovedTwice(r, D) == Cardinality({p \in D : p[2] = r /\ hook[p] # "none"})
Removed(r, D) == Cardinality({p \in D : p[2] = r /\ hook[p] = "live"})

\* the hooks of A are made, those of D disposed; mutant: a hook on a request
\* that has already been issued does not count
CountUnissued(r, A) == Cardinality({p \in A : p[2] = r /\ ~issued[r]})
Added(r, A) == Cardinality({p \in A : p[2] = r})

Hooking(A, D) ==
  /\ deps' = [r \in Reqs |-> deps[r] + Added(r, A) - Removed(r, D)]
  /\ hook' = [p \in Calls \X Reqs |->
                IF p \in A THEN "live" ELSE IF p \in D THEN "none" ELSE hook[p]]

\* others are left that depend on the request of hook p; mutant: not checked
NoOthers(p) == FALSE
OthersDepend(p) == deps[p[2]] > 1

\* onCancellationRequested, in every hook of the call: nobody else depends on
\* the request => cancel it if it has not been issued, else in a second
CancelToken(c) ==
  LET live == {p \in {c} \X Reqs : hook[p] = "live"}
      alone == {p \in live : ~OthersDepend(p)}
  IN  /\ pc[c] # "idle" /\ ~tokenDone[c]
      /\ tokenDone' = [tokenDone EXCEPT ![c] = TRUE]
      /\ deps' = [r \in Reqs |-> deps[r] - Removed(r, live)]
      /\ hook' = [p \in Calls \X Reqs |->
                    IF p \notin live THEN hook[p]
                    ELSE IF p \in alone /\ issued[p[2]] THEN "timer" ELSE "removed"]
      /\ Cancelling({p[2] : p \in {q \in alone : ~issued[q[2]]}})
      /\ UNCHANGED <<docVars, slotVars, requestVars, callVars, doomed>>

CancellationTimer(c, r) ==
  /\ hook[<<c, r>>] = "timer"
  /\ hook' = [hook EXCEPT ![<<c, r>>] = "removed"]
  /\ Cancelling(IF deps[r] = 0 THEN {r} ELSE {})
  /\ UNCHANGED <<docVars, slotVars, requestVars, callVars, deps, doomed, tokenDone>>

(***************************************************************************)
(* The end of a call.                                                      *)
(***************************************************************************)
Return(c, a) == Goto(c, "done") /\ answer' = [answer EXCEPT ![c] = a]

\* the document changed between the fetch and its result; mutant: not checked
NeverChanged(before) == FALSE
DocDidChange(before) == doc # before

\* an edit for content f that leads to t, found in the stream of request o
Edit(t, h, f, o) ==
  IF t \notin Docs THEN NoAnswer
  ELSE [before |-> doc, after |-> t, header |-> h, for |-> f, origin |-> o]

\* the rest of _getNextEditCanThrow for a call made at content t: the edit is
\* dropped when the document or the token has changed or the user has
\* rejected it before, and may be held back for a minimum time
Finish(c, t, e) ==
  IF e = NoAnswer \/ DocDidChange(t) \/ tokenDone[c] THEN Return(c, NoAnswer)
  ELSE \/ Return(c, NoAnswer)
       \/ Return(c, e)
       \/ Goto(c, "delay") /\ answer' = [answer EXCEPT ![c] = e]

Delayed(c) ==
  /\ pc[c] = "delay"
  /\ Return(c, IF tokenDone[c] THEN NoAnswer ELSE answer[c])
  /\ UNCHANGED <<docVars, slotVars, requestVars, hookVars, at, target, cancelled, doomed, tokenDone>>

(***************************************************************************)
(* _executeNewNextEditRequest, up to its first await; p is the pending     *)
(* request it finds.                                                       *)
(***************************************************************************)
\* the pending request and a speculative one for other content make way.
\* Mutant: the pending request is forgotten without being cancelled.
SpecStale == spec # NoId /\ base[spec] # doc
OnlySpec(p) == IF SpecStale THEN {spec} ELSE {}
Superseded(p) == ({p} \ {NoId}) \cup (IF SpecStale THEN {spec} ELSE {})

\* Mutant: the schedule for the old stream is kept
KeepSchedule(p) == IF SpecStale THEN NoId ELSE scheduled
ScheduleAfter(p) == IF p # NoId \/ SpecStale THEN NoId ELSE scheduled

ExecuteNew(c, p) ==
  /\ Cancelling(Superseded(p))
  /\ scheduled' = ScheduleAfter(p)
  /\ spec' = IF SpecStale THEN NoId ELSE spec
  /\ pending' = c
  /\ base' = [base EXCEPT ![c] = doc]
  /\ stream' = [stream EXCEPT ![c] = "fetching"]

(***************************************************************************)
(* getNextEdit and fetchNextEdit, up to the first await.                   *)
(***************************************************************************)
\* the requests in whose edit window the cursor is, as far as it matters
EditWindows == IF CheckWindow THEN SUBSET Reqs ELSE {Reqs}
Reusable(r, W) == r # NoId /\ ~cancelled[r] /\ r \in W

FromCache(c) ==
  /\ \/ \E t \in Docs \ {doc}, r \in {q \in Reqs : first[q] \in Docs} :
          Finish(c, doc, Edit(t, r, IF r \in mixed THEN Mixed ELSE doc, r))
     \/ (\E r \in Reqs : first[r] = NoEdit) /\ Return(c, NoAnswer)
  /\ UNCHANGED <<slotVars, base, stream, hookVars, cancelled, target>>

JoinSpeculative(c) ==
  /\ Goto(c, "join")
  /\ target' = [target EXCEPT ![c] = spec]
  /\ spec' = NoId
  /\ Hooking({<<c, spec>>}, {})
  /\ UNCHANGED <<pending, scheduled, base, stream, cancelled, answer>>

JoinPending(c, eager) ==
  /\ target' = [target EXCEPT ![c] = pending]
  /\ IF base[pending] # doc /\ eager
     THEN /\ Goto(c, "eager")
          /\ ExecuteNew(c, NoId)
          /\ Hooking({<<c, c>>, <<c, pending>>}, {})
     ELSE /\ Goto(c, IF base[pending] = doc THEN "join" ELSE "rebase")
          /\ Hooking({<<c, pending>>}, {})
          /\ UNCHANGED <<slotVars, base, stream, cancelled>>
  /\ UNCHANGED answer

MakeRequest(c) ==
  /\ Goto(c, "own")
  /\ ExecuteNew(c, pending)
  /\ Hooking({<<c, c>>}, {})
  /\ UNCHANGED <<target, answer>>

GetNextEdit(c) ==
  /\ pc[c] = "idle"
  /\ at' = [at EXCEPT ![c] = doc]
  /\ \/ FromCache(c)
     \/ \E W \in EditWindows, async \in Async, eager \in Eager :
          LET useSpec == Reusable(spec, W) /\ base[spec] = doc
              usePending == Reusable(pending, W) /\ (base[pending] = doc \/ async)
          IN  \/ useSpec /\ JoinSpeculative(c)
              \/ ~useSpec /\ usePending /\ JoinPending(c, eager)
              \/ ~useSpec /\ ~usePending /\ MakeRequest(c)
  /\ UNCHANGED <<docVars, mixed, first, issued, doomed, tokenDone>>

(***************************************************************************)
(* The result of the call's own request: its first edit.                   *)
(***************************************************************************)
OwnResult(c) ==
  /\ pc[c] = "own" /\ first[c] # NoDoc
  /\ Finish(c, at[c], Edit(first[c], c, ActiveDocument(c), c))
  /\ UNCHANGED <<docVars, slotVars, requestVars, hookVars, at, target, cancelled, doomed, tokenDone>>

\* result of a request: a speculative one has it with its first edit, a
\* regular one when its stream has ended
Settled(r) == IF r \in Specs THEN first[r] # NoDoc ELSE stream[r] = "ended"

JoinedResult(c) ==
  LET r == target[c] IN
  /\ pc[c] = "join" /\ Settled(r)
  /\ Hooking({}, {<<c, r>>})
  /\ Finish(c, at[c], Edit(first[r], c, ActiveDocument(r), r))
  /\ UNCHANGED <<docVars, slotVars, requestVars, at, target, cancelled, doomed, tokenDone>>

\* a stale request has ended: its edit is rebased onto the content the call
\* was made at, or another pending request is joined, or a new one made
RebasedResult(c) ==
  LET r == target[c]
      again == pending # NoId /\ base[pending] = at[c] /\ ~cancelled[pending]
  IN
  /\ pc[c] = "rebase" /\ Settled(r)
  /\ \/ /\ first[r] \in Docs
        /\ \E t \in Docs \ {at[c]} : Finish(c, at[c], Edit(t, c, at[c], r))
        /\ Hooking({}, {<<c, r>>})
        /\ UNCHANGED <<slotVars, base, stream, cancelled, target>>
     \/ /\ tokenDone[c] /\ Return(c, NoAnswer)
        /\ Hooking({}, {<<c, r>>})
        /\ UNCHANGED <<slotVars, base, stream, cancelled, target>>
     \/ /\ ~tokenDone[c] /\ again /\ Goto(c, "join")
        /\ target' = [target EXCEPT ![c] = pending]
        /\ Hooking({<<c, pending>>}, {<<c, r>>})
        /\ UNCHANGED <<slotVars, base, stream, cancelled, answer>>
     \/ /\ ~tokenDone[c] /\ ~again /\ Goto(c, "own")
        /\ ExecuteNew(c, pending)
        /\ Hooking({<<c, c>>}, {<<c, r>>})
        /\ UNCHANGED <<target, answer>>
  /\ UNCHANGED <<docVars, mixed, first, issued, at, doomed, tokenDone>>

\* the same with a backup request running: it is cancelled, as soon as it has
\* an edit, unless it is needed
CancelBackup(c) ==
  IF first[c] = NoDoc THEN doomed' = doomed \cup {c} /\ UNCHANGED cancelled
  ELSE Cancelling({c}) /\ UNCHANGED doomed

EagerResult(c) ==
  LET r == target[c] IN
  /\ pc[c] = "eager" /\ Settled(r)
  /\ Hooking({}, {<<c, r>>})
  /\ \/ /\ first[r] \in Docs /\ CancelBackup(c)
        /\ \E t \in Docs \ {at[c]} : Finish(c, at[c], Edit(t, c, at[c], r))
     \/ tokenDone[c] /\ CancelBackup(c) /\ Return(c, NoAnswer)
     \/ ~tokenDone[c] /\ Goto(c, "own") /\ UNCHANGED <<answer, cancelled, doomed>>
  /\ UNCHANGED <<docVars, slotVars, requestVars, at, target, tokenDone>>

(***************************************************************************)
(* _triggerSpeculativeRequest for the suggestion of call c, which finds    *)
(* pending request p; str is the state of the streams by then.  Nothing    *)
(* happens when the cache has an edit for the content after acceptance.    *)
(***************************************************************************)
\* the speculative request that makes way; mutant: it is not cancelled
NoneReplaced == {}
Replaced == {spec} \ {NoId}

Trigger(c, p, str) ==
  LET post == answer[c].after IN
  /\ scheduled' = NoId
  /\ \/ stream' = str /\ UNCHANGED <<spec, base, mixed, cancelled>>
     \/ /\ p # NoId => base[p] # post
        /\ spec # NoId => base[spec] # post
        /\ Cancelling(Replaced)
        /\ \/ spec' = NoId /\ stream' = str /\ UNCHANGED <<base, mixed>>
           \/ \E s \in {q \in Specs : stream[q] = "none"} :
                /\ spec' = s
                /\ stream' = [str EXCEPT ![s] = "fetching"]
                /\ base' = [base EXCEPT ![s] = post]
                /\ mixed' = IF doc = answer[c].before THEN mixed ELSE mixed \cup {s}

(***************************************************************************)
(* The edit streams.                                                       *)
(***************************************************************************)
\* the prompt is built and the debounce over
IssueFetch(r) ==
  /\ stream[r] = "fetching" /\ ~issued[r] /\ ~cancelled[r]
  /\ issued' = [issued EXCEPT ![r] = TRUE]
  /\ UNCHANGED <<docVars, slotVars, base, mixed, stream, first, hookVars, callVars, cancelled, doomed, tokenDone>>

\* the first edit; one of a regular request may turn out to be no single
\* replacement, which ends the wait for it with an error
FirstEdit(r, t) ==
  /\ stream[r] = "fetching" /\ issued[r]
  /\ t \in Docs \ {ActiveDocument(r)} \/ (t = NoEdit /\ r \in Calls)
  /\ first' = [first EXCEPT ![r] = t]
  /\ stream' = [stream EXCEPT ![r] = "editing"]
  /\ Cancelling({r} \cap doomed)
  /\ UNCHANGED <<docVars, slotVars, base, mixed, issued, hookVars, callVars, doomed, tokenDone>>

\* another edit: the one shown was not the last of its stream
MoreEdits(r) ==
  /\ stream[r] = "editing"
  /\ scheduled # NoId /\ answer[scheduled].header = r
  /\ scheduled' = NoId
  /\ UNCHANGED <<docVars, pending, spec, requestVars, hookVars, callVars, cancelled, doomed, tokenDone>>

\* firstEdit after the end of the stream of r; mutant: left unsettled
LeftUnsettled(r) == first[r]
SettledFirst(r) == IF first[r] = NoDoc THEN NoEdit ELSE first[r]

\* handleStreamEnd: the schedule for a suggestion of this stream fires
EndStream(r) ==
  LET ended == [stream EXCEPT ![r] = "ended"]
      left == IF pending = r THEN NoId ELSE pending
  IN
  /\ r \in Calls /\ Running(r)
  /\ first' = [first EXCEPT ![r] = SettledFirst(r)]
  /\ Hooking({}, {<<r, r>>})
  /\ pending' = left
  /\ IF scheduled # NoId /\ answer[scheduled].header = r
     THEN Trigger(scheduled, left, ended)
     ELSE stream' = ended /\ UNCHANGED <<spec, scheduled, base, mixed, cancelled>>
  /\ UNCHANGED <<docVars, issued, callVars, doomed, tokenDone>>

\* _runSpeculativeProviderCall: the request stays in its slot
EndSpeculative(r) ==
  /\ r \in Specs /\ Running(r)
  /\ first' = [first EXCEPT ![r] = SettledFirst(r)]
  /\ stream' = [stream EXCEPT ![r] = "ended"]
  /\ UNCHANGED <<docVars, slotVars, base, mixed, issued, hookVars, callVars, cancelled, doomed, tokenDone>>

(***************************************************************************)
(* The user.                                                               *)
(***************************************************************************)
\* _cancelPendingRequestDueToDocChange
EditDocument(d) ==
  /\ d # doc /\ doc' = d
  /\ \E async \in Async :
       Cancelling({r \in {pending} \ {NoId} : ~async /\ ActiveDocument(r) # d})
  /\ UNCHANGED <<shown, ui, slotVars, requestVars, hookVars, callVars, doomed, tokenDone>>

HasSuggestion(c) == pc[c] = "done" /\ answer[c] # NoAnswer

HandleShown(c) ==
  /\ HasSuggestion(c) /\ ui[c] = "none"
  /\ ui' = [ui EXCEPT ![c] = "shown"]
  /\ shown' = c
  /\ IF pending # NoId /\ answer[c].header = pending
     THEN scheduled' = c /\ UNCHANGED <<spec, base, mixed, stream, cancelled>>
     ELSE Trigger(c, pending, stream)
  /\ UNCHANGED <<doc, pending, first, issued, hookVars, callVars, doomed, tokenDone>>

\* _cancelSpeculativeRequest: what is left of the schedule; mutant: all of it
StillScheduled == scheduled
NothingScheduled == NoId

CancelSpeculative ==
  /\ scheduled' = NothingScheduled
  /\ Cancelling(Replaced)
  /\ spec' = NoId

HandleRejection(c) ==
  /\ ui[c] = "shown"
  /\ ui' = [ui EXCEPT ![c] = "declined"]
  /\ CancelSpeculative
  /\ UNCHANGED <<doc, shown, pending, requestVars, hookVars, callVars, doomed, tokenDone>>

\* superseded by another suggestion, never shown, or dismissed
HandleIgnored(c) ==
  /\ HasSuggestion(c) /\ ui[c] \in {"none", "shown"}
  /\ \/ /\ ui' = [ui EXCEPT ![c] = "over"]
        /\ UNCHANGED <<slotVars, cancelled>>
     \/ /\ shown = c
        /\ ui' = [ui EXCEPT ![c] = "declined"]
        /\ CancelSpeculative /\ UNCHANGED pending
  /\ UNCHANGED <<doc, shown, requestVars, hookVars, callVars, doomed, tokenDone>>

\* the schedule is left as it is; the edit arrives as a change of the document
HandleAcceptance(c) ==
  /\ ui[c] = "shown"
  /\ ui' = [ui EXCEPT ![c] = "over"]
  /\ UNCHANGED <<doc, shown, slotVars, requestVars, hookVars, callVars, cancelled, doomed, tokenDone>>

User(c) == HandleShown(c) \/ HandleRejection(c) \/ HandleIgnored(c) \/ HandleAcceptance(c)

Resume(c) == OwnResult(c) \/ JoinedResult(c) \/ RebasedResult(c) \/ EagerResult(c) \/ Delayed(c)

\* a call whose promise is resolved goes on in a microtask, before anything
\* the editor or a timer does
Ready(c) ==
  \/ pc[c] = "own" /\ first[c] # NoDoc
  \/ pc[c] \in {"join", "rebase", "eager"} /\ Settled(target[c])
MicrotasksDone == \A c \in Calls : ~Ready(c)

Next ==
  \/ \E c \in Calls : Resume(c)
  \/ \E r \in Reqs : IssueFetch(r) \/ MoreEdits(r) \/ EndStream(r) \/ EndSpeculative(r)
  \/ \E r \in Reqs, t \in Docs \cup {NoEdit} : FirstEdit(r, t)
  \/ /\ MicrotasksDone
     /\ \/ \E c \in Calls : GetNextEdit(c) \/ CancelToken(c) \/ User(c)
        \/ \E c \in Calls, r \in Reqs : CancellationTimer(c, r)
        \/ \E d \in Docs : EditDocument(d)

\* Promise continuations and timers run, and every stream ends: the fetch
\* behind it is answered, fails or is aborted.
Fairness ==
  /\ \A c \in Calls : WF_vars(Resume(c))
  /\ \A r \in Reqs : WF_vars(EndStream(r) \/ EndSpeculative(r))

Spec == Init /\ [][Next]_vars /\ Fairness
------------------------------------------------------------------------------
(***************************************************************************)
(* Properties                                                              *)
(***************************************************************************)
NETypeOK ==
  /\ doc \in Docs
  /\ {pending, shown, scheduled} \subseteq Calls \cup {NoId} /\ spec \in Specs \cup {NoId}
  /\ base \in [Reqs -> Docs \cup {NoDoc}] /\ mixed \subseteq Specs
  /\ stream \in [Reqs -> {"none", "fetching", "editing", "ended"}]
  /\ first \in [Reqs -> Docs \cup {NoDoc, NoEdit}]
  /\ issued \in [Reqs -> BOOLEAN] /\ cancelled \in [Reqs -> BOOLEAN]
  /\ deps \in [Reqs -> Nat]
  /\ hook \in [Calls \X Reqs -> {"none", "live", "removed", "timer"}]
  /\ doomed \subseteq Calls
  /\ pc \in [Calls -> {"idle", "own", "join", "rebase", "eager", "delay", "done"}]
  /\ at \in [Calls -> Docs \cup {NoDoc}]
  /\ target \in [Calls -> Reqs \cup {NoId}]
  /\ answer \in [Calls -> Answers \cup {NoAnswer}]
  /\ tokenDone \in [Calls -> BOOLEAN]
  /\ ui \in [Calls -> {"none", "shown", "over", "declined"}]

(* liveDependentants is the "number of invocations which haven't been      *)
(* canceled and depend on this request", through every join, cancellation  *)
(* and disposal, in whatever order they come.                              *)
LiveHooks(r) == {p \in Calls \X Reqs : p[2] = r /\ hook[p] = "live"}
LiveDependants ==
  \A r \in Reqs : deps[r] = Cardinality(LiveHooks(r))

(* A scheduled speculative request belongs to the stream of the pending    *)
(* request, which will fire or clear it: it cannot "fire stale ... after   *)
(* the stream has already been superseded".                                *)
ScheduledBelongsToPending ==
  scheduled # NoId => pending = answer[scheduled].header /\ Running(pending)

(* It is for the suggestion shown last, which the user has not rejected or *)
(* dismissed: no request is made later for an edit that was declined.      *)
ScheduledNotDeclined ==
  scheduled # NoId => scheduled = shown /\ ui[scheduled] # "declined"

(* A regular request that still occupies the server is the pending one or  *)
(* has been cancelled.                                                     *)
OneRegularRequest ==
  \A r \in Calls : Running(r) /\ ~cancelled[r] => r = pending

(* A speculative request that has not answered yet is in its slot, from    *)
(* where it can be cancelled, or has a call that waits for it and will     *)
(* cancel it when its token is cancelled: none is left to itself.          *)
SpeculativeAccounted ==
  \A r \in Specs : Running(r) /\ ~cancelled[r] /\ first[r] = NoDoc =>
    r = spec \/ \E c \in Calls : hook[<<c, r>>] \in {"live", "timer"}

(* Unless a request is superseded or its document changes, it is not       *)
(* cancelled while a call whose token is alive waits for it.               *)
WaitsFor(c, r) ==
  \/ pc[c] \in {"own", "eager"} /\ r = c
  \/ pc[c] \in {"join", "rebase", "eager"} /\ r = target[c]
WaitersSpared ==
  [][\A r \in Reqs, c \in Calls :
       /\ cancelled'[r] /\ ~cancelled[r] /\ Running(r) /\ WaitsFor(c, r)
       /\ pending' = pending /\ spec' = spec /\ doc' = doc
       => tokenDone'[c]]_vars

(* With eager backup requests it is not so: the call that has made a backup *)
(* cancels it when it has no need of it, whoever else has joined it        *)
(* (nextEditProvider.ts:578).  Nobody else does.                           *)
IsBackup(r) == r \in doomed \/ (r \in Calls /\ pc[r] = "eager")
SparedOrBackup ==
  \A r \in Reqs, c \in Calls :
    /\ cancelled'[r] /\ ~cancelled[r] /\ Running(r) /\ WaitsFor(c, r)
    /\ pending' = pending /\ spec' = spec /\ doc' = doc
    => tokenDone'[c] \/ IsBackup(r)
OnlyBackupsDropped == [][SparedOrBackup]_vars

(* The edit of a regular request is offered only for the content it was    *)
(* computed for, whichever call it reaches and however the document has    *)
(* changed in the meantime.                                                *)
OffersItsOwn(R) ==
  \A c \in Calls : answer[c] # NoAnswer /\ answer[c].origin \in R =>
    answer[c].for = answer[c].before
AnswerFitsDocument == OffersItsOwn(Calls)

(* _createSpeculativeRequest: "For the active document, create a version   *)
(* representing post-edit state": what a speculative request streams fits  *)
(* the content it is reused for.                                           *)
SpeculationFitsDocument == OffersItsOwn(Specs)

(* Every call returns. *)
CallsReturn == \A c \in Calls : pc[c] # "idle" ~> pc[c] = "done"
------------------------------------------------------------------------------
(***************************************************************************)
(* Why every call returns.                                                 *)
(***************************************************************************)
\* A call joins at most one request after another and makes at most one itself.
PlaceRank ==
  [idle |-> 5, rebase |-> 4, eager |-> 4, join |-> 3, own |-> 2, delay |-> 1, done |-> 0]
StreamRank == [none |-> 3, fetching |-> 2, editing |-> 1, ended |-> 0]

\* Every step of a call lowers its rank, the end of a stream that of the stream,
\* and nothing that other calls, streams, tokens, timers or the user do raises any.
Advance ==
  /\ \A c \in Calls :
       /\ GetNextEdit(c) \/ Resume(c) => PlaceRank[pc'[c]] < PlaceRank[pc[c]]
       /\ PlaceRank[pc'[c]] <= PlaceRank[pc[c]]
  /\ \A r \in Reqs :
       /\ EndStream(r) \/ EndSpeculative(r) => StreamRank[stream'[r]] < StreamRank[stream[r]]
       /\ StreamRank[stream'[r]] <= StreamRank[stream[r]]
CallsAdvance == [][Advance]_vars

(* A call that has not returned can go on, or waits for a stream that runs *)
(* and whose end wakes it, whoever else has cancelled or superseded it     *)
(* (nextEditProvider.ts:584, :660, :723): a request that is cancelled     *)
(* keeps its stream until that ends.                                       *)
Returning(c) ==
  \/ Ready(c) \/ pc[c] = "delay"
  \/ \E r \in Reqs : WaitsFor(c, r) /\ Running(r)
CallsReturning == \A c \in Calls : pc[c] \notin {"idle", "done"} => Returning(c)
------------------------------------------------------------------------------
(***************************************************************************)
(* The inductive invariant behind the safety properties.                   *)
(***************************************************************************)
\* what is known of a request that has been made, and of one that has not
RequestsMade ==
  \A r \in Reqs :
    /\ stream[r] = "none" => base[r] = NoDoc /\ ~issued[r]
    /\ stream[r] # "none" => base[r] \in Docs
    /\ first[r] = NoDoc <=> stream[r] \in {"none", "fetching"}

SlotsFilled ==
  /\ pending # NoId => Running(pending)
  /\ spec # NoId => stream[spec] # "none"

\* a schedule is for a suggestion that has been returned
ScheduledKnown == scheduled # NoId => HasSuggestion(scheduled)

Waiting == {"join", "rebase", "eager"}
CallsPlaced ==
  \A c \in Calls :
    /\ pc[c] # "idle" => at[c] \in Docs
    /\ pc[c] \in {"idle", "join", "rebase"} => stream[c] = "none"
    /\ pc[c] \in {"own", "eager"} => stream[c] # "none"
    /\ pc[c] \in Waiting => target[c] \in Reqs \ {c} /\ stream[target[c]] # "none"
    /\ pc[c] \in {"rebase", "eager"} => target[c] \in Calls /\ base[target[c]] # at[c]
    /\ answer[c] # NoAnswer => pc[c] \in {"delay", "done"}

\* a call is hooked on its own request and on the one it waits for
HooksPlaced ==
  \A c \in Calls, r \in Reqs :
    hook[<<c, r>>] # "none" =>
      \/ r = c /\ stream[c] # "none"
      \/ r = target[c] /\ pc[c] \in Waiting

NEInv ==
  /\ NETypeOK
  /\ LiveDependants
  /\ RequestsMade
  /\ SlotsFilled
  /\ ScheduledKnown
  /\ CallsPlaced
  /\ HooksPlaced

\* what makes AnswerFitsDocument inductive when backup requests are eager
RequestsFit ==
  \A c \in Calls :
    /\ stream[c] # "none" => base[c] = at[c]
    /\ pc[c] # "rebase"
    /\ pc[c] = "join" => base[target[c]] = at[c]
==============================================================================

--------------------------- MODULE AsyncCompletions ---------------------------
(***************************************************************************)
(* AsyncCompletionManager (completions-core/.../asyncCompletions.ts): the  *)
(* table of completion requests in flight.  Every ghost text request       *)
(* queues its network request here and then waits, together with requests  *)
(* issued for other cursor positions, for the first request of the table   *)
(* whose text continues what the user has typed.  Calls are synchronous    *)
(* JavaScript turns: each action is one turn, and turns of different       *)
(* requests interleave at their awaits.                                    *)
(*                                                                         *)
(* A text stands for the document as it reads at the cursor: a document    *)
(* prefix, or such a prefix continued by a completion.  Ext is the order   *)
(* "starts with"; prompts with different suffixes are incomparable in it.  *)
(***************************************************************************)
EXTENDS Naturals, FiniteSets

CONSTANTS
  Ids,          \* header request ids: one per getGhostText call
  Speculative,  \* the ids of speculative requests
  Texts,        \* document texts at the cursor
  Typed,        \* the texts at which completions are asked for
  Ext,          \* pairs <<s, t>>: text t starts with text s
  Capacity,     \* size limit of the request table (100 in the code)
  NoText, NoId

ASSUME IdsAssumption == NoId \notin Ids /\ Speculative \subseteq Ids
ASSUME TextsAssumption == NoText \notin Texts /\ Typed \subseteq Texts
ASSUME ExtAssumption ==
  /\ Ext \subseteq Texts \X Texts
  /\ \A t \in Texts : <<t, t>> \in Ext
ASSUME CapacityAssumption == Capacity \in Nat \ {0}

(* A call is one execution of getFirstMatchingRequest.  An id makes at     *)
(* most two: "peek", raced against a timeout before it goes to the         *)
(* network, and "own", after it has queued its own request.                *)
Kinds == {"peek", "own"}
Calls == Ids \X Kinds

VARIABLES
  ctx,        \* document text the id was issued for, fixed at its first call
  phase,      \* state of the id's own network request
  partial,    \* partialCompletionText, as the text it would lead to
  final,      \* text of the completed choice
  cancelled,  \* the request's cancellation token source has been cancelled
  table,      \* the LRU map: its keys and their order of use
  mostRecent, \* mostRecentRequestId
  status,     \* of each call
  subs,       \* requests a call is subscribed to
  outcome,    \* text a call was resolved with, NoText for undefined
  timedOut    \* peeks whose Promise.race was won by the timer

vars == <<ctx, phase, partial, final, cancelled, table, mostRecent,
          status, subs, outcome, timedOut>>
requestVars == <<phase, partial, final>>
callVars == <<status, subs, outcome>>

Tables == [keys : SUBSET Ids, older : SUBSET (Ids \X Ids)]
EmptyTable == [keys |-> {}, older |-> {}]

Init ==
  /\ ctx = [i \in Ids |-> NoText]
  /\ phase = [i \in Ids |-> "none"]
  /\ partial = [i \in Ids |-> NoText]
  /\ final = [i \in Ids |-> NoText]
  /\ cancelled = [i \in Ids |-> FALSE]
  /\ table = EmptyTable
  /\ mostRecent = NoId
  /\ status = [c \in Calls |-> "none"]
  /\ subs = [c \in Calls |-> {}]
  /\ outcome = [c \in Calls |-> NoText]
  /\ timedOut = [i \in Ids |-> FALSE]

StartsWith(t, s) == <<s, t>> \in Ext

(***************************************************************************)
(* LRUCacheMap: a pair <<p, q>> of older says that key p was used before q. *)
(***************************************************************************)
InTable(r) == r \in table.keys

Delete(m, D) == [keys |-> m.keys \ D,
                 older |-> {p \in m.older : p[1] \notin D /\ p[2] \notin D}]

\* get: a hit becomes the most recently used key
Touched(m, r) == [keys |-> m.keys \cup {r},
                  older |-> Delete(m, {r}).older \cup ((m.keys \ {r}) \X {r})]

Oldest(m) == CHOOSE k \in m.keys : \A j \in m.keys : <<j, k>> \notin m.older

\* set: a new key evicts the least recently used one when the map is full
Inserted(m, r) ==
  IF r \in m.keys \/ Cardinality(m.keys) < Capacity
  THEN Touched(m, r)
  ELSE Touched(Delete(m, {Oldest(m)}), r)

\* the table after the requests of D were cancelled; mutant: cancelRequest
\* without its delete
KeepDropped(m, D) == m
AfterCancel(m, D) == Delete(m, D)

(***************************************************************************)
(* isCandidate: can request r, in the state described by ph, pa and fi,    *)
(* still produce a continuation of text t?                                 *)
(***************************************************************************)
\* Mutant: a completion the user has already typed to its end still matches.
CandidateToTheEnd(t, r, ph, pa, fi) ==
  /\ StartsWith(t, ctx[r])
  /\ IF ph = "completed" THEN StartsWith(fi, t)
     ELSE pa = NoText \/ StartsWith(pa, t)

Candidate(t, r, ph, pa, fi) ==
  /\ StartsWith(t, ctx[r])
  /\ IF ph = "completed"
     THEN StartsWith(fi, t) /\ fi # t
     ELSE pa = NoText \/ StartsWith(pa, t)

IsCandidate(t, r) == Candidate(t, r, phase[r], partial[r], final[r])

ShouldWait(t) == \E r \in table.keys : IsCandidate(t, r)

(***************************************************************************)
(* getFirstMatchingRequest, called by id i for text t on table q, where R  *)
(* says which requests are the candidates of q.  The id becomes the most   *)
(* recent one unless it is speculative; pending requests that are no       *)
(* candidates are cancelled and dropped if it is the most recent one.      *)
(***************************************************************************)
\* Mutant: speculative ids take the cancellation lock as well.
AlwaysMostRecent(i) == i
MostRecentAfter(i) == IF i \in Speculative THEN mostRecent ELSE i

\* the first completed candidate in table order, whose text resolves the call
FirstHit(m, hits) == CHOOSE r \in hits : \A h \in hits : <<h, r>> \notin m.older
FirstFound(m, hits) == IF hits = {} THEN NoText ELSE final[FirstHit(m, hits)]

GetFirstMatching(i, kind, t, m, R) ==
  LET found == FirstFound(m, {r \in R : phase[r] = "completed"})
      stale == {r \in m.keys \ R : phase[r] = "pending"}
      dropped == IF MostRecentAfter(i) = i THEN stale ELSE {}
  IN  /\ mostRecent' = MostRecentAfter(i)
      /\ table' = AfterCancel(m, dropped)
      /\ cancelled' = [r \in Ids |-> cancelled[r] \/ r \in dropped]
      /\ status' = [status EXCEPT ![<<i, kind>>] =
                      IF found = NoText THEN "waiting" ELSE "resolved"]
      /\ outcome' = [outcome EXCEPT ![<<i, kind>>] = found]
      /\ subs' = [subs EXCEPT ![<<i, kind>>] = R]

\* getFirstMatchingRequestWithTimeout.  ghostText.ts calls it in the turn in
\* which shouldWaitForAsyncCompletions has returned true.
Peek(i, t) ==
  /\ ctx[i] = NoText
  /\ ShouldWait(t)
  /\ ctx' = [ctx EXCEPT ![i] = t]
  /\ UNCHANGED <<requestVars, timedOut>>
  /\ GetFirstMatching(i, "peek", t, table,
                      {r \in table.keys : IsCandidate(t, r)})

\* the timer of getFirstMatchingRequestWithTimeout; the call it raced against
\* keeps its subscriptions
PeekTimeout(i) ==
  /\ status[<<i, "peek">>] = "waiting"
  /\ ~timedOut[i]
  /\ timedOut' = [timedOut EXCEPT ![i] = TRUE]
  /\ UNCHANGED <<ctx, requestVars, cancelled, table, mostRecent, callVars>>

\* callers see a result after finally() has run
PeekSettled(i) == status[<<i, "peek">>] = "disposed" \/ timedOut[i]

\* queueCompletionRequest followed, in the same turn, by the id's own
\* getFirstMatchingRequest
Queue(i, t) ==
  /\ phase[i] = "none"
  /\ ctx[i] = NoText \/ (ctx[i] = t /\ PeekSettled(i))
  /\ ctx' = [ctx EXCEPT ![i] = t]
  /\ phase' = [phase EXCEPT ![i] = "pending"]
  /\ UNCHANGED <<partial, final, timedOut>>
  /\ LET m == Inserted(table, i)
     IN  GetFirstMatching(i, "own", t, m,
           {i} \cup {r \in m.keys \ {i} : IsCandidate(t, r)})

(***************************************************************************)
(* ReplaySubject: what the requests tell their subscribers.                *)
(***************************************************************************)
Subscribers(r) == {c \in Calls : r \in subs[c]}

\* Mutant: no call notices that its last subscription has ended.
NeverLast(c, r) == FALSE
LastSubscription(c, r) == subs[c] = {r}

\* Mutant: a call that is resolved is resolved again by the next completion.
AnswerTwice(r, C, found) ==
  /\ subs' = [c \in Calls |-> IF c \in C THEN subs[c] \ {r} ELSE subs[c]]
  /\ outcome' = [c \in Calls |-> IF c \in found THEN final'[r] ELSE outcome[c]]
  /\ status' = [c \in Calls |->
                  IF /\ status[c] = "waiting"
                     /\ c \in found \/ (c \in C /\ LastSubscription(c, r))
                  THEN "resolved" ELSE status[c]]

\* finishRequest, run for request r in every call of C: a call whose last
\* subscription ends unresolved resolves with undefined
FinishRequest(r, C, found) ==
  /\ subs' = [c \in Calls |-> IF c \in C THEN subs[c] \ {r} ELSE subs[c]]
  /\ outcome' = [c \in Calls |->
                   IF c \in found /\ status[c] = "waiting"
                   THEN final'[r] ELSE outcome[c]]
  /\ status' = [c \in Calls |->
                  IF /\ status[c] = "waiting"
                     /\ c \in found \/ (c \in C /\ LastSubscription(c, r))
                  THEN "resolved" ELSE status[c]]

\* updateCompletion: the stream of r has grown to text t.  Unknown ids are
\* ignored; subscribers that t no longer matches cancel r, if they are the
\* most recent id, and end their subscription.
Update(r, t) ==
  LET diverged == {c \in Subscribers(r) :
                     ~Candidate(ctx[c[1]], r, "pending", t, NoText)}
      drop == \E c \in diverged : c[1] = mostRecent
  IN  /\ phase[r] = "pending" /\ InTable(r)
      /\ StartsWith(t, ctx[r]) /\ t # partial[r]
      /\ partial[r] # NoText => StartsWith(t, partial[r])
      /\ partial' = [partial EXCEPT ![r] = t]
      /\ table' = IF drop THEN AfterCancel(table, {r}) ELSE Touched(table, r)
      /\ cancelled' = [cancelled EXCEPT ![r] = @ \/ drop]
      /\ UNCHANGED <<ctx, phase, final, mostRecent, timedOut>>
      /\ FinishRequest(r, diverged, {})

\* the result promise of r fulfils with a choice that leads to text t: r is
\* put (back) into the table as completed, its candidates are resolved, and
\* complete() ends every subscription
Complete(r, t) ==
  /\ phase[r] = "pending"
  /\ StartsWith(t, ctx[r])
  /\ phase' = [phase EXCEPT ![r] = "completed"]
  /\ final' = [final EXCEPT ![r] = t]
  /\ table' = Inserted(Delete(table, {r}), r)
  /\ UNCHANGED <<ctx, partial, cancelled, mostRecent, timedOut>>
  /\ FinishRequest(r, Subscribers(r),
       {c \in Subscribers(r) : Candidate(ctx[c[1]], r, "completed", NoText, t)})

\* Mutant: subject.error is not called when the request fails.
FailSilently(r) ==
  /\ phase[r] = "pending"
  /\ phase' = [phase EXCEPT ![r] = "failed"]
  /\ table' = Delete(table, {r})
  /\ UNCHANGED <<ctx, partial, final, cancelled, mostRecent, callVars, timedOut>>

\* the result promise of r fulfils without a choice, or rejects
Fail(r) ==
  /\ phase[r] = "pending"
  /\ phase' = [phase EXCEPT ![r] = "failed"]
  /\ table' = Delete(table, {r})
  /\ UNCHANGED <<ctx, partial, final, cancelled, mostRecent, timedOut>>
  /\ FinishRequest(r, Subscribers(r), {})

\* the finally() of a call, a microtask after it was resolved
Dispose(c) ==
  /\ status[c] = "resolved"
  /\ status' = [status EXCEPT ![c] = "disposed"]
  /\ subs' = [subs EXCEPT ![c] = {}]
  /\ UNCHANGED <<ctx, requestVars, cancelled, table, mostRecent, outcome, timedOut>>

\* clear(), when the user picks another completions model
Clear ==
  /\ table # EmptyTable
  /\ table' = EmptyTable
  /\ UNCHANGED <<ctx, requestVars, cancelled, mostRecent, callVars, timedOut>>

Network(r) == Fail(r) \/ \E t \in Texts : Complete(r, t)

Next ==
  \/ \E i \in Ids, t \in Typed : Peek(i, t) \/ Queue(i, t)
  \/ \E i \in Ids, t \in Texts : Update(i, t)
  \/ \E i \in Ids : Network(i) \/ PeekTimeout(i)
  \/ \E c \in Calls : Dispose(c)
  \/ Clear

\* Every network request ends (the fetcher aborts or times out the others)
\* and the microtask queue is drained.
Fairness ==
  /\ \A r \in Ids : WF_vars(Network(r))
  /\ \A c \in Calls : WF_vars(Dispose(c))

Spec == Init /\ [][Next]_vars /\ Fairness
------------------------------------------------------------------------------
(***************************************************************************)
(* Properties                                                              *)
(***************************************************************************)
TypeOK ==
  /\ ctx \in [Ids -> Texts \cup {NoText}]
  /\ phase \in [Ids -> {"none", "pending", "completed", "failed"}]
  /\ partial \in [Ids -> Texts \cup {NoText}]
  /\ final \in [Ids -> Texts \cup {NoText}]
  /\ cancelled \in [Ids -> BOOLEAN]
  /\ table \in Tables
  /\ mostRecent \in Ids \cup {NoId}
  /\ status \in [Calls -> {"none", "waiting", "resolved", "disposed"}]
  /\ subs \in [Calls -> SUBSET Ids]
  /\ outcome \in [Calls -> Texts \cup {NoText}]
  /\ timedOut \in [Ids -> BOOLEAN]

(* A waiting call is subscribed to some request, and only to requests that *)
(* are still in flight: whatever was evicted, cancelled or cleared from    *)
(* the table, something will still resolve the call.  The deferred promise *)
(* of getFirstMatchingRequest has no timeout of its own.                   *)
NoLostWaiter ==
  \A c \in Calls : status[c] = "waiting" =>
    subs[c] # {} /\ \A r \in subs[c] : phase[r] = "pending"

(* A request that was cancelled while in flight is out of the table until  *)
(* it ends, so that no later caller starts to wait for it.                 *)
CancelledNotOffered ==
  \A r \in Ids : cancelled[r] /\ phase[r] = "pending" => ~InTable(r)

(* The table never exceeds its limit, although completion re-inserts keys  *)
(* that had been evicted or cancelled, and its keys stay totally ordered   *)
(* by use, so that there is always one oldest key to evict.                *)
TableSound ==
  /\ Cardinality(table.keys) <= Capacity
  /\ table.older \subseteq table.keys \X table.keys
  /\ \A p, q \in table.keys : p # q => (<<p, q>> \in table.older <=> <<q, p>> \notin table.older)

(* What a call is resolved with continues, by at least one character, what *)
(* the user had typed when the call was made, and it is the text of a      *)
(* completed request issued for a text the user has since extended.        *)
OutcomeContinues ==
  \A c \in Calls : outcome[c] # NoText =>
    /\ StartsWith(outcome[c], ctx[c[1]]) /\ outcome[c] # ctx[c[1]]
    /\ \E r \in Ids : /\ phase[r] = "completed" /\ final[r] = outcome[c]
                      /\ StartsWith(ctx[c[1]], ctx[r])

(* "We only want to cancel requests that don't match the most recent       *)
(* request prefix": a step that cancels a request leaves it not matching   *)
(* the text of the last id that looked, and speculative ids never count as *)
(* such.                                                                   *)
CancelsOnlyMismatch ==
  \A r \in Ids : cancelled'[r] /\ ~cancelled[r] =>
    /\ phase[r] = "pending"
    /\ mostRecent' \in Ids \ Speculative
    /\ ~IsCandidate(ctx[mostRecent], r)'
CancelOnlyMismatch == [][CancelsOnlyMismatch]_vars
------------------------------------------------------------------------------
(***************************************************************************)
(* The inductive invariant behind the safety properties.                   *)
(***************************************************************************)
\* what is known of a request in each phase
RequestsKnown ==
  \A r \in Ids :
    /\ phase[r] # "none" => ctx[r] \in Texts
    /\ phase[r] = "completed" => final[r] \in Texts
    /\ cancelled[r] => phase[r] # "none"
    /\ InTable(r) => phase[r] \in {"pending", "completed"}

\* every set of ids has a least recently used member
HasLeast(older) ==
  \A T \in SUBSET Ids : T # {} =>
    \E x \in T : \A y \in T : <<y, x>> \notin older
WellOrdered == HasLeast(table.older)

CallsKnown ==
  /\ mostRecent \notin Speculative
  /\ \A c \in Calls : status[c] # "none" => ctx[c[1]] \in Texts
  /\ \A c \in Calls : outcome[c] # NoText => status[c] \in {"resolved", "disposed"}
  /\ \A c \in Calls, r \in Ids :
       r \in subs[c] => status[c] # "none" /\ phase[r] # "none" /\ StartsWith(ctx[c[1]], ctx[r])

IInv ==
  /\ TypeOK
  /\ RequestsKnown
  /\ WellOrdered
  /\ CallsKnown
  /\ NoLostWaiter
  /\ CancelledNotOffered
  /\ OutcomeContinues
==============================================================================

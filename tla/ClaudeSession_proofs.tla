------------------------- MODULE ClaudeSession_proofs -------------------------
(***************************************************************************)
(* Proofs about ClaudeSession for any requests and queries and any kinds   *)
(* of disturbance: types, that no queued request is lost, that one session *)
(* starts at a time; and, unless the session is reloaded, that every query *)
(* can be stopped, that a query that runs answers its own prompts, and     *)
(* that every call which waits can go on.                                  *)
(***************************************************************************)
EXTENDS ClaudeRefinement, TLAPS, FiniteSetTheorems

PCs == {"idle", "checking", "switching", "modes", "starting",
        "queued", "completed", "failed"}
Phases == {"none", "building", "opening", "open", "live", "unread", "over"}
Feeders == {"new", "asking", "sent", "closed"}

\* The parts of SessionTypeOK: of the calls, of the queries, of the flags.
CallTypes ==
  /\ pc \in [Requests -> PCs]
  /\ queue \in Seq(Requests)
QueryTypes ==
  /\ phase \in [Queries -> Phases]
  /\ feeder \in [Queries -> Feeders]
  /\ asking \in Queries \cup {NoQuery}
  /\ fed \in [Queries -> Requests \cup {NoRequest}]
  /\ turns \in [Queries -> Seq(Requests)]
  /\ current \in Requests \cup {NoRequest}
ControlTypes ==
  /\ generator \in Queries \cup {NoQuery}
  /\ starting \in Queries \cup {NoQuery}
  /\ controlled \subseteq Queries /\ aborted \subseteq Queries
FlagTypes ==
  /\ mode \in Modes
  /\ restarter \in BOOLEAN /\ spent \in BOOLEAN /\ yielding \in BOOLEAN
  /\ timer \in BOOLEAN /\ disposed \in BOOLEAN

\* Exactly the requests that wait for an answer are queued, each of them once.
QueueSound ==
  /\ \A k \in DOMAIN queue : pc[queue[k]] = "queued"
  /\ \A i \in Requests : pc[i] = "queued" => \E k \in DOMAIN queue : queue[k] = i
  /\ \A j, k \in DOMAIN queue : queue[j] = queue[k] => j = k

\* Unless the session is reloaded, at most one query runs, the generator's; none
\* runs while another is started.
GeneratorRuns == NotReloaded => \A q \in Queries :
  /\ phase[q] \in {"open", "live"} => generator = q
  /\ phase[q] \in {"building", "opening"} => generator = NoQuery
  /\ phase[q] # "unread"

\* Whoever is queued is queued for the generator, or for a start that follows a yield.
QueueHasReader == NotReloaded =>
  /\ queue # <<>> => generator # NoQuery \/ restarter
  /\ restarter => starting # NoQuery
  /\ starting # NoQuery => Starting(starting)
  /\ generator # NoQuery => phase[generator] \in {"open", "live"}
  /\ yielding => generator # NoQuery /\ generator \in aborted
  /\ \A i \in Requests : Resumable(i) => generator # NoQuery

\* What a query that runs has taken and not answered is the head of the queue; the
\* prompts of one that is over have failed.
FeedSound(q) ==
  /\ feeder[q] = "new" => turns[q] = <<>>
  /\ phase[q] \in {"none", "building", "opening"} => feeder[q] = "new"
  /\ feeder[q] = "sent" => /\ fed[q] \in Requests
                           /\ pc[fed[q]] \in {"queued", "completed", "failed"}
                           /\ ~Runs(q) => pc[fed[q]] = "failed"
                           /\ q \in aborted => pc[fed[q]] # "queued"
  /\ Works(q) =>
       /\ feeder[q] # "closed"
       /\ feeder[q] = "asking" => asking = q /\ turns[q] = <<>>
       /\ feeder[q] = "sent" => /\ pc[fed[q]] # "failed"
                                /\ pc[fed[q]] = "queued" => turns[q] # <<>>
       /\ turns[q] # <<>> =>
            /\ feeder[q] = "sent" /\ turns[q] = <<fed[q]>>
            /\ queue # <<>> /\ queue[1] = fed[q] /\ current # NoRequest
FeedingSound == NotReloaded =>
  /\ asking # NoQuery => queue = <<>> /\ feeder[asking] = "asking"
  /\ \A q \in Queries : FeedSound(q)

SessionIInv ==
  /\ CallTypes /\ QueryTypes /\ ControlTypes /\ FlagTypes
  /\ QueueSound /\ OneStart
  /\ GeneratorRuns /\ RunningAbortable
  /\ QueueHasReader /\ FeedingSound

LEMMA TypeParts ==
  CallTypes /\ QueryTypes /\ ControlTypes /\ FlagTypes <=> SessionTypeOK
<1>1. CallTypes /\ QueryTypes /\ ControlTypes /\ FlagTypes => SessionTypeOK
  BY DEF SessionTypeOK, CallTypes, QueryTypes, ControlTypes, FlagTypes, PCs, Phases, Feeders
<1>2. SessionTypeOK => CallTypes /\ QueryTypes /\ ControlTypes /\ FlagTypes
  BY DEF SessionTypeOK, CallTypes, QueryTypes, ControlTypes, FlagTypes, PCs, Phases, Feeders
<1> QED BY <1>1, <1>2
------------------------------------------------------------------------------
(***************************************************************************)
(* What may happen to the queue.                                           *)
(***************************************************************************)
\* A queue that is not touched stays sound if no request begins or ends to wait.
LEMMA KeepsQueue ==
  ASSUME CallTypes, QueueSound, queue' = queue, pc' \in [Requests -> PCs],
         \A i \in Requests : pc'[i] = "queued" <=> pc[i] = "queued"
  PROVE  CallTypes' /\ QueueSound'
<1>1. \A k \in DOMAIN queue : queue[k] \in Requests
  BY DEF CallTypes
<1> QED BY <1>1 DEF CallTypes, QueueSound

\* One call's pc changes, and it does not wait for an answer.
LEMMA CallMoves ==
  ASSUME CallTypes, QueueSound, NEW i \in Requests, pc[i] # "queued", queue' = queue,
         NEW p \in PCs \ {"queued"}, pc' = [pc EXCEPT ![i] = p]
  PROVE  CallTypes' /\ QueueSound'
<1>1. pc' \in [Requests -> PCs]
  BY DEF CallTypes
<1>2. \A j \in Requests : pc'[j] = "queued" <=> pc[j] = "queued"
  BY DEF CallTypes
<1> QED BY <1>1, <1>2, KeepsQueue

LEMMA PushQueue ==
  ASSUME CallTypes, QueueSound, NEW i \in Requests, pc[i] # "queued",
         pc' = [pc EXCEPT ![i] = "queued"], queue' = Append(queue, i)
  PROVE  CallTypes' /\ QueueSound'
<1>1. CallTypes'
  BY DEF CallTypes, PCs
<1>2. /\ DOMAIN queue' = 1 .. Len(queue) + 1 /\ queue'[Len(queue) + 1] = i
      /\ \A k \in 1 .. Len(queue) : queue'[k] = queue[k]
      /\ DOMAIN queue = 1 .. Len(queue) /\ Len(queue) \in Nat
  BY DEF CallTypes
<1>3. \A k \in 1 .. Len(queue) : queue[k] \in Requests /\ queue[k] # i
  BY <1>2 DEF CallTypes, QueueSound
<1>4. \A k \in DOMAIN queue' : pc'[queue'[k]] = "queued"
  BY <1>2, <1>3 DEF CallTypes, QueueSound
<1>5. ASSUME NEW j \in Requests, pc'[j] = "queued" PROVE \E k \in DOMAIN queue' : queue'[k] = j
  <2>1. CASE j = i
    BY <1>2, <2>1
  <2>2. CASE j # i
    <3>1. PICK k \in DOMAIN queue : queue[k] = j
      BY <1>5, <2>2 DEF CallTypes, QueueSound
    <3> QED BY <1>2, <3>1
  <2> QED BY <2>1, <2>2
<1>6. \A j, k \in DOMAIN queue' : queue'[j] = queue'[k] => j = k
  BY <1>2, <1>3 DEF QueueSound
<1> QED BY <1>1, <1>4, <1>5, <1>6 DEF QueueSound

\* The head is completed, and only it.
LEMMA HeadCompletes ==
  ASSUME CallTypes, QueueSound, CompleteHead
  PROVE  /\ CallTypes' /\ QueueSound'
         /\ \A i \in Requests : pc'[i] = pc[i] \/
              (queue # <<>> /\ i = queue[1] /\ pc[i] = "queued" /\ pc'[i] = "completed")
<1>1. CASE queue = <<>>
  BY <1>1, KeepsQueue DEF CompleteHead, CallTypes
<1>2. CASE queue # <<>>
  <2>1. /\ Len(queue) \in Nat \ {0} /\ DOMAIN queue = 1 .. Len(queue)
        /\ Head(queue) = queue[1] /\ queue[1] \in Requests /\ pc[queue[1]] = "queued"
        /\ pc' = [pc EXCEPT ![queue[1]] = "completed"] /\ queue' = Tail(queue)
    BY <1>2 DEF CallTypes, QueueSound, CompleteHead
  <2>2. /\ DOMAIN queue' = 1 .. Len(queue) - 1
        /\ \A k \in 1 .. Len(queue) - 1 : queue'[k] = queue[k + 1] /\ queue[k + 1] \in Requests
    BY <2>1 DEF CallTypes
  <2>3. CallTypes'
    BY <2>1 DEF CallTypes, PCs
  <2>4. \A k \in DOMAIN queue' : pc'[queue'[k]] = "queued"
    <3> SUFFICES ASSUME NEW k \in 1 .. Len(queue) - 1 PROVE pc'[queue'[k]] = "queued"
      BY <2>2
    <3>1. k + 1 \in DOMAIN queue /\ k + 1 # 1 /\ 1 \in DOMAIN queue
      BY <2>1
    <3>2. queue[k + 1] # queue[1]
      BY <3>1 DEF QueueSound
    <3> QED BY <2>1, <2>2, <3>1, <3>2 DEF QueueSound, CallTypes
  <2>5. ASSUME NEW i \in Requests, pc'[i] = "queued" PROVE \E k \in DOMAIN queue' : queue'[k] = i
    <3>1. i # queue[1] /\ pc[i] = "queued"
      BY <2>1, <2>5 DEF CallTypes
    <3>2. PICK k \in DOMAIN queue : queue[k] = i
      BY <3>1 DEF QueueSound
    <3>3. k - 1 \in 1 .. Len(queue) - 1 /\ queue'[k - 1] = queue[k]
      BY <2>1, <2>2, <3>1, <3>2
    <3> QED BY <2>2, <3>2, <3>3
  <2>6. \A j, k \in DOMAIN queue' : queue'[j] = queue'[k] => j = k
    <3> SUFFICES ASSUME NEW j \in 1 .. Len(queue) - 1, NEW k \in 1 .. Len(queue) - 1,
                        queue'[j] = queue'[k]
                 PROVE  j = k
      BY <2>2
    <3>1. j + 1 \in DOMAIN queue /\ k + 1 \in DOMAIN queue /\ queue[j + 1] = queue[k + 1]
      BY <2>1, <2>2
    <3> QED BY <3>1 DEF QueueSound
  <2> QED BY <1>2, <2>1, <2>3, <2>4, <2>5, <2>6 DEF QueueSound, CallTypes
<1> QED BY <1>1, <1>2

\* Whoever is in the queue fails.
LEMMA QueueRejected ==
  ASSUME CallTypes, QueueSound, NEW pcs \in [Requests -> PCs],
         \A i \in Requests : pcs[i] = "queued" => pc[i] = "queued",
         RejectPendingRequests(pcs)
  PROVE  /\ CallTypes' /\ QueueSound' /\ queue' = <<>>
         /\ \A i \in Requests : pc'[i] = IF pc[i] = "queued" THEN "failed" ELSE pcs[i]
<1>1. \A i \in Requests : i \in InQueue <=> pc[i] = "queued"
  BY DEF QueueSound, InQueue, CallTypes
<1>2. pc' = [i \in Requests |-> IF i \in InQueue THEN "failed" ELSE pcs[i]] /\ queue' = <<>>
  BY DEF RejectPendingRequests
<1>3. pc' \in [Requests -> PCs] /\ queue' \in Seq(Requests) /\ DOMAIN queue' = {}
  BY <1>2 DEF PCs
<1>4. \A i \in Requests : pc'[i] = IF pc[i] = "queued" THEN "failed" ELSE pcs[i]
  BY <1>1, <1>2
<1>5. \A i \in Requests : pc'[i] # "queued"
  BY <1>4
<1> QED BY <1>2, <1>3, <1>4, <1>5 DEF CallTypes, QueueSound
------------------------------------------------------------------------------
(***************************************************************************)
(* Steps that several actions share.                                       *)
(***************************************************************************)
LEMMA SendTypes ==
  ASSUME QueryTypes, NEW q \in Queries, NEW i \in Requests, Send(q, i)
  PROVE  /\ feeder' \in [Queries -> Feeders]
         /\ fed' \in [Queries -> Requests \cup {NoRequest}]
         /\ turns' \in [Queries -> Seq(Requests)]
         /\ current' \in Requests \cup {NoRequest}
<1>1. feeder' \in [Queries -> Feeders] /\ current' \in Requests \cup {NoRequest}
  BY DEF QueryTypes, Send, Feeders
<1>2. fed' \in [Queries -> Requests \cup {NoRequest}]
  BY DEF QueryTypes, Send
<1>3. turns' \in [Queries -> Seq(Requests)]
  BY DEF QueryTypes, Send
<1> QED BY <1>1, <1>2, <1>3

LEMMA NextRequestTypes ==
  ASSUME CallTypes, QueryTypes, NEW q \in Queries, GetNextRequest(q), phase' = phase
  PROVE  QueryTypes'
<1>1. CASE queue # <<>> /\ Send(q, Head(queue)) /\ UNCHANGED asking
  <2>1. Head(queue) \in Requests
    BY <1>1 DEF CallTypes
  <2> QED BY <1>1, <2>1, SendTypes DEF QueryTypes
<1>2. CASE asking' = q /\ feeder' = [feeder EXCEPT ![q] = "asking"] /\ UNCHANGED <<fed, turns, current>>
  BY <1>2 DEF QueryTypes, Feeders
<1> QED BY <1>1, <1>2 DEF GetNextRequest

LEMMA FreshIsUnused == Unused # {} => Fresh \in Queries /\ phase[Fresh] = "none"
BY DEF Fresh, Unused

\* A start, of the first query or after a yield's cleanup, is the only one.
LEMMA StartTypes ==
  ASSUME phase \in [Queries -> Phases], starting \in Queries \cup {NoQuery}, OneStart,
         NEW over \in SUBSET Queries, \A p \in over : ~Starting(p), StartSession(over)
  PROVE  /\ phase' \in [Queries -> Phases] /\ starting' \in Queries \cup {NoQuery}
         /\ OneStart'
         /\ \A p \in Queries :
              \/ p \notin over /\ phase'[p] = phase[p]
              \/ p \in over /\ phase'[p] = "over"
              \/ starting = NoQuery /\ p \notin over /\ phase[p] = "none" /\ phase'[p] = "building"
<1>1. CASE starting = NoQuery
  <2>1. /\ Fresh \in Queries /\ phase[Fresh] = "none" /\ starting' = Fresh
        /\ phase' = [p \in Queries |-> IF p \in over THEN "over"
                                       ELSE IF p = Fresh THEN "building" ELSE phase[p]]
    BY <1>1, FreshIsUnused DEF StartSession, MustStart
  <2>2. \A p \in Queries : ~Starting(p)
    BY <1>1, NamesAssumption DEF OneStart
  <2> HIDE DEF Fresh
  <2>3. phase' \in [Queries -> Phases]
    BY <2>1 DEF Phases
  <2>4. OneStart'
    BY <2>1, <2>2 DEF OneStart, Starting
  <2> QED BY <1>1, <2>1, <2>3, <2>4
<1>2. CASE starting # NoQuery
  <2>1. /\ starting' = starting
        /\ phase' = [p \in Queries |-> IF p \in over THEN "over" ELSE phase[p]]
    BY <1>2 DEF StartSession, MustStart
  <2>2. phase' \in [Queries -> Phases]
    BY <2>1 DEF Phases
  <2>3. OneStart'
    BY <2>1 DEF OneStart, Starting
  <2> QED BY <2>1, <2>2, <2>3
<1> QED BY <1>1, <1>2

\* What makes an iterable closed or keeps it where it is.
LEMMA RejectedTypes ==
  ASSUME QueryTypes, NEW pcs, RejectPendingRequests(pcs)
  PROVE  /\ feeder' \in [Queries -> Feeders] /\ asking' = NoQuery
         /\ \A q \in Queries : feeder'[q] = IF q = asking THEN "closed" ELSE feeder[q]
BY DEF RejectPendingRequests, Rejected, QueryTypes, Feeders

\* The loop over a query ends.
LEMMA CleanupKeeps ==
  ASSUME CallTypes, QueryTypes, ControlTypes, FlagTypes, QueueSound, OneStart,
         NEW q \in Queries, phase[q] = "live", EndLoop(q)
  PROVE  /\ CallTypes' /\ QueryTypes' /\ ControlTypes' /\ FlagTypes'
         /\ QueueSound' /\ OneStart'
         /\ phase'[q] = "over"
         /\ \A p \in Queries \ {q} : phase'[p] = phase[p] \/
              (phase[p] = "none" /\ phase'[p] = "building")
<1>1. /\ generator' = NoQuery /\ controlled' = {} /\ spent' = FALSE /\ aborted' = aborted
      /\ current' = NoRequest /\ yielding' = FALSE /\ restarter' = (restarter \/ Restarting)
      /\ UNCHANGED <<fed, turns, mode, timer, disposed>>
  BY DEF EndLoop, Cleanup, ResetSessionState, flags
<1>2. CASE Restarting
  <2>1. StartSession({q}) /\ {q} \in SUBSET Queries /\ \A p \in {q} : ~Starting(p)
    BY <1>2 DEF EndLoop, Cleanup, Starting
  <2>2. /\ phase' \in [Queries -> Phases] /\ starting' \in Queries \cup {NoQuery} /\ OneStart'
        /\ phase'[q] = "over"
        /\ \A p \in Queries \ {q} : phase'[p] = phase[p] \/
              (phase[p] = "none" /\ phase'[p] = "building")
    <3>1. phase \in [Queries -> Phases] /\ starting \in Queries \cup {NoQuery}
      BY DEF QueryTypes, ControlTypes
    <3>2. /\ phase' \in [Queries -> Phases] /\ starting' \in Queries \cup {NoQuery} /\ OneStart'
          /\ \A p \in Queries :
               \/ p \notin {q} /\ phase'[p] = phase[p]
               \/ p \in {q} /\ phase'[p] = "over"
               \/ starting = NoQuery /\ p \notin {q} /\ phase[p] = "none" /\ phase'[p] = "building"
      BY <2>1, <3>1, StartTypes
    <3> QED BY <3>2
  <2>3. pc' = pc /\ UNCHANGED <<queue, asking, feeder>>
    BY <1>2 DEF EndLoop, Cleanup, Restarting
  <2>4. CallTypes' /\ QueueSound'
    BY <2>3, KeepsQueue DEF CallTypes
  <2> QED BY <1>1, <2>2, <2>3, <2>4 DEF QueryTypes, ControlTypes, FlagTypes, Restarting
<1>3. CASE ~Restarting
  <2>1. /\ phase' = [p \in Queries |-> IF p \in {q} THEN "over" ELSE phase[p]]
        /\ starting' = starting
    BY <1>3 DEF EndLoop, Cleanup
  <2>2. phase' \in [Queries -> Phases] /\ OneStart'
    BY <2>1 DEF QueryTypes, Phases, OneStart, Starting
  <2>3. /\ CallTypes' /\ QueueSound'
        /\ feeder' \in [Queries -> Feeders] /\ asking' \in Queries \cup {NoQuery}
    <3>1. CASE yielding
      <4>1. pc' = pc /\ UNCHANGED <<queue, asking, feeder>>
        BY <3>1 DEF EndLoop, Cleanup
      <4> QED BY <4>1, KeepsQueue DEF CallTypes, QueryTypes
    <3>2. CASE ~yielding
      <4>1. RejectPendingRequests(pc) /\ pc \in [Requests -> PCs]
        BY <3>2 DEF EndLoop, Cleanup, CallTypes
      <4> QED BY <4>1, QueueRejected, RejectedTypes
    <3> QED BY <3>1, <3>2
  <2> QED BY <1>1, <1>3, <2>1, <2>2, <2>3 DEF QueryTypes, ControlTypes, FlagTypes
<1> QED BY <1>2, <1>3
------------------------------------------------------------------------------
(***************************************************************************)
(* Types, the queue and the start of sessions, whatever happens.           *)
(***************************************************************************)
SessionShape ==
  /\ CallTypes /\ QueryTypes /\ ControlTypes /\ FlagTypes
  /\ QueueSound /\ OneStart

LEMMA FeedShape ==
  ASSUME SessionShape, NEW q \in Queries, FirstPull(q) \/ Continue(q)
  PROVE  SessionShape'
<1>1. /\ UNCHANGED <<mode, pc, queue, startVars, abortVars, yielding, flags>>
      /\ GetNextRequest(q) \/ /\ feeder' = [feeder EXCEPT ![q] = "closed"]
                              /\ UNCHANGED <<fed, turns, current, asking>>
  BY DEF FirstPull, Continue
<1>2. /\ UNCHANGED <<mode, pc, queue, phase, starting, restarter, generator, controlled>>
      /\ UNCHANGED <<spent, aborted, yielding, timer, disposed>>
  BY <1>1 DEF startVars, abortVars, flags
<1>3. QueryTypes'
  <2>1. CASE GetNextRequest(q)
    BY <1>2, <2>1, NextRequestTypes DEF SessionShape
  <2>2. CASE feeder' = [feeder EXCEPT ![q] = "closed"] /\ UNCHANGED <<fed, turns, current, asking>>
    BY <1>2, <2>2 DEF SessionShape, QueryTypes, Feeders
  <2> QED BY <1>1, <2>1, <2>2
<1>4. CallTypes' /\ QueueSound'
  BY <1>2, KeepsQueue DEF SessionShape, CallTypes
<1> QED BY <1>2, <1>3, <1>4 DEF SessionShape, ControlTypes, FlagTypes, OneStart, Starting

LEMMA PushShape ==
  ASSUME SessionShape, NEW i \in Requests, pc[i] # "queued", Push(i),
         UNCHANGED <<mode, yielding, flags>>
  PROVE  SessionShape'
<1>1. /\ UNCHANGED <<mode, phase, starting, restarter, generator, controlled>>
      /\ UNCHANGED <<spent, aborted, yielding, timer, disposed>>
      /\ pc' = [pc EXCEPT ![i] = "queued"] /\ queue' = Append(queue, i) /\ asking' = NoQuery
  BY DEF Push, startVars, abortVars, flags
<1>2. QueryTypes'
  <2>1. CASE asking = NoQuery
    BY <1>1, <2>1 DEF Push, SessionShape, QueryTypes
  <2>2. CASE asking # NoQuery
    <3>1. asking \in Queries /\ Send(asking, i)
      BY <2>2 DEF Push, SessionShape, QueryTypes
    <3> QED BY <1>1, <3>1, SendTypes DEF SessionShape, QueryTypes
  <2> QED BY <2>1, <2>2
<1>3. CallTypes' /\ QueueSound'
  BY <1>1, PushQueue DEF SessionShape
<1> QED BY <1>1, <1>2, <1>3 DEF SessionShape, ControlTypes, FlagTypes, OneStart, Starting

LEMMA InvokeShape ==
  ASSUME SessionShape, NEW i \in Requests, Invoke(i)
  PROVE  SessionShape'
<1>1. /\ UNCHANGED <<mode, queue, phase, starting, restarter, feeder, fed, turns, current>>
      /\ UNCHANGED <<asking, generator, controlled, spent, aborted, yielding, disposed>>
      /\ pc[i] = "idle" /\ timer' = (disposed /\ timer)
  BY DEF Invoke, startVars, feedVars, abortVars
<1>2. \E p \in PCs \ {"queued"} : pc' = [pc EXCEPT ![i] = p]
  BY DEF Invoke, PCs
<1>3. CallTypes' /\ QueueSound'
  BY <1>1, <1>2, CallMoves DEF SessionShape
<1>4. timer' \in BOOLEAN
  BY <1>1
<1> QED BY <1>1, <1>3, <1>4
        DEF SessionShape, QueryTypes, ControlTypes, FlagTypes, OneStart, Starting

LEMMA CallShape ==
  ASSUME SessionShape, NEW i \in Requests, CallStep(i)
  PROVE  SessionShape'
<1>1. CASE Checked(i)
  <2>1. /\ UNCHANGED <<mode, queue, phase, starting, restarter, feeder, fed, turns, current>>
        /\ UNCHANGED <<asking, yielding, timer, disposed>>
        /\ pc[i] = "checking"
        /\ RestartSession \/ UNCHANGED <<generator, controlled, spent, aborted>>
    BY <1>1 DEF Checked, startVars, feedVars, abortVars, flags
  <2>2. \E p \in PCs \ {"queued"} : pc' = [pc EXCEPT ![i] = p]
    BY <1>1 DEF Checked, PCs
  <2>3. CallTypes' /\ QueueSound'
    BY <2>1, <2>2, CallMoves DEF SessionShape
  <2>4. ControlTypes' /\ spent' \in BOOLEAN
    BY <2>1 DEF SessionShape, ControlTypes, FlagTypes, RestartSession, Abort
  <2> QED BY <2>1, <2>3, <2>4 DEF SessionShape, QueryTypes, FlagTypes, OneStart, Starting
<1>2. CASE SwitchFails(i)
  <2>1. /\ UNCHANGED <<mode, queue, phase, starting, restarter, feeder, fed, turns, current>>
        /\ UNCHANGED <<asking, generator, controlled, spent, aborted, yielding, timer, disposed>>
        /\ pc[i] = "switching" /\ pc' = [pc EXCEPT ![i] = "failed"]
    BY <1>2 DEF SwitchFails, startVars, feedVars, abortVars, flags
  <2>2. CallTypes' /\ QueueSound'
    BY <2>1, CallMoves DEF SessionShape, PCs
  <2> QED BY <2>1, <2>2 DEF SessionShape, QueryTypes, ControlTypes, FlagTypes, OneStart, Starting
<1>3. CASE Proceed(i)
  <2>1. CASE Push(i)
    <3>1. pc[i] # "queued" /\ UNCHANGED <<mode, yielding, flags>>
      BY <1>3 DEF Proceed
    <3> QED BY <2>1, <3>1, PushShape
  <2>2. CASE ~Push(i)
    <3>1. /\ UNCHANGED <<mode, queue, restarter, feeder, fed, turns, current, asking>>
          /\ UNCHANGED <<generator, controlled, spent, aborted, yielding, timer, disposed>>
          /\ pc[i] # "queued" /\ pc' = [pc EXCEPT ![i] = "starting"]
          /\ StartSession({}) /\ {} \in SUBSET Queries /\ \A p \in {} : ~Starting(p)
      BY <1>3, <2>2 DEF Proceed, feedVars, abortVars, flags
    <3>2. phase \in [Queries -> Phases] /\ starting \in Queries \cup {NoQuery} /\ OneStart
      BY DEF SessionShape, QueryTypes, ControlTypes
    <3>3. phase' \in [Queries -> Phases] /\ starting' \in Queries \cup {NoQuery} /\ OneStart'
      BY <3>1, <3>2, StartTypes
    <3>4. CallTypes' /\ QueueSound'
      BY <3>1, CallMoves DEF SessionShape, PCs
    <3> QED BY <3>1, <3>3, <3>4 DEF SessionShape, QueryTypes, ControlTypes, FlagTypes
  <2> QED BY <2>1, <2>2
<1>4. CASE Resume(i)
  <2>1. pc[i] # "queued" /\ Push(i) /\ UNCHANGED <<mode, yielding, flags>>
    BY <1>4 DEF Resume, Resumable
  <2> QED BY <2>1, PushShape
<1> QED BY <1>1, <1>2, <1>3, <1>4 DEF CallStep

LEMMA StartShape ==
  ASSUME SessionShape, NEW q \in Queries, StartStep(q)
  PROVE  SessionShape'
<1>1. CASE BuildOptions(q) \/ QueryOpened(q)
  <2>1. /\ UNCHANGED <<mode, pc, queue, starting, restarter, feeder, fed, turns, current>>
        /\ UNCHANGED <<asking, spent, yielding, timer, disposed>>
        /\ \/ phase[q] = "building" /\ phase' = [phase EXCEPT ![q] = "opening"]
           \/ phase[q] = "opening" /\ phase' = [phase EXCEPT ![q] = "open"]
    BY <1>1 DEF BuildOptions, QueryOpened, feedVars, flags
  <2>2. generator' \in {generator, q} /\ controlled' \in {controlled, controlled \cup {q}}
        /\ aborted' \in {aborted, aborted \cup {q}}
    BY <1>1 DEF BuildOptions, QueryOpened
  <2>3. CallTypes' /\ QueueSound'
    BY <2>1, KeepsQueue DEF SessionShape, CallTypes
  <2>4. phase' \in [Queries -> Phases] /\ OneStart'
    BY <2>1 DEF SessionShape, QueryTypes, Phases, OneStart, Starting
  <2> QED BY <2>1, <2>2, <2>3, <2>4 DEF SessionShape, QueryTypes, ControlTypes, FlagTypes
<1>2. CASE SnapshotTaken(q)
  <2>1. /\ UNCHANGED <<mode, fed, turns, timer, disposed>>
        /\ starting' = NoQuery /\ restarter' = FALSE
        /\ phase[q] = "open"
        /\ \E p \in {"live", "unread"} : phase' = [phase EXCEPT ![q] = p]
        /\ current' \in {current, NoRequest}
        /\ generator' \in {generator, NoQuery} /\ controlled' \in {controlled, {}}
        /\ spent' \in {spent, FALSE} /\ aborted' = aborted /\ yielding' \in {yielding, FALSE}
    BY <1>2 DEF SnapshotTaken, ResetSessionState, feedVars, abortVars, flags
  <2>2. \/ UNCHANGED <<pc, queue, asking, feeder>>
        \/ RejectPendingRequests(pc)
    BY <1>2 DEF SnapshotTaken, feedVars
  <2>3. /\ CallTypes' /\ QueueSound'
        /\ feeder' \in [Queries -> Feeders] /\ asking' \in Queries \cup {NoQuery}
    <3>1. CASE UNCHANGED <<pc, queue, asking, feeder>>
      BY <3>1, KeepsQueue DEF SessionShape, CallTypes, QueryTypes
    <3>2. CASE RejectPendingRequests(pc)
      <4>1. pc \in [Requests -> PCs]
        BY DEF SessionShape, CallTypes
      <4> QED BY <3>2, <4>1, QueueRejected, RejectedTypes DEF SessionShape
    <3> QED BY <2>2, <3>1, <3>2
  <2>4. phase' \in [Queries -> Phases] /\ OneStart'
    BY <2>1 DEF SessionShape, QueryTypes, Phases, OneStart, Starting
  <2> QED BY <2>1, <2>3, <2>4 DEF SessionShape, QueryTypes, ControlTypes, FlagTypes
<1>3. CASE StartFails(q)
  <2> DEFINE pcs == [i \in Requests |-> IF pc[i] = "starting" THEN "failed" ELSE pc[i]]
  <2>1. /\ UNCHANGED <<mode, current, fed, turns, generator, controlled, spent, aborted>>
        /\ UNCHANGED <<yielding, timer, disposed>>
        /\ starting' = NoQuery /\ restarter' = FALSE
        /\ phase[q] \in {"building", "opening"} /\ phase' = [phase EXCEPT ![q] = "over"]
        /\ \/ RejectPendingRequests(pcs)
           \/ pc' = pcs /\ UNCHANGED <<queue, asking, feeder>>
    BY <1>3 DEF StartFails, abortVars, flags
  <2>2. /\ pcs \in [Requests -> PCs]
        /\ \A i \in Requests : pcs[i] = "queued" <=> pc[i] = "queued"
    BY DEF SessionShape, CallTypes, PCs
  <2> HIDE DEF pcs
  <2>3. /\ CallTypes' /\ QueueSound'
        /\ feeder' \in [Queries -> Feeders] /\ asking' \in Queries \cup {NoQuery}
    <3>1. CASE pc' = pcs /\ UNCHANGED <<queue, asking, feeder>>
      BY <2>2, <3>1, KeepsQueue DEF SessionShape, CallTypes, QueryTypes
    <3>2. CASE RejectPendingRequests(pcs)
      BY <2>2, <3>2, QueueRejected, RejectedTypes DEF SessionShape
    <3> QED BY <2>1, <3>1, <3>2
  <2>4. phase' \in [Queries -> Phases] /\ OneStart'
    BY <2>1 DEF SessionShape, QueryTypes, Phases, OneStart, Starting
  <2> QED BY <2>1, <2>3, <2>4 DEF SessionShape, QueryTypes, ControlTypes, FlagTypes
<1> QED BY <1>1, <1>2, <1>3 DEF StartStep

\* A message of a live query.
LEMMA MessageShape ==
  ASSUME SessionShape, NEW q \in Queries, YieldSeen(q) \/ Result(q)
  PROVE  SessionShape'
<1>1. turns[q] # <<>> /\ UNCHANGED <<mode, phase, starting, restarter, feeder, fed, asking>>
  BY DEF YieldSeen, Result, Message, startVars
<1>2. turns' \in [Queries -> Seq(Requests)]
  <2>1. Tail(turns[q]) \in Seq(Requests)
    BY <1>1 DEF SessionShape, QueryTypes
  <2>2. turns' \in {turns, [turns EXCEPT ![q] = Tail(turns[q])]}
    BY DEF YieldSeen, Result
  <2> QED BY <2>1, <2>2 DEF SessionShape, QueryTypes
<1>3. CallTypes' /\ QueueSound'
  <2>1. CompleteHead \/ UNCHANGED <<pc, queue>>
    BY DEF YieldSeen, Result
  <2> QED BY <2>1, HeadCompletes, KeepsQueue DEF SessionShape, CallTypes
<1>4. ControlTypes' /\ FlagTypes' /\ current' = NoRequest
  BY <1>1 DEF YieldSeen, Result, Abort, abortVars, flags, SessionShape, ControlTypes, FlagTypes
<1> QED BY <1>1, <1>2, <1>3, <1>4 DEF SessionShape, QueryTypes, OneStart, Starting

LEMMA EndShape ==
  ASSUME SessionShape, NEW q \in Queries, CancelSeen(q) \/ QueryEnds(q)
  PROVE  SessionShape'
<1>1. phase[q] = "live" /\ EndLoop(q)
  BY DEF CancelSeen, QueryEnds, Message
<1> QED BY <1>1, CleanupKeeps DEF SessionShape

LEMMA StopShape ==
  ASSUME SessionShape, IdleTimeout \/ Dispose
  PROVE  SessionShape'
<1>1. CASE IdleTimeout
  <2>1. /\ UNCHANGED <<mode, pc, queue, phase, starting, restarter, feeder, fed, turns, current>>
        /\ UNCHANGED <<asking, yielding, disposed>> /\ timer' = FALSE /\ RestartSession
    BY <1>1 DEF IdleTimeout, startVars, feedVars
  <2>2. CallTypes' /\ QueueSound'
    BY <2>1, KeepsQueue DEF SessionShape, CallTypes
  <2> QED BY <2>1, <2>2 DEF SessionShape, QueryTypes, ControlTypes, FlagTypes, OneStart,
                            Starting, RestartSession, Abort
<1>2. CASE Dispose
  <2>1. /\ UNCHANGED <<mode, phase, starting, restarter, fed, turns, current, generator, yielding>>
        /\ disposed' = TRUE /\ timer' = FALSE /\ spent' = TRUE
        /\ controlled' = {} /\ aborted' = aborted \cup controlled
        /\ RejectPendingRequests(pc) /\ pc \in [Requests -> PCs]
    BY <1>2 DEF Dispose, startVars, Abort, SessionShape, CallTypes
  <2>2. CallTypes' /\ QueueSound'
    BY <2>1, QueueRejected DEF SessionShape
  <2>3. feeder' \in [Queries -> Feeders] /\ asking' = NoQuery
    BY <2>1, RejectedTypes DEF SessionShape
  <2> QED BY <2>1, <2>2, <2>3 DEF SessionShape, QueryTypes, ControlTypes, FlagTypes, OneStart, Starting
<1> QED BY <1>1, <1>2

LEMMA SessionShapeInit == Init => SessionShape
<1> SUFFICES ASSUME Init PROVE SessionShape
  OBVIOUS
<1>1. CallTypes /\ QueueSound
  BY DEF Init, CallTypes, QueueSound, PCs
<1>2. QueryTypes
  <2>1. /\ phase = [q \in Queries |-> "none"] /\ feeder = [q \in Queries |-> "new"]
        /\ fed = [q \in Queries |-> NoRequest] /\ turns = [q \in Queries |-> <<>>]
        /\ asking = NoQuery /\ current = NoRequest
    BY DEF Init
  <2>2. turns \in [Queries -> Seq(Requests)]
    BY <2>1
  <2> QED BY <2>1, <2>2 DEF QueryTypes, Phases, Feeders
<1>4. ControlTypes /\ FlagTypes
  BY DEF Init, ControlTypes, FlagTypes
<1>3. OneStart
  BY DEF Init, OneStart, Starting
<1> QED BY <1>1, <1>2, <1>3, <1>4 DEF SessionShape

LEMMA SessionShapeStep == SessionShape /\ [Next]_vars => SessionShape'
<1> SUFFICES ASSUME SessionShape, [Next]_vars PROVE SessionShape'
  OBVIOUS
<1>1. CASE UNCHANGED vars
  <2>1. /\ UNCHANGED <<mode, pc, queue, phase, starting, restarter, feeder, fed, turns, current>>
        /\ UNCHANGED <<asking, generator, controlled, spent, aborted, yielding, timer, disposed>>
    BY <1>1 DEF vars, startVars, feedVars, abortVars, flags
  <2>2. CallTypes' /\ QueueSound'
    BY <2>1, KeepsQueue DEF SessionShape, CallTypes
  <2> QED BY <2>1, <2>2 DEF SessionShape, QueryTypes, ControlTypes, FlagTypes, OneStart, Starting
<1>2. CASE \E i \in Requests : Invoke(i) \/ CallStep(i)
  BY <1>2, InvokeShape, CallShape
<1>3. CASE \E q \in Queries :
             \/ StartStep(q) \/ FirstPull(q) \/ Continue(q)
             \/ CancelSeen(q) \/ YieldSeen(q) \/ Result(q) \/ QueryEnds(q)
  BY <1>3, StartShape, FeedShape, EndShape, MessageShape
<1>4. CASE IdleTimeout \/ Dispose
  BY <1>4, StopShape
<1> QED BY <1>1, <1>2, <1>3, <1>4 DEF Next

\* The type invariant, whatever disturbs the session.
THEOREM SessionTypes == Spec => []SessionTypeOK
<1>1. SessionShape => SessionTypeOK
  BY TypeParts DEF SessionShape
<1> QED BY <1>1, SessionShapeInit, SessionShapeStep, PTL DEF Spec

\* No session is started while another is being started: neither the restart after
\* a yield nor a call that comes meanwhile makes a second query.
THEOREM OneSessionStarts == Spec => []OneStart
<1>1. SessionShape => OneStart
  BY DEF SessionShape
<1> QED BY <1>1, SessionShapeInit, SessionShapeStep, PTL DEF Spec

\* A queued request stays in the queue, once, until its promise is settled.
LEMMA QueueCounts ==
  ASSUME CallTypes, QueueSound
  PROVE  QueueHoldsUnsettled
<1>1. InQueue = {i \in Requests : Queued(i)}
  BY DEF CallTypes, QueueSound, InQueue, Queued
<1>2. /\ Len(queue) \in Nat /\ DOMAIN queue = 1 .. Len(queue)
      /\ queue \in [1 .. Len(queue) -> InQueue]
  <2>1. /\ Len(queue) \in Nat /\ DOMAIN queue = 1 .. Len(queue)
        /\ queue \in [1 .. Len(queue) -> Requests]
    BY DEF CallTypes
  <2> QED BY <2>1 DEF InQueue
<1>3. queue \in Bijection(1 .. Len(queue), InQueue)
  BY <1>2 DEF QueueSound, Bijection, Injection, Surjection, IsInjective, InQueue
<1>4. ExistsBijection(1 .. Len(queue), InQueue)
  BY <1>3 DEF ExistsBijection
<1>5. IsFiniteSet(1 .. Len(queue)) /\ Cardinality(1 .. Len(queue)) = Len(queue)
  BY <1>2, FS_Interval
<1>6. Cardinality(InQueue) = Len(queue)
  BY <1>4, <1>5, FS_Bijection
<1> QED BY <1>1, <1>6 DEF QueueHoldsUnsettled

\* Whatever ends a session, a request that was queued is in the queue, once, until it
\* is settled.
THEOREM NoRequestIsLost == Spec => []QueueHoldsUnsettled
<1>1. SessionShape => QueueHoldsUnsettled
  BY QueueCounts DEF SessionShape
<1> QED BY <1>1, SessionShapeInit, SessionShapeStep, PTL DEF Spec
------------------------------------------------------------------------------
(***************************************************************************)
(* Who can be stopped, unless the session is reloaded.                     *)
(***************************************************************************)
\* A step that touches neither queries nor their controllers, except to abort.
LEMMA KeepsGenerator ==
  ASSUME NotReloaded, GeneratorRuns, RunningAbortable,
         UNCHANGED <<mode, phase, generator>>,
         controlled \cup aborted \subseteq controlled' \cup aborted'
  PROVE  GeneratorRuns' /\ RunningAbortable'
<1>1. NotReloaded'
  BY DEF NotReloaded
<1>2. GeneratorRuns'
  BY <1>1 DEF GeneratorRuns
<1>3. RunningAbortable'
  BY <1>1 DEF RunningAbortable
<1> QED BY <1>2, <1>3

\* The loop of a query is the only one, and the query the only one that runs.
LEMMA EndGenerator ==
  ASSUME SessionShape, NotReloaded, GeneratorRuns, RunningAbortable,
         NEW q \in Queries, phase[q] = "live", EndLoop(q)
  PROVE  GeneratorRuns' /\ RunningAbortable'
<1>1. /\ generator' = NoQuery
      /\ phase'[q] = "over"
      /\ \A p \in Queries \ {q} : phase'[p] = phase[p] \/
            (phase[p] = "none" /\ phase'[p] = "building")
  BY CleanupKeeps DEF SessionShape, EndLoop, Cleanup, ResetSessionState
<1>2. generator = q /\ q # NoQuery
  BY NamesAssumption DEF GeneratorRuns
<1>3. \A p \in Queries \ {q} : phase[p] \notin {"opening", "open", "live", "unread"}
  BY <1>2 DEF GeneratorRuns
<1>4. \A p \in Queries : phase'[p] \notin {"opening", "open", "live", "unread"}
  BY <1>1, <1>3
<1> QED BY <1>1, <1>4 DEF GeneratorRuns, RunningAbortable

LEMMA StartGenerator ==
  ASSUME SessionShape, NotReloaded, GeneratorRuns, RunningAbortable,
         NEW q \in Queries, StartStep(q)
  PROVE  GeneratorRuns' /\ RunningAbortable'
<1> mode' = mode
  BY DEF StartStep, BuildOptions, QueryOpened, SnapshotTaken, StartFails
<1>1. CASE BuildOptions(q)
  <2>1. /\ phase[q] = "building" /\ phase' = [phase EXCEPT ![q] = "opening"]
        /\ generator' = generator /\ q \in controlled' \cup aborted'
        /\ controlled \subseteq controlled' /\ aborted \subseteq aborted'
    BY <1>1 DEF BuildOptions
  <2>2. GeneratorRuns'
    BY <2>1 DEF GeneratorRuns, NotReloaded, SessionShape, QueryTypes
  <2>3. RunningAbortable'
    BY <2>1 DEF RunningAbortable, NotReloaded, SessionShape, QueryTypes
  <2> QED BY <2>2, <2>3
<1>2. CASE QueryOpened(q)
  <2>1. /\ phase[q] = "opening" /\ phase' = [phase EXCEPT ![q] = "open"]
        /\ generator' = q /\ UNCHANGED <<controlled, aborted>>
    BY <1>2 DEF QueryOpened
  <2>2. generator = NoQuery /\ starting = q
    BY <2>1 DEF GeneratorRuns, SessionShape, OneStart, Starting
  <2>3. \A p \in Queries \ {q} : phase[p] \notin {"building", "opening", "open", "live"}
    BY <2>2, NamesAssumption DEF GeneratorRuns, SessionShape, OneStart, Starting
  <2>4. GeneratorRuns'
    BY <2>1, <2>3 DEF GeneratorRuns, NotReloaded, SessionShape, QueryTypes
  <2>5. RunningAbortable'
    BY <2>1 DEF RunningAbortable, NotReloaded, SessionShape, QueryTypes
  <2> QED BY <2>4, <2>5
<1>3. CASE SnapshotTaken(q)
  <2>1. phase[q] = "open" /\ generator = q
    BY <1>3 DEF SnapshotTaken, GeneratorRuns
  <2>2. /\ phase' = [phase EXCEPT ![q] = "live"]
        /\ UNCHANGED <<generator, controlled, aborted>>
    BY <1>3, <2>1 DEF SnapshotTaken, abortVars
  <2>3. GeneratorRuns'
    BY <2>1, <2>2 DEF GeneratorRuns, NotReloaded, SessionShape, QueryTypes
  <2>4. RunningAbortable'
    BY <2>1, <2>2 DEF RunningAbortable, NotReloaded, SessionShape, QueryTypes
  <2> QED BY <2>3, <2>4
<1>4. CASE StartFails(q)
  <2>1. /\ phase' = [phase EXCEPT ![q] = "over"]
        /\ UNCHANGED <<generator, controlled, aborted>>
    BY <1>4 DEF StartFails, abortVars
  <2>2. GeneratorRuns'
    BY <2>1 DEF GeneratorRuns, NotReloaded, SessionShape, QueryTypes
  <2>3. RunningAbortable'
    BY <2>1 DEF RunningAbortable, NotReloaded, SessionShape, QueryTypes
  <2> QED BY <2>2, <2>3
<1> QED BY <1>1, <1>2, <1>3, <1>4 DEF StartStep

\* The calls: only the start of a session changes what runs.
LEMMA CallGenerator ==
  ASSUME SessionShape, NotReloaded, GeneratorRuns, RunningAbortable,
         NEW i \in Requests, Invoke(i) \/ CallStep(i)
  PROVE  GeneratorRuns' /\ RunningAbortable'
<1>1. CASE Invoke(i) \/ SwitchFails(i) \/ Resume(i)
  <2>1. UNCHANGED <<mode, phase, generator, controlled, aborted>>
    BY <1>1 DEF Invoke, SwitchFails, Resume, Push, startVars, abortVars
  <2> QED BY <2>1, KeepsGenerator
<1>2. CASE Checked(i)
  <2>1. ~HasChanges
    BY DEF NotReloaded, HasChanges
  <2>2. UNCHANGED <<mode, phase, generator, controlled, aborted>>
    BY <1>2, <2>1 DEF Checked, startVars, abortVars
  <2> QED BY <2>2, KeepsGenerator
<1>3. CASE Proceed(i)
  <2>1. CASE Push(i)
    <3>1. UNCHANGED <<mode, phase, generator, controlled, aborted>>
      BY <1>3, <2>1 DEF Proceed, Push, startVars, abortVars
    <3> QED BY <3>1, KeepsGenerator
  <2>2. CASE ~Push(i)
    <3>1. /\ generator = NoQuery /\ UNCHANGED <<mode, generator, controlled, aborted>>
          /\ StartSession({}) /\ {} \in SUBSET Queries /\ \A p \in {} : ~Starting(p)
      BY <1>3, <2>2 DEF Proceed, abortVars
    <3>2. phase \in [Queries -> Phases] /\ starting \in Queries \cup {NoQuery} /\ OneStart
      BY DEF SessionShape, QueryTypes, ControlTypes
    <3>3. \A p \in Queries : phase'[p] = phase[p] \/ phase'[p] = "building"
      BY <3>1, <3>2, StartTypes
    <3>4. \A p \in Queries : phase[p] \notin {"open", "live"}
      BY <3>1, NamesAssumption DEF GeneratorRuns
    <3>5. NotReloaded'
      BY <3>1 DEF NotReloaded
    <3>6. GeneratorRuns'
      BY <3>1, <3>3, <3>4, <3>5 DEF GeneratorRuns
    <3>7. RunningAbortable'
      BY <3>1, <3>3, <3>5 DEF RunningAbortable
    <3> QED BY <3>6, <3>7
  <2> QED BY <2>1, <2>2
<1> QED BY <1>1, <1>2, <1>3 DEF CallStep

LEMMA ModeIsFixed == [Next]_vars => mode' = mode
BY DEF Next, vars, Invoke, CallStep, Checked, SwitchFails, Proceed, Resume, StartStep,
       BuildOptions, QueryOpened, SnapshotTaken, StartFails, FirstPull, Continue,
       CancelSeen, QueryEnds, EndLoop, YieldSeen, Result, IdleTimeout, Dispose

LEMMA GeneratorStep ==
  SessionShape /\ GeneratorRuns /\ RunningAbortable /\ [Next]_vars
    => GeneratorRuns' /\ RunningAbortable'
<1> SUFFICES ASSUME SessionShape, GeneratorRuns, RunningAbortable, [Next]_vars
             PROVE  GeneratorRuns' /\ RunningAbortable'
  OBVIOUS
<1>1. mode' = mode
  BY ModeIsFixed
<1>2. CASE ~NotReloaded
  BY <1>1, <1>2 DEF NotReloaded, GeneratorRuns, RunningAbortable
<1>3. CASE NotReloaded
  <2>1. CASE UNCHANGED vars
    BY <1>3, <2>1, KeepsGenerator DEF vars, startVars, abortVars
  <2>2. CASE \E i \in Requests : Invoke(i) \/ CallStep(i)
    BY <1>3, <2>2, CallGenerator
  <2>3. ASSUME NEW q \in Queries, StartStep(q) PROVE GeneratorRuns' /\ RunningAbortable'
    BY <1>3, <2>3, StartGenerator
  <2>4. ASSUME NEW q \in Queries, FirstPull(q) \/ Continue(q) \/ YieldSeen(q) \/ Result(q)
        PROVE  GeneratorRuns' /\ RunningAbortable'
    <3>1. UNCHANGED <<phase, generator>> /\ controlled \cup aborted \subseteq controlled' \cup aborted'
      BY <2>4 DEF FirstPull, Continue, YieldSeen, Result, Abort, startVars, abortVars
    <3> QED BY <1>1, <1>3, <3>1, KeepsGenerator
  <2>5. ASSUME NEW q \in Queries, CancelSeen(q) \/ QueryEnds(q)
        PROVE  GeneratorRuns' /\ RunningAbortable'
    <3>1. phase[q] = "live" /\ EndLoop(q)
      BY <2>5 DEF CancelSeen, QueryEnds, Message
    <3> QED BY <1>3, <3>1, EndGenerator
  <2>6. CASE IdleTimeout \/ Dispose
    <3>1. ~IdleTimeout
      BY <1>3 DEF NotReloaded, IdleTimeout
    <3>2. UNCHANGED <<phase, generator>> /\ controlled \cup aborted \subseteq controlled' \cup aborted'
      BY <2>6, <3>1 DEF Dispose, Abort, startVars
    <3> QED BY <1>1, <1>3, <3>2, KeepsGenerator
  <2> QED BY <2>1, <2>2, <2>3, <2>4, <2>5, <2>6 DEF Next
<1> QED BY <1>2, <1>3

LEMMA GeneratorInit == Init => GeneratorRuns /\ RunningAbortable
BY DEF Init, GeneratorRuns, RunningAbortable

\* As long as nothing reloads the session, interrupts, failures and dispose leave no
\* query running that neither was aborted nor can be.
THEOREM NoQueryIsLost == Spec => []RunningAbortable
<1>1. Init => SessionShape /\ GeneratorRuns /\ RunningAbortable
  BY SessionShapeInit, GeneratorInit
<1>2. /\ SessionShape /\ GeneratorRuns /\ RunningAbortable /\ [Next]_vars
      => (SessionShape /\ GeneratorRuns /\ RunningAbortable)'
  BY SessionShapeStep, GeneratorStep
<1> QED BY <1>1, <1>2, PTL DEF Spec
------------------------------------------------------------------------------
(***************************************************************************)
(* Whoever is queued is queued for somebody.                               *)
(***************************************************************************)
Guarded == SessionShape /\ NotReloaded /\ GeneratorRuns /\ RunningAbortable
Reader ==
  /\ queue # <<>> => generator # NoQuery \/ restarter
  /\ restarter => starting # NoQuery
  /\ starting # NoQuery => Starting(starting)
  /\ generator # NoQuery => phase[generator] \in {"open", "live"}
  /\ yielding => generator # NoQuery /\ generator \in aborted
  /\ \A i \in Requests : Resumable(i) => generator # NoQuery

LEMMA ReaderFacts ==
  ASSUME Guarded, Reader
  PROVE  /\ ~HasChanges
         /\ \A p, q \in Queries : Runs(p) /\ Runs(q) => p = q
         /\ \A q \in Queries : Runs(q) => generator = q /\ q # NoQuery
         /\ \A q \in Queries : phase[q] \in {"building", "opening"} =>
              generator = NoQuery /\ starting = q /\ ~yielding
         /\ \A q \in Queries : phase[q] = "live" => starting = NoQuery /\ restarter = FALSE
         /\ \A q \in Queries : phase[q] # "unread"
         /\ starting # NoQuery => starting \in Queries
         /\ generator # NoQuery => generator \in Queries
<1>1. ~HasChanges
  BY DEF Guarded, NotReloaded, HasChanges
<1>2. \A q \in Queries : Runs(q) => generator = q /\ q # NoQuery
  BY NamesAssumption DEF Guarded, GeneratorRuns, Runs
<1>3. \A q \in Queries : phase[q] \in {"building", "opening"} =>
        generator = NoQuery /\ starting = q /\ ~yielding
  BY DEF Guarded, GeneratorRuns, SessionShape, OneStart, Starting, Reader
<1>4. /\ starting # NoQuery => starting \in Queries
      /\ generator # NoQuery => generator \in Queries
  BY DEF Guarded, SessionShape, ControlTypes
<1>5. ASSUME NEW q \in Queries, phase[q] = "live" PROVE starting = NoQuery /\ restarter = FALSE
  <2>1. generator = q /\ q # NoQuery
    BY <1>2, <1>5 DEF Runs
  <2>2. ASSUME starting # NoQuery PROVE FALSE
    <3>1. starting \in Queries /\ Starting(starting)
      BY <1>4, <2>2 DEF Reader
    <3>2. phase[starting] = "open"
      BY <1>3, <2>1, <3>1 DEF Starting
    <3>3. starting = q
      BY <1>2, <2>1, <3>1, <3>2 DEF Runs
    <3> QED BY <1>5, <3>2, <3>3
  <2>3. starting = NoQuery
    BY <2>2
  <2> QED BY <2>3 DEF Reader, Guarded, SessionShape, FlagTypes
<1> QED BY <1>1, <1>2, <1>3, <1>4, <1>5 DEF Guarded, GeneratorRuns

\* A step that starts and ends no query and lets no call begin to wait for a start.
LEMMA KeepsReader ==
  ASSUME Guarded, Reader,
         UNCHANGED <<phase, generator, starting, restarter>>,
         aborted \subseteq aborted', yielding' => yielding \/ (generator # NoQuery /\ generator \in aborted'),
         queue' # <<>> => queue # <<>> \/ generator # NoQuery,
         \A i \in Requests : pc'[i] = "starting" => pc[i] = "starting"
  PROVE  Reader'
BY DEF Reader, Starting, Resumable

LEMMA CallReader ==
  ASSUME Guarded, Reader, NEW i \in Requests, Invoke(i) \/ CallStep(i)
  PROVE  Reader'
<1> pc \in [Requests -> PCs]
  BY DEF Guarded, SessionShape, CallTypes
<1>1. CASE Invoke(i) \/ Checked(i) \/ SwitchFails(i)
  <2>1. UNCHANGED <<phase, generator, starting, restarter, aborted, yielding, queue>>
    BY <1>1, ReaderFacts DEF Invoke, Checked, SwitchFails, startVars, abortVars
  <2>2. \E p \in PCs \ {"starting"} : pc' = [pc EXCEPT ![i] = p]
    BY <1>1 DEF Invoke, Checked, SwitchFails, PCs
  <2>3. \A j \in Requests : pc'[j] = "starting" => pc[j] = "starting"
    BY <2>2
  <2> QED BY <2>1, <2>3, KeepsReader
<1>2. CASE Resume(i) \/ (Proceed(i) /\ Push(i) /\ generator # NoQuery)
  <2>1. /\ UNCHANGED <<phase, generator, starting, restarter, aborted, yielding>>
        /\ pc' = [pc EXCEPT ![i] = "queued"]
    BY <1>2 DEF Resume, Proceed, Push, startVars, abortVars
  <2>2. generator # NoQuery
    BY <1>2 DEF Resume, Reader
  <2>3. \A j \in Requests : pc'[j] = "starting" => pc[j] = "starting"
    BY <2>1
  <2> QED BY <2>1, <2>2, <2>3, KeepsReader
<1>3. CASE Proceed(i) /\ generator = NoQuery
  <2>1. /\ UNCHANGED <<queue, restarter, generator, aborted, yielding>>
        /\ StartSession({}) /\ {} \in SUBSET Queries /\ \A p \in {} : ~Starting(p)
    BY <1>3 DEF Proceed, abortVars
  <2>2. phase \in [Queries -> Phases] /\ starting \in Queries \cup {NoQuery} /\ OneStart
    BY DEF Guarded, SessionShape, QueryTypes, ControlTypes
  <2>3. starting' # NoQuery /\ Starting(starting)'
    <3>1. CASE starting = NoQuery
      <4>1. Fresh \in Queries /\ starting' = Fresh /\ phase'[Fresh] = "building"
        BY <2>1, <3>1, FreshIsUnused DEF StartSession, MustStart
      <4> QED BY <4>1, NamesAssumption DEF Starting
    <3>2. CASE starting # NoQuery
      <4>1. starting' = starting /\ phase' = [q \in Queries |-> phase[q]] /\ starting \in Queries
        BY <2>1, <2>2, <3>2 DEF StartSession, MustStart
      <4> QED BY <3>2, <4>1 DEF Reader, Starting
    <3> QED BY <3>1, <3>2
  <2>4. \A j \in Requests : ~Resumable(j)'
    BY <2>3 DEF Resumable
  <2> QED BY <1>3, <2>1, <2>3, <2>4 DEF Reader
<1> QED BY <1>1, <1>2, <1>3 DEF CallStep, Proceed

LEMMA StartReader ==
  ASSUME Guarded, Reader, NEW q \in Queries, StartStep(q)
  PROVE  Reader'
<1>1. CASE BuildOptions(q)
  <2>1. /\ UNCHANGED <<pc, queue, starting, restarter, generator, yielding>>
        /\ phase[q] = "building" /\ phase' = [phase EXCEPT ![q] = "opening"]
    BY <1>1 DEF BuildOptions
  <2>2. phase'[q] = "opening" /\ generator = NoQuery /\ starting = q /\ ~yielding
    BY <2>1, ReaderFacts DEF Guarded, SessionShape, QueryTypes
  <2> QED BY <2>1, <2>2 DEF Reader, Starting, Resumable
<1>2. CASE QueryOpened(q)
  <2>1. /\ UNCHANGED <<pc, queue, starting, restarter, yielding>> /\ generator' = q
        /\ phase[q] = "opening" /\ phase' = [phase EXCEPT ![q] = "open"]
    BY <1>2 DEF QueryOpened
  <2>2. phase'[q] = "open" /\ starting = q /\ ~yielding /\ q # NoQuery
    BY <2>1, ReaderFacts, NamesAssumption DEF Guarded, SessionShape, QueryTypes
  <2> QED BY <2>1, <2>2 DEF Reader, Starting, Resumable
<1>3. CASE SnapshotTaken(q)
  <2>1. phase[q] = "open" /\ generator = q /\ q # NoQuery
    BY <1>3, ReaderFacts DEF SnapshotTaken, Runs
  <2>2. /\ UNCHANGED <<pc, queue, generator, aborted, yielding>>
        /\ starting' = NoQuery /\ restarter' = FALSE /\ phase' = [phase EXCEPT ![q] = "live"]
    BY <1>3, <2>1 DEF SnapshotTaken, abortVars
  <2>3. phase'[q] = "live"
    BY <2>2 DEF Guarded, SessionShape, QueryTypes
  <2> QED BY <2>1, <2>2, <2>3 DEF Reader
<1>4. CASE StartFails(q)
  <2> DEFINE pcs == [i \in Requests |-> IF pc[i] = "starting" THEN "failed" ELSE pc[i]]
  <2>1. /\ UNCHANGED <<generator, yielding>> /\ starting' = NoQuery /\ restarter' = FALSE
        /\ phase[q] \in {"building", "opening"}
        /\ \/ restarter /\ RejectPendingRequests(pcs)
           \/ ~restarter /\ pc' = pcs /\ UNCHANGED queue
    BY <1>4 DEF StartFails, abortVars
  <2>2. generator = NoQuery /\ ~yielding
    BY <2>1, ReaderFacts
  <2>3. queue' = <<>>
    BY <2>1, <2>2 DEF Reader, RejectPendingRequests
  <2>4. \A i \in Requests : pc'[i] # "starting"
    BY <2>1 DEF RejectPendingRequests
  <2> QED BY <2>1, <2>2, <2>3, <2>4 DEF Reader, Resumable
<1> QED BY <1>1, <1>2, <1>3, <1>4 DEF StartStep

LEMMA EndReader ==
  ASSUME Guarded, Reader, NEW q \in Queries, phase[q] = "live", Quiet, EndLoop(q)
  PROVE  Reader'
<1>1. starting = NoQuery /\ restarter = FALSE
  BY ReaderFacts
<1>2. generator' = NoQuery /\ yielding' = FALSE /\ restarter' = Restarting
  BY <1>1 DEF EndLoop, Cleanup, ResetSessionState, Restarting
<1>3. \A i \in Requests : pc'[i] = "starting" => pc[i] = "starting"
  BY DEF EndLoop, Cleanup, RejectPendingRequests
<1>4. \A i \in Requests : pc'[i] # "starting"
  BY <1>1, <1>3 DEF Quiet, Resumable
<1>5. CASE Restarting
  <2>1. StartSession({q})
    BY <1>5 DEF EndLoop, Cleanup
  <2>2. Fresh \in Queries /\ phase[Fresh] = "none" /\ starting' = Fresh
    BY <1>1, <2>1, FreshIsUnused DEF StartSession, MustStart
  <2>3. phase'[Fresh] = "building"
    BY <1>1, <2>1, <2>2 DEF StartSession, MustStart
  <2> QED BY <1>2, <1>4, <1>5, <2>2, <2>3, NamesAssumption DEF Reader, Starting, Resumable
<1>6. CASE ~Restarting
  <2>1. starting' = NoQuery
    BY <1>1, <1>6 DEF EndLoop, Cleanup
  <2>2. queue' = <<>>
    BY <1>6 DEF EndLoop, Cleanup, Restarting, RejectPendingRequests
  <2> QED BY <1>2, <1>4, <1>6, <2>1, <2>2 DEF Reader, Resumable
<1> QED BY <1>5, <1>6

LEMMA MessageReader ==
  ASSUME Guarded, Reader, NEW q \in Queries, YieldSeen(q) \/ Result(q)
  PROVE  Reader'
<1>1. phase[q] = "live" /\ UNCHANGED <<phase, generator, starting, restarter>>
  BY DEF YieldSeen, Result, Message, startVars, abortVars
<1>2. generator = q /\ q # NoQuery
  BY <1>1, ReaderFacts DEF Runs
<1>3. /\ aborted \subseteq aborted'
      /\ yielding' => yielding \/ generator \in aborted'
  <2>1. CASE YieldSeen(q)
    BY <1>1, <1>2, <2>1 DEF YieldSeen, Abort, Guarded, RunningAbortable
  <2>2. CASE Result(q)
    BY <2>2 DEF Result, abortVars
  <2> QED BY <2>1, <2>2
<1>4. \A i \in Requests : pc'[i] = "starting" => pc[i] = "starting"
  <2>1. CompleteHead \/ UNCHANGED <<pc, queue>>
    BY DEF YieldSeen, Result
  <2> QED BY <2>1, HeadCompletes DEF Guarded, SessionShape
<1> QED BY <1>1, <1>2, <1>3, <1>4, KeepsReader

LEMMA ReaderStep ==
  ASSUME Guarded, Reader, [Next]_vars
  PROVE  Reader'
<1>1. CASE UNCHANGED vars
  BY <1>1, KeepsReader DEF vars, startVars, abortVars
<1>2. CASE \E i \in Requests : Invoke(i) \/ CallStep(i)
  BY <1>2, CallReader
<1>3. ASSUME NEW q \in Queries, FirstPull(q) \/ Continue(q) PROVE Reader'
  <2>1. UNCHANGED <<phase, generator, starting, restarter, aborted, yielding, queue, pc>>
    BY <1>3 DEF FirstPull, Continue, startVars, abortVars
  <2> QED BY <2>1, KeepsReader
<1>4. ASSUME NEW q \in Queries, CancelSeen(q) \/ QueryEnds(q) PROVE Reader'
  <2>1. phase[q] = "live" /\ Quiet /\ EndLoop(q)
    BY <1>4 DEF CancelSeen, QueryEnds, Message
  <2> QED BY <2>1, EndReader
<1>5. CASE Dispose
  <2>1. /\ UNCHANGED <<phase, generator, starting, restarter, yielding>>
        /\ queue' = <<>> /\ aborted' = aborted \cup controlled
        /\ \A i \in Requests : pc'[i] = "starting" => pc[i] = "starting"
    BY <1>5 DEF Dispose, Abort, RejectPendingRequests, startVars
  <2> QED BY <2>1, KeepsReader
<1>6. ~IdleTimeout
  BY DEF Guarded, NotReloaded, IdleTimeout
<1> QED BY <1>1, <1>2, <1>3, <1>4, <1>5, <1>6, StartReader, MessageReader DEF Next
------------------------------------------------------------------------------
(***************************************************************************)
(* A query that runs answers what it has taken.                            *)
(***************************************************************************)
Waited == {"queued", "completed", "failed"}
Feeds ==
  /\ asking # NoQuery => queue = <<>> /\ feeder[asking] = "asking"
  /\ \A q \in Queries : FeedSound(q)
Fed == Guarded /\ Reader /\ Feeds

LEMMA FedFacts ==
  ASSUME Fed
  PROVE  /\ SessionShape /\ Guarded /\ Reader /\ NotReloaded /\ ~HasChanges
         /\ \A p, q \in Queries : Runs(p) /\ Runs(q) => p = q
         /\ \A q \in Queries : Works(q) /\ turns[q] # <<>> => pc[fed[q]] = "queued"
         /\ \A q \in Queries : phase[q] # "unread" /\ (Gone(q) <=> q \in aborted \/ phase[q] = "over")
<1>1. SessionShape /\ Guarded /\ Reader /\ NotReloaded
  BY DEF Fed, Guarded
<1>2. ASSUME NEW q \in Queries, Works(q), turns[q] # <<>>
      PROVE  pc[fed[q]] = "queued"
  <2>1. queue # <<>> /\ queue[1] = fed[q]
    BY <1>2 DEF Fed, Feeds, FeedSound
  <2>2. 1 \in DOMAIN queue
    BY <1>1, <2>1 DEF SessionShape, CallTypes
  <2> QED BY <1>1, <2>1, <2>2 DEF SessionShape, QueueSound
<1> QED BY <1>1, <1>2, ReaderFacts DEF Gone

\* Steps of calls that wait for nothing yet, and the start of a query.
LEMMA KeepsFeeding ==
  ASSUME Fed, UNCHANGED <<aborted, queue, current, asking, feeder, fed, turns>>,
         \A q \in Queries : phase'[q] = phase[q] \/ (phase[q] = "none" /\ phase'[q] = "building"),
         \A i \in Requests : pc[i] \in Waited => pc'[i] = pc[i]
  PROVE  Feeds'
<1>1. ASSUME NEW q \in Queries PROVE FeedSound(q)'
  <2>1. FeedSound(q) /\ (Runs(q) <=> Runs(q)') /\ (Works(q) <=> Works(q)')
    BY DEF Fed, Feeds, Runs, Works
  <2> QED BY <2>1 DEF FeedSound, Waited
<1> QED BY <1>1 DEF Fed, Feeds

\* The iterable of a query yields the head of the queue.
LEMMA SendFeeds ==
  ASSUME Fed, NEW q \in Queries, phase[q] \notin {"none", "building", "opening"},
         Works(q) => turns[q] = <<>>, feeder[q] # "closed",
         NEW i \in Requests, Send(q, i), queue' # <<>>, queue'[1] = i, pc'[i] = "queued",
         asking' = NoQuery, UNCHANGED <<phase, aborted>>,
         \A p \in Queries \ {q} : Works(p) => turns[p] = <<>> /\ feeder[p] # "asking",
         \A j \in Requests : pc[j] \in Waited => pc'[j] = pc[j]
  PROVE  Feeds'
<1>1. /\ current' = i
      /\ feeder'[q] = IF Gone(q) THEN "closed" ELSE "sent"
      /\ fed'[q] = i
      /\ ~Gone(q) => turns' = [turns EXCEPT ![q] = Append(turns[q], i)]
      /\ \A p \in Queries \ {q} : feeder'[p] = feeder[p] /\ fed'[p] = fed[p] /\ turns'[p] = turns[p]
  BY FedFacts DEF Send, SessionShape, QueryTypes
<1>2. \A p \in Queries : (Runs(p) <=> Runs(p)') /\ (Works(p) <=> Works(p)')
  BY DEF Runs, Works
<1>3. FeedSound(q)'
  <2>1. phase'[q] \notin {"none", "building", "opening"}
    OBVIOUS
  <2>2. CASE Gone(q)
    <3>1. ~Works(q) /\ feeder'[q] = "closed"
      BY <1>1, <2>2, FedFacts DEF Works, Runs
    <3> QED BY <1>2, <2>1, <3>1 DEF FeedSound
  <2>3. CASE ~Gone(q)
    <3>1. phase[q] \in Phases
      BY FedFacts DEF SessionShape, QueryTypes
    <3>2. Works(q)
      BY <2>3, <3>1, FedFacts DEF Works, Runs, Phases
    <3>3. turns'[q] = <<i>>
      BY <1>1, <2>3, <3>2, FedFacts DEF SessionShape, QueryTypes
    <3>4. feeder'[q] = "sent" /\ fed'[q] = i /\ current' # NoRequest
      BY <1>1, <2>3, NamesAssumption
    <3> QED BY <1>2, <2>1, <3>2, <3>3, <3>4 DEF FeedSound, Works
  <2> QED BY <2>2, <2>3
<1>4. ASSUME NEW p \in Queries, p # q PROVE FeedSound(p)'
  <2>1. FeedSound(p) /\ phase'[p] = phase[p]
    BY DEF Fed, Feeds
  <2> QED BY <1>1, <1>2, <1>4, <2>1 DEF FeedSound, Waited
<1> QED BY <1>3, <1>4 DEF Feeds

LEMMA NextRequestFeeds ==
  ASSUME Fed, NEW q \in Queries, Runs(q), Works(q) => turns[q] = <<>>,
         feeder[q] = "new" => turns[q] = <<>>, feeder[q] # "closed",
         GetNextRequest(q), UNCHANGED <<pc, queue, phase, aborted>>
  PROVE  Feeds'
<1>0. \A p \in Queries \ {q} : ~Runs(p) /\ ~Works(p)
  BY FedFacts DEF Works
<1>1. CASE queue # <<>> /\ Send(q, Head(queue)) /\ UNCHANGED asking
  <2>1. asking = NoQuery
    BY <1>1 DEF Fed, Feeds
  <2>2. Head(queue) = queue[1] /\ queue[1] \in Requests /\ 1 \in DOMAIN queue
    BY <1>1, FedFacts DEF SessionShape, CallTypes
  <2>3. pc[queue[1]] = "queued"
    BY <2>2, FedFacts DEF SessionShape, QueueSound
  <2> QED BY <1>0, <1>1, <2>1, <2>2, <2>3, SendFeeds DEF Runs
<1>2. CASE /\ queue = <<>> /\ asking' = q
           /\ feeder' = [feeder EXCEPT ![q] = "asking"]
           /\ UNCHANGED <<fed, turns, current>>
  <2>1. feeder'[q] = "asking" /\ \A p \in Queries \ {q} : feeder'[p] = feeder[p]
    BY <1>2, FedFacts DEF SessionShape, QueryTypes
  <2>2. \A p \in Queries : (Runs(p) <=> Runs(p)') /\ (Works(p) <=> Works(p)')
    BY DEF Runs, Works
  <2>3. FeedSound(q)'
    BY <1>2, <2>1, <2>2 DEF FeedSound, Runs
  <2>4. ASSUME NEW p \in Queries \ {q} PROVE FeedSound(p)'
    <3>1. FeedSound(p) /\ ~Works(p)
      BY <1>0 DEF Fed, Feeds
    <3> QED BY <1>2, <2>1, <2>2, <3>1 DEF FeedSound
  <2> QED BY <1>2, <2>1, <2>3, <2>4 DEF Feeds
<1> QED BY <1>1, <1>2 DEF GetNextRequest

LEMMA FeedFeeds ==
  ASSUME Fed, NEW q \in Queries, FirstPull(q) \/ Continue(q)
  PROVE  Feeds'
<1> FeedSound(q)
  BY DEF Fed, Feeds
<1>1. UNCHANGED <<pc, queue, phase, aborted>>
  BY DEF FirstPull, Continue, startVars, abortVars
<1>2. CASE FirstPull(q)
  <2>1. Runs(q) /\ feeder[q] = "new" /\ turns[q] = <<>> /\ GetNextRequest(q)
    BY <1>2, FedFacts DEF FirstPull, Runs, FeedSound
  <2> QED BY <1>1, <2>1, NextRequestFeeds
<1>3. CASE Continue(q) /\ pc[fed[q]] = "completed" /\ GetNextRequest(q)
  <2>1. feeder[q] = "sent"
    BY <1>3 DEF Continue, Unblocked
  <2>2. Runs(q)
    BY <1>3, <2>1 DEF FeedSound
  <2>3. Works(q) => turns[q] = <<>>
    BY <1>3, FedFacts
  <2> QED BY <1>1, <1>3, <2>1, <2>2, <2>3, NextRequestFeeds
<1>4. CASE /\ Continue(q) /\ pc[fed[q]] = "failed"
           /\ feeder' = [feeder EXCEPT ![q] = "closed"]
           /\ UNCHANGED <<fed, turns, current, asking>>
  <2>1. feeder[q] = "sent"
    BY <1>4 DEF Continue, Unblocked
  <2>2. ~Works(q)
    BY <1>4, <2>1 DEF FeedSound
  <2>3. feeder'[q] = "closed" /\ \A p \in Queries \ {q} : feeder'[p] = feeder[p]
    BY <1>4, FedFacts DEF SessionShape, QueryTypes
  <2>4. \A p \in Queries : (Runs(p) <=> Runs(p)') /\ (Works(p) <=> Works(p)')
    BY <1>1 DEF Runs, Works
  <2>5. FeedSound(q)'
    BY <1>1, <1>4, <2>1, <2>2, <2>3, <2>4 DEF FeedSound
  <2>6. ASSUME NEW p \in Queries \ {q} PROVE FeedSound(p)'
    <3>1. FeedSound(p)
      BY DEF Fed, Feeds
    <3> QED BY <1>1, <1>4, <2>3, <2>4, <3>1 DEF FeedSound
  <2>7. asking # NoQuery => queue = <<>> /\ feeder'[asking] = "asking"
    <3>1. asking # NoQuery => asking \in Queries /\ asking # q /\ queue = <<>> /\ feeder[asking] = "asking"
      BY <2>1, FedFacts DEF Fed, Feeds, SessionShape, QueryTypes
    <3> QED BY <2>3, <3>1
  <2> QED BY <1>1, <1>4, <2>5, <2>6, <2>7 DEF Feeds
<1> QED BY <1>2, <1>3, <1>4 DEF Continue

LEMMA PushFeeds ==
  ASSUME Fed, NEW i \in Requests, pc[i] \notin Waited, Push(i)
  PROVE  Feeds'
<1>1. /\ UNCHANGED <<phase, aborted>>
      /\ queue' = Append(queue, i) /\ asking' = NoQuery
      /\ pc'[i] = "queued"
      /\ \A j \in Requests : pc[j] \in Waited => pc'[j] = pc[j] /\ j # i
  BY FedFacts DEF Push, startVars, abortVars, SessionShape, CallTypes
<1>2. CASE asking # NoQuery
  <2>1. asking \in Queries /\ feeder[asking] = "asking" /\ queue = <<>>
    BY <1>2, FedFacts DEF Fed, Feeds, SessionShape, QueryTypes
  <2>2. \A p \in Queries : FeedSound(p)
    BY DEF Fed, Feeds
  <2>3. /\ phase[asking] \notin {"none", "building", "opening"}
        /\ Works(asking) => turns[asking] = <<>>
    BY <2>1, <2>2 DEF FeedSound
  <2>4. \A p \in Queries \ {asking} : Works(p) => turns[p] = <<>> /\ feeder[p] # "asking"
    BY <2>1, <2>2 DEF FeedSound
  <2>5. queue' # <<>> /\ queue'[1] = i /\ Send(asking, i)
    BY <1>1, <1>2, <2>1 DEF Push
  <2> QED BY <1>1, <2>1, <2>3, <2>4, <2>5, SendFeeds
<1>3. CASE asking = NoQuery
  <2>1. UNCHANGED <<current, feeder, fed, turns>>
    BY <1>3 DEF Push
  <2>2. queue # <<>> => queue' # <<>> /\ queue'[1] = queue[1]
    BY <1>1, FedFacts DEF SessionShape, CallTypes
  <2>3. ASSUME NEW p \in Queries PROVE FeedSound(p)'
    <3>1. FeedSound(p) /\ p # NoQuery /\ (Runs(p) <=> Runs(p)') /\ (Works(p) <=> Works(p)')
      BY <1>1, NamesAssumption DEF Fed, Feeds, Runs, Works
    <3> QED BY <1>1, <1>3, <2>1, <2>2, <3>1 DEF FeedSound, Waited
  <2> QED BY <1>1, <2>3 DEF Feeds
<1> QED BY <1>2, <1>3

LEMMA CallFeeds ==
  ASSUME Fed, NEW i \in Requests, Invoke(i) \/ CallStep(i)
  PROVE  Feeds'
<1>1. CASE Invoke(i) \/ Checked(i) \/ SwitchFails(i)
  <2>1. /\ UNCHANGED <<aborted, queue, current, asking, feeder, fed, turns, phase>>
        /\ pc[i] \notin Waited
    BY <1>1, FedFacts
       DEF Invoke, Checked, SwitchFails, startVars, feedVars, abortVars, Waited
  <2>2. \E p \in PCs : pc' = [pc EXCEPT ![i] = p]
    BY <1>1 DEF Invoke, Checked, SwitchFails, PCs
  <2>3. \A j \in Requests : pc[j] \in Waited => pc'[j] = pc[j]
    BY <2>1, <2>2, FedFacts DEF SessionShape, CallTypes
  <2> QED BY <2>1, <2>3, KeepsFeeding
<1>2. CASE Proceed(i) /\ ~Push(i)
  <2>1. /\ UNCHANGED <<aborted, queue, current, asking, feeder, fed, turns>>
        /\ pc[i] \notin Waited /\ pc' = [pc EXCEPT ![i] = "starting"]
        /\ StartSession({}) /\ {} \in SUBSET Queries /\ \A p \in {} : ~Starting(p)
    BY <1>2 DEF Proceed, feedVars, abortVars, Waited
  <2>2. phase \in [Queries -> Phases] /\ starting \in Queries \cup {NoQuery} /\ OneStart
    BY FedFacts DEF SessionShape, QueryTypes, ControlTypes
  <2>3. \A q \in Queries : phase'[q] = phase[q] \/ (phase[q] = "none" /\ phase'[q] = "building")
    BY <2>1, <2>2, StartTypes
  <2>4. \A j \in Requests : pc[j] \in Waited => pc'[j] = pc[j]
    BY <2>1, FedFacts DEF SessionShape, CallTypes
  <2> QED BY <2>1, <2>3, <2>4, KeepsFeeding
<1>3. CASE Resume(i) \/ (Proceed(i) /\ Push(i))
  <2>1. pc[i] \notin Waited /\ Push(i)
    BY <1>3 DEF Resume, Resumable, Proceed, Waited
  <2> QED BY <2>1, PushFeeds
<1> QED BY <1>1, <1>2, <1>3 DEF CallStep

\* A query that is only being started has no prompt yet.
LEMMA StartFeeds ==
  ASSUME Fed, NEW q \in Queries, StartStep(q)
  PROVE  Feeds'
<1> phase \in [Queries -> Phases] /\ \A p \in Queries : FeedSound(p)
  BY FedFacts DEF SessionShape, QueryTypes, Fed, Feeds
<1>1. CASE BuildOptions(q) \/ QueryOpened(q) \/ SnapshotTaken(q)
  <2>1. SnapshotTaken(q) => generator = q
    BY FedFacts DEF SnapshotTaken, Guarded, GeneratorRuns
  <2>2. /\ UNCHANGED <<pc, queue, current, asking, feeder, fed, turns>>
        /\ aborted' = aborted \/ (phase[q] = "building" /\ aborted' = aborted \cup {q})
        /\ \/ phase' = [phase EXCEPT ![q] = "opening"] /\ phase[q] = "building"
           \/ phase' = [phase EXCEPT ![q] = "open"] /\ phase[q] = "opening"
           \/ phase' = [phase EXCEPT ![q] = "live"] /\ phase[q] = "open"
    BY <1>1, <2>1 DEF BuildOptions, QueryOpened, SnapshotTaken, feedVars, abortVars
  <2>3. FeedSound(q)'
    <3>1. CASE phase[q] = "open"
      <4>1. /\ phase'[q] = "live" /\ aborted' = aborted
            /\ Runs(q) /\ Runs(q)' /\ (Works(q) <=> Works(q)')
        BY <2>2, <3>1 DEF Runs, Works
      <4> QED BY <2>2, <3>1, <4>1 DEF FeedSound
    <3>2. CASE phase[q] # "open"
      <4>1. feeder[q] = "new" /\ turns[q] = <<>>
        BY <2>2, <3>2 DEF FeedSound
      <4> QED BY <2>2, <4>1 DEF FeedSound
    <3> QED BY <3>1, <3>2
  <2>4. ASSUME NEW p \in Queries \ {q} PROVE FeedSound(p)'
    <3>1. phase'[p] = phase[p] /\ (p \in aborted' <=> p \in aborted)
      BY <2>2
    <3>2. (Runs(p) <=> Runs(p)') /\ (Works(p) <=> Works(p)')
      BY <3>1 DEF Runs, Works
    <3> QED BY <2>2, <3>1, <3>2 DEF FeedSound
  <2> QED BY <2>2, <2>3, <2>4 DEF Fed, Feeds
<1>2. CASE StartFails(q)
  <2> DEFINE pcs == [i \in Requests |-> IF pc[i] = "starting" THEN "failed" ELSE pc[i]]
  <2>1. /\ UNCHANGED <<current, aborted, fed, turns>>
        /\ phase[q] \in {"building", "opening"} /\ phase' = [phase EXCEPT ![q] = "over"]
        /\ \/ RejectPendingRequests(pcs)
           \/ pc' = pcs /\ UNCHANGED <<queue, asking, feeder>>
    BY <1>2 DEF StartFails, abortVars
  <2>2. /\ pcs \in [Requests -> PCs]
        /\ \A i \in Requests : pcs[i] = "queued" => pc[i] = "queued"
        /\ \A i \in Requests : pc[i] \in Waited => pcs[i] = pc[i]
    BY FedFacts DEF SessionShape, CallTypes, PCs, Waited
  <2> HIDE DEF pcs
  <2>3. \A p \in Queries : ~Runs(p) /\ ~Works(p)
    BY <2>1, FedFacts, ReaderFacts DEF Works
  <2>4. \A p \in Queries : ~Runs(p)' /\ ~Works(p)'
    BY <2>1, <2>3 DEF Runs, Works
  <2>5. /\ asking' # NoQuery => asking' = asking /\ queue' = queue /\ feeder' = feeder
        /\ \A p \in Queries : feeder'[p] = feeder[p] \/ (feeder[p] = "asking" /\ feeder'[p] = "closed")
        /\ \A i \in Requests : pc[i] = "failed" => pc'[i] = "failed"
    <3>1. CASE RejectPendingRequests(pcs)
      <4>1. \A i \in Requests : pc'[i] = IF pc[i] = "queued" THEN "failed" ELSE pcs[i]
        BY <2>2, <3>1, FedFacts, QueueRejected DEF SessionShape
      <4>2. /\ asking' = NoQuery
            /\ \A p \in Queries : feeder'[p] = IF p = asking THEN "closed" ELSE feeder[p]
        BY <3>1, FedFacts, RejectedTypes DEF SessionShape
      <4>3. \A p \in Queries : p = asking => feeder[p] = "asking"
        BY NamesAssumption DEF Fed, Feeds
      <4> QED BY <2>2, <4>1, <4>2, <4>3 DEF Waited
    <3>2. CASE pc' = pcs /\ UNCHANGED <<queue, asking, feeder>>
      BY <2>2, <3>2 DEF Waited
    <3> QED BY <2>1, <3>1, <3>2
  <2>6. ASSUME NEW p \in Queries PROVE FeedSound(p)'
    <3>1. feeder[p] = "sent" => pc[fed[p]] = "failed" /\ fed[p] \in Requests
      BY <2>3 DEF FeedSound
    <3>2. phase'[p] = phase[p] \/ phase'[p] = "over"
      BY <2>1
    <3>3. FeedSound(p)
      OBVIOUS
    <3> QED BY <2>1, <2>4, <2>5, <3>1, <3>2, <3>3 DEF FeedSound
  <2> QED BY <2>5, <2>6 DEF Fed, Feeds
<1> QED BY <1>1, <1>2 DEF StartStep

\* A query ends when its iterable waits: what it has not answered fails, or, after a
\* yield, waits for the next query.
LEMMA EndFeeds ==
  ASSUME Fed, NEW q \in Queries, phase[q] = "live", Quiet, EndLoop(q)
  PROVE  Feeds'
<1> /\ SessionShape /\ \A p \in Queries : FeedSound(p)
    /\ UNCHANGED <<aborted, fed, turns>>
  BY FedFacts DEF Fed, Feeds, EndLoop, Cleanup, ResetSessionState
<1>1. /\ phase'[q] = "over"
      /\ \A p \in Queries \ {q} : phase'[p] = phase[p] \/
           (phase[p] = "none" /\ phase'[p] = "building")
  BY CleanupKeeps DEF SessionShape
<1>2. \A p \in Queries : p # q => ~Runs(p)
  BY FedFacts DEF Runs
<1>3. \A p \in Queries : ~Runs(p)' /\ ~Works(p)'
  BY <1>1, <1>2 DEF Runs, Works
<1>4. \A p \in Queries : feeder[p] = "sent" => fed[p] \in Requests /\ ~Settled(fed[p])
  <2>1. \A p \in Queries : feeder[p] = "sent" => fed[p] \in Requests
    BY DEF FeedSound
  <2> QED BY <2>1 DEF Quiet, Unblocked
<1>5. \A p \in Queries : feeder[p] = "sent" => pc[fed[p]] = "queued" /\ p \notin aborted
  BY <1>4 DEF FeedSound, Settled
<1>6. CASE yielding
  <2>1. UNCHANGED <<pc, queue, asking, feeder>>
    BY <1>6 DEF EndLoop, Cleanup
  <2>2. q \in aborted
    BY <1>6, FedFacts, ReaderFacts DEF Reader, Runs
  <2>3. \A p \in Queries : feeder[p] # "sent"
    <3>1. \A p \in Queries : feeder[p] = "sent" => Runs(p)
      BY <1>5 DEF FeedSound
    <3> QED BY <1>2, <1>5, <2>2, <3>1
  <2>4. ASSUME NEW p \in Queries PROVE FeedSound(p)'
    <3>1. FeedSound(p)
      OBVIOUS
    <3> QED BY <1>1, <1>3, <2>1, <2>3, <3>1 DEF FeedSound
  <2> QED BY <2>1, <2>4 DEF Fed, Feeds
<1>7. CASE ~yielding
  <2>1. RejectPendingRequests(pc) /\ pc \in [Requests -> PCs]
    BY <1>7 DEF EndLoop, Cleanup, SessionShape, CallTypes
  <2>2. \A i \in Requests : pc'[i] = IF pc[i] = "queued" THEN "failed" ELSE pc[i]
    BY <2>1, QueueRejected DEF SessionShape
  <2>3. /\ asking' = NoQuery
        /\ \A p \in Queries : feeder'[p] = IF p = asking THEN "closed" ELSE feeder[p]
    BY <2>1, RejectedTypes DEF SessionShape
  <2>4. \A p \in Queries : p = asking => feeder[p] = "asking"
    BY NamesAssumption DEF Fed, Feeds
  <2>5. ASSUME NEW p \in Queries PROVE FeedSound(p)'
    <3>1. FeedSound(p)
      OBVIOUS
    <3>2. feeder'[p] = feeder[p] \/ (feeder[p] = "asking" /\ feeder'[p] = "closed")
      BY <2>3, <2>4
    <3>3. feeder[p] = "sent" => fed[p] \in Requests /\ pc'[fed[p]] = "failed"
      BY <1>4, <1>5, <2>2
    <3> QED BY <1>1, <1>3, <3>1, <3>2, <3>3 DEF FeedSound
  <2> QED BY <2>3, <2>5 DEF Feeds
<1> QED BY <1>6, <1>7

\* A query that runs has taken the head of the queue, and nothing else.
LEMMA WorksForHead ==
  ASSUME Fed, NEW q \in Queries, Works(q), turns[q] # <<>>
  PROVE  /\ feeder[q] = "sent" /\ turns[q] = <<queue[1]>> /\ fed[q] = queue[1]
         /\ queue # <<>> /\ current # NoRequest
BY DEF Fed, Feeds, FeedSound

\* A message of a query completes what the query has taken, or comes too late.
LEMMA MessageFeeds ==
  ASSUME Fed, NEW q \in Queries, YieldSeen(q) \/ Result(q)
  PROVE  Feeds'
<1> /\ SessionShape /\ \A p \in Queries : FeedSound(p)
    /\ turns \in [Queries -> Seq(Requests)]
  BY FedFacts DEF Fed, Feeds, SessionShape, QueryTypes
<1>1. /\ phase[q] = "live" /\ turns[q] # <<>> /\ UNCHANGED <<phase, asking, feeder, fed>>
      /\ turns' \in {turns, [turns EXCEPT ![q] = Tail(turns[q])]}
      /\ CompleteHead \/ UNCHANGED <<pc, queue>>
      /\ aborted \subseteq aborted'
  BY DEF YieldSeen, Result, Message, Abort, startVars, abortVars
<1>2. /\ \A i \in Requests : pc'[i] = pc[i] \/ (pc[i] = "queued" /\ pc'[i] = "completed")
      /\ \A i \in Requests : queue # <<>> /\ i = queue[1] /\ CompleteHead => pc'[i] = "completed"
  <2>1. \A i \in Requests : pc'[i] = pc[i] \/ (pc[i] = "queued" /\ pc'[i] = "completed")
    BY <1>1, HeadCompletes DEF SessionShape
  <2>2. queue # <<>> => Head(queue) = queue[1]
    OBVIOUS
  <2> QED BY <2>1, <2>2 DEF CompleteHead, SessionShape, CallTypes
<1>3. \A p \in Queries : Runs(p) => p = q
  BY <1>1, FedFacts DEF Runs
<1>4. queue = <<>> => queue' = <<>>
  BY <1>1 DEF CompleteHead
<1>5. ASSUME NEW p \in Queries \ {q} PROVE FeedSound(p)'
  <2>1. FeedSound(p) /\ ~Runs(p) /\ ~Runs(p)' /\ ~Works(p)' /\ turns'[p] = turns[p]
    BY <1>1, <1>3 DEF Runs, Works
  <2>2. feeder[p] = "sent" => fed[p] \in Requests /\ pc'[fed[p]] = "failed"
    BY <1>2, <2>1 DEF FeedSound
  <2> QED BY <1>1, <2>1, <2>2 DEF FeedSound
<1>6. FeedSound(q)'
  <2> FeedSound(q) /\ feeder[q] # "new" /\ phase'[q] = "live" /\ Runs(q) /\ Runs(q)'
    BY <1>1 DEF FeedSound, Runs
  <2>1. feeder[q] = "sent" => fed[q] \in Requests /\ pc'[fed[q]] \in Waited
    BY <1>2 DEF FeedSound, Waited
  <2>2. CASE q \in aborted
    <3>1. feeder[q] = "sent" => pc'[fed[q]] # "queued"
      BY <1>2, <2>1, <2>2 DEF FeedSound
    <3>2. ~Works(q)'
      BY <1>1, <2>2 DEF Works
    <3> QED BY <1>1, <2>1, <3>1, <3>2 DEF FeedSound, Waited
  <2>3. CASE q \notin aborted
    <3>1. Works(q)
      BY <2>3 DEF Works
    <3>2. /\ feeder[q] = "sent" /\ turns[q] = <<queue[1]>> /\ fed[q] = queue[1]
          /\ queue # <<>> /\ current # NoRequest
      BY <1>1, <3>1, WorksForHead
    <3>3. pc'[fed[q]] = "completed"
      BY <1>2, <2>1, <3>2 DEF YieldSeen, Result
    <3>4. CASE Result(q)
      <4>1. turns'[q] = <<>> /\ aborted' = aborted
        BY <3>2, <3>4 DEF Result, abortVars
      <4> QED BY <1>1, <2>1, <3>2, <3>3, <4>1 DEF FeedSound, Works, Waited
    <3>5. CASE YieldSeen(q)
      <4>1. q \in aborted'
        BY <1>1, <3>5, FedFacts DEF YieldSeen, Abort, Guarded, RunningAbortable
      <4> QED BY <1>1, <2>1, <3>2, <3>3, <4>1 DEF FeedSound, Works, Waited
    <3> QED BY <3>4, <3>5
  <2> QED BY <2>2, <2>3
<1> QED BY <1>1, <1>4, <1>5, <1>6 DEF Fed, Feeds

\* All queries that run are aborted, and all that wait fail.
LEMMA DisposeFeeds ==
  ASSUME Fed, Dispose
  PROVE  Feeds'
<1> SessionShape /\ \A p \in Queries : FeedSound(p)
  BY FedFacts DEF Fed, Feeds
<1>1. /\ UNCHANGED <<phase, fed, turns>>
      /\ aborted' = aborted \cup controlled /\ RejectPendingRequests(pc)
  BY DEF Dispose, Abort, startVars
<1>2. \A i \in Requests : pc'[i] = IF pc[i] = "queued" THEN "failed" ELSE pc[i]
  <2>1. pc \in [Requests -> PCs]
    BY DEF SessionShape, CallTypes
  <2> QED BY <1>1, <2>1, QueueRejected DEF SessionShape
<1>3. /\ asking' = NoQuery
      /\ \A p \in Queries : feeder'[p] = IF p = asking THEN "closed" ELSE feeder[p]
  BY <1>1, RejectedTypes DEF SessionShape
<1>4. \A p \in Queries : p = asking => feeder[p] = "asking"
  BY NamesAssumption DEF Fed, Feeds
<1>5. ASSUME NEW p \in Queries PROVE FeedSound(p)'
  <2>1. FeedSound(p) /\ (Runs(p) <=> Runs(p)')
    BY <1>1 DEF Runs
  <2>2. ~Works(p)'
    BY <1>1, <2>1, FedFacts DEF Works, Runs, Guarded, RunningAbortable
  <2>3. feeder'[p] = feeder[p] \/ (feeder[p] = "asking" /\ feeder'[p] = "closed")
    BY <1>3, <1>4
  <2>4. feeder[p] = "sent" => /\ fed[p] \in Requests /\ pc'[fed[p]] \in {"completed", "failed"}
                              /\ ~Runs(p) => pc'[fed[p]] = "failed"
    BY <1>2, <2>1 DEF FeedSound
  <2> QED BY <1>1, <2>1, <2>2, <2>3, <2>4 DEF FeedSound
<1> QED BY <1>3, <1>5 DEF Feeds

LEMMA FeedsStep ==
  ASSUME Fed, [Next]_vars
  PROVE  Feeds'
<1>1. CASE UNCHANGED vars
  <2>1. UNCHANGED <<aborted, queue, current, asking, feeder, fed, turns, phase, pc>>
    BY <1>1 DEF vars, startVars, feedVars, abortVars
  <2> QED BY <2>1, KeepsFeeding
<1>2. CASE \E i \in Requests : Invoke(i) \/ CallStep(i)
  BY <1>2, CallFeeds
<1>3. ASSUME NEW q \in Queries,
             StartStep(q) \/ FirstPull(q) \/ Continue(q) \/ YieldSeen(q) \/ Result(q)
      PROVE  Feeds'
  BY <1>3, StartFeeds, FeedFeeds, MessageFeeds
<1>4. ASSUME NEW q \in Queries, CancelSeen(q) \/ QueryEnds(q) PROVE Feeds'
  <2>1. phase[q] = "live" /\ Quiet /\ EndLoop(q)
    BY <1>4 DEF CancelSeen, QueryEnds, Message
  <2> QED BY <2>1, EndFeeds
<1>5. ~IdleTimeout
  BY FedFacts DEF NotReloaded, IdleTimeout
<1> QED BY <1>1, <1>2, <1>3, <1>4, <1>5, DisposeFeeds DEF Next

LEMMA SessionParts ==
  SessionIInv <=> /\ SessionShape /\ GeneratorRuns /\ RunningAbortable
                  /\ NotReloaded => Fed
BY DEF SessionIInv, SessionShape, QueueHasReader, FeedingSound, Fed, Guarded, Reader, Feeds

LEMMA SessionInduction ==
  /\ Init => SessionIInv
  /\ SessionIInv /\ [Next]_vars => SessionIInv'
<1>1. ASSUME Init PROVE SessionIInv
  <2>1. SessionShape /\ GeneratorRuns /\ RunningAbortable
    BY <1>1, SessionShapeInit, GeneratorInit
  <2>2. QueueHasReader
    BY <1>1 DEF Init, QueueHasReader, Resumable
  <2>3. FeedingSound
    BY <1>1 DEF Init, FeedingSound, FeedSound, Works, Runs
  <2> QED BY <2>1, <2>2, <2>3 DEF SessionIInv, SessionShape
<1>2. ASSUME SessionIInv, [Next]_vars PROVE SessionIInv'
  <2>1. SessionShape' /\ GeneratorRuns' /\ RunningAbortable'
    BY <1>2, SessionShapeStep, GeneratorStep, SessionParts
  <2>2. ASSUME NotReloaded' PROVE Fed'
    <3>1. NotReloaded
      BY <1>2, <2>2, ModeIsFixed DEF NotReloaded
    <3>2. Fed /\ Guarded /\ Reader
      BY <1>2, <3>1, SessionParts DEF Fed
    <3>3. Reader' /\ Feeds'
      BY <1>2, <3>2, ReaderStep, FeedsStep
    <3> QED BY <2>1, <2>2, <3>3 DEF Fed, Guarded
  <2> QED BY <2>1, <2>2 DEF SessionIInv, SessionShape, QueueHasReader, FeedingSound,
                            Fed, Guarded, Reader, Feeds
<1> QED BY <1>1, <1>2

\* Unless the session is reloaded, a result of a query that was not aborted completes
\* the request whose prompt the query answered, however requests are queued, fail, are
\* cancelled or interrupt the queries before it.
THEOREM ResultsAreOwn == Spec => UninterruptedOwnTurns
<1>1. ASSUME SessionIInv, [Next]_vars
      PROVE  [\A q \in Queries : NotReloaded /\ q \notin aborted => OwnTurn(q)]_vars
  <2> SUFFICES ASSUME NotReloaded, NEW q \in Queries, q \notin aborted, NEW i \in Requests,
                      Result(q), Queued(i), pc'[i] = "completed"
               PROVE  Head(turns[q]) = i
    BY DEF OwnTurn
  <2>1. Fed /\ SessionShape
    BY <1>1, SessionParts
  <2>2. Works(q) /\ turns[q] # <<>>
    BY DEF Result, Message, Works, Runs
  <2>3. turns[q] = <<queue[1]>>
    BY <2>1, <2>2, WorksForHead
  <2>4. i = queue[1]
    <3>1. pc'[i] # pc[i]
      BY DEF Queued
    <3>2. CompleteHead
      BY <3>1 DEF Result
    <3> QED BY <2>1, <3>1, <3>2, HeadCompletes DEF SessionShape
  <2> QED BY <2>3, <2>4
<1> QED BY <1>1, SessionInduction, PTL DEF Spec, UninterruptedOwnTurns
------------------------------------------------------------------------------
(***************************************************************************)
(* Why calls settle.                                                       *)
(***************************************************************************)
\* Unless the session is reloaded, no call waits for a session that nobody starts, or
\* in a queue that no query reads.
THEOREM QueuedCallsGoOn == Spec => []CallsGoOn
<1>1. ASSUME SessionIInv PROVE CallsGoOn
  <2> SUFFICES ASSUME NotReloaded, NEW i \in Requests, pc[i] \notin {"idle", "completed", "failed"},
                      pc[i] \notin {"checking", "switching", "modes"}, ~Resumable(i)
               PROVE  \E q \in Queries \cap {generator, starting} : QueryGoesOn(q)
    BY DEF CallsGoOn
  <2>1. Fed /\ Reader /\ SessionShape
    BY <1>1, SessionParts DEF Fed
  <2>2. pc[i] \in {"starting", "queued"}
    BY <2>1 DEF SessionShape, CallTypes, PCs
  <2>3. CASE starting # NoQuery
    <3>1. starting \in Queries /\ Starting(starting)
      BY <2>1, <2>3 DEF Reader, SessionShape, ControlTypes
    <3> QED BY <3>1 DEF QueryGoesOn
  <2>4. CASE starting = NoQuery
    <3>1. pc[i] = "queued"
      BY <2>2, <2>4 DEF Resumable
    <3>2. queue # <<>>
      BY <2>1, <3>1 DEF SessionShape, QueueSound
    <3>3. generator \in Queries /\ Runs(generator)
      BY <2>1, <2>4, <3>2 DEF Reader, Runs, SessionShape, ControlTypes
    <3>4. FeedSound(generator) /\ feeder[generator] \in Feeders /\ asking = NoQuery
      BY <2>1, <3>2, <3>3 DEF Fed, Feeds, SessionShape, QueryTypes
    <3>5. CASE phase[generator] = "open"
      BY <3>3, <3>5 DEF QueryGoesOn, Starting
    <3>6. CASE phase[generator] = "live" /\ generator \in aborted
      BY <3>3, <3>6 DEF QueryGoesOn
    <3>7. CASE phase[generator] = "live" /\ generator \notin aborted
      <4>1. Works(generator) /\ generator # NoQuery
        BY <3>3, <3>7, NamesAssumption DEF Works
      <4>2. feeder[generator] \in {"new", "sent"}
        BY <3>4, <4>1 DEF FeedSound, Feeders
      <4>3. feeder[generator] = "sent" => turns[generator] # <<>> \/ Unblocked(generator)
        BY <3>4, <4>1 DEF FeedSound, Unblocked, Settled
      <4> QED BY <3>3, <3>7, <4>2, <4>3 DEF QueryGoesOn
    <3> QED BY <3>3, <3>5, <3>6, <3>7 DEF Runs
  <2> QED BY <2>3, <2>4
<1> QED BY <1>1, SessionInduction, PTL DEF Spec

CallsRanked ==
  /\ CallRank["idle"] = 5 /\ CallRank["checking"] = 4 /\ CallRank["switching"] = 3
  /\ CallRank["modes"] = 3 /\ CallRank["starting"] = 2 /\ CallRank["queued"] = 1
  /\ CallRank["completed"] = 0 /\ CallRank["failed"] = 0
LEMMA CallRanks == CallsRanked
BY DEF CallsRanked, CallRank

QueriesRanked ==
  /\ PhaseRank["none"] = 5 /\ PhaseRank["building"] = 4 /\ PhaseRank["opening"] = 3
  /\ PhaseRank["open"] = 2 /\ PhaseRank["live"] = 1 /\ PhaseRank["unread"] = 1
  /\ PhaseRank["over"] = 0
LEMMA QueryRanks == QueriesRanked
BY DEF QueriesRanked, PhaseRank

Forward(i) == pc'[i] = pc[i] \/ CallRank[pc'[i]] < CallRank[pc[i]]

LEMMA CallForward ==
  ASSUME SessionShape, NEW i \in Requests, CallStep(i)
  PROVE  CallRank[pc'[i]] < CallRank[pc[i]] /\ \A j \in Requests : Forward(j)
<1> pc \in [Requests -> PCs]
  BY DEF SessionShape, CallTypes
<1>1. CASE Checked(i)
  <2>1. PICK p \in {"modes", "switching"} : pc' = [pc EXCEPT ![i] = p] /\ pc[i] = "checking"
    BY <1>1 DEF Checked
  <2> QED BY <2>1, CallRanks DEF CallsRanked, Forward
<1>2. CASE SwitchFails(i)
  BY <1>2, CallRanks DEF SwitchFails, CallsRanked, Forward
<1>3. CASE Proceed(i)
  <2>1. PICK p \in {"starting", "queued"} : pc' = [pc EXCEPT ![i] = p]
    BY <1>3 DEF Proceed, Push
  <2>2. pc[i] \in {"modes", "switching"}
    BY <1>3 DEF Proceed
  <2> QED BY <2>1, <2>2, CallRanks DEF CallsRanked, Forward
<1>4. CASE Resume(i)
  BY <1>4, CallRanks DEF Resume, Resumable, Push, CallsRanked, Forward
<1> QED BY <1>1, <1>2, <1>3, <1>4 DEF CallStep

LEMMA CallsForward ==
  ASSUME SessionShape, [Next]_vars
  PROVE  \A i \in Requests : Forward(i)
<1> CallTypes /\ QueueSound /\ pc \in [Requests -> PCs]
  BY DEF SessionShape, CallTypes
<1>1. ASSUME RejectPendingRequests(pc) PROVE \A i \in Requests : Forward(i)
  BY <1>1, QueueRejected, CallRanks DEF Forward, CallsRanked
<1>2. ASSUME CompleteHead PROVE \A i \in Requests : Forward(i)
  BY <1>2, HeadCompletes, CallRanks DEF Forward, CallsRanked
<1>3. CASE UNCHANGED vars
  BY <1>3 DEF vars, Forward
<1>4. ASSUME NEW j \in Requests, Invoke(j) PROVE \A i \in Requests : Forward(i)
  <2>1. PICK p \in {"failed", "modes", "checking"} : pc' = [pc EXCEPT ![j] = p] /\ pc[j] = "idle"
    BY <1>4 DEF Invoke
  <2> QED BY <2>1, CallRanks DEF Forward, CallsRanked
<1>5. ASSUME NEW j \in Requests, CallStep(j) PROVE \A i \in Requests : Forward(i)
  BY <1>5, CallForward
<1>6. ASSUME NEW q \in Queries, StartStep(q) PROVE \A i \in Requests : Forward(i)
  <2>1. CASE BuildOptions(q) \/ QueryOpened(q)
    BY <2>1 DEF BuildOptions, QueryOpened, Forward
  <2>2. CASE SnapshotTaken(q)
    <3>1. pc' = pc \/ RejectPendingRequests(pc)
      BY <2>2 DEF SnapshotTaken
    <3> QED BY <1>1, <3>1 DEF Forward
  <2>3. CASE StartFails(q)
    <3> DEFINE pcs == [i \in Requests |-> IF pc[i] = "starting" THEN "failed" ELSE pc[i]]
    <3>1. pc' = pcs \/ RejectPendingRequests(pcs)
      BY <2>3 DEF StartFails
    <3>2. /\ pcs \in [Requests -> PCs]
          /\ \A i \in Requests : pcs[i] = "queued" => pc[i] = "queued"
          /\ \A i \in Requests : pcs[i] = pc[i] \/ (pc[i] = "starting" /\ pcs[i] = "failed")
      BY DEF PCs
    <3> HIDE DEF pcs
    <3>3. \A i \in Requests : pc'[i] = pcs[i] \/ (pc[i] = "queued" /\ pc'[i] = "failed")
      BY <3>1, <3>2, QueueRejected
    <3> QED BY <3>2, <3>3, CallRanks DEF Forward, CallsRanked
  <2> QED BY <1>6, <2>1, <2>2, <2>3 DEF StartStep
<1>7. ASSUME NEW q \in Queries, FirstPull(q) \/ Continue(q) PROVE \A i \in Requests : Forward(i)
  BY <1>7 DEF FirstPull, Continue, Forward
<1>8. ASSUME NEW q \in Queries, CancelSeen(q) \/ QueryEnds(q) PROVE \A i \in Requests : Forward(i)
  <2>1. pc' = pc \/ RejectPendingRequests(pc)
    BY <1>8 DEF CancelSeen, QueryEnds, EndLoop, Cleanup
  <2> QED BY <1>1, <2>1 DEF Forward
<1>9. ASSUME NEW q \in Queries, YieldSeen(q) \/ Result(q) PROVE \A i \in Requests : Forward(i)
  <2>1. pc' = pc \/ CompleteHead
    BY <1>9 DEF YieldSeen, Result
  <2> QED BY <1>2, <2>1 DEF Forward
<1>10. CASE IdleTimeout \/ Dispose
  BY <1>1, <1>10 DEF IdleTimeout, Dispose, Forward
<1> QED BY <1>3, <1>4, <1>5, <1>6, <1>7, <1>8, <1>9, <1>10 DEF Next

\* What a step may do to a query: nothing, or take it to a later phase; and no iterable
\* becomes new again.
Onward(q) ==
  /\ phase'[q] = phase[q] \/ PhaseRank[phase'[q]] < PhaseRank[phase[q]]
  /\ feeder'[q] = "new" => feeder[q] = "new"

LEMMA StartOnward ==
  ASSUME SessionShape, NEW q \in Queries, StartStep(q)
  PROVE  PhaseRank[phase'[q]] < PhaseRank[phase[q]] /\ \A p \in Queries : Onward(p)
<1> phase \in [Queries -> Phases] /\ feeder \in [Queries -> Feeders]
  BY DEF SessionShape, QueryTypes
<1>1. \/ phase[q] = "building" /\ phase' = [phase EXCEPT ![q] = "opening"]
      \/ phase[q] = "opening" /\ phase' = [phase EXCEPT ![q] = "open"]
      \/ phase[q] = "open" /\ phase' = [phase EXCEPT ![q] = "live"]
      \/ phase[q] = "open" /\ phase' = [phase EXCEPT ![q] = "unread"]
      \/ phase[q] \in {"building", "opening"} /\ phase' = [phase EXCEPT ![q] = "over"]
  BY DEF StartStep, BuildOptions, QueryOpened, SnapshotTaken, StartFails
<1>2. PhaseRank[phase'[q]] < PhaseRank[phase[q]] /\ \A p \in Queries \ {q} : phase'[p] = phase[p]
  BY <1>1, QueryRanks DEF QueriesRanked
<1>3. feeder' = feeder \/ feeder' = Rejected
  BY DEF StartStep, BuildOptions, QueryOpened, SnapshotTaken, StartFails, feedVars,
         RejectPendingRequests
<1>4. \A p \in Queries : feeder'[p] = "new" => feeder[p] = "new"
  BY <1>3 DEF Rejected
<1> QED BY <1>2, <1>4 DEF Onward

LEMMA EndOnward ==
  ASSUME SessionShape, NEW q \in Queries, CancelSeen(q) \/ QueryEnds(q)
  PROVE  PhaseRank[phase'[q]] < PhaseRank[phase[q]] /\ \A p \in Queries : Onward(p)
<1>1. phase[q] = "live" /\ EndLoop(q)
  BY DEF CancelSeen, QueryEnds, Message
<1>2. /\ phase'[q] = "over"
      /\ \A p \in Queries \ {q} : phase'[p] = phase[p] \/
            (phase[p] = "none" /\ phase'[p] = "building")
  BY <1>1, CleanupKeeps DEF SessionShape
<1>3. feeder' = feeder \/ feeder' = Rejected
  BY <1>1 DEF EndLoop, Cleanup, RejectPendingRequests
<1>4. \A p \in Queries : feeder'[p] = "new" => feeder[p] = "new"
  BY <1>3 DEF Rejected
<1> QED BY <1>1, <1>2, <1>4, QueryRanks DEF Onward, QueriesRanked

LEMMA PullOnward ==
  ASSUME SessionShape, NEW q \in Queries, FirstPull(q) \/ Continue(q)
  PROVE  feeder'[q] # "new" /\ \A p \in Queries : Onward(p)
<1>1. phase' = phase
  BY DEF FirstPull, Continue, startVars
<1>2. \E w \in {"closed", "sent", "asking"} : feeder' = [feeder EXCEPT ![q] = w]
  BY DEF FirstPull, Continue, GetNextRequest, Send
<1> QED BY <1>1, <1>2 DEF Onward, SessionShape, QueryTypes

LEMMA QueriesOnward ==
  ASSUME SessionShape, [Next]_vars
  PROVE  \A p \in Queries : Onward(p)
<1> phase \in [Queries -> Phases] /\ feeder \in [Queries -> Feeders]
  BY DEF SessionShape, QueryTypes
<1>1. CASE UNCHANGED vars
  BY <1>1 DEF vars, startVars, feedVars, Onward
<1>2. ASSUME NEW i \in Requests, Invoke(i) \/ Checked(i) \/ SwitchFails(i)
      PROVE  \A p \in Queries : Onward(p)
  BY <1>2 DEF Invoke, Checked, SwitchFails, startVars, feedVars, Onward
<1>3. ASSUME NEW i \in Requests, Push(i) PROVE \A p \in Queries : Onward(p)
  <2>1. phase' = phase
    BY <1>3 DEF Push, startVars
  <2>2. feeder' = feeder \/ \E w \in {"closed", "sent"} : feeder' = [feeder EXCEPT ![asking] = w]
    BY <1>3 DEF Push, Send
  <2> QED BY <2>1, <2>2 DEF Onward
<1>4. ASSUME NEW i \in Requests, Proceed(i), ~Push(i) PROVE \A p \in Queries : Onward(p)
  <2>1. /\ feeder' = feeder
        /\ StartSession({}) /\ {} \in SUBSET Queries /\ \A p \in {} : ~Starting(p)
    BY <1>4 DEF Proceed, feedVars
  <2>2. phase \in [Queries -> Phases] /\ starting \in Queries \cup {NoQuery} /\ OneStart
    BY DEF SessionShape, ControlTypes
  <2>3. \A p \in Queries : phase'[p] = phase[p] \/ (phase[p] = "none" /\ phase'[p] = "building")
    BY <2>1, <2>2, StartTypes
  <2> QED BY <2>1, <2>3, QueryRanks DEF Onward, QueriesRanked
<1>5. ASSUME NEW q \in Queries, YieldSeen(q) \/ Result(q) PROVE \A p \in Queries : Onward(p)
  BY <1>5 DEF YieldSeen, Result, startVars, Onward
<1>6. CASE IdleTimeout \/ Dispose
  <2>1. phase' = phase /\ (feeder' = feeder \/ feeder' = Rejected)
    BY <1>6 DEF IdleTimeout, Dispose, startVars, feedVars, RejectPendingRequests
  <2> QED BY <2>1 DEF Onward, Rejected
<1> QED BY <1>1, <1>2, <1>3, <1>4, <1>5, <1>6, StartOnward, EndOnward, PullOnward
        DEF Next, CallStep, Resume

\* An iterable that was woken waits for a message or for its request, or is closed.
LEMMA ContinuesOnce ==
  ASSUME SessionShape, NEW q \in Queries, Continue(q)
  PROVE  ~Unblocked(q)'
<1>1. pc' = pc /\ feeder \in [Queries -> Feeders] /\ fed \in [Queries -> Requests \cup {NoRequest}]
  BY DEF Continue, SessionShape, QueryTypes
<1>2. CASE \E w \in {"closed", "asking"} : feeder' = [feeder EXCEPT ![q] = w]
  BY <1>1, <1>2 DEF Unblocked
<1>3. CASE queue # <<>> /\ Send(q, Head(queue))
  <2>1. fed'[q] = queue[1] /\ 1 \in DOMAIN queue
    BY <1>1, <1>3 DEF Send, SessionShape, CallTypes
  <2>2. pc'[fed'[q]] = "queued"
    BY <1>1, <2>1 DEF SessionShape, QueueSound
  <2> QED BY <2>2 DEF Unblocked, Settled
<1> QED BY <1>2, <1>3 DEF Continue, GetNextRequest

\* The result of a query that works settles the call it answers.
LEMMA ResultSettles ==
  ASSUME Fed, NEW q \in Queries, Works(q), Result(q)
  PROVE  \E i \in Requests : Queued(i) /\ pc'[i] = "completed"
<1>1. queue # <<>> /\ current # NoRequest /\ SessionShape
  BY WorksForHead, FedFacts DEF Result, Message
<1>2. CompleteHead /\ Head(queue) = queue[1] /\ queue[1] \in Requests /\ 1 \in DOMAIN queue
  BY <1>1 DEF Result, SessionShape, CallTypes
<1>3. Queued(queue[1]) /\ pc'[queue[1]] = "completed"
  BY <1>1, <1>2 DEF CompleteHead, SessionShape, CallTypes, QueueSound, Queued
<1> QED BY <1>2, <1>3

\* Each step of a call or a query takes it, and nothing takes another, back: however
\* many calls fail, are cancelled, interrupt or reload the session, the steps of each
\* are bounded; and unless the session is reloaded every answer settles its call.
THEOREM SessionStepsFall == Spec => CallsAdvance
<1>1. ASSUME SessionIInv, SessionIInv', [Next]_vars PROVE [Advance]_vars
  <2>1. /\ SessionShape /\ (NotReloaded => Fed)
        /\ pc \in [Requests -> PCs] /\ pc' \in [Requests -> PCs]
        /\ phase \in [Queries -> Phases] /\ phase' \in [Queries -> Phases]
    BY <1>1, SessionParts DEF SessionIInv, CallTypes, QueryTypes
  <2>2. ASSUME NEW i \in Requests
        PROVE  /\ CallStep(i) => CallRank[pc'[i]] < CallRank[pc[i]]
               /\ CallRank[pc'[i]] <= CallRank[pc[i]]
    <3>1. CallStep(i) => CallRank[pc'[i]] < CallRank[pc[i]]
      BY <2>1, CallForward
    <3>2. CallRank[pc'[i]] \in Nat /\ CallRank[pc[i]] \in Nat
      BY <2>1, CallRanks DEF PCs, CallsRanked
    <3>3. Forward(i)
      BY <1>1, <2>1, CallsForward
    <3> QED BY <3>1, <3>2, <3>3 DEF Forward
  <2>3. ASSUME NEW q \in Queries
        PROVE  /\ StartStep(q) \/ FirstPull(q) \/ CancelSeen(q) \/ QueryEnds(q) =>
                    QueryRank(q)' < QueryRank(q)
               /\ QueryRank(q)' <= QueryRank(q)
    <3>1. PhaseRank[phase'[q]] \in Nat /\ PhaseRank[phase[q]] \in Nat
      BY <2>1, QueryRanks DEF Phases, QueriesRanked
    <3>2. Onward(q)
      BY <1>1, <2>1, QueriesOnward
    <3>3. FirstPull(q) => feeder[q] = "new" /\ feeder'[q] # "new"
      BY <2>1, PullOnward DEF FirstPull
    <3>4. StartStep(q) \/ CancelSeen(q) \/ QueryEnds(q) =>
            PhaseRank[phase'[q]] < PhaseRank[phase[q]]
      BY <2>1, StartOnward, EndOnward
    <3> QED BY <3>1, <3>2, <3>3, <3>4 DEF Onward, QueryRank
  <2>4. \A q \in Queries : Continue(q) => ~Unblocked(q)'
    BY <2>1, ContinuesOnce
  <2>5. \A q \in Queries : NotReloaded /\ Works(q) /\ Result(q) =>
          \E i \in Requests : Queued(i) /\ pc'[i] = "completed"
    BY <2>1, ResultSettles
  <2> QED BY <2>2, <2>3, <2>4, <2>5 DEF Advance
<1> QED BY <1>1, SessionInduction, PTL DEF Spec, CallsAdvance
------------------------------------------------------------------------------
(***************************************************************************)
(* The session implements PromptQueue.                                     *)
(***************************************************************************)
\* What callers see of a step of a call, of the queue, or of the rest.
LineStep == [Line!LineNext]_Line!lineVars

LEMMA StageChange ==
  ASSUME CallTypes, CallTypes', NEW i \in Requests, NEW p \in PCs, pc' = [pc EXCEPT ![i] = p],
         NEW s, s = IF p \in {"checking", "switching", "modes", "starting"} THEN "made"
                    ELSE IF p = "queued" THEN "waiting" ELSE p
  PROVE  Stage' = [Stage EXCEPT ![i] = s]
BY DEF Stage, CallTypes

LEMMA SameStages ==
  ASSUME queue' = queue,
         \A i \in Requests : pc'[i] = pc[i] \/
           {pc[i], pc'[i]} \subseteq {"checking", "switching", "modes", "starting"}
  PROVE  LineStep
<1>1. Stage' = Stage
  BY DEF Stage
<1> QED BY <1>1 DEF LineStep, Line!lineVars

\* Calls that are made fail on their own, or with the queue.
LEMMA CallsFail ==
  ASSUME CallTypes, QueueSound, CallTypes', NEW F \in SUBSET Requests,
         \A i \in F : pc[i] \in {"checking", "switching", "modes", "starting"},
         \/ /\ queue' = queue
            /\ \A i \in Requests : pc'[i] = IF i \in F THEN "failed" ELSE pc[i]
         \/ /\ queue' = <<>>
            /\ \A i \in Requests : pc'[i] = IF i \in F \/ pc[i] = "queued" THEN "failed" ELSE pc[i]
  PROVE  LineStep
<1>1. F \in SUBSET Line!Made
  BY DEF Line!Made, Stage
<1>2. \A i \in Requests : i \in Line!InLine <=> pc[i] = "queued"
  BY DEF Line!InLine, QueueSound, CallTypes
<1>3. CASE queue' = queue /\ \A i \in Requests : pc'[i] = IF i \in F THEN "failed" ELSE pc[i]
  <2>1. Stage' = Line!Fails(F)
    BY <1>3 DEF Stage, Line!Fails
  <2> QED BY <1>1, <1>3, <2>1 DEF LineStep, Line!LineNext, Line!TurnAway
<1>4. CASE /\ queue' = <<>>
           /\ \A i \in Requests : pc'[i] = IF i \in F \/ pc[i] = "queued" THEN "failed" ELSE pc[i]
  <2>1. Stage' = Line!Fails(F \cup Line!InLine)
    BY <1>2, <1>4 DEF Stage, Line!Fails
  <2> QED BY <1>1, <1>4, <2>1 DEF LineStep, Line!LineNext, Line!SendAway
<1> QED BY <1>3, <1>4

LEMMA QueueFails ==
  ASSUME CallTypes, QueueSound, RejectPendingRequests(pc)
  PROVE  LineStep
<1>1. pc \in [Requests -> PCs]
  BY DEF CallTypes
<1>2. /\ CallTypes' /\ queue' = <<>>
      /\ \A i \in Requests : pc'[i] = IF pc[i] = "queued" THEN "failed" ELSE pc[i]
  BY <1>1, QueueRejected
<1> QED BY <1>2, CallsFail, {} \in SUBSET Requests

LEMMA HeadServed ==
  ASSUME CallTypes, QueueSound, CompleteHead
  PROVE  LineStep
<1>1. CASE queue = <<>>
  BY <1>1, SameStages DEF CompleteHead
<1>2. CASE queue # <<>>
  <2>1. /\ Head(queue) \in Requests /\ pc' = [pc EXCEPT ![Head(queue)] = "completed"]
        /\ queue' = Tail(queue) /\ CallTypes'
    BY <1>2, HeadCompletes DEF CompleteHead, CallTypes
  <2>2. Stage' = [Stage EXCEPT ![Head(queue)] = "completed"]
    BY <2>1, StageChange DEF PCs
  <2> QED BY <1>2, <2>1, <2>2 DEF LineStep, Line!LineNext, Line!Serve
<1> QED BY <1>1, <1>2

LEMMA Joins ==
  ASSUME CallTypes, QueueSound, NEW i \in Requests,
         pc[i] \in {"checking", "switching", "modes", "starting"}, Push(i)
  PROVE  LineStep
<1>1. pc' = [pc EXCEPT ![i] = "queued"] /\ queue' = Append(queue, i)
  BY DEF Push
<1>2. CallTypes'
  BY <1>1, PushQueue
<1>3. Stage[i] = "made" /\ Stage' = [Stage EXCEPT ![i] = "waiting"]
  BY <1>1, <1>2, StageChange DEF Stage, PCs
<1> QED BY <1>1, <1>3 DEF LineStep, Line!LineNext, Line!Join

LEMMA CallsRefined ==
  ASSUME SessionShape, SessionShape', NEW i \in Requests, Invoke(i) \/ CallStep(i)
  PROVE  LineStep
<1>1. CallTypes /\ QueueSound /\ CallTypes' /\ pc \in [Requests -> PCs]
  BY DEF SessionShape, CallTypes
<1>2. CASE Invoke(i)
  <2>1. PICK p \in {"failed", "modes", "checking"} : pc' = [pc EXCEPT ![i] = p]
    BY <1>2 DEF Invoke
  <2>2. pc[i] = "idle" /\ queue' = queue
    BY <1>2 DEF Invoke
  <2>3. \E s \in {"made", "failed"} : Stage' = [Stage EXCEPT ![i] = s]
    BY <1>1, <2>1, StageChange DEF PCs
  <2>4. Stage[i] = "idle"
    BY <2>2 DEF Stage
  <2> QED BY <2>2, <2>3, <2>4 DEF LineStep, Line!LineNext, Line!Call
<1>3. CASE Checked(i)
  BY <1>1, <1>3, SameStages DEF Checked
<1>4. CASE SwitchFails(i)
  <2>1. /\ pc[i] = "switching" /\ queue' = queue
        /\ \A j \in Requests : pc'[j] = IF j \in {i} THEN "failed" ELSE pc[j]
    BY <1>1, <1>4 DEF SwitchFails
  <2> QED BY <1>1, <2>1, CallsFail, {i} \in SUBSET Requests
<1>5. CASE Proceed(i) /\ Push(i)
  BY <1>1, <1>5, Joins DEF Proceed
<1>6. CASE Proceed(i) /\ ~Push(i)
  BY <1>1, <1>6, SameStages DEF Proceed
<1>7. CASE Resume(i)
  BY <1>1, <1>7, Joins DEF Resume, Resumable
<1> QED BY <1>2, <1>3, <1>4, <1>5, <1>6, <1>7 DEF CallStep

LEMMA QueriesRefined ==
  ASSUME SessionShape, SessionShape', NEW q \in Queries,
         \/ StartStep(q) \/ FirstPull(q) \/ Continue(q)
         \/ CancelSeen(q) \/ YieldSeen(q) \/ Result(q) \/ QueryEnds(q)
  PROVE  LineStep
<1>1. CallTypes /\ QueueSound /\ CallTypes' /\ pc \in [Requests -> PCs]
  BY DEF SessionShape, CallTypes
<1>2. CASE BuildOptions(q) \/ QueryOpened(q) \/ FirstPull(q) \/ Continue(q)
  BY <1>2, SameStages DEF BuildOptions, QueryOpened, FirstPull, Continue
<1>3. CASE SnapshotTaken(q)
  <2>1. UNCHANGED <<pc, queue>> \/ RejectPendingRequests(pc)
    BY <1>3 DEF SnapshotTaken
  <2> QED BY <1>1, <2>1, SameStages, QueueFails
<1>4. CASE StartFails(q)
  <2> DEFINE F == {i \in Requests : pc[i] = "starting"}
             pcs == [i \in Requests |-> IF pc[i] = "starting" THEN "failed" ELSE pc[i]]
  <2>1. \/ RejectPendingRequests(pcs)
        \/ pc' = pcs /\ queue' = queue
    BY <1>4 DEF StartFails
  <2>2. /\ pcs \in [Requests -> PCs]
        /\ \A i \in Requests : pcs[i] = "queued" => pc[i] = "queued"
    BY <1>1 DEF PCs
  <2>3. \A i \in Requests : pcs[i] = IF i \in F THEN "failed" ELSE pc[i]
    OBVIOUS
  <2>4. F \in SUBSET Requests /\ \A i \in F : pc[i] = "starting"
    OBVIOUS
  <2> HIDE DEF F, pcs
  <2>5. CASE pc' = pcs /\ queue' = queue
    BY <1>1, <2>3, <2>4, <2>5, CallsFail
  <2>6. CASE RejectPendingRequests(pcs)
    <3>1. /\ queue' = <<>>
          /\ \A i \in Requests : pc'[i] = IF pc[i] = "queued" THEN "failed" ELSE pcs[i]
      BY <1>1, <2>2, <2>6, QueueRejected
    <3>2. \A i \in Requests : pc'[i] = IF i \in F \/ pc[i] = "queued" THEN "failed" ELSE pc[i]
      BY <2>3, <3>1
    <3> QED BY <1>1, <2>4, <3>1, <3>2, CallsFail
  <2> QED BY <2>1, <2>5, <2>6
<1>5. CASE CancelSeen(q) \/ QueryEnds(q)
  <2>1. UNCHANGED <<pc, queue>> \/ RejectPendingRequests(pc)
    BY <1>5 DEF CancelSeen, QueryEnds, EndLoop, Cleanup
  <2> QED BY <1>1, <2>1, SameStages, QueueFails
<1>6. CASE YieldSeen(q) \/ Result(q)
  <2>1. UNCHANGED <<pc, queue>> \/ CompleteHead
    BY <1>6 DEF YieldSeen, Result
  <2> QED BY <1>1, <2>1, SameStages, HeadServed
<1> QED BY <1>2, <1>3, <1>4, <1>5, <1>6 DEF StartStep

\* Queued messages are completed in the order in which they were queued, or fail
\* together, and each is settled once, whatever disturbs or ends the session.
THEOREM MessagesSettleInTurn == Spec => SettledInTurn
<1>1. Init => Line!LineInit
  BY DEF Init, Line!LineInit, Stage
<1>2. ASSUME SessionShape, SessionShape', [Next]_vars
      PROVE  [Line!LineNext]_Line!lineVars
  <2>1. CASE UNCHANGED vars
    BY <2>1, SameStages DEF vars, LineStep
  <2>2. CASE IdleTimeout
    BY <2>2, SameStages DEF IdleTimeout, LineStep
  <2>3. CASE Dispose
    BY <1>2, <2>3, QueueFails DEF Dispose, SessionShape, LineStep
  <2>4. CASE \E i \in Requests : Invoke(i) \/ CallStep(i)
    BY <1>2, <2>4, CallsRefined DEF LineStep
  <2>5. CASE \E q \in Queries :
               \/ StartStep(q) \/ FirstPull(q) \/ Continue(q)
               \/ CancelSeen(q) \/ YieldSeen(q) \/ Result(q) \/ QueryEnds(q)
    BY <1>2, <2>5, QueriesRefined DEF LineStep
  <2> QED BY <1>2, <2>1, <2>2, <2>3, <2>4, <2>5 DEF Next
<1> QED BY <1>1, <1>2, SessionShapeInit, SessionShapeStep, PTL DEF Spec, SettledInTurn, Line!LineSpec
==============================================================================

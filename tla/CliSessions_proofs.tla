-------------------------- MODULE CliSessions_proofs --------------------------
(***************************************************************************)
(* Proofs about CliSessions for any finite set of requests: types, that a  *)
(* busy session has a turn, and how its stream is passed on, whatever is   *)
(* cancelled, deleted or ended by the timer; then, while nothing is        *)
(* cancelled, deleted or ended by the timer, what the mutex of getSession  *)
(* is for: calls share one session object, and its references are counted. *)
(***************************************************************************)
EXTENDS CliSessions, TLAPS, SequenceTheorems, FiniteSetTheorems, WellFoundedInduction

Inside == {"entered", "selecting", "loading"}
Served == {"got", "modelling", "running", "steering", "leaving", "finished"}
Before == {"idle", "waiting", "entered", "loading"}
PCs == Before \cup Served \cup {"selecting", "leaked", "over"}

\* The parts of CliTypeOK: of the service, of the turns, of the requests.
PoolTypes ==
  /\ mutex \in Requests \cup {NoRequest}
  /\ wrapper \in made \cup {NoRequest} /\ terminator \in made \cup {NoRequest}
  /\ expired \subseteq disposed /\ disposed \subseteq made /\ made \subseteq Requests
  /\ refs \in [Requests -> Int]
  /\ deletion \in {"no", "begun", "done"}
TurnTypes ==
  /\ status \in [Requests -> {"none", "busy", "over"}]
  /\ chain \in [Requests -> Seq(Requests)]
  /\ steering \subseteq Requests
  /\ sent \in [Requests -> {"no", "out", "aborted", "ok", "failed"}]
  /\ handled \in [Requests -> {"no", "ok", "failed"}]
  /\ before \in [Requests -> Nat]
FlowTypes ==
  /\ holder \in [Requests -> Requests \cup {NoRequest}]
  /\ queue \in [Requests -> Seq(Requests)]
  /\ lock \in [Requests -> Requests \cup {NoRequest}]
  /\ pc \in [Requests -> PCs]
  /\ session \in [Requests -> Requests \cup {NoRequest}]
  /\ stream \in [Requests -> Requests \cup {NoRequest}]
  /\ cancelled \subseteq Requests
InTurn == {"modelling", "running", "steering"}
SnapshotSound ==
  \A r \in Requests : pc[r] \in InTurn =>
    before[r] + 1 \in DOMAIN chain[session[r]] /\ chain[session[r]][before[r] + 1] = r

LEMMA TypeParts ==
  CliTypeOK <=> PoolTypes /\ TurnTypes /\ FlowTypes /\ SnapshotSound /\ yielded \subseteq Requests
BY DEF CliTypeOK, PoolTypes, TurnTypes, FlowTypes, SnapshotSound, InTurn, PCs, Before, Served

\* The steps but for the early answers, which change nothing else.
WorkNext ==
  \/ \E r \in Requests : CliStep(r)
  \/ Terminate \/ SessionDeleted \/ DeleteSession
  \/ \E r \in Requests : GetSession(r) \/ CancelToken(r)
LEMMA Works == [CliNext]_cliVars => [WorkNext]_workVars
BY DEF CliNext, CliGoesOn, Yield, WorkNext, cliVars

(***************************************************************************)
(* What holds whatever is cancelled, deleted or ended by the timer.        *)
(***************************************************************************)
\* A request waits in one place of one queue; it is there until its turn comes,
\* or was cancelled meanwhile.
InQueue(q, m, i) == i \in DOMAIN queue[m] /\ queue[m][i] = q
QueueSound ==
  /\ \A q, m \in Requests : \A i \in Nat : InQueue(q, m, i) =>
       pc[q] # "idle" /\ (pc[q] = "waiting" \/ q \in cancelled)
  /\ \A q, m, n \in Requests : \A i, j \in Nat : InQueue(q, m, i) /\ InQueue(q, n, j) =>
       m = n /\ i = j

\* A request has a session when it was given one, and makes none before.
SessionSound(r) ==
  /\ session[r] \in made \cup {NoRequest}
  /\ pc[r] \in Before => session[r] = NoRequest /\ r \notin made
  /\ pc[r] \in Served \cup {"selecting"} => session[r] \in made

StreamSound(s) ==
  stream[s] # NoRequest => session[stream[s]] = s /\ pc[stream[s]] \in Served

StatusSound ==
  /\ \A s \in Requests \ made : status[s] = "none"
  /\ BusyIsRunning

CliShape ==
  /\ PoolTypes /\ TurnTypes /\ FlowTypes /\ SnapshotSound
  /\ QueueSound
  /\ \A r \in Requests : SessionSound(r)
  /\ \A s \in Requests : StreamSound(s)
  /\ StatusSound
------------------------------------------------------------------------------
\* Release of a lock: the request that holds it goes on as pcs says, and at most
\* one that waits enters.
LEMMA UnlockEffect ==
  ASSUME FlowTypes, QueueSound, NEW r \in Requests, pc[r] \in Inside,
         NEW p \in Served \cup {"leaked", "over"}, Unlock(r, [pc EXCEPT ![r] = p]),
         UNCHANGED cancelled
  PROVE  /\ holder' \in [Requests -> Requests \cup {NoRequest}]
         /\ lock' \in [Requests -> Requests \cup {NoRequest}]
         /\ queue' \in [Requests -> Seq(Requests)]
         /\ pc' \in [Requests -> PCs]
         /\ pc'[r] = p
         /\ \A q \in Requests : q # r => pc'[q] = pc[q] \/ (pc[q] = "waiting" /\ pc'[q] = "entered")
         /\ QueueSound'
<1> DEFINE m == lock[r]
           pcs == [pc EXCEPT ![r] = p]
<1>1. /\ pcs \in [Requests -> PCs] /\ pcs[r] = p /\ p \notin {"idle", "waiting"}
      /\ \A q \in Requests : q # r => pcs[q] = pc[q]
  BY DEF FlowTypes, PCs, Before, Served
\* the queues are sound again if they hold fewer requests, in the same order
<1>2. ASSUME NEW shift \in [Requests -> Nat],
             \A q, n \in Requests : \A i \in Nat : InQueue(q, n, i)' =>
               InQueue(q, n, i + shift[n]) /\ (q # r => pc'[q] = pc[q]), pc'[r] = p
      PROVE  QueueSound'
  <2>1. \A q, n \in Requests : \A i \in Nat : InQueue(q, n, i)' =>
          pc'[q] # "idle" /\ (pc'[q] = "waiting" \/ q \in cancelled')
    <3> SUFFICES ASSUME NEW q \in Requests, NEW n \in Requests, NEW i \in Nat, InQueue(q, n, i)'
                 PROVE  pc'[q] # "idle" /\ (pc'[q] = "waiting" \/ q \in cancelled)
      OBVIOUS
    <3>1. pc[q] # "idle" /\ (pc[q] = "waiting" \/ q \in cancelled)
      BY <1>2 DEF QueueSound
    <3> QED BY <1>1, <1>2, <3>1 DEF Inside
  <2>2. \A q, n, k \in Requests : \A i, j \in Nat : InQueue(q, n, i)' /\ InQueue(q, k, j)' =>
          n = k /\ i = j
    <3> SUFFICES ASSUME NEW q \in Requests, NEW n \in Requests, NEW k \in Requests,
                        NEW i \in Nat, NEW j \in Nat, InQueue(q, n, i)', InQueue(q, k, j)'
                 PROVE  n = k /\ i = j
      OBVIOUS
    <3>1. n = k /\ i + shift[n] = j + shift[k]
      BY <1>2 DEF QueueSound
    <3> QED BY <3>1
  <2> QED BY <2>1, <2>2 DEF QueueSound
<1>3. CASE m = NoRequest \/ queue[m] = <<>>
  <2>1. /\ holder' = [n \in Requests |-> IF n = m THEN NoRequest ELSE holder[n]]
        /\ lock' = [lock EXCEPT ![r] = NoRequest]
        /\ pc' = pcs /\ queue' = queue
    BY <1>3 DEF Unlock, UnlocksQuietly
  <2> HIDE DEF pcs
  <2>2. QueueSound'
    <3>1. \A q, n \in Requests : \A i \in Nat : InQueue(q, n, i)' =>
            InQueue(q, n, i + [k \in Requests |-> 0][n]) /\ (q # r => pc'[q] = pc[q])
      BY <1>1, <2>1 DEF InQueue
    <3> QED BY <1>1, <1>2, <2>1, <3>1
  <2> QED BY <1>1, <2>1, <2>2 DEF FlowTypes
<1>4. CASE m # NoRequest /\ queue[m] # <<>>
  <2> DEFINE next == Head(queue[m])
             shift == [k \in Requests |-> IF k = m THEN 1 ELSE 0]
  <2>1. /\ m \in Requests /\ queue[m] \in Seq(Requests) /\ 1 \in DOMAIN queue[m]
        /\ next = queue[m][1] /\ next \in Requests
    BY <1>4 DEF FlowTypes
  <2>2. queue' = [queue EXCEPT ![m] = Tail(@)]
    BY <1>4 DEF Unlock
  <2>3. /\ queue' \in [Requests -> Seq(Requests)]
        /\ \A n \in Requests : n # m => queue'[n] = queue[n]
        /\ queue'[m] = Tail(queue[m])
    BY <2>1, <2>2 DEF FlowTypes
  <2>4. InQueue(next, m, 1) /\ pc[next] # "idle"
    BY <2>1 DEF InQueue, QueueSound
  <2>5. \A q, n \in Requests : \A i \in Nat : InQueue(q, n, i)' =>
          q # next /\ InQueue(q, n, i + shift[n])
    <3> HIDE DEF next
    <3> SUFFICES ASSUME NEW q \in Requests, NEW n \in Requests, NEW i \in Nat,
                        i \in DOMAIN queue'[n], queue'[n][i] = q
                 PROVE  q # next /\ InQueue(q, n, i + shift[n])
      BY DEF InQueue
    <3>1. InQueue(q, n, i + shift[n]) /\ (n = m => i >= 1)
      <4>1. CASE n = m
        <5>1. i \in Nat /\ i >= 1 /\ i + 1 \in DOMAIN queue[m] /\ queue[m][i + 1] = q
          <6>1. i \in 1..Len(Tail(queue[m])) /\ Tail(queue[m])[i] = q
            <7>1. queue'[n] = Tail(queue[m]) /\ queue'[n] \in Seq(Requests)
              BY <2>3, <4>1
            <7> QED BY <7>1
          <6>2. /\ Len(Tail(queue[m])) = Len(queue[m]) - 1 /\ Len(queue[m]) \in Nat
                /\ \A j \in 1..Len(Tail(queue[m])) : Tail(queue[m])[j] = queue[m][j + 1]
            BY <1>4, <2>1, HeadTailProperties
          <6> QED BY <2>1, <6>1, <6>2
        <5> QED BY <4>1, <5>1 DEF InQueue
      <4>2. CASE n # m
        <5>1. shift[n] = 0 /\ i + 0 = i
          BY <4>2
        <5> QED BY <2>3, <4>2, <5>1 DEF InQueue
      <4> QED BY <4>1, <4>2
    <3>2. q = next => n = m /\ i + shift[n] = 1
      BY <2>1, <2>4, <3>1 DEF QueueSound
    <3> QED BY <3>1, <3>2
  <2> HIDE DEF pcs, next, shift
  <2>6. shift \in [Requests -> Nat]
    BY DEF shift
  <2>7. CASE next \in cancelled
    <3>1. /\ holder' = [holder EXCEPT ![m] = NoRequest]
          /\ lock' = [lock EXCEPT ![r] = NoRequest]
          /\ pc' = pcs
      BY <1>4, <2>7 DEF Unlock, next, pcs
    <3>2. QueueSound'
      BY <1>1, <1>2, <2>5, <2>6, <3>1
    <3> QED BY <1>1, <2>1, <2>3, <3>1, <3>2 DEF FlowTypes
  <2>8. CASE next \notin cancelled
    <3>1. /\ holder' = [holder EXCEPT ![m] = next]
          /\ lock' = [lock EXCEPT ![r] = NoRequest, ![next] = m]
          /\ pc' = [pcs EXCEPT ![next] = "entered"]
      BY <1>4, <2>8 DEF Unlock, next, pcs
    <3>2. pc[next] = "waiting" /\ next # r
      BY <2>1, <2>4, <2>8 DEF QueueSound, Inside
    <3>3. /\ pc' \in [Requests -> PCs] /\ pc'[r] = p /\ pc'[next] = "entered"
          /\ \A q \in Requests : q # next /\ q # r => pc'[q] = pc[q]
      BY <1>1, <2>1, <3>1, <3>2 DEF PCs, Before
    <3>4. QueueSound'
      BY <1>2, <2>5, <2>6, <3>3
    <3>5. /\ holder' \in [Requests -> Requests \cup {NoRequest}]
          /\ lock' \in [Requests -> Requests \cup {NoRequest}]
      BY <2>1, <3>1 DEF FlowTypes
    <3> QED BY <2>3, <3>2, <3>3, <3>4, <3>5
  <2> QED BY <2>7, <2>8
<1> QED BY <1>3, <1>4
------------------------------------------------------------------------------
(***************************************************************************)
(* What a step that leaves most things alone keeps.                        *)
(***************************************************************************)
LEMMA SnapshotKept ==
  ASSUME SnapshotSound, UNCHANGED <<before, chain>>,
         \A q \in Requests : pc'[q] \in InTurn => pc[q] \in InTurn /\ session'[q] = session[q]
  PROVE  SnapshotSound'
BY DEF SnapshotSound

\* Requests go on, and streams are detached.
LEMMA StreamsKept ==
  ASSUME CliShape,
         \A s \in Requests : stream'[s] # NoRequest => stream'[s] = stream[s] /\
           pc'[stream[s]] \in Served /\ session'[stream[s]] = session[stream[s]]
  PROVE  \A s \in Requests : StreamSound(s)'
BY DEF CliShape, StreamSound

\* A request that has its session goes on, or a step of none.
LEMMA ServedShape ==
  ASSUME CliShape, NEW r \in Requests, PoolTypes', TurnTypes', SnapshotSound', StatusSound',
         pc' \in [Requests -> PCs], \A q \in Requests : q # r => pc'[q] = pc[q],
         pc'[r] = pc[r] \/ (pc[r] \in Served /\ pc'[r] \in Served \cup {"over"}),
         UNCHANGED <<holder, queue, lock, session, made, cancelled>>,
         stream' \in [Requests -> Requests \cup {NoRequest}],
         \A s \in Requests : stream'[s] \in {stream[s], NoRequest} /\
           (pc'[r] = "over" /\ pc[r] # "over" => stream'[s] # r)
  PROVE  CliShape'
<1>1. FlowTypes'
  BY DEF CliShape, FlowTypes
<1>2. QueueSound'
  <2>1. \A q \in Requests : /\ pc[q] # "idle" => pc'[q] # "idle"
                            /\ pc[q] = "waiting" => pc'[q] = "waiting"
    BY DEF Served
  <2> QED BY <2>1 DEF CliShape, QueueSound, InQueue
<1>3. \A q \in Requests : SessionSound(q)'
  BY DEF CliShape, SessionSound, Before, Served
<1>4. \A s \in Requests : StreamSound(s)'
  <2> SUFFICES ASSUME NEW s \in Requests, stream'[s] # NoRequest
               PROVE  stream'[s] = stream[s] /\ pc'[stream[s]] \in Served
    BY StreamsKept
  <2>1. stream'[s] = stream[s]
    OBVIOUS
  <2>2. stream[s] \in Requests /\ pc[stream[s]] \in Served
    BY <2>1 DEF CliShape, StreamSound, FlowTypes
  <2>3. CASE stream[s] # r
    BY <2>1, <2>2, <2>3
  <2>4. CASE stream[s] = r
    <3>1. pc'[r] # "over"
      BY <2>1, <2>2, <2>4 DEF Served
    <3> QED BY <2>1, <2>2, <2>4, <3>1
  <2> QED BY <2>3, <2>4
<1> QED BY <1>1, <1>2, <1>3, <1>4 DEF CliShape

LEMMA AbortedType ==
  ASSUME TurnTypes, NEW s
  PROVE  Aborted(s) \in [Requests -> {"no", "out", "aborted", "ok", "failed"}]
BY DEF TurnTypes, Aborted
------------------------------------------------------------------------------
(***************************************************************************)
(* The steps, one by one.                                                  *)
(***************************************************************************)
LEMMA HandleShape ==
  ASSUME CliShape, NEW r \in Requests, HandleRequest(r)
  PROVE  CliShape'
<1> DEFINE s == session[r]
<1>1. /\ pc[r] = "got"
      /\ before' = [before EXCEPT ![r] = Len(chain[s])]
      /\ chain' = [chain EXCEPT ![s] = Append(@, r)]
      /\ pc' = [pc EXCEPT ![r] = "modelling"]
      /\ steering' \in {steering, steering \cup {r}}
      /\ UNCHANGED <<mutex, holder, queue, lock, wrapper, made, disposed, refs, terminator>>
      /\ UNCHANGED <<expired, deletion, status, sent, handled, stream, session, cancelled>>
  BY DEF HandleRequest, Snapshot, mutexVars, poolVars
<1>2. s \in Requests /\ chain[s] \in Seq(Requests)
  BY <1>1 DEF CliShape, SessionSound, Served, PoolTypes, TurnTypes
<1>3. /\ chain' \in [Requests -> Seq(Requests)] /\ before' \in [Requests -> Nat]
      /\ pc' \in [Requests -> PCs] /\ pc'[r] = "modelling"
      /\ \A q \in Requests : q # r => pc'[q] = pc[q]
  BY <1>1, <1>2 DEF CliShape, TurnTypes, FlowTypes, PCs, Before, Served
<1>4. SnapshotSound'
  <2> SUFFICES ASSUME NEW q \in Requests, pc'[q] \in InTurn
               PROVE  /\ before'[q] + 1 \in DOMAIN chain'[session[q]]
                      /\ chain'[session[q]][before'[q] + 1] = q
    BY <1>1 DEF SnapshotSound
  <2>1. CASE q = r
    <3>1. before'[q] = Len(chain[s]) /\ chain'[session[q]] = Append(chain[s], r)
      BY <1>1, <1>2, <2>1 DEF CliShape, TurnTypes
    <3> QED BY <1>2, <2>1, <3>1
  <2>2. CASE q # r
    <3>1. pc[q] \in InTurn
      BY <1>3, <2>2
    <3>2. before'[q] = before[q] /\ session[q] \in Requests
      BY <1>1, <2>2, <3>1, SMTT(30) DEF CliShape, TurnTypes, PoolTypes, SessionSound, Served, InTurn
    <3>3. before[q] + 1 \in DOMAIN chain[session[q]] /\ chain[session[q]][before[q] + 1] = q
      BY <3>1 DEF CliShape, SnapshotSound
    <3>4. chain'[session[q]] \in {chain[session[q]], Append(chain[session[q]], r)}
      BY <1>1, <3>2 DEF CliShape, TurnTypes
    <3>5. chain[session[q]] \in Seq(Requests)
      BY <3>2 DEF CliShape, TurnTypes
    <3> QED BY <3>2, <3>3, <3>4, <3>5, SMTT(30)
  <2> QED BY <2>1, <2>2
<1>5. PoolTypes' /\ TurnTypes'
  BY <1>1, <1>3 DEF CliShape, PoolTypes, TurnTypes
<1>6. StatusSound'
  BY <1>1, <1>3 DEF CliShape, StatusSound, BusyIsRunning, FlowTypes
<1>7. stream' \in [Requests -> Requests \cup {NoRequest}]
  BY <1>1 DEF CliShape, FlowTypes
<1> QED BY <1>1, <1>3, <1>4, <1>5, <1>6, <1>7, ServedShape DEF Served

\* LetGo, from Leave and NotHandled
LEMMA LetGoShape ==
  ASSUME CliShape, NEW r \in Requests, pc[r] \in Served, pc[r] # "running", LetGo(r)
  PROVE  CliShape'
<1> DEFINE s == session[r]
<1>1. /\ stream' = [stream EXCEPT ![s] = IF @ = r THEN NoRequest ELSE @]
      /\ refs' = [refs EXCEPT ![s] = @ - 1]
      /\ disposed' \in {disposed, disposed \cup {s}}
      /\ wrapper' \in {wrapper, NoRequest} /\ mutex' \in {mutex, NoRequest}
      /\ sent' \in {sent, Aborted(s)}
      /\ pc' = [pc EXCEPT ![r] = "over"]
      /\ UNCHANGED <<holder, queue, lock, made, terminator, expired, deletion, status>>
      /\ UNCHANGED <<chain, steering, before, handled, session, cancelled>>
  BY DEF LetGo, Detach, Release
<1>2. s \in made /\ made \subseteq Requests
  BY DEF CliShape, SessionSound, PoolTypes
<1>3. /\ pc' \in [Requests -> PCs] /\ pc'[r] = "over"
      /\ \A q \in Requests : q # r => pc'[q] = pc[q]
  BY <1>1 DEF CliShape, FlowTypes, PCs
<1>4. PoolTypes'
  BY <1>1, <1>2 DEF CliShape, PoolTypes
<1>5. TurnTypes'
  BY <1>1, AbortedType DEF CliShape, TurnTypes
<1>6. SnapshotSound'
  BY <1>1, <1>3, SnapshotKept DEF CliShape, InTurn
<1>7. StatusSound'
  BY <1>1, <1>3 DEF CliShape, StatusSound, BusyIsRunning
<1>8. /\ stream' \in [Requests -> Requests \cup {NoRequest}]
      /\ \A q \in Requests : stream'[q] \in {stream[q], NoRequest}
  BY <1>1 DEF CliShape, FlowTypes
<1>9. \A q \in Requests : stream'[q] # r
  <2> SUFFICES ASSUME NEW q \in Requests, stream'[q] = r PROVE FALSE
    OBVIOUS
  <2>1. stream[q] = r /\ r # NoRequest
    BY <1>8, CliAssumption
  <2>2. q = s
    BY <2>1 DEF CliShape, StreamSound
  <2> QED BY <1>1, <2>1, <2>2 DEF CliShape, FlowTypes
<1> QED BY <1>1, <1>3, <1>4, <1>5, <1>6, <1>7, <1>8, <1>9, ServedShape

\* the steps of handleRequest after its start
LEMMA TurnShape ==
  ASSUME CliShape, NEW r \in Requests,
         ModelFails(r) \/ StartTurn(r) \/ Steer(r) \/ Answered(r) \/ EndTurn(r) \/ EndSteering(r)
  PROVE  CliShape'
<1> DEFINE s == session[r]
<1>1. /\ UNCHANGED <<mutex, holder, queue, lock, wrapper, made, disposed, refs>>
      /\ UNCHANGED <<expired, deletion, chain, steering, before, stream, session, cancelled>>
      /\ handled' \in {handled, [handled EXCEPT ![r] = "ok"], [handled EXCEPT ![r] = "failed"]}
      /\ sent' \in {sent, Aborted(s), [sent EXCEPT ![r] = "ok"], [sent EXCEPT ![r] = "failed"],
                    [sent EXCEPT ![r] = "out"]}
  BY DEF ModelFails, StartTurn, Steer, Answered, EndTurn, EndSteering, Settles, mutexVars, poolVars
<1>2. \/ ModelFails(r) \/ EndSteering(r) \/ Steer(r)
      \/ StartTurn(r) \/ Answered(r) \/ EndTurn(r)
  OBVIOUS
<1>3. /\ pc[r] \in InTurn => s \in made /\ s \in Requests
      /\ pc \in [Requests -> PCs] /\ status \in [Requests -> {"none", "busy", "over"}]
      /\ terminator \in made \cup {NoRequest}
  BY DEF CliShape, FlowTypes, TurnTypes, PoolTypes, SessionSound, Served, InTurn
<1>0. sent' \in [Requests -> {"no", "out", "aborted", "ok", "failed"}]
  <2>1. /\ sent \in [Requests -> {"no", "out", "aborted", "ok", "failed"}]
        /\ Aborted(s) \in [Requests -> {"no", "out", "aborted", "ok", "failed"}]
    BY AbortedType DEF CliShape, TurnTypes
  <2> HIDE DEF s
  <2> QED BY <1>1, <2>1
\* it suffices to say what becomes of the request and of its session
<1>4. ASSUME NEW p \in Served, pc' = [pc EXCEPT ![r] = p],
             p \in InTurn => pc[r] \in InTurn, pc[r] \in Served,
             terminator' \in made \cup {NoRequest},
             status' \in [Requests -> {"none", "busy", "over"}], StatusSound'
      PROVE  CliShape'
  <2>1. /\ pc' \in [Requests -> PCs] /\ pc'[r] = p
        /\ \A q \in Requests : q # r => pc'[q] = pc[q]
    BY <1>3, <1>4 DEF PCs
  <2>2. PoolTypes'
    BY <1>1, <1>4 DEF CliShape, PoolTypes
  <2>3. handled' \in [Requests -> {"no", "ok", "failed"}]
    BY <1>1 DEF CliShape, TurnTypes
  <2>4. TurnTypes'
    BY <1>0, <1>1, <1>4, <2>3 DEF CliShape, TurnTypes
  <2>5. SnapshotSound'
    BY <1>1, <1>4, <2>1, SnapshotKept DEF CliShape
  <2>6. stream' \in [Requests -> Requests \cup {NoRequest}]
    BY <1>1 DEF CliShape, FlowTypes
  <2>7. p # "over"
    BY <1>4 DEF Served
  <2> QED BY <1>1, <1>4, <2>1, <2>2, <2>4, <2>5, <2>6, <2>7, ServedShape
<1>5. CASE ModelFails(r) \/ EndSteering(r) \/ Steer(r)
  <2>1. PICK p \in {"finished", "steering"} :
          /\ pc' = [pc EXCEPT ![r] = p]
          /\ pc[r] \in InTurn /\ pc[r] # "running" /\ UNCHANGED <<status, terminator>>
    BY <1>5 DEF ModelFails, EndSteering, Steer, SteerSettled, Settles, poolVars, InTurn
  <2>2. StatusSound'
    BY <1>1, <1>3, <2>1 DEF CliShape, StatusSound, BusyIsRunning
  <2> QED BY <1>3, <1>4, <2>1, <2>2 DEF Served, InTurn
<1>6. CASE StartTurn(r)
  <2>1. /\ pc[r] = "modelling" /\ pc' = [pc EXCEPT ![r] = "running"]
        /\ status' = [status EXCEPT ![s] = "busy"] /\ terminator' \in {terminator, NoRequest}
    BY <1>6 DEF StartTurn, StatusChanges
  <2>2. StatusSound'
    <3>1. pc'[r] = "running" /\ \A q \in Requests : q # r => pc'[q] = pc[q]
      BY <1>3, <2>1
    <3>2. \A q \in Requests \ made : status'[q] = "none"
      BY <1>3, <2>1 DEF CliShape, StatusSound, InTurn
    <3>3. \A q \in made : status'[q] = "busy" => q = s \/ status[q] = "busy"
      BY <1>3, <2>1 DEF CliShape, PoolTypes
    <3>4. \A q \in made : status'[q] = "busy" =>
            \E k \in Requests : session[k] = q /\ pc'[k] = "running"
      BY <2>1, <3>1, <3>3 DEF CliShape, StatusSound, BusyIsRunning
    <3> QED BY <1>1, <3>2, <3>4 DEF StatusSound, BusyIsRunning
  <2>3. status' \in [Requests -> {"none", "busy", "over"}]
    BY <1>3, <2>1
  <2> QED BY <1>3, <1>4, <2>1, <2>2, <2>3 DEF Served, InTurn
<1>7. CASE Answered(r)
  <2>1. UNCHANGED <<pc, status, terminator, handled>>
    BY <1>7 DEF Answered, poolVars
  <2>2. PoolTypes' /\ StatusSound'
    BY <1>1, <2>1 DEF CliShape, PoolTypes, StatusSound, BusyIsRunning
  <2>4. TurnTypes'
    BY <1>0, <1>1, <2>1 DEF CliShape, TurnTypes
  <2>5. SnapshotSound'
    BY <1>1, <2>1, SnapshotKept DEF CliShape
  <2>6. stream' \in [Requests -> Requests \cup {NoRequest}]
    BY <1>1 DEF CliShape, FlowTypes
  <2> QED BY <1>1, <1>3, <2>1, <2>2, <2>4, <2>5, <2>6, ServedShape
<1>8. CASE EndTurn(r)
  <2>1. /\ pc[r] = "running" /\ pc' = [pc EXCEPT ![r] = "finished"]
        /\ status' = [status EXCEPT ![s] = "over"] /\ terminator' \in {terminator, s}
    BY <1>8 DEF EndTurn, Settles, StatusChanges
  <2>2. s \in made
    BY <1>3, <2>1 DEF InTurn
  <2>3. StatusSound'
    <3>1. \A q \in Requests : q # r => pc'[q] = pc[q]
      BY <1>3, <2>1
    <3>2. \A q \in Requests \ made : status'[q] = "none"
      BY <1>3, <2>1, <2>2 DEF CliShape, StatusSound
    <3>3. \A q \in made : status'[q] = "busy" => q # s /\ status[q] = "busy"
      BY <1>3, <2>1, <2>2 DEF CliShape, PoolTypes
    <3>4. \A q \in made : status'[q] = "busy" =>
            \E k \in Requests : session[k] = q /\ pc'[k] = "running"
      BY <3>1, <3>3 DEF CliShape, StatusSound, BusyIsRunning
    <3> QED BY <1>1, <3>2, <3>4 DEF StatusSound, BusyIsRunning
  <2>4. status' \in [Requests -> {"none", "busy", "over"}]
    BY <1>3, <2>1
  <2> QED BY <1>3, <1>4, <2>1, <2>2, <2>3, <2>4 DEF Served, InTurn
<1> QED BY <1>2, <1>5, <1>6, <1>7, <1>8

LEMMA EndingShape ==
  ASSUME CliShape, Terminate \/ DeleteSession \/ SessionDeleted
  PROVE  CliShape'
<1>1. /\ terminator \in made \cup {NoRequest} /\ wrapper \in made \cup {NoRequest}
      /\ made \subseteq Requests
  BY DEF CliShape, PoolTypes
<1>2. /\ wrapper' \in {wrapper, NoRequest} /\ mutex' \in {mutex, NoRequest}
      /\ sent' \in {sent, Aborted(terminator), Aborted(wrapper)}
      /\ terminator' \in {terminator, NoRequest} /\ deletion' \in {deletion, "begun", "done"}
      /\ refs' \in {refs, [refs EXCEPT ![wrapper] = @ - 1]}
      /\ UNCHANGED <<holder, queue, lock, made, status, chain, steering, before>>
      /\ UNCHANGED <<handled, stream, pc, session, cancelled>>
  BY DEF Terminate, DeleteSession, SessionDeleted, Release, mutexVars, turnVars
<1>3. disposed' \subseteq made /\ expired' \subseteq disposed'
  BY <1>1 DEF Terminate, DeleteSession, SessionDeleted, Release, Disposes, CliShape, PoolTypes
<1>4. PoolTypes'
  BY <1>1, <1>2, <1>3 DEF CliShape, PoolTypes
<1>5. TurnTypes'
  BY <1>2, AbortedType DEF CliShape, TurnTypes
<1> QED BY <1>2, <1>4, <1>5 DEF CliShape, FlowTypes, SnapshotSound, QueueSound, InQueue,
           SessionSound, StreamSound, StatusSound, BusyIsRunning

\* A request inside getSession goes on, and may let another enter.
LEMMA InsideShape ==
  ASSUME CliShape, NEW r \in Requests, pc[r] \in Inside, PoolTypes', TurnTypes',
         made \subseteq made', made' \subseteq made \cup {r},
         UNCHANGED <<status, chain, before, cancelled>>,
         NEW p \in {"got", "leaving", "leaked", "over", "selecting", "loading"}, pc'[r] = p,
         \/ Unlock(r, [pc EXCEPT ![r] = p]) /\ p \notin {"selecting", "loading"}
         \/ pc' = [pc EXCEPT ![r] = p] /\ UNCHANGED <<holder, queue, lock>>,
         NEW x, session' = [session EXCEPT ![r] = x], x \in made' \cup {NoRequest},
         x = NoRequest => p \in {"leaked", "over", "loading"},
         p = "loading" => x = NoRequest /\ r \notin made',
         \/ stream' = stream
         \/ stream' = [stream EXCEPT ![x] = r] /\ x \in made' /\ p \in Served
  PROVE  CliShape'
<1>1. /\ holder' \in [Requests -> Requests \cup {NoRequest}]
      /\ lock' \in [Requests -> Requests \cup {NoRequest}]
      /\ queue' \in [Requests -> Seq(Requests)]
      /\ pc' \in [Requests -> PCs]
      /\ \A q \in Requests : q # r => pc'[q] = pc[q] \/ (pc[q] = "waiting" /\ pc'[q] = "entered")
      /\ QueueSound'
  <2>1. CASE Unlock(r, [pc EXCEPT ![r] = p]) /\ p \notin {"selecting", "loading"}
    <3>1. p \in Served \cup {"leaked", "over"}
      BY <2>1 DEF Served
    <3> QED BY <2>1, <3>1, UnlockEffect DEF CliShape
  <2>2. CASE pc' = [pc EXCEPT ![r] = p] /\ UNCHANGED <<holder, queue, lock>>
    <3>1. /\ pc' \in [Requests -> PCs]
          /\ \A q \in Requests : q # r => pc'[q] = pc[q]
      BY <2>2 DEF CliShape, FlowTypes, PCs, Before, Served
    <3>2. QueueSound'
      BY <2>2, <3>1 DEF CliShape, QueueSound, InQueue, Inside
    <3> QED BY <2>2, <3>1, <3>2 DEF CliShape, FlowTypes
  <2> QED BY <2>1, <2>2
<1>2. /\ made' \subseteq Requests
      /\ session' \in [Requests -> Requests \cup {NoRequest}] /\ session'[r] = x
      /\ \A q \in Requests : q # r => session'[q] = session[q]
  BY DEF CliShape, FlowTypes, PoolTypes
<1>3. stream' \in [Requests -> Requests \cup {NoRequest}]
  <2>1. stream \in [Requests -> Requests \cup {NoRequest}]
    BY DEF CliShape, FlowTypes
  <2>2. CASE stream' = stream
    BY <2>1, <2>2
  <2>3. CASE stream' = [stream EXCEPT ![x] = r]
    BY <2>1, <2>3
  <2> QED BY <2>2, <2>3
<1>4. FlowTypes'
  BY <1>1, <1>2, <1>3 DEF CliShape, FlowTypes
<1>5. SnapshotSound'
  <2>1. \A q \in Requests : pc'[q] \in InTurn => pc[q] \in InTurn /\ session'[q] = session[q]
    BY <1>1, <1>2 DEF InTurn
  <2> QED BY <2>1, SnapshotKept DEF CliShape
<1>6. \A q \in Requests : SessionSound(q)'
  <2>1. SessionSound(r)'
    BY <1>2 DEF SessionSound, Before, Served
  <2>2. ASSUME NEW q \in Requests, q # r PROVE SessionSound(q)'
    <3>1. SessionSound(q) /\ session'[q] = session[q] /\ (q \in made' => q \in made)
      BY <1>2, <2>2 DEF CliShape
    <3> QED BY <1>1, <2>2, <3>1 DEF SessionSound, Before, Served
  <2> QED BY <2>1, <2>2
<1>7. \A q \in Requests : StreamSound(q)'
  <2>1. \A q \in Requests : stream[q] # NoRequest =>
          stream[q] \in Requests /\ stream[q] # r /\ StreamSound(q)
    BY DEF CliShape, FlowTypes, StreamSound, Inside, Served
  <2>2. \A q \in Requests : stream'[q] # NoRequest /\ stream'[q] = stream[q] => StreamSound(q)'
    <3> SUFFICES ASSUME NEW q \in Requests, stream[q] # NoRequest, stream'[q] = stream[q]
                 PROVE  session'[stream[q]] = q /\ pc'[stream[q]] \in Served
      BY DEF StreamSound
    <3>1. /\ stream[q] \in Requests /\ stream[q] # r
          /\ session[stream[q]] = q /\ pc[stream[q]] \in Served
      BY <2>1 DEF StreamSound
    <3> QED BY <1>1, <1>2, <3>1 DEF Served
  <2>3. \A q \in Requests : stream'[q] # stream[q] => StreamSound(q)'
    BY <1>2 DEF StreamSound, CliShape, FlowTypes
  <2> QED BY <2>2, <2>3 DEF StreamSound
<1>8. StatusSound'
  <2>1. \A q \in Requests \ made' : status'[q] = "none"
    BY DEF CliShape, StatusSound
  <2>2. \A q \in made' : status'[q] = "busy" => q \in made /\ status[q] = "busy"
    BY <1>2 DEF CliShape, StatusSound
  <2>3. \A q \in Requests : pc[q] = "running" => pc'[q] = "running" /\ session'[q] = session[q]
    BY <1>1, <1>2 DEF Inside
  <2> QED BY <2>1, <2>2, <2>3 DEF CliShape, StatusSound, BusyIsRunning
<1> QED BY <1>1, <1>4, <1>5, <1>6, <1>7, <1>8 DEF CliShape

\* getSession up to its end
LEMMA GetShape ==
  ASSUME CliShape, NEW r \in Requests, GetSession(r)
  PROVE  CliShape'
<1> DEFINE m == MutexOf(r)
<1>1. m \in Requests
  BY DEF MutexOf, CliShape, PoolTypes
<1>2. /\ pc[r] = "idle" /\ mutex' = m
      /\ UNCHANGED <<wrapper, made, disposed, refs, terminator, expired, deletion, stream>>
      /\ UNCHANGED <<status, chain, steering, before, sent, handled, session, cancelled>>
  BY DEF GetSession, poolVars, turnVars
<1> HIDE DEF m
<1>3. PoolTypes' /\ TurnTypes' /\ StatusSound' /\ FlowTypes' /\ QueueSound' /\ SnapshotSound'
         /\ (\A q \in Requests : q # r => pc'[q] = pc[q]) /\ pc'[r] \in {"entered", "waiting"}
  <2>1. CASE holder[m] = NoRequest
    <3>1. /\ holder' = [holder EXCEPT ![m] = r] /\ lock' = [lock EXCEPT ![r] = m]
          /\ pc' = [pc EXCEPT ![r] = "entered"] /\ queue' = queue
      BY <2>1 DEF GetSession, m
    <3>2. /\ pc' \in [Requests -> PCs] /\ pc'[r] = "entered"
          /\ \A q \in Requests : q # r => pc'[q] = pc[q]
      BY <3>1 DEF CliShape, FlowTypes, PCs, Before
    <3>3. FlowTypes'
      BY <1>1, <1>2, <3>1, <3>2 DEF CliShape, FlowTypes
    <3>4. QueueSound'
      BY <1>2, <3>1, <3>2 DEF CliShape, QueueSound, InQueue
    <3>5. SnapshotSound'
      BY <1>2, <3>2 DEF CliShape, SnapshotSound, InTurn
    <3>6. StatusSound'
      BY <1>2, <3>2 DEF CliShape, StatusSound, BusyIsRunning
    <3>7. PoolTypes' /\ TurnTypes'
      BY <1>1, <1>2 DEF CliShape, PoolTypes, TurnTypes
    <3> QED BY <3>2, <3>3, <3>4, <3>5, <3>6, <3>7
  <2>2. CASE holder[m] # NoRequest
    <3>1. /\ queue' = [queue EXCEPT ![m] = Append(@, r)]
          /\ pc' = [pc EXCEPT ![r] = "waiting"] /\ UNCHANGED <<holder, lock>>
      BY <2>2 DEF GetSession, m
    <3>2. /\ pc' \in [Requests -> PCs] /\ pc'[r] = "waiting"
          /\ \A q \in Requests : q # r => pc'[q] = pc[q]
      BY <3>1 DEF CliShape, FlowTypes, PCs, Before
    <3>3. /\ queue' \in [Requests -> Seq(Requests)] /\ queue[m] \in Seq(Requests)
          /\ queue'[m] = Append(queue[m], r)
          /\ \A n \in Requests : n # m => queue'[n] = queue[n]
      BY <1>1, <3>1 DEF CliShape, FlowTypes
    <3>4. FlowTypes'
      BY <1>2, <3>1, <3>2, <3>3 DEF CliShape, FlowTypes
    <3>5. \A q, n \in Requests : \A i \in Nat : InQueue(q, n, i)' =>
            InQueue(q, n, i) \/ (q = r /\ n = m /\ i = Len(queue[m]) + 1)
      <4> SUFFICES ASSUME NEW q \in Requests, NEW n \in Requests, NEW i \in Nat,
                          i \in DOMAIN queue'[n], queue'[n][i] = q
                   PROVE  InQueue(q, n, i) \/ (q = r /\ n = m /\ i = Len(queue[m]) + 1)
        BY DEF InQueue
      <4>1. CASE n # m
        BY <3>3, <4>1 DEF InQueue
      <4>2. CASE n = m
        <5>1. i \in DOMAIN Append(queue[m], r) /\ Append(queue[m], r)[i] = q
          BY <3>3, <4>2
        <5>2. i \in 1..Len(queue[m]) + 1
          BY <3>3, <5>1
        <5>3. i # Len(queue[m]) + 1 => i \in DOMAIN queue[m] /\ queue[m][i] = q
          BY <3>3, <5>1, <5>2
        <5>4. i = Len(queue[m]) + 1 => q = r
          BY <3>3, <5>1
        <5> QED BY <4>2, <5>3, <5>4 DEF InQueue
      <4> QED BY <4>1, <4>2
    <3>6. \A n \in Requests : \A i \in Nat : ~InQueue(r, n, i)
      BY <1>2 DEF CliShape, QueueSound
    <3>7. QueueSound'
      <4>1. \A q, n \in Requests : \A i \in Nat : InQueue(q, n, i)' =>
              pc'[q] # "idle" /\ (pc'[q] = "waiting" \/ q \in cancelled')
        BY <1>2, <3>2, <3>5 DEF CliShape, QueueSound
      <4>2. \A q, n, k \in Requests : \A i, j \in Nat : InQueue(q, n, i)' /\ InQueue(q, k, j)' =>
              n = k /\ i = j
        <5> SUFFICES ASSUME NEW q \in Requests, NEW n \in Requests, NEW k \in Requests,
                            NEW i \in Nat, NEW j \in Nat, InQueue(q, n, i)', InQueue(q, k, j)'
                     PROVE  n = k /\ i = j
          OBVIOUS
        <5>1. CASE q = r
          BY <3>5, <3>6, <5>1
        <5>2. CASE q # r
          BY <3>5, <5>2 DEF CliShape, QueueSound
        <5> QED BY <5>1, <5>2
      <4> QED BY <4>1, <4>2 DEF QueueSound
    <3>8. SnapshotSound'
      BY <1>2, <3>2 DEF CliShape, SnapshotSound, InTurn
    <3>9. StatusSound'
      BY <1>2, <3>2 DEF CliShape, StatusSound, BusyIsRunning
    <3>10. PoolTypes' /\ TurnTypes'
      BY <1>1, <1>2 DEF CliShape, PoolTypes, TurnTypes
    <3> QED BY <3>2, <3>4, <3>7, <3>8, <3>9, <3>10
  <2> QED BY <2>1, <2>2
<1>4. \A q \in Requests : SessionSound(q)'
  BY <1>2, <1>3 DEF CliShape, SessionSound, Before, Served
<1>5. \A q \in Requests : StreamSound(q)'
  BY <1>2, <1>3 DEF CliShape, StreamSound, Served, FlowTypes
<1> QED BY <1>3, <1>4, <1>5 DEF CliShape

LEMMA EnterShape ==
  ASSUME CliShape, NEW r \in Requests, Enter(r)
  PROVE  CliShape'
<1>1. /\ pc[r] = "entered" /\ pc[r] \in Inside /\ pc[r] \in Before
      /\ session[r] = NoRequest /\ r \notin made
      /\ UNCHANGED <<mutex, wrapper, made, disposed, terminator, expired, deletion>>
      /\ UNCHANGED <<status, chain, steering, before, sent, handled, cancelled>>
      /\ wrapper \in made \cup {NoRequest}
  BY DEF Enter, turnVars, Inside, Before, CliShape, PoolTypes, SessionSound
<1>2. refs' \in [Requests -> Int]
  BY DEF Enter, Reuses, Loads, CliShape, PoolTypes
<1>3. PoolTypes' /\ TurnTypes'
  BY <1>1, <1>2 DEF CliShape, PoolTypes, TurnTypes
<1>4. CASE Loads(r)
  <2>1. /\ pc' = [pc EXCEPT ![r] = "loading"] /\ pc'[r] = "loading"
        /\ UNCHANGED <<holder, queue, lock, stream>>
        /\ session' = [session EXCEPT ![r] = NoRequest]
    BY <1>1, <1>4 DEF Loads, CliShape, FlowTypes
  <2> QED BY <1>1, <1>3, <2>1, InsideShape
<1>5. CASE Reuses(r)
  <2>1. wrapper \in made /\ wrapper # NoRequest
    BY <1>1, <1>5 DEF Reuses
  <2>2. CASE pc' = [pc EXCEPT ![r] = "selecting"]
             /\ session' = [session EXCEPT ![r] = wrapper]
             /\ UNCHANGED <<holder, queue, lock, stream>>
    <3>1. pc'[r] = "selecting"
      BY <2>2 DEF CliShape, FlowTypes
    <3> QED BY <1>1, <1>3, <2>1, <2>2, <3>1, InsideShape
  <2>3. CASE Returns(r, wrapper)
    <3>1. PICK p \in {"got", "leaving"} : Unlock(r, [pc EXCEPT ![r] = p])
      BY <2>3 DEF Returns
    <3>2. pc'[r] = p
      BY <1>1, <3>1, UnlockEffect DEF CliShape, Served
    <3>3. /\ session' = [session EXCEPT ![r] = wrapper]
          /\ stream' = [stream EXCEPT ![wrapper] = r] /\ p \in Served
      BY <2>3 DEF Returns, Served
    <3> QED BY <1>1, <1>3, <2>1, <3>1, <3>2, <3>3, InsideShape
  <2> QED BY <1>5, <2>2, <2>3 DEF Reuses
<1> QED BY <1>4, <1>5 DEF Enter

LEMMA SelectedShape ==
  ASSUME CliShape, NEW r \in Requests,
         AgentSelected(r) \/ SelectionFails(r) \/ LoadFails(r)
  PROVE  CliShape'
<1>1. /\ pc[r] \in Inside
      /\ UNCHANGED <<mutex, wrapper, made, disposed, refs, terminator, expired, deletion>>
      /\ UNCHANGED <<status, chain, steering, before, sent, handled, cancelled>>
      /\ session' = [session EXCEPT ![r] = session[r]]
      /\ session[r] \in made \cup {NoRequest}
      /\ session[r] = NoRequest => pc[r] = "loading"
  BY CliAssumption DEF AgentSelected, SelectionFails, LoadFails, Returns, poolVars, turnVars, Inside,
     CliShape, FlowTypes, PoolTypes, SessionSound
<1>2. PoolTypes' /\ TurnTypes'
  BY <1>1 DEF CliShape, PoolTypes, TurnTypes
<1>3. PICK p \in {"got", "leaving", "leaked", "over"} :
        /\ Unlock(r, [pc EXCEPT ![r] = p])
        /\ p \in {"got", "leaving", "leaked"} => pc[r] = "selecting"
        /\ \/ stream' = stream
           \/ stream' = [stream EXCEPT ![session[r]] = r] /\ p \in Served
  BY DEF AgentSelected, SelectionFails, LoadFails, Returns, Served
<1>4. pc'[r] = p
  BY <1>1, <1>3, UnlockEffect DEF CliShape, Served
<1>5. p \in {"got", "leaving", "leaked"} => session[r] \in made
  BY <1>3 DEF CliShape, SessionSound
<1>6. made' \cup {NoRequest} = made \cup {NoRequest} /\ p \notin {"selecting", "loading"}
  BY <1>1
<1>7. session[r] = NoRequest => p \in {"leaked", "over", "loading"}
  BY <1>1, <1>3
<1> QED BY <1>1, <1>2, <1>3, <1>4, <1>5, <1>6, <1>7, InsideShape DEF Served

LEMMA LoadedShape ==
  ASSUME CliShape, NEW r \in Requests, SessionLoaded(r)
  PROVE  CliShape'
<1>1. /\ pc[r] = "loading" /\ pc[r] \in Inside /\ made' = made \cup {r}
      /\ wrapper' = r /\ r # NoRequest
      /\ mutex' \in {mutex, NoRequest}
      /\ disposed' \in {disposed, disposed \cup {wrapper}}
      /\ disposed' # disposed => wrapper # NoRequest
      /\ refs' \in {[refs EXCEPT ![r] = 1], [refs EXCEPT ![r] = 1, ![wrapper] = @ - 1]}
      /\ sent' \in {sent, Aborted(wrapper)}
      /\ UNCHANGED <<terminator, expired, deletion>>
      /\ UNCHANGED <<status, chain, steering, before, handled, cancelled>>
  BY CliAssumption DEF SessionLoaded, Replaced, Inside
<1>2. PoolTypes'
  BY <1>1 DEF CliShape, PoolTypes
<1>3. TurnTypes'
  <2>1. sent' \in [Requests -> {"no", "out", "aborted", "ok", "failed"}]
    BY <1>1, AbortedType DEF CliShape, TurnTypes
  <2> QED BY <1>1, <2>1 DEF CliShape, TurnTypes
<1>4. PICK p \in {"got", "leaving"} : Unlock(r, [pc EXCEPT ![r] = p])
  BY DEF SessionLoaded, Returns
<1>5. /\ session' = [session EXCEPT ![r] = r]
      /\ stream' = [stream EXCEPT ![r] = r] /\ p \in Served
  BY DEF SessionLoaded, Returns, Served
<1>6. pc'[r] = p
  BY <1>1, <1>4, UnlockEffect DEF CliShape, Served
<1>7. /\ made \subseteq made' /\ made' \subseteq made \cup {r} /\ r \in made'
      /\ pc[r] \in Inside /\ r # NoRequest
      /\ UNCHANGED <<status, chain, before, cancelled>>
  BY <1>1
<1>8. p \notin {"selecting", "loading"}
  OBVIOUS
<1> QED BY <1>2, <1>3, <1>4, <1>5, <1>6, <1>7, <1>8, InsideShape, ZenonT(60)

LEMMA CancelShape ==
  ASSUME CliShape, NEW r \in Requests, CancelToken(r)
  PROVE  CliShape'
<1>1. /\ cancelled' = cancelled \cup {r} /\ r \notin cancelled /\ pc[r] # "idle"
      /\ pc' = IF pc[r] = "waiting" THEN [pc EXCEPT ![r] = "entered"] ELSE pc
      /\ sent' \in {sent, Aborted(session[r])}
      /\ UNCHANGED <<mutex, holder, queue, lock, wrapper, made, disposed, refs, terminator>>
      /\ UNCHANGED <<expired, deletion, status, chain, steering, before, handled>>
      /\ UNCHANGED <<stream, session>>
  BY DEF CancelToken, mutexVars, poolVars
<1>2. /\ pc' \in [Requests -> PCs]
      /\ \A q \in Requests :
           pc'[q] = pc[q] \/ (q = r /\ pc[q] = "waiting" /\ pc'[q] = "entered")
  BY <1>1 DEF CliShape, FlowTypes, PCs, Before
<1>3. TurnTypes'
  <2>1. sent' \in [Requests -> {"no", "out", "aborted", "ok", "failed"}]
    BY <1>1, AbortedType DEF CliShape, TurnTypes
  <2> QED BY <1>1, <2>1 DEF CliShape, TurnTypes
<1>4. PoolTypes' /\ FlowTypes'
  BY <1>1, <1>2 DEF CliShape, PoolTypes, FlowTypes
<1>5. SnapshotSound'
  BY <1>1, <1>2 DEF CliShape, SnapshotSound, InTurn
<1>6. QueueSound'
  BY <1>1, <1>2 DEF CliShape, QueueSound, InQueue
<1>7. \A q \in Requests : SessionSound(q)'
  BY <1>1, <1>2 DEF CliShape, SessionSound, Before, Served
<1>8. \A q \in Requests : StreamSound(q)'
  BY <1>1, <1>2 DEF CliShape, StreamSound, Served, FlowTypes
<1>9. StatusSound'
  <2>1. \A q \in Requests : pc[q] = "running" => pc'[q] = "running"
    BY <1>2
  <2> QED BY <1>1, <2>1 DEF CliShape, StatusSound, BusyIsRunning
<1> QED BY <1>3, <1>4, <1>5, <1>6, <1>7, <1>8, <1>9 DEF CliShape
------------------------------------------------------------------------------
LEMMA ShapeInit == CliInit => CliShape
<1> SUFFICES ASSUME CliInit PROVE CliShape
  OBVIOUS
<1>1. PoolTypes /\ TurnTypes /\ FlowTypes
  BY DEF CliInit, PoolTypes, TurnTypes, FlowTypes, PCs, Before
<1>2. SnapshotSound /\ QueueSound /\ StatusSound
  BY DEF CliInit, SnapshotSound, InTurn, QueueSound, InQueue, StatusSound, BusyIsRunning
<1>3. \A r \in Requests : SessionSound(r) /\ StreamSound(r)
  BY DEF CliInit, SessionSound, StreamSound, Before, Served
<1> QED BY <1>1, <1>2, <1>3 DEF CliShape

LEMMA ShapeStep == CliShape /\ [WorkNext]_workVars => CliShape'
<1> SUFFICES ASSUME CliShape, [WorkNext]_workVars PROVE CliShape'
  OBVIOUS
<1>1. CASE UNCHANGED workVars
  <2>1. /\ UNCHANGED <<mutex, holder, queue, lock, wrapper, made, disposed, refs>>
        /\ UNCHANGED <<terminator, expired, deletion, status, chain, steering, before, sent>>
        /\ UNCHANGED <<handled, stream, pc, session, cancelled>>
    BY <1>1 DEF workVars, mutexVars, poolVars, turnVars
  <2>2. PoolTypes' /\ TurnTypes' /\ FlowTypes' /\ SnapshotSound'
    BY <2>1 DEF CliShape, PoolTypes, TurnTypes, FlowTypes, SnapshotSound
  <2>3. QueueSound' /\ StatusSound'
    BY <2>1 DEF CliShape, QueueSound, InQueue, StatusSound, BusyIsRunning
  <2>4. \A r \in Requests : SessionSound(r)' /\ StreamSound(r)'
    BY <2>1 DEF CliShape, SessionSound, StreamSound
  <2> QED BY <2>2, <2>3, <2>4 DEF CliShape
<1>2. CASE Terminate \/ SessionDeleted \/ DeleteSession
  BY <1>2, EndingShape
<1>3. ASSUME NEW r \in Requests, CliStep(r) PROVE CliShape'
  <2>1. CASE NotHandled(r) \/ Leave(r)
    <3>1. pc[r] \in Served /\ pc[r] # "running" /\ LetGo(r)
      BY <2>1 DEF NotHandled, Leave, Served
    <3> QED BY <3>1, LetGoShape
  <2> QED BY <1>3, <2>1, EnterShape, SelectedShape, LoadedShape, HandleShape, TurnShape DEF CliStep
<1>4. ASSUME NEW r \in Requests, GetSession(r) \/ CancelToken(r) PROVE CliShape'
  BY <1>4, GetShape, CancelShape
<1> QED BY <1>1, <1>2, <1>3, <1>4 DEF WorkNext

\* The type invariant, whatever is cancelled, deleted or ended: among it, that the
\* snapshot a steering request takes ends just before itself.
THEOREM CliTypes == CliSpec => []CliTypeOK
<1> DEFINE Known == yielded \subseteq Requests
<1>1. CliInit => CliShape /\ Known
  BY ShapeInit DEF CliInit
<1>2. CliShape /\ [CliNext]_cliVars => CliShape'
  BY ShapeStep, Works
<1>3. Known /\ [CliNext]_cliVars => Known'
  BY DEF CliNext, CliGoesOn, Yield, cliVars
<1>4. CliShape /\ Known => CliTypeOK
  BY TypeParts DEF CliShape
<1> HIDE DEF Known
<1> QED BY <1>1, <1>2, <1>3, <1>4, PTL DEF CliSpec

\* A session is busy only while a turn runs on it, also after aborts, failures,
\* deletion and the timer.
THEOREM BusyHasTurn == CliSpec => []BusyIsRunning
<1>1. CliShape => BusyIsRunning
  BY DEF CliShape, StatusSound
<1> QED BY <1>1, ShapeInit, ShapeStep, Works, PTL DEF CliSpec

\* What a step makes of the streams: a request that is handed a session attaches
\* its own, and one that leaves detaches its own.
LEMMA StreamMoves ==
  ASSUME CliShape, [WorkNext]_workVars
  PROVE  \/ stream' = stream
         \/ \E r \in Requests : \E s : Attaches(r, s) /\ stream' = [stream EXCEPT ![s] = r]
         \/ \E r \in Requests : pc'[r] = "over" /\ Detach(session[r], r)
<1>1. ASSUME NEW r \in Requests, NEW s, Returns(r, s), pc[r] \in Inside, UNCHANGED cancelled
      PROVE  Attaches(r, s) /\ stream' = [stream EXCEPT ![s] = r]
  <2>1. PICK p \in {"got", "leaving"} : Unlock(r, [pc EXCEPT ![r] = p])
    BY <1>1 DEF Returns
  <2>2. pc'[r] = p
    BY <1>1, <2>1, UnlockEffect DEF CliShape, Served
  <2>3. /\ session' = [session EXCEPT ![r] = s] /\ session \in [Requests -> Requests \cup {NoRequest}]
        /\ stream' = [stream EXCEPT ![s] = r]
    BY <1>1 DEF Returns, CliShape, FlowTypes
  <2> QED BY <1>1, <2>2, <2>3 DEF Attaches, Inside
<1>2. ASSUME NEW r \in Requests, LetGo(r) PROVE pc'[r] = "over" /\ Detach(session[r], r)
  BY <1>2 DEF LetGo, CliShape, FlowTypes
<1>3. ASSUME NEW r \in Requests, Enter(r) \/ AgentSelected(r) \/ SessionLoaded(r)
      PROVE  stream' = stream \/ \E s : Returns(r, s) /\ pc[r] \in Inside /\ UNCHANGED cancelled
  BY <1>3 DEF Enter, Reuses, Loads, AgentSelected, SessionLoaded, Inside
<1>4. ASSUME NEW r \in Requests, NotHandled(r) \/ Leave(r) PROVE LetGo(r)
  BY <1>4 DEF NotHandled, Leave
<1>5. ASSUME NEW r \in Requests, CliStep(r),
             ~(Enter(r) \/ AgentSelected(r) \/ SessionLoaded(r) \/ NotHandled(r) \/ Leave(r))
      PROVE  stream' = stream
  BY <1>5 DEF CliStep, SelectionFails, LoadFails, HandleRequest, ModelFails, StartTurn, Steer,
     Answered, EndTurn, EndSteering
<1>6. ASSUME ~\E r \in Requests : CliStep(r) PROVE stream' = stream
  BY <1>6 DEF WorkNext, Terminate, SessionDeleted, DeleteSession, GetSession, CancelToken, workVars
<1> QED BY <1>1, <1>2, <1>3, <1>4, <1>5, <1>6

\* A stream stays attached until its request leaves or another attaches its own,
\* and no request detaches the stream of another, however many leave in whatever
\* order.
THEOREM StreamHasOwner == CliSpec => StreamPassesOn
<1> DEFINE Passes(s) ==
             \/ stream'[s] = stream[s] /\ stream[s] \in Holders(s)'
             \/ stream'[s] = NoRequest /\ stream[s] \in Holders(s) \ Holders(s)'
             \/ \E r \in Requests : Attaches(r, s) /\ stream'[s] = r
<1>1. ASSUME CliShape, CliShape', [CliNext]_cliVars, NEW s \in made, stream[s] # NoRequest
      PROVE  Passes(s)
  <2>1. s \in Requests /\ stream \in [Requests -> Requests \cup {NoRequest}] /\ stream[s] \in Requests
    BY <1>1 DEF CliShape, PoolTypes, FlowTypes
  <2>2. stream[s] \in Holders(s)
    BY <1>1, <2>1 DEF CliShape, StreamSound, Holders, Served
  <2>3. CASE stream'[s] = stream[s]
    BY <1>1, <2>1, <2>3 DEF CliShape, FlowTypes, StreamSound, Holders, Served
  <2>4. CASE stream'[s] # stream[s]
    <3>1. CASE \E r \in Requests : \E k : Attaches(r, k) /\ stream' = [stream EXCEPT ![k] = r]
      <4>1. PICK r \in Requests : \E k : Attaches(r, k) /\ stream' = [stream EXCEPT ![k] = r]
        BY <3>1
      <4>2. PICK k : Attaches(r, k) /\ stream' = [stream EXCEPT ![k] = r]
        BY <4>1
      <4>3. k = s /\ stream'[s] = r
        BY <2>1, <2>4, <4>2
      <4> QED BY <4>2, <4>3
    <3>2. CASE \E r \in Requests : pc'[r] = "over" /\ Detach(session[r], r)
      <4>1. PICK r \in Requests : pc'[r] = "over" /\ Detach(session[r], r)
        BY <3>2
      <4>2. session[r] = s /\ stream[s] = r /\ stream'[s] = NoRequest
        BY <2>1, <2>4, <4>1 DEF Detach
      <4> QED BY <2>2, <4>1, <4>2 DEF Holders
    <3> QED BY <1>1, <2>4, <3>1, <3>2, StreamMoves, Works
  <2> QED BY <2>3, <2>4
<1>2. CliShape /\ CliShape' /\ [CliNext]_cliVars =>
        [\A s \in made : stream[s] # NoRequest => Passes(s)]_cliVars
  BY <1>1
<1> QED BY <1>2, ShapeInit, ShapeStep, Works, PTL DEF CliSpec, StreamPassesOn
------------------------------------------------------------------------------
LiveIsPooled ==
  /\ \A s \in made \ disposed : s = wrapper
  /\ wrapper \notin disposed

\* The mutex excludes: who is inside getSession holds it, and nobody waits in vain.
InsideHolds ==
  \A r \in Requests : pc[r] \in Inside => mutex \in Requests /\ lock[r] = mutex /\ holder[mutex] = r
HeldInside ==
  \A m \in Requests : holder[m] # NoRequest => m = mutex /\ pc[holder[m]] \in Inside
QueueHeld ==
  \A m \in Requests : queue[m] # <<>> => m = mutex /\ holder[m] # NoRequest
Exclusion == InsideHolds /\ HeldInside /\ QueueHeld

\* What a request has read of the pool stays true while it holds the mutex.
ReadIsTrue ==
  \A r \in Requests : /\ pc[r] = "loading" => wrapper = NoRequest
                      /\ pc[r] = "selecting" => session[r] = wrapper

Counted(s) == {r \in Requests : session[r] = s /\ pc[r] # "over"}
CountSound == \A s \in made : refs[s] = Cardinality(Counted(s))

Shared == LiveIsPooled /\ Exclusion /\ ReadIsTrue /\ CountSound
CliIInv == CliShape /\ (Disturbed \/ Shared)
------------------------------------------------------------------------------
\* Disturbances are not undone.
LEMMA DisturbedStays ==
  ASSUME CliShape, WorkNext, ~Disturbed'
  PROVE  ~Disturbed /\ cancelled = {} /\ cancelled' = {}
<1>1. cancelled \subseteq cancelled' /\ expired \subseteq expired'
      /\ (deletion # "no" => deletion' # "no")
  BY DEF WorkNext, CliStep, GetSession, Enter, AgentSelected, SelectionFails, SessionLoaded,
     LoadFails, HandleRequest, NotHandled, Leave, LetGo, ModelFails, StartTurn, Steer, Answered,
     EndTurn, EndSteering, Terminate, SessionDeleted, DeleteSession, CancelToken, poolVars, turnVars
<1> QED BY <1>1 DEF Disturbed

LEMMA Finite == ASSUME NEW s PROVE IsFiniteSet(Counted(s)) /\ Cardinality(Counted(s)) \in Nat
<1>1. Counted(s) \subseteq Requests
  BY DEF Counted
<1> QED BY <1>1, CliAssumption, FS_Subset, FS_CardinalityType

\* A request that is given session s counts, and no longer when it is over.
LEMMA CountMore ==
  ASSUME NEW s, NEW r \in Requests, session[r] # s \/ pc[r] = "over",
         session'[r] = s, pc'[r] # "over",
         \A q \in Requests : q # r =>
           session'[q] = session[q] /\ (pc'[q] = "over" <=> pc[q] = "over")
  PROVE  Cardinality(Counted(s)') = Cardinality(Counted(s)) + 1
<1>1. Counted(s)' = Counted(s) \cup {r} /\ r \notin Counted(s)
  BY DEF Counted
<1> QED BY <1>1, Finite, FS_AddElement, ZenonT(60)

LEMMA CountLess ==
  ASSUME NEW s, NEW r \in Requests, session[r] = s, pc[r] # "over", pc'[r] = "over",
         \A q \in Requests : q # r =>
           session'[q] = session[q] /\ (pc'[q] = "over" <=> pc[q] = "over")
  PROVE  Cardinality(Counted(s)') = Cardinality(Counted(s)) - 1
<1>1. Counted(s)' = Counted(s) \ {r} /\ r \in Counted(s)
  BY DEF Counted
<1> QED BY <1>1, Finite, FS_RemoveElement

LEMMA CountSame ==
  ASSUME NEW s,
         \A q \in Requests : session'[q] = s /\ pc'[q] # "over" <=> session[q] = s /\ pc[q] # "over"
  PROVE  Counted(s)' = Counted(s)
BY DEF Counted

\* Only one request is inside.
LEMMA Alone ==
  ASSUME Exclusion, NEW r \in Requests, pc[r] \in Inside
  PROVE  /\ lock[r] = mutex /\ mutex \in Requests /\ holder[mutex] = r
         /\ \A q \in Requests : pc[q] \in Inside => q = r
BY DEF Exclusion, InsideHolds

\* A step that concerns no request inside getSession keeps the exclusion.
LEMMA OutsideKeeps ==
  ASSUME Exclusion, UNCHANGED <<mutex, holder, queue, lock>>,
         \A q \in Requests : pc'[q] \in Inside <=> pc[q] \in Inside,
         holder \in [Requests -> Requests \cup {NoRequest}]
  PROVE  Exclusion'
<1>1. InsideHolds'
  BY DEF Exclusion, InsideHolds
<1>2. HeldInside'
  BY DEF Exclusion, HeldInside
<1>3. QueueHeld'
  BY DEF Exclusion, QueueHeld
<1> QED BY <1>1, <1>2, <1>3 DEF Exclusion

\* Release of the mutex hands it on.
LEMMA UnlockKeeps ==
  ASSUME CliShape, Exclusion, cancelled = {}, NEW r \in Requests, pc[r] \in Inside,
         NEW p \in Served \cup {"leaked", "over"}, Unlock(r, [pc EXCEPT ![r] = p]),
         UNCHANGED mutex
  PROVE  /\ Exclusion'
         /\ pc'[r] = p
         /\ \A q \in Requests : q # r => pc'[q] \notin {"loading", "selecting"} /\
              (pc'[q] = "over" <=> pc[q] = "over")
<1> DEFINE m == mutex
           next == Head(queue[m])
<1>1. /\ lock[r] = m /\ m \in Requests /\ holder[m] = r /\ m # NoRequest
      /\ \A q \in Requests : pc[q] \in Inside => q = r
  BY Alone, CliAssumption
<1>2. /\ holder \in [Requests -> Requests \cup {NoRequest}]
      /\ lock \in [Requests -> Requests \cup {NoRequest}]
      /\ queue \in [Requests -> Seq(Requests)] /\ pc \in [Requests -> PCs]
  BY DEF CliShape, FlowTypes
<1>3. p \notin Inside
  BY DEF Served, Inside
<1>4. CASE queue[m] = <<>>
  <2>1. /\ holder' = [n \in Requests |-> IF n = m THEN NoRequest ELSE holder[n]]
        /\ pc' = [pc EXCEPT ![r] = p] /\ queue' = queue
    BY <1>1, <1>4 DEF Unlock, UnlocksQuietly
  <2>2. pc'[r] = p /\ \A q \in Requests : q # r => pc'[q] = pc[q]
    BY <1>2, <2>1
  <2>3. \A n \in Requests : holder'[n] = NoRequest /\ queue'[n] = <<>>
    BY <1>4, <2>1 DEF Exclusion, HeldInside, QueueHeld
  <2>4. \A q \in Requests : pc'[q] \notin Inside
    BY <1>1, <1>3, <2>2
  <2> QED BY <2>2, <2>3, <2>4 DEF Exclusion, InsideHolds, HeldInside, QueueHeld, Inside
<1>5. CASE queue[m] # <<>>
  <2>1. queue[m] \in Seq(Requests) /\ 1 \in DOMAIN queue[m] /\ next = queue[m][1] /\ next \in Requests
    BY <1>1, <1>2, <1>5
  <2>2. pc[next] = "waiting" /\ next # r
    BY <1>1, <2>1 DEF CliShape, QueueSound, InQueue, Inside
  <2>3. /\ holder' = [holder EXCEPT ![m] = next]
        /\ lock' = [lock EXCEPT ![r] = NoRequest, ![next] = m]
        /\ pc' = [[pc EXCEPT ![r] = p] EXCEPT ![next] = "entered"]
        /\ queue' = [queue EXCEPT ![m] = Tail(@)]
    BY <1>1, <1>5 DEF Unlock
  <2> HIDE DEF next
  <2>4. /\ pc'[r] = p /\ pc'[next] = "entered" /\ lock'[next] = m /\ holder'[m] = next
        /\ \A q \in Requests : q # r /\ q # next => pc'[q] = pc[q]
        /\ \A n \in Requests : n # m => holder'[n] = holder[n] /\ queue'[n] = queue[n]
    BY <1>1, <1>2, <2>1, <2>2, <2>3
  <2>5. \A q \in Requests : pc'[q] \in Inside => q = next
    BY <1>1, <1>3, <2>4
  <2>6. InsideHolds'
    BY <1>1, <2>4, <2>5 DEF InsideHolds
  <2>7. HeldInside'
    BY <1>1, <2>4 DEF HeldInside, Exclusion, Inside
  <2>8. QueueHeld'
    BY <1>1, <2>1, <2>4, CliAssumption DEF QueueHeld, Exclusion
  <2>9. \A q \in Requests : q # r => pc'[q] \notin {"loading", "selecting"} /\
              (pc'[q] = "over" <=> pc[q] = "over")
    BY <1>1, <2>2, <2>4 DEF Inside
  <2> QED BY <2>4, <2>6, <2>7, <2>8, <2>9 DEF Exclusion
<1> QED BY <1>4, <1>5
------------------------------------------------------------------------------
LEMMA GetShared ==
  ASSUME CliShape, Shared, NEW r \in Requests, GetSession(r)
  PROVE  Shared'
<1> DEFINE m == MutexOf(r)
<1>1. /\ pc[r] = "idle" /\ mutex' = m /\ m \in Requests /\ session[r] = NoRequest
      /\ m = IF mutex = NoRequest THEN r ELSE mutex
      /\ UNCHANGED <<wrapper, made, disposed, refs, session>>
      /\ holder \in [Requests -> Requests \cup {NoRequest}]
      /\ lock \in [Requests -> Requests \cup {NoRequest}]
      /\ queue \in [Requests -> Seq(Requests)] /\ pc \in [Requests -> PCs]
  BY DEF GetSession, MutexOf, poolVars, CliShape, PoolTypes, FlowTypes, SessionSound, Before
<1> HIDE DEF m
<1>2. Exclusion' /\ pc'[r] \in {"entered", "waiting"} /\ (\A q \in Requests : q # r => pc'[q] = pc[q])
  <2>1. CASE holder[m] = NoRequest
    <3>1. /\ holder' = [holder EXCEPT ![m] = r] /\ lock' = [lock EXCEPT ![r] = m]
          /\ pc' = [pc EXCEPT ![r] = "entered"] /\ queue' = queue
      BY <2>1 DEF GetSession, m
    <3>2. /\ pc'[r] = "entered" /\ lock'[r] = m /\ holder'[m] = r
          /\ \A q \in Requests : q # r => pc'[q] = pc[q]
          /\ \A n \in Requests : n # m => holder'[n] = holder[n]
      BY <1>1, <3>1
    <3>3. \A q \in Requests : pc[q] \notin Inside
      BY <1>1, <2>1, CliAssumption DEF Shared, Exclusion, InsideHolds
    <3>4. InsideHolds'
      BY <1>1, <3>2, <3>3 DEF InsideHolds
    <3>5. HeldInside'
      BY <1>1, <3>2, CliAssumption DEF Shared, Exclusion, HeldInside, Inside
    <3>6. QueueHeld'
      BY <1>1, <2>1, <3>1, <3>2, CliAssumption DEF Shared, Exclusion, QueueHeld
    <3> QED BY <3>2, <3>4, <3>5, <3>6 DEF Exclusion
  <2>2. CASE holder[m] # NoRequest
    <3>1. /\ queue' = [queue EXCEPT ![m] = Append(@, r)]
          /\ pc' = [pc EXCEPT ![r] = "waiting"] /\ UNCHANGED <<holder, lock>>
      BY <2>2 DEF GetSession, m
    <3>2. /\ pc'[r] = "waiting" /\ \A q \in Requests : q # r => pc'[q] = pc[q]
          /\ \A n \in Requests : n # m => queue'[n] = queue[n]
      BY <1>1, <3>1
    <3>3. mutex = m
      BY <1>1, <2>2 DEF Shared, Exclusion, HeldInside
    <3>4. InsideHolds'
      BY <1>1, <3>1, <3>2, <3>3 DEF Shared, Exclusion, InsideHolds, Inside
    <3>5. HeldInside'
      BY <1>1, <3>1, <3>2, <3>3 DEF Shared, Exclusion, HeldInside, Inside
    <3>6. QueueHeld'
      BY <1>1, <2>2, <3>1, <3>2, <3>3 DEF Shared, Exclusion, QueueHeld
    <3> QED BY <3>2, <3>4, <3>5, <3>6 DEF Exclusion
  <2> QED BY <2>1, <2>2
<1>3. LiveIsPooled' /\ ReadIsTrue'
  BY <1>1, <1>2 DEF Shared, LiveIsPooled, ReadIsTrue
<1>4. CountSound'
  <2>1. \A s \in made : s # NoRequest
    BY CliAssumption DEF CliShape, PoolTypes
  <2>2. \A s \in made : Counted(s)' = Counted(s)
    <3> SUFFICES ASSUME NEW s \in made PROVE Counted(s)' = Counted(s)
      OBVIOUS
    <3>1. \A q \in Requests : session'[q] = s /\ pc'[q] # "over" <=> session[q] = s /\ pc[q] # "over"
      BY <1>1, <1>2, <2>1
    <3> QED BY <3>1, CountSame
  <2> QED BY <1>1, <2>2 DEF Shared, CountSound
<1> QED BY <1>2, <1>3, <1>4 DEF Shared

LEMMA EnterShared ==
  ASSUME CliShape, Shared, cancelled = {}, NEW r \in Requests, Enter(r)
  PROVE  Shared'
<1>1. /\ pc[r] = "entered" /\ pc[r] \in Inside /\ session[r] = NoRequest
      /\ UNCHANGED <<mutex, wrapper, made, disposed>>
      /\ made \subseteq Requests /\ wrapper \in made \cup {NoRequest} /\ NoRequest \notin made
      /\ refs \in [Requests -> Int]
      /\ session \in [Requests -> Requests \cup {NoRequest}] /\ pc \in [Requests -> PCs]
      /\ holder \in [Requests -> Requests \cup {NoRequest}]
  BY CliAssumption
  DEF Enter, Inside, CliShape, PoolTypes, FlowTypes, SessionSound, Before
<1>2. LiveIsPooled'
  BY <1>1 DEF Shared, LiveIsPooled
<1>3. \A q \in Requests : pc[q] \in Inside => q = r
  BY <1>1, Alone DEF Shared
\* a step to the wait for the agent or for the session keeps the lock
<1>4. ASSUME NEW p \in {"selecting", "loading"}, pc' = [pc EXCEPT ![r] = p],
             UNCHANGED <<holder, queue, lock>>
      PROVE  /\ Exclusion' /\ pc'[r] = p
             /\ \A q \in Requests : q # r => pc'[q] \notin {"loading", "selecting"} /\
                  (pc'[q] = "over" <=> pc[q] = "over")
  <2>1. pc'[r] = p /\ \A q \in Requests : q # r => pc'[q] = pc[q]
    BY <1>1, <1>4
  <2>2. \A q \in Requests : pc'[q] \in Inside <=> pc[q] \in Inside
    BY <1>1, <2>1 DEF Inside
  <2>3. Exclusion'
    BY <1>1, <1>4, <2>2, OutsideKeeps DEF Shared
  <2> QED BY <1>3, <2>1, <2>3 DEF Inside
<1>5. CASE Loads(r)
  <2>1. /\ wrapper = NoRequest /\ pc' = [pc EXCEPT ![r] = "loading"]
        /\ UNCHANGED <<holder, queue, lock, refs, session>>
    BY <1>5 DEF Loads
  <2>2. /\ Exclusion' /\ pc'[r] = "loading"
        /\ \A q \in Requests : q # r => pc'[q] \notin {"loading", "selecting"} /\
             (pc'[q] = "over" <=> pc[q] = "over")
    BY <1>4, <2>1
  <2>3. ReadIsTrue'
    BY <1>1, <2>1, <2>2 DEF ReadIsTrue
  <2>4. \A s \in made : Counted(s)' = Counted(s)
    <3> SUFFICES ASSUME NEW s \in made PROVE Counted(s)' = Counted(s)
      OBVIOUS
    <3>1. \A q \in Requests : session'[q] = s /\ pc'[q] # "over" <=> session[q] = s /\ pc[q] # "over"
      BY <1>1, <2>1, <2>2
    <3> QED BY <3>1, CountSame
  <2>5. CountSound'
    BY <1>1, <2>1, <2>4 DEF Shared, CountSound
  <2> QED BY <1>2, <2>2, <2>3, <2>5 DEF Shared
<1>6. CASE Reuses(r)
  <2>1. /\ wrapper \in made /\ wrapper \in Requests
        /\ refs' = [refs EXCEPT ![wrapper] = @ + 1]
        /\ session' = [session EXCEPT ![r] = wrapper]
    BY <1>1, <1>6 DEF Reuses, Returns
  <2>2. /\ Exclusion' /\ pc'[r] # "over" /\ pc'[r] # "loading"
        /\ \A q \in Requests : q # r => pc'[q] \notin {"loading", "selecting"} /\
             (pc'[q] = "over" <=> pc[q] = "over")
    <3>1. CASE pc' = [pc EXCEPT ![r] = "selecting"] /\ UNCHANGED <<holder, queue, lock>>
      BY <1>4, <3>1
    <3>2. CASE Returns(r, wrapper)
      <4>1. PICK p \in {"got", "leaving"} : Unlock(r, [pc EXCEPT ![r] = p])
        BY <3>2 DEF Returns
      <4> QED BY <1>1, <4>1, UnlockKeeps DEF Shared, Served
    <3> QED BY <1>6, <3>1, <3>2 DEF Reuses
  <2>3. session'[r] = wrapper /\ \A q \in Requests : q # r => session'[q] = session[q]
    BY <1>1, <2>1
  <2>4. ReadIsTrue'
    BY <1>1, <2>2, <2>3 DEF ReadIsTrue
  <2>5. Cardinality(Counted(wrapper)') = Cardinality(Counted(wrapper)) + 1
    BY <1>1, <2>1, <2>2, <2>3, CountMore
  <2>6. \A s \in made : s # wrapper => Counted(s)' = Counted(s)
    <3> SUFFICES ASSUME NEW s \in made, s # wrapper PROVE Counted(s)' = Counted(s)
      OBVIOUS
    <3>1. \A q \in Requests : session'[q] = s /\ pc'[q] # "over" <=> session[q] = s /\ pc[q] # "over"
      BY <1>1, <2>2, <2>3
    <3> QED BY <3>1, CountSame
  <2>7. CountSound'
    <3> SUFFICES ASSUME NEW s \in made PROVE refs'[s] = Cardinality(Counted(s)')
      BY <1>1 DEF CountSound, Counted
    <3>1. refs[s] = Cardinality(Counted(s))
      BY DEF Shared, CountSound
    <3>2. CASE s = wrapper
      BY <1>1, <2>1, <2>5, <3>1, <3>2
    <3>3. CASE s # wrapper
      <4>1. refs'[s] = refs[s]
        BY <1>1, <2>1, <3>3
      <4> QED BY <2>6, <3>1, <3>3, <4>1
    <3> QED BY <3>2, <3>3
  <2> QED BY <1>2, <2>2, <2>4, <2>7 DEF Shared
<1> QED BY <1>5, <1>6 DEF Enter

LEMMA SelectedShared ==
  ASSUME CliShape, Shared, cancelled = {}, NEW r \in Requests,
         AgentSelected(r) \/ SelectionFails(r) \/ LoadFails(r)
  PROVE  Shared'
<1>1. /\ pc[r] \in Inside /\ UNCHANGED <<mutex, wrapper, made, disposed, refs>>
      /\ session \in [Requests -> Requests \cup {NoRequest}] /\ session' = session
      /\ NoRequest \notin made
  BY CliAssumption DEF AgentSelected, SelectionFails, LoadFails, Returns, poolVars, Inside,
     CliShape, FlowTypes, PoolTypes
<1>2. PICK p \in {"got", "leaving", "leaked", "over"} :
        /\ Unlock(r, [pc EXCEPT ![r] = p])
        /\ p = "over" => pc[r] = "loading"
        /\ p # "over" => pc[r] = "selecting"
  BY DEF AgentSelected, SelectionFails, LoadFails, Returns
<1>3. /\ Exclusion' /\ pc'[r] = p
      /\ \A q \in Requests : q # r => pc'[q] \notin {"loading", "selecting"} /\
           (pc'[q] = "over" <=> pc[q] = "over")
  BY <1>1, <1>2, UnlockKeeps DEF Shared, Served
<1>4. LiveIsPooled' /\ ReadIsTrue'
  BY <1>1, <1>3 DEF Shared, LiveIsPooled, ReadIsTrue
<1>5. \A s \in made : Counted(s)' = Counted(s)
  <2> SUFFICES ASSUME NEW s \in made PROVE Counted(s)' = Counted(s)
    OBVIOUS
  <2>1. p = "over" => session[r] = NoRequest
    BY <1>2 DEF CliShape, SessionSound, Before
  <2>2. \A q \in Requests : session'[q] = s /\ pc'[q] # "over" <=> session[q] = s /\ pc[q] # "over"
    BY <1>1, <1>2, <1>3, <2>1
  <2> QED BY <2>2, CountSame
<1>6. CountSound'
  BY <1>1, <1>5 DEF Shared, CountSound
<1> QED BY <1>3, <1>4, <1>6 DEF Shared

LEMMA LoadedShared ==
  ASSUME CliShape, Shared, cancelled = {}, NEW r \in Requests, SessionLoaded(r)
  PROVE  Shared'
<1>1. /\ pc[r] = "loading" /\ pc[r] \in Inside /\ session[r] = NoRequest /\ r \notin made
      /\ wrapper = NoRequest /\ disposed \subseteq made /\ r # NoRequest
      /\ NoRequest \notin made /\ made \subseteq Requests
      /\ refs \in [Requests -> Int]
      /\ session \in [Requests -> Requests \cup {NoRequest}]
  BY CliAssumption DEF SessionLoaded, Inside, Shared, ReadIsTrue, CliShape, PoolTypes, FlowTypes,
     SessionSound, Before
<1>2. /\ made' = made \cup {r} /\ wrapper' = r /\ refs' = [refs EXCEPT ![r] = 1]
      /\ UNCHANGED <<mutex, disposed>> /\ session' = [session EXCEPT ![r] = r]
  BY <1>1 DEF SessionLoaded, Replaced, Returns
<1>3. PICK p \in {"got", "leaving"} : Unlock(r, [pc EXCEPT ![r] = p])
  BY DEF SessionLoaded, Returns
<1>4. /\ Exclusion' /\ pc'[r] = p
      /\ \A q \in Requests : q # r => pc'[q] \notin {"loading", "selecting"} /\
           (pc'[q] = "over" <=> pc[q] = "over")
  BY <1>1, <1>2, <1>3, UnlockKeeps DEF Shared, Served
<1>5. session'[r] = r /\ \A q \in Requests : q # r => session'[q] = session[q]
  BY <1>1, <1>2
<1>6. LiveIsPooled' /\ ReadIsTrue'
  BY <1>1, <1>2, <1>4 DEF Shared, LiveIsPooled, ReadIsTrue
<1>7. CountSound'
  <2> SUFFICES ASSUME NEW s \in made' PROVE refs'[s] = Cardinality(Counted(s)')
    BY DEF CountSound, Counted
  <2>1. CASE s = r
    <3>1. Counted(r) = {}
      BY <1>1 DEF Counted, CliShape, SessionSound
    <3>2. Cardinality(Counted(r)') = Cardinality(Counted(r)) + 1
      BY <1>1, <1>4, <1>5, CountMore
    <3> QED BY <1>1, <1>2, <2>1, <3>1, <3>2, FS_EmptySet
  <2>2. CASE s # r
    <3>1. s \in made /\ refs'[s] = refs[s] /\ refs[s] = Cardinality(Counted(s))
      BY <1>1, <1>2, <2>2 DEF Shared, CountSound
    <3>2. \A q \in Requests : session'[q] = s /\ pc'[q] # "over" <=> session[q] = s /\ pc[q] # "over"
      BY <1>1, <1>4, <1>5, <2>2, <3>1
    <3> QED BY <3>1, <3>2, CountSame
  <2> QED BY <2>1, <2>2
<1> QED BY <1>4, <1>6, <1>7 DEF Shared

\* handleRequest neither takes the mutex nor lets go of the session.
LEMMA HandledShared ==
  ASSUME CliShape, Shared, NEW r \in Requests,
         \/ HandleRequest(r) \/ ModelFails(r) \/ StartTurn(r) \/ Steer(r)
         \/ Answered(r) \/ EndTurn(r) \/ EndSteering(r)
  PROVE  Shared'
<1>1. /\ UNCHANGED <<mutex, holder, queue, lock>>
      /\ UNCHANGED <<wrapper, made, disposed, refs, session>>
      /\ \/ pc' = pc
         \/ \E p \in Served : pc[r] \in Served /\ pc' = [pc EXCEPT ![r] = p]
  BY DEF HandleRequest, ModelFails, StartTurn, Steer, Answered, EndTurn, EndSteering, SteerSettled,
     Settles, mutexVars, poolVars, Served
<1>2. /\ pc \in [Requests -> PCs]
      /\ holder \in [Requests -> Requests \cup {NoRequest}]
  BY DEF CliShape, FlowTypes
<1>3. \A q \in Requests : pc'[q] = pc[q] \/ (pc[q] \in Served /\ pc'[q] \in Served)
  BY <1>1, <1>2
<1>4. Exclusion'
  <2>1. \A q \in Requests : pc'[q] \in Inside <=> pc[q] \in Inside
    BY <1>3 DEF Inside, Served
  <2> QED BY <1>1, <1>2, <2>1, OutsideKeeps DEF Shared
<1>5. LiveIsPooled'
  BY <1>1 DEF Shared, LiveIsPooled
<1>6. ReadIsTrue'
  BY <1>1, <1>3 DEF Shared, ReadIsTrue, Served
<1>7. CountSound'
  <2>1. \A s \in made : Counted(s)' = Counted(s)
    <3> SUFFICES ASSUME NEW s \in made PROVE Counted(s)' = Counted(s)
      OBVIOUS
    <3>1. \A q \in Requests : session'[q] = s /\ pc'[q] # "over" <=> session[q] = s /\ pc[q] # "over"
      BY <1>1, <1>3 DEF Served
    <3> QED BY <3>1, CountSame
  <2> QED BY <1>1, <2>1 DEF Shared, CountSound
<1> QED BY <1>4, <1>5, <1>6, <1>7 DEF Shared

\* The last one to let go disposes of the session: nobody is inside then, so that
\* the mutex may be removed.
LEMMA LetGoShared ==
  ASSUME CliShape, Shared, Quiet, NEW r \in Requests, pc[r] \in Served, LetGo(r)
  PROVE  Shared'
<1>0. PICK s : s = session[r]
  OBVIOUS
<1>1. /\ s \in made /\ made \subseteq Requests /\ disposed \subseteq made /\ NoRequest \notin made
      /\ wrapper \in made \cup {NoRequest}
      /\ refs \in [Requests -> Int] /\ pc \in [Requests -> PCs]
      /\ holder \in [Requests -> Requests \cup {NoRequest}]
  BY <1>0, CliAssumption DEF CliShape, PoolTypes, FlowTypes, SessionSound
<1>2. /\ refs' = [refs EXCEPT ![s] = @ - 1] /\ pc' = [pc EXCEPT ![r] = "over"]
      /\ UNCHANGED <<holder, queue, lock, made, session>>
  BY <1>0 DEF LetGo, Release
<1>3. pc'[r] = "over" /\ \A q \in Requests : q # r => pc'[q] = pc[q]
  BY <1>1, <1>2
<1>4. \A q \in Requests : pc'[q] \in Inside <=> pc[q] \in Inside
  BY <1>3 DEF Inside, Served
<1>5. refs[s] = Cardinality(Counted(s))
  BY <1>1 DEF Shared, CountSound
<1>6. CountSound'
  <2>1. Cardinality(Counted(s)') = Cardinality(Counted(s)) - 1
    BY <1>0, <1>2, <1>3, CountLess DEF Served
  <2>2. \A k \in made : k # s => Counted(k)' = Counted(k)
    <3> SUFFICES ASSUME NEW k \in made, k # s PROVE Counted(k)' = Counted(k)
      OBVIOUS
    <3>1. \A q \in Requests : session'[q] = k /\ pc'[q] # "over" <=> session[q] = k /\ pc[q] # "over"
      BY <1>0, <1>2, <1>3
    <3> QED BY <3>1, CountSame
  <2>3. refs'[s] = refs[s] - 1 /\ \A k \in made : k # s => refs'[k] = refs[k]
    BY <1>1, <1>2
  <2> SUFFICES ASSUME NEW k \in made PROVE refs'[k] = Cardinality(Counted(k)')
    BY <1>2 DEF CountSound, Counted
  <2>4. CASE k = s
    BY <1>5, <2>1, <2>3, <2>4
  <2>5. CASE k # s
    BY <2>2, <2>3, <2>5 DEF Shared, CountSound
  <2> QED BY <2>4, <2>5
<1>7. CASE ~Disposes(s)
  <2>1. UNCHANGED <<disposed, wrapper, mutex>>
    BY <1>0, <1>7 DEF LetGo, Release
  <2>2. Exclusion'
    BY <1>1, <1>2, <1>4, <2>1, OutsideKeeps DEF Shared
  <2>3. LiveIsPooled' /\ ReadIsTrue'
    BY <1>2, <1>3, <2>1 DEF Shared, LiveIsPooled, ReadIsTrue
  <2> QED BY <1>6, <2>2, <2>3 DEF Shared
<1>8. CASE Disposes(s)
  <2>1. disposed' = disposed \cup {s} /\ wrapper' = NoRequest /\ mutex' = NoRequest
    BY <1>0, <1>8 DEF LetGo, Release
  <2>2. s = wrapper /\ s # NoRequest
    BY <1>1, <1>8 DEF Disposes, Shared, LiveIsPooled
  <2>3. Counted(s) = {r}
    <3>1. Cardinality(Counted(s)) = 1 /\ r \in Counted(s)
      BY <1>0, <1>5, <1>8 DEF Disposes, Counted, Served
    <3>2. Cardinality(Counted(s) \ {r}) = 0 /\ IsFiniteSet(Counted(s) \ {r})
      BY <3>1, Finite, FS_RemoveElement
    <3>3. Counted(s) \ {r} = {}
      BY <3>2, FS_EmptySet
    <3> QED BY <3>1, <3>3
  <2>4. \A q \in Requests : pc[q] \notin Inside
    <3> SUFFICES ASSUME NEW q \in Requests, pc[q] \in Inside PROVE FALSE
      OBVIOUS
    <3>1. CASE pc[q] = "entered"
      BY <3>1 DEF Quiet
    <3>2. CASE pc[q] = "loading"
      BY <2>2, <3>2 DEF Shared, ReadIsTrue
    <3>3. CASE pc[q] = "selecting"
      <4>1. session[q] = s
        BY <2>2, <3>3 DEF Shared, ReadIsTrue
      <4>2. q \in Counted(s) /\ q # r
        BY <3>3, <4>1 DEF Counted, Served
      <4> QED BY <2>3, <4>2
    <3> QED BY <3>1, <3>2, <3>3 DEF Inside
  <2>5. \A n \in Requests : holder[n] = NoRequest /\ queue[n] = <<>>
    BY <1>1, <2>4, CliAssumption DEF Shared, Exclusion, HeldInside, QueueHeld
  <2>6. Exclusion'
    BY <1>2, <1>4, <2>4, <2>5 DEF Exclusion, InsideHolds, HeldInside, QueueHeld
  <2>7. ReadIsTrue'
    BY <1>4, <2>4 DEF ReadIsTrue, Inside
  <2>8. LiveIsPooled'
    BY <1>1, <1>2, <2>1, <2>2 DEF Shared, LiveIsPooled
  <2> QED BY <1>6, <2>6, <2>7, <2>8 DEF Shared
<1> QED BY <1>7, <1>8
------------------------------------------------------------------------------
LEMMA SharedInit == CliInit => CliIInv
<1> SUFFICES ASSUME CliInit PROVE Shared
  BY ShapeInit DEF CliIInv
<1>1. LiveIsPooled
  BY DEF CliInit, LiveIsPooled
<1>2. Exclusion
  BY DEF CliInit, Exclusion, InsideHolds, HeldInside, QueueHeld, Inside
<1>3. ReadIsTrue /\ CountSound
  BY DEF CliInit, ReadIsTrue, CountSound
<1> QED BY <1>1, <1>2, <1>3 DEF Shared

LEMMA SharedStep == CliIInv /\ [WorkNext]_workVars => CliIInv'
<1> SUFFICES ASSUME CliShape, Disturbed \/ Shared, [WorkNext]_workVars, ~Disturbed' PROVE Shared'
  BY ShapeStep DEF CliIInv
<1>1. CASE UNCHANGED workVars
  <2>1. /\ UNCHANGED <<mutex, holder, queue, lock, wrapper, made, disposed, refs>>
        /\ UNCHANGED <<expired, deletion, pc, session, cancelled>>
    BY <1>1 DEF workVars, mutexVars, poolVars
  <2>2. ~Disturbed
    BY <2>1 DEF Disturbed
  <2>3. Exclusion'
    BY <2>1, <2>2 DEF Shared, Exclusion, InsideHolds, HeldInside, QueueHeld
  <2>4. LiveIsPooled' /\ ReadIsTrue' /\ CountSound'
    BY <2>1, <2>2 DEF Shared, LiveIsPooled, ReadIsTrue, CountSound, Counted
  <2> QED BY <2>3, <2>4 DEF Shared
<1>2. CASE WorkNext
  <2>1. Shared /\ cancelled = {} /\ cancelled' = {} /\ deletion = "no" /\ deletion' = "no"
        /\ expired' = {}
    BY <1>2, DisturbedStays DEF Disturbed
  <2>2. ~DeleteSession /\ ~SessionDeleted
    BY <2>1 DEF DeleteSession, SessionDeleted
  <2>3. CASE Terminate
    <3>1. /\ UNCHANGED <<mutex, holder, queue, lock, wrapper, made, disposed, refs>>
          /\ UNCHANGED <<pc, session>>
      BY <2>1, <2>3 DEF Terminate
    <3>2. Exclusion'
      BY <2>1, <3>1 DEF Shared, Exclusion, InsideHolds, HeldInside, QueueHeld
    <3>3. LiveIsPooled' /\ ReadIsTrue' /\ CountSound'
      BY <2>1, <3>1 DEF Shared, LiveIsPooled, ReadIsTrue, CountSound, Counted
    <3> QED BY <3>2, <3>3 DEF Shared
  <2>4. ASSUME NEW r \in Requests, CliStep(r) PROVE Shared'
    <3>1. CASE NotHandled(r) \/ Leave(r)
      <4>1. pc[r] \in Served /\ Quiet /\ LetGo(r)
        BY <3>1 DEF NotHandled, Leave, Served
      <4> QED BY <2>1, <4>1, LetGoShared
    <3> QED BY <2>1, <2>4, <3>1, EnterShared, SelectedShared, LoadedShared, HandledShared DEF CliStep
  <2>5. ASSUME NEW r \in Requests, GetSession(r) PROVE Shared'
    BY <2>1, <2>5, GetShared
  <2>6. ASSUME NEW r \in Requests PROVE ~CancelToken(r)
    BY <2>1 DEF CancelToken
  <2> QED BY <1>2, <2>2, <2>3, <2>4, <2>5, <2>6 DEF WorkNext
<1> QED BY <1>1, <1>2

\* Calls of getSession share one session object, until something disturbs them.
THEOREM SessionsAreShared == CliSpec => []OneLiveSession
<1>1. CliIInv => OneLiveSession
  <2> SUFFICES ASSUME CliIInv, ~Disturbed PROVE Cardinality(Live) <= 1
    BY DEF OneLiveSession
  <2>1. Live = {} \/ Live = {wrapper}
    BY DEF CliIInv, Shared, LiveIsPooled, Live
  <2>2. Cardinality({}) = 0 /\ Cardinality({wrapper}) = 1
    BY FS_EmptySet, FS_Singleton
  <2> QED BY <2>1, <2>2
<1> QED BY <1>1, SharedInit, SharedStep, Works, PTL DEF CliSpec

\* The reference count of a session is the number of requests that have it, those
\* that failed after they acquired it included.
THEOREM CountsAreRight == CliSpec => []ReferencesCounted
<1>1. CliIInv => ReferencesCounted
  BY DEF CliIInv, Shared, CountSound, Counted, ReferencesCounted
<1> QED BY <1>1, SharedInit, SharedStep, Works, PTL DEF CliSpec
------------------------------------------------------------------------------
(***************************************************************************)
(* Progress.  What a step makes of the request it is a step of, and of the *)
(* others.                                                                 *)
(***************************************************************************)
Lower(p, k) == PlaceRank[p] < PlaceRank[k]

\* Another's step lets q enter at most, or aborts its message.
Spared(q) ==
  /\ pc'[q] = pc[q] \/ (pc[q] = "waiting" /\ pc'[q] = "entered")
  /\ sent'[q] = sent[q] \/ (sent[q] = "out" /\ sent'[q] = "aborted")
  /\ handled'[q] = handled[q] /\ before'[q] = before[q]
  /\ pc[q] \notin Inside => session'[q] = session[q]

\* r's own step: an answer, or on to the next place.
OwnAnswer(r) ==
  /\ sent[r] \in {"out", "aborted"} /\ sent'[r] \in {"ok", "failed"}
  /\ pc'[r] = pc[r] /\ handled'[r] = handled[r] /\ before'[r] = before[r]
  /\ session' = session /\ chain' = chain
OwnAdvance(r) ==
  /\ pc[r] \in PCs /\ pc'[r] \in PCs /\ Lower(pc'[r], pc[r])
  /\ pc'[r] \in {"running", "steering"} => sent'[r] # "no"
  /\ pc[r] \in InTurn =>
       \/ pc'[r] \in InTurn /\ handled'[r] = handled[r]
       \/ pc'[r] = "finished" /\ handled'[r] # "no"
  /\ pc[r] = "finished" => pc'[r] = "over" /\ handled'[r] = handled[r]
  /\ pc[r] # "got" => before'[r] = before[r] /\ chain' = chain
  /\ pc[r] \notin Inside => session' = session
  /\ pc'[r] \notin {"idle", "waiting"}
  /\ chain' = chain \/ HandleRequest(r)

PlacesRanked ==
  /\ PlaceRank["idle"] = 8 /\ PlaceRank["waiting"] = 7 /\ PlaceRank["entered"] = 6
  /\ PlaceRank["selecting"] = 5 /\ PlaceRank["loading"] = 5 /\ PlaceRank["got"] = 4
  /\ PlaceRank["modelling"] = 3 /\ PlaceRank["running"] = 2 /\ PlaceRank["steering"] = 2
  /\ PlaceRank["leaving"] = 1 /\ PlaceRank["finished"] = 1 /\ PlaceRank["leaked"] = 0
  /\ PlaceRank["over"] = 0
LEMMA Places == PlacesRanked
BY DEF PlacesRanked, PlaceRank

LEMMA AbortSpares ==
  ASSUME TurnTypes, NEW s, NEW q \in Requests, sent' \in {sent, Aborted(s)}
  PROVE  sent'[q] = sent[q] \/ (sent[q] = "out" /\ sent'[q] = "aborted")
BY DEF Aborted

\* What is common to the steps that release the mutex.
LEMMA UnlockSpares ==
  ASSUME CliShape, NEW r \in Requests, pc[r] \in Inside,
         NEW p \in Served \cup {"leaked", "over"}, Unlock(r, [pc EXCEPT ![r] = p]),
         UNCHANGED <<cancelled, handled, before, chain>>,
         \A q \in Requests : q # r => session'[q] = session[q],
         \A q \in Requests : sent'[q] = sent[q] \/ (sent[q] = "out" /\ sent'[q] = "aborted"),
         p \in {"leaving", "got", "leaked"} \/ (p = "over" /\ pc[r] = "loading")
  PROVE  OwnAdvance(r) /\ \A q \in Requests : q # r => Spared(q)
<1>1. /\ pc' \in [Requests -> PCs] /\ pc'[r] = p
      /\ \A q \in Requests : q # r => pc'[q] = pc[q] \/ (pc[q] = "waiting" /\ pc'[q] = "entered")
  BY UnlockEffect DEF CliShape
<1>2. ASSUME NEW q \in Requests, q # r PROVE Spared(q)
  BY <1>1, <1>2 DEF Spared
<1>3. pc[r] \in PCs /\ Lower(p, pc[r])
  BY Places DEF Lower, PlacesRanked, Inside, PCs, Before, Served
<1>4. OwnAdvance(r)
  BY <1>1, <1>3 DEF OwnAdvance, Inside, InTurn
<1> QED BY <1>2, <1>4

\* And to those that do not.
LEMMA PlainSpares ==
  ASSUME CliShape, NEW r \in Requests, NEW p \in PCs, pc' = [pc EXCEPT ![r] = p],
         \A q \in Requests : q # r =>
           /\ session'[q] = session[q] /\ handled'[q] = handled[q] /\ before'[q] = before[q]
           /\ sent'[q] = sent[q] \/ (sent[q] = "out" /\ sent'[q] = "aborted")
  PROVE  /\ pc[r] \in PCs /\ pc'[r] = p
         /\ \A q \in Requests : q # r => Spared(q)
<1>1. pc[r] \in PCs /\ pc'[r] = p /\ \A q \in Requests : q # r => pc'[q] = pc[q]
  BY DEF CliShape, FlowTypes
<1> QED BY <1>1 DEF Spared

LEMMA EnterMoves ==
  ASSUME CliShape, NEW r \in Requests, Enter(r)
  PROVE  OwnAdvance(r) /\ \A q \in Requests : q # r => Spared(q)
<1>1. /\ pc[r] = "entered" /\ pc[r] \in Inside
      /\ UNCHANGED <<chain, before, sent, handled, cancelled>>
      /\ session \in [Requests -> Requests \cup {NoRequest}]
  BY DEF Enter, turnVars, Inside, CliShape, FlowTypes
<1>2. CASE Returns(r, wrapper)
  <2>1. PICK p \in {"got", "leaving"} : Unlock(r, [pc EXCEPT ![r] = p])
    BY <1>2 DEF Returns
  <2>2. \A q \in Requests : q # r => session'[q] = session[q]
    BY <1>1, <1>2 DEF Returns
  <2> QED BY <1>1, <2>1, <2>2, UnlockSpares DEF Served
<1>3. CASE ~Returns(r, wrapper)
  <2>1. PICK p \in {"selecting", "loading"} : pc' = [pc EXCEPT ![r] = p]
    BY <1>3 DEF Enter, Reuses, Loads
  <2>2. \A q \in Requests : q # r => session'[q] = session[q]
    BY <1>1, <1>3 DEF Enter, Reuses, Loads
  <2>3. /\ pc[r] \in PCs /\ pc'[r] = p
        /\ \A q \in Requests : q # r => Spared(q)
    BY <1>1, <2>1, <2>2, PlainSpares DEF PCs, Before
  <2>4. p \in PCs /\ Lower(p, pc[r])
    BY <1>1, Places DEF Lower, PlacesRanked, PCs, Before
  <2> QED BY <1>1, <2>3, <2>4 DEF OwnAdvance, InTurn
<1> QED BY <1>2, <1>3

LEMMA SelectedMoves ==
  ASSUME CliShape, NEW r \in Requests,
         AgentSelected(r) \/ SelectionFails(r) \/ LoadFails(r)
  PROVE  OwnAdvance(r) /\ \A q \in Requests : q # r => Spared(q)
<1>1. /\ pc[r] \in Inside
      /\ UNCHANGED <<chain, before, sent, handled, cancelled>>
      /\ session' = session
  BY DEF AgentSelected, SelectionFails, LoadFails, Returns, turnVars, Inside, CliShape, FlowTypes
<1>2. PICK p \in {"got", "leaving", "leaked", "over"} :
        /\ Unlock(r, [pc EXCEPT ![r] = p])
        /\ p = "over" => pc[r] = "loading"
  BY DEF AgentSelected, SelectionFails, LoadFails, Returns
<1> QED BY <1>1, <1>2, UnlockSpares DEF Served

LEMMA LoadedMoves ==
  ASSUME CliShape, NEW r \in Requests, SessionLoaded(r)
  PROVE  OwnAdvance(r) /\ \A q \in Requests : q # r => Spared(q)
<1>1. /\ pc[r] \in Inside
      /\ UNCHANGED <<chain, before, handled, cancelled>>
      /\ \A q \in Requests : q # r => session'[q] = session[q]
      /\ sent' \in {sent, Aborted(wrapper)}
  BY DEF SessionLoaded, Replaced, Returns, Inside, CliShape, FlowTypes
<1>2. PICK p \in {"got", "leaving"} : Unlock(r, [pc EXCEPT ![r] = p])
  BY DEF SessionLoaded, Returns
<1>3. \A q \in Requests : sent'[q] = sent[q] \/ (sent[q] = "out" /\ sent'[q] = "aborted")
  BY <1>1, AbortSpares DEF CliShape
<1> QED BY <1>1, <1>2, <1>3, UnlockSpares DEF Served

LEMMA HandleMoves ==
  ASSUME CliShape, NEW r \in Requests, HandleRequest(r)
  PROVE  OwnAdvance(r) /\ \A q \in Requests : q # r => Spared(q)
<1>1. /\ pc[r] = "got" /\ pc' = [pc EXCEPT ![r] = "modelling"]
      /\ before' = [before EXCEPT ![r] = Len(chain[session[r]])]
      /\ UNCHANGED <<sent, handled>>
      /\ session' = session
  BY DEF HandleRequest, Snapshot, CliShape, FlowTypes
<1>2. \A q \in Requests : q # r => before'[q] = before[q]
  BY <1>1 DEF CliShape, TurnTypes
<1>3. /\ pc'[r] = "modelling"
      /\ \A q \in Requests : q # r => Spared(q)
  BY <1>1, <1>2, PlainSpares DEF PCs, Served
<1>4. pc[r] \in PCs /\ pc'[r] \in PCs /\ Lower("modelling", "got")
  BY <1>1, <1>3, Places DEF Lower, PlacesRanked, PCs, Served
<1> QED BY <1>1, <1>3, <1>4 DEF OwnAdvance, InTurn, Inside

LEMMA LetGoMoves ==
  ASSUME CliShape, NEW r \in Requests, pc[r] \in {"got", "leaving", "finished"}, LetGo(r)
  PROVE  OwnAdvance(r) /\ \A q \in Requests : q # r => Spared(q)
<1>1. /\ pc' = [pc EXCEPT ![r] = "over"]
      /\ UNCHANGED <<chain, before, handled>>
      /\ sent' \in {sent, Aborted(session[r])}
      /\ session' = session
  BY DEF LetGo, Release, CliShape, FlowTypes
<1>2. \A q \in Requests : sent'[q] = sent[q] \/ (sent[q] = "out" /\ sent'[q] = "aborted")
  BY <1>1, AbortSpares DEF CliShape
<1>3. /\ pc'[r] = "over"
      /\ \A q \in Requests : q # r => Spared(q)
  BY <1>1, <1>2, PlainSpares DEF PCs
<1>4. pc[r] \in PCs /\ pc'[r] \in PCs /\ Lower("over", pc[r])
  BY <1>1, <1>3, Places DEF Lower, PlacesRanked, PCs, Served
<1> QED BY <1>1, <1>3, <1>4 DEF OwnAdvance, InTurn, Inside

LEMMA TurnMoves ==
  ASSUME CliShape, NEW r \in Requests,
         ModelFails(r) \/ StartTurn(r) \/ Steer(r) \/ EndTurn(r) \/ EndSteering(r)
  PROVE  OwnAdvance(r) /\ \A q \in Requests : q # r => Spared(q)
<1>1. /\ UNCHANGED <<chain, before>>
      /\ session' = session
      /\ pc \in [Requests -> PCs] /\ handled \in [Requests -> {"no", "ok", "failed"}]
      /\ sent \in [Requests -> {"no", "out", "aborted", "ok", "failed"}]
  BY DEF ModelFails, StartTurn, Steer, EndTurn, EndSteering, CliShape, FlowTypes, TurnTypes
<1>2. CASE StartTurn(r) \/ Steer(r)
  <2>1. PICK p \in {"running", "steering"}, m \in {"out", "ok"} :
          /\ pc[r] = "modelling" /\ pc' = [pc EXCEPT ![r] = p]
          /\ sent' = [sent EXCEPT ![r] = m] /\ handled' = handled
    BY <1>2 DEF StartTurn, Steer
  <2>2. sent'[r] = m /\ \A q \in Requests : q # r => sent'[q] = sent[q]
    BY <1>1, <2>1
  <2>3. /\ pc'[r] = p /\ \A q \in Requests : q # r => Spared(q)
    BY <1>1, <2>1, <2>2, PlainSpares DEF PCs, Served
  <2>4. pc[r] \in PCs /\ pc'[r] \in PCs /\ Lower(p, "modelling")
    BY <2>1, <2>3, Places DEF Lower, PlacesRanked, PCs, Served
  <2> QED BY <1>1, <2>1, <2>2, <2>3, <2>4 DEF OwnAdvance, InTurn
<1>3. CASE ModelFails(r) \/ EndTurn(r) \/ EndSteering(r)
  <2>1. PICK how \in {"ok", "failed"} :
          /\ pc[r] \in InTurn /\ pc' = [pc EXCEPT ![r] = "finished"]
          /\ sent' \in {sent, Aborted(session[r])} /\ handled' = [handled EXCEPT ![r] = how]
    BY <1>3 DEF ModelFails, EndTurn, EndSteering, SteerSettled, Settles, InTurn
  <2>2. handled'[r] = how /\ \A q \in Requests : q # r => handled'[q] = handled[q]
    BY <1>1, <2>1
  <2>3. \A q \in Requests : sent'[q] = sent[q] \/ (sent[q] = "out" /\ sent'[q] = "aborted")
    BY <2>1, AbortSpares DEF CliShape
  <2>4. /\ pc'[r] = "finished" /\ \A q \in Requests : q # r => Spared(q)
    BY <1>1, <2>1, <2>2, <2>3, PlainSpares DEF PCs, Served
  <2>5. pc[r] \in PCs /\ pc'[r] \in PCs /\ Lower("finished", pc[r])
    BY <2>1, <2>4, Places DEF Lower, PlacesRanked, PCs, Served, InTurn
  <2> QED BY <1>1, <2>1, <2>2, <2>4, <2>5 DEF OwnAdvance, InTurn
<1> QED BY <1>2, <1>3

LEMMA StepMoves ==
  ASSUME CliShape, NEW r \in Requests, CliStep(r)
  PROVE  /\ OwnAnswer(r) \/ OwnAdvance(r)
         /\ \A q \in Requests : q # r => Spared(q)
<1>1. CASE Answered(r)
  <2>1. /\ UNCHANGED <<chain, before, handled, pc, session>> /\ sent[r] \in {"out", "aborted"}
        /\ \E how \in {"ok", "failed"} : sent' = [sent EXCEPT ![r] = how]
    BY <1>1 DEF Answered
  <2>2. sent'[r] \in {"ok", "failed"} /\ \A q \in Requests : q # r => sent'[q] = sent[q]
    BY <2>1 DEF CliShape, TurnTypes
  <2> QED BY <2>1, <2>2 DEF OwnAnswer, Spared
<1>2. CASE NotHandled(r) \/ Leave(r)
  BY <1>2, LetGoMoves DEF NotHandled, Leave
<1> QED BY <1>1, <1>2, EnterMoves, SelectedMoves, LoadedMoves, HandleMoves, TurnMoves DEF CliStep

\* The steps that are no request's: users and the timer.
LEMMA OthersMove ==
  ASSUME CliShape, Terminate \/ SessionDeleted \/ DeleteSession
  PROVE  \A q \in Requests : pc' = pc /\ session' = session /\ chain' = chain /\ Spared(q)
<1>1. /\ UNCHANGED <<pc, session, chain, handled, before>>
      /\ \E s : sent' \in {sent, Aborted(s)}
  BY DEF Terminate, SessionDeleted, DeleteSession, Release, turnVars
<1> QED BY <1>1, AbortSpares DEF Spared, CliShape
LEMMA UsersMove ==
  ASSUME CliShape, NEW r \in Requests, GetSession(r) \/ CancelToken(r)
  PROVE  /\ session' = session /\ chain' = chain
         /\ \A q \in Requests :
              \/ Spared(q)
              \/ /\ pc[q] = "idle" /\ pc'[q] \in {"waiting", "entered"} /\ sent'[q] = sent[q]
                 /\ handled'[q] = handled[q] /\ before'[q] = before[q]
<1>1. /\ UNCHANGED <<session, chain, handled, before>>
      /\ \E s : sent' \in {sent, Aborted(s)}
  BY DEF GetSession, CancelToken, turnVars
<1>2. \A q \in Requests : sent'[q] = sent[q] \/ (sent[q] = "out" /\ sent'[q] = "aborted")
  BY <1>1, AbortSpares DEF CliShape
<1>3. CASE GetSession(r)
  <2>1. /\ pc[r] = "idle" /\ sent' = sent
        /\ pc' = [pc EXCEPT ![r] = "entered"] \/ pc' = [pc EXCEPT ![r] = "waiting"]
    BY <1>3 DEF GetSession, turnVars
  <2>2. pc'[r] \in {"waiting", "entered"} /\ \A q \in Requests : q # r => pc'[q] = pc[q]
    BY <2>1 DEF CliShape, FlowTypes
  <2> QED BY <1>1, <2>1, <2>2 DEF Spared
<1>4. CASE CancelToken(r)
  <2>1. \A q \in Requests : pc'[q] = pc[q] \/ (pc[q] = "waiting" /\ pc'[q] = "entered")
    BY <1>4 DEF CancelToken, CliShape, FlowTypes
  <2> QED BY <1>1, <1>2, <2>1 DEF Spared
<1> QED BY <1>3, <1>4

\* The rank falls with the place, whatever becomes of the message, or with the answer.
LEMMA RankFalls ==
  ASSUME NEW r \in Requests, sent'[r] \in {"no", "out", "aborted", "ok", "failed"},
         sent[r] \in {"no", "out", "aborted", "ok", "failed"}, pc[r] \in PCs, pc'[r] \in PCs,
         \/ Lower(pc'[r], pc[r])
         \/ pc'[r] = pc[r] /\ sent[r] \in {"out", "aborted"} /\ sent'[r] \in {"ok", "failed"}
  PROVE  RequestRank(r)' < RequestRank(r) /\ RequestRank(r)' \in Nat
<1> DEFINE a == AnswerRank[sent[r]]
           b == AnswerRank[sent'[r]]
           k == PlaceRank[pc[r]]
           l == PlaceRank[pc'[r]]
<1>1. a \in 0..2 /\ b \in 0..2 /\ (sent[r] \in {"out", "aborted"} => a >= 1)
      /\ (sent'[r] \in {"ok", "failed"} => b = 0)
  BY DEF AnswerRank
<1>2. k \in 0..8 /\ l \in 0..8
  BY Places DEF PlacesRanked, PCs, Before, Served
<1>3. l < k \/ (l = k /\ b < a)
  BY <1>1 DEF Lower
<1>4. RequestRank(r) = 3 * k + a /\ RequestRank(r)' = 3 * l + b
  BY DEF RequestRank, PlaceRank, AnswerRank
<1> HIDE DEF a, b, k, l
<1> QED BY <1>1, <1>2, <1>3, <1>4

LEMMA RankStays ==
  ASSUME NEW r \in Requests, sent[r] \in {"no", "out", "aborted", "ok", "failed"}, pc[r] \in PCs,
         pc'[r] = pc[r], sent'[r] = sent[r] \/ (sent[r] = "out" /\ sent'[r] = "aborted")
  PROVE  RequestRank(r)' <= RequestRank(r) /\ RequestRank(r)' \in Nat
<1> DEFINE a == AnswerRank[sent[r]]
           b == AnswerRank[sent'[r]]
           k == PlaceRank[pc[r]]
<1>1. a \in 0..2 /\ b \in 0..2 /\ b <= a
  BY DEF AnswerRank
<1>2. k \in 0..8
  BY Places DEF PlacesRanked, PCs, Before, Served
<1>4. RequestRank(r) = 3 * k + a /\ RequestRank(r)' = 3 * k + b
  BY DEF RequestRank, PlaceRank, AnswerRank
<1> HIDE DEF a, b, k
<1> QED BY <1>1, <1>2, <1>4

\* Every step of a request lowers its rank, and no step raises the rank of any: a
\* request makes a bounded number of steps, however it is cancelled, aborted or
\* answered.
THEOREM RequestsRankFalls == CliSpec => RequestsAdvance
<1> DEFINE Advance == \A r \in Requests :
                        /\ CliStep(r) => RequestRank(r)' < RequestRank(r)
                        /\ RequestRank(r)' <= RequestRank(r) /\ RequestRank(r)' \in Nat
<1>1. CliShape /\ CliShape' /\ WorkNext => Advance
  <2> SUFFICES ASSUME CliShape, CliShape', WorkNext, NEW r \in Requests
               PROVE  /\ CliStep(r) => RequestRank(r)' < RequestRank(r)
                      /\ RequestRank(r)' <= RequestRank(r) /\ RequestRank(r)' \in Nat
    OBVIOUS
  <2>1. /\ pc[r] \in PCs /\ sent[r] \in {"no", "out", "aborted", "ok", "failed"}
        /\ pc'[r] \in PCs /\ sent'[r] \in {"no", "out", "aborted", "ok", "failed"}
    BY DEF CliShape, FlowTypes, TurnTypes
  <2>2. RequestRank(r) \in Nat
    BY <2>1, Places DEF RequestRank, AnswerRank, PlacesRanked, PCs, Before, Served
  <2>3. CliStep(r) => RequestRank(r)' < RequestRank(r) /\ RequestRank(r)' \in Nat
    BY <2>1, StepMoves, RankFalls DEF OwnAnswer, OwnAdvance
  <2>4. ~CliStep(r) =>
          Spared(r) \/ (pc[r] = "idle" /\ pc'[r] \in {"waiting", "entered"} /\ sent'[r] = sent[r])
    BY StepMoves, OthersMove, UsersMove DEF WorkNext
  <2>5. Lower("entered", "waiting") /\ Lower("entered", "idle") /\ Lower("waiting", "idle")
    BY Places DEF PlacesRanked, Lower
  <2>6. ASSUME ~CliStep(r) PROVE RequestRank(r)' <= RequestRank(r) /\ RequestRank(r)' \in Nat
    <3>1. CASE pc'[r] = pc[r]
      BY <2>1, <2>4, <2>6, <3>1, RankStays DEF Spared
    <3>2. CASE pc'[r] # pc[r]
      <4>1. Lower(pc'[r], pc[r])
        BY <2>4, <2>5, <2>6, <3>2 DEF Spared
      <4>2. RequestRank(r)' < RequestRank(r) /\ RequestRank(r)' \in Nat
        BY <2>1, <4>1, RankFalls
      <4> QED BY <2>2, <4>2
    <3> QED BY <3>1, <3>2
  <2> QED BY <2>2, <2>3, <2>6
<1>2. CliShape /\ CliShape' /\ [CliNext]_cliVars => [Advance]_cliVars
  <2>1. CASE WorkNext
    BY <1>1, <2>1
  <2>2. CASE UNCHANGED workVars
    <3> SUFFICES ASSUME CliShape, CliShape', NEW r \in Requests, ~UNCHANGED cliVars
                 PROVE  /\ CliStep(r) => RequestRank(r)' < RequestRank(r)
                        /\ RequestRank(r)' <= RequestRank(r) /\ RequestRank(r)' \in Nat
      OBVIOUS
    <3>1. /\ pc[r] \in PCs /\ sent[r] \in {"no", "out", "aborted", "ok", "failed"}
          /\ pc' = pc /\ sent' = sent
      BY <2>2 DEF CliShape, FlowTypes, TurnTypes, workVars, turnVars
    <3>2. RequestRank(r)' <= RequestRank(r) /\ RequestRank(r)' \in Nat
      BY <3>1, RankStays
    <3>3. CliStep(r) => RequestRank(r)' < RequestRank(r)
      BY <3>1, <1>1 DEF WorkNext
    <3> QED BY <3>2, <3>3
  <2> QED BY <2>1, <2>2, Works
<1> QED BY <1>2, ShapeInit, ShapeStep, Works, PTL DEF CliSpec, RequestsAdvance
------------------------------------------------------------------------------
(***************************************************************************)
(* Somebody goes on: the chain of promises, the messages, the queue.       *)
(***************************************************************************)
\* A promise in the chain of a session is that of a request which works on it or
\* has worked on it; while it is open, the request's snapshot ends before it.
ChainEntry(q, s, j) ==
  /\ session[q] = s /\ pc[q] \in InTurn \cup {"finished", "over"}
  /\ handled[q] = "no" => pc[q] \in InTurn /\ before[q] + 1 = j
InChain(q, s, j) == j \in DOMAIN chain[s] /\ chain[s][j] = q
ChainSound == \A q, s \in Requests : \A j \in Nat : InChain(q, s, j) => ChainEntry(q, s, j)

SentSound == \A r \in Requests : pc[r] \in {"running", "steering"} => sent[r] # "no"

WaitQueued == \A r \in Requests : pc[r] = "waiting" => \E m \in Requests, i \in Nat : InQueue(r, m, i)

ProgressIInv ==
  /\ CliIInv /\ ChainSound /\ SentSound
  /\ Disturbed \/ WaitQueued
  /\ OverIsTimed

\* Whose step it is.
LEMMA Movers ==
  ASSUME CliShape, WorkNext, NEW q \in Requests
  PROVE  \/ Spared(q) \/ OwnAnswer(q) \/ OwnAdvance(q)
         \/ /\ pc[q] = "idle" /\ pc'[q] \in {"waiting", "entered"} /\ sent'[q] = sent[q]
            /\ handled'[q] = handled[q] /\ before'[q] = before[q]
BY StepMoves, OthersMove, UsersMove DEF WorkNext

LEMMA SentStep ==
  ASSUME CliShape, WorkNext, SentSound
  PROVE  SentSound'
<1> SUFFICES ASSUME NEW q \in Requests, pc'[q] \in {"running", "steering"}
             PROVE  sent'[q] # "no"
  BY DEF SentSound
<1> QED BY Movers DEF Spared, OwnAnswer, OwnAdvance, SentSound

LEMMA EntryStays ==
  ASSUME CliShape, WorkNext, NEW q \in Requests, NEW s \in Requests, NEW j \in Nat,
         ChainEntry(q, s, j)
  PROVE  ChainEntry(q, s, j)'
<1>1. CASE Spared(q)
  BY <1>1 DEF Spared, ChainEntry, InTurn, Inside
<1>2. CASE OwnAnswer(q)
  BY <1>2 DEF OwnAnswer, ChainEntry
<1>3. CASE OwnAdvance(q)
  <2>1. pc[q] # "over"
    BY <1>3, Places DEF OwnAdvance, Lower, PlacesRanked, PCs, Before, Served
  <2>2. session'[q] = s /\ before'[q] = before[q]
    BY <1>3 DEF OwnAdvance, ChainEntry, InTurn, Inside
  <2>3. CASE pc[q] \in InTurn
    BY <1>3, <2>2, <2>3 DEF OwnAdvance, ChainEntry
  <2>4. CASE pc[q] = "finished"
    BY <1>3, <2>2, <2>4 DEF OwnAdvance, ChainEntry, InTurn
  <2> QED BY <2>1, <2>3, <2>4 DEF ChainEntry
<1>4. pc[q] # "idle"
  BY DEF ChainEntry, InTurn
<1> QED BY <1>1, <1>2, <1>3, <1>4, Movers

LEMMA ChainGrows ==
  ASSUME CliShape, WorkNext
  PROVE  chain' = chain \/ \E r \in Requests : HandleRequest(r)
BY StepMoves, OthersMove, UsersMove, CliAssumption DEF WorkNext, OwnAnswer, OwnAdvance,
   Terminate, SessionDeleted, DeleteSession, turnVars

LEMMA ChainStep ==
  ASSUME CliShape, WorkNext, ChainSound
  PROVE  ChainSound'
<1> SUFFICES ASSUME NEW q \in Requests, NEW s \in Requests, NEW j \in Nat, InChain(q, s, j)'
             PROVE  ChainEntry(q, s, j)'
  BY DEF ChainSound
<1>1. CASE InChain(q, s, j)
  BY <1>1, EntryStays DEF ChainSound
<1>2. CASE ~InChain(q, s, j)
  <2>1. PICK r \in Requests : HandleRequest(r)
    <3>1. chain' # chain
      BY <1>2 DEF InChain
    <3> QED BY <3>1, ChainGrows
  <2>2. PICK k : k = session[r]
    OBVIOUS
  <2>3. /\ k \in Requests /\ chain[k] \in Seq(Requests) /\ chain \in [Requests -> Seq(Requests)]
        /\ chain' = [chain EXCEPT ![k] = Append(@, r)]
        /\ before' = [before EXCEPT ![r] = Len(chain[k])]
        /\ pc' = [pc EXCEPT ![r] = "modelling"] /\ session' = session /\ pc[r] = "got"
    BY <2>1, <2>2 DEF HandleRequest, Snapshot, CliShape, SessionSound, PoolTypes, TurnTypes, Served
  <2>4. pc'[r] = "modelling" /\ before'[r] = Len(chain[k]) /\ session'[r] = k
    BY <2>2, <2>3 DEF CliShape, FlowTypes, TurnTypes
  <2>5. /\ s = k /\ chain'[k] = Append(chain[k], r)
    BY <1>2, <2>3 DEF InChain
  <2>6. j = Len(chain[k]) + 1 /\ q = r
    <3>1. j \in 1..Len(chain[k]) + 1 /\ Append(chain[k], r)[j] = q
      BY <2>3, <2>5 DEF InChain
    <3>2. j # Len(chain[k]) + 1 => j \in DOMAIN chain[k] /\ chain[k][j] = q
      BY <2>3, <3>1
    <3> QED BY <1>2, <2>3, <2>5, <3>1, <3>2 DEF InChain
  <2> QED BY <2>4, <2>5, <2>6 DEF ChainEntry, InTurn
<1> QED BY <1>1, <1>2

\* The mutex is handed to the head of the queue: the others keep waiting in it.
LEMMA UnlockWaits ==
  ASSUME CliShape, WaitQueued, cancelled = {}, NEW r \in Requests, pc[r] \in Inside,
         NEW p \in Served \cup {"leaked", "over"}, Unlock(r, [pc EXCEPT ![r] = p])
  PROVE  WaitQueued'
<1> DEFINE m == lock[r]
           next == Head(queue[m])
<1>1. /\ lock \in [Requests -> Requests \cup {NoRequest}]
      /\ queue \in [Requests -> Seq(Requests)] /\ pc \in [Requests -> PCs]
      /\ p \notin {"waiting", "entered"}
  BY DEF CliShape, FlowTypes, Served
<1> SUFFICES ASSUME NEW q \in Requests, pc'[q] = "waiting"
             PROVE  \E n \in Requests, i \in Nat : InQueue(q, n, i)'
  BY DEF WaitQueued, InQueue
<1>2. CASE m = NoRequest \/ queue[m] = <<>>
  <2>1. pc' = [pc EXCEPT ![r] = p] /\ queue' = queue
    BY <1>2 DEF Unlock, UnlocksQuietly
  <2>2. pc[q] = "waiting"
    BY <1>1, <2>1
  <2> QED BY <2>1, <2>2 DEF WaitQueued, InQueue
<1>3. CASE m # NoRequest /\ queue[m] # <<>>
  <2>1. /\ m \in Requests /\ queue[m] \in Seq(Requests) /\ next = queue[m][1] /\ next \in Requests
        /\ queue' = [queue EXCEPT ![m] = Tail(@)]
        /\ pc' = [[pc EXCEPT ![r] = p] EXCEPT ![next] = "entered"]
    BY <1>1, <1>3 DEF Unlock
  <2> HIDE DEF next
  <2>2. q # next /\ pc[q] = "waiting"
    BY <1>1, <2>1
  <2>3. PICK n \in Requests, i \in Nat : InQueue(q, n, i)
    BY <2>2 DEF WaitQueued
  <2>4. CASE n # m
    <3>1. queue'[n] = queue[n]
      BY <1>1, <2>1, <2>4
    <3> QED BY <2>3, <3>1 DEF InQueue
  <2>5. CASE n = m
    <3>1. queue'[m] = Tail(queue[m])
      BY <1>1, <2>1
    <3>2. i \in DOMAIN queue[m] /\ queue[m][i] = q /\ i # 1
      BY <2>1, <2>2, <2>3, <2>5 DEF InQueue
    <3>3. /\ Len(Tail(queue[m])) = Len(queue[m]) - 1 /\ Len(queue[m]) \in Nat
          /\ \A j \in 1..Len(Tail(queue[m])) : Tail(queue[m])[j] = queue[m][j + 1]
          /\ Tail(queue[m]) \in Seq(Requests)
      BY <1>3, <2>1, HeadTailProperties
    <3>4. i - 1 \in Nat /\ i - 1 \in DOMAIN Tail(queue[m]) /\ Tail(queue[m])[i - 1] = q
      BY <2>1, <3>2, <3>3
    <3> QED BY <2>1, <3>1, <3>4 DEF InQueue
  <2> QED BY <2>4, <2>5
<1> QED BY <1>2, <1>3

LEMMA WaitStep ==
  ASSUME CliShape, WorkNext, WaitQueued, cancelled = {}, cancelled' = {}
  PROVE  WaitQueued'
<1>1. ASSUME queue' = queue, \A q \in Requests : pc'[q] = "waiting" => pc[q] = "waiting"
      PROVE  WaitQueued'
  BY <1>1 DEF WaitQueued, InQueue
<1>2. CASE Terminate \/ SessionDeleted \/ DeleteSession
  <2>1. queue' = queue /\ pc' = pc
    BY <1>2 DEF Terminate, SessionDeleted, DeleteSession, mutexVars
  <2> QED BY <1>1, <2>1
<1>3. ASSUME NEW r \in Requests, GetSession(r) PROVE WaitQueued'
  <2>1. PICK m : m = MutexOf(r)
    OBVIOUS
  <2>2. m \in Requests /\ queue \in [Requests -> Seq(Requests)] /\ pc \in [Requests -> PCs]
    BY <2>1 DEF MutexOf, CliShape, PoolTypes, FlowTypes
  <2>3. CASE holder[m] = NoRequest
    <3>1. queue' = queue /\ pc' = [pc EXCEPT ![r] = "entered"]
      BY <1>3, <2>1, <2>3 DEF GetSession
    <3> QED BY <1>1, <2>2, <3>1
  <2>4. CASE holder[m] # NoRequest
    <3>1. /\ queue' = [queue EXCEPT ![m] = Append(@, r)] /\ pc' = [pc EXCEPT ![r] = "waiting"]
      BY <1>3, <2>1, <2>4 DEF GetSession
    <3>2. /\ queue[m] \in Seq(Requests) /\ queue'[m] = Append(queue[m], r)
          /\ \A n \in Requests : n # m => queue'[n] = queue[n]
      BY <2>2, <3>1
    <3> SUFFICES ASSUME NEW q \in Requests, pc'[q] = "waiting"
                 PROVE  \E n \in Requests, i \in Nat : InQueue(q, n, i)'
      BY DEF WaitQueued, InQueue
    <3>3. CASE q = r
      <4>1. Len(queue[m]) + 1 \in Nat /\ Len(queue[m]) + 1 \in DOMAIN queue'[m]
            /\ queue'[m][Len(queue[m]) + 1] = r
        BY <3>2
      <4> QED BY <2>2, <3>3, <4>1 DEF InQueue
    <3>4. CASE q # r
      <4>1. pc[q] = "waiting"
        BY <2>2, <3>1, <3>4
      <4>2. PICK n \in Requests, i \in Nat : i \in DOMAIN queue[n] /\ queue[n][i] = q
        BY <4>1 DEF WaitQueued, InQueue
      <4>3. queue[n] \in Seq(Requests) /\ queue'[n] \in {queue[n], Append(queue[n], r)}
        BY <2>2, <3>2
      <4>4. i \in DOMAIN queue'[n] /\ queue'[n][i] = q
        BY <4>2, <4>3
      <4> QED BY <4>4 DEF InQueue
    <3> QED BY <3>3, <3>4
  <2> QED BY <2>3, <2>4
<1>4. ASSUME NEW r \in Requests PROVE ~CancelToken(r)
  BY DEF CancelToken
<1>5. ASSUME NEW r \in Requests, CliStep(r) PROVE WaitQueued'
  <2>1. \A q \in Requests : pc'[q] = "waiting" => pc[q] = "waiting"
    BY <1>5, StepMoves DEF OwnAnswer, OwnAdvance, Spared
  <2>2. CASE queue' = queue
    BY <1>1, <2>1, <2>2
  <2>3. CASE \E p \in {"got", "leaving", "leaked", "over"} :
               pc[r] \in Inside /\ Unlock(r, [pc EXCEPT ![r] = p])
    BY <2>3, UnlockWaits DEF Served
  <2>4. queue' = queue \/ \E p \in {"got", "leaving", "leaked", "over"} :
                            pc[r] \in Inside /\ Unlock(r, [pc EXCEPT ![r] = p])
    <3>1. CASE Enter(r) \/ AgentSelected(r) \/ SessionLoaded(r)
      BY <3>1 DEF Enter, Reuses, Loads, AgentSelected, SessionLoaded, Returns, Inside
    <3>2. CASE SelectionFails(r) \/ LoadFails(r)
      BY <3>2 DEF SelectionFails, LoadFails, Inside
    <3>3. CASE ~(Enter(r) \/ AgentSelected(r) \/ SessionLoaded(r) \/ SelectionFails(r) \/ LoadFails(r))
      BY <1>5, <3>3 DEF CliStep, HandleRequest, NotHandled, Leave, LetGo, ModelFails, StartTurn,
         Steer, Answered, EndTurn, EndSteering, mutexVars
    <3> QED BY <3>1, <3>2, <3>3
  <2> QED BY <2>2, <2>3, <2>4
<1> QED BY <1>2, <1>3, <1>4, <1>5 DEF WorkNext

\* Only the session that is pooled may be timed, and the next turn stops its timer.
LEMMA TimedStep ==
  ASSUME CliIInv, CliIInv', WorkNext, OverIsTimed
  PROVE  OverIsTimed'
<1> SUFFICES ASSUME ~Disturbed', NEW s \in Live', status'[s] = "over"
             PROVE  terminator' = s
  BY DEF OverIsTimed
<1>1. /\ CliShape /\ CliShape' /\ Shared /\ Shared' /\ ~Disturbed /\ cancelled = {} /\ cancelled' = {}
      /\ deletion = "no" /\ deletion' = "no" /\ expired' = {}
  BY DisturbedStays DEF CliIInv, Disturbed
<1>2. \A k \in Live : status[k] = "over" => terminator = k
  BY <1>1 DEF OverIsTimed
<1>3. /\ s \in made' /\ s \notin disposed' /\ s \in Requests
      /\ \A k \in Live' : k = s
  BY <1>1 DEF Shared, LiveIsPooled, CliShape, PoolTypes, Live
<1>4. ASSUME UNCHANGED <<made, status, terminator>>, disposed \subseteq disposed' PROVE terminator' = s
  BY <1>2, <1>3, <1>4 DEF Live
<1>5. ASSUME NEW r \in Requests, NEW st \in {"busy", "completed", "failed"},
             StatusChanges(session[r], st), UNCHANGED <<made, disposed>>, pc[r] \in InTurn
      PROVE  terminator' = s
  <2>1. session[r] \in made /\ session[r] \in Requests
    BY <1>1, <1>5 DEF CliShape, SessionSound, PoolTypes, InTurn, Served
  <2>2. CASE session[r] \in disposed
    <3>1. status'[s] = status[s] /\ terminator' = terminator
      BY <1>1, <1>3, <1>5, <2>1, <2>2 DEF StatusChanges, CliShape, TurnTypes
    <3> QED BY <1>2, <1>3, <1>5, <3>1 DEF Live
  <2>3. CASE session[r] \notin disposed
    <3>1. session[r] = s
      BY <1>3, <1>5, <2>1, <2>3 DEF Live
    <3>2. status'[s] = IF st = "busy" THEN st ELSE "over"
      BY <1>1, <1>3, <1>5, <3>1 DEF StatusChanges, CliShape, TurnTypes
    <3> QED BY <1>5, <2>3, <3>1, <3>2 DEF StatusChanges
  <2> QED BY <2>2, <2>3
<1>6. CASE Terminate
  <2>1. UNCHANGED <<made, status>> /\ terminator \in disposed /\ disposed' = disposed
    BY <1>1, <1>6 DEF Terminate
  <2> QED BY <1>2, <1>3, <2>1 DEF Live
<1>7. ~DeleteSession /\ ~SessionDeleted /\ \A r \in Requests : ~CancelToken(r)
  BY <1>1 DEF DeleteSession, SessionDeleted, CancelToken
<1>8. ASSUME NEW r \in Requests, GetSession(r) PROVE terminator' = s
  BY <1>4, <1>8 DEF GetSession, poolVars, turnVars
<1>9. ASSUME NEW r \in Requests, CliStep(r) PROVE terminator' = s
  <2>1. CASE StartTurn(r) \/ EndTurn(r)
    BY <1>5, <2>1 DEF StartTurn, EndTurn, InTurn
  <2>2. CASE SessionLoaded(r)
    <3>1. /\ made' = made \cup {r} /\ UNCHANGED <<status, terminator>> /\ disposed \subseteq disposed'
          /\ pc[r] = "loading"
      BY <2>2 DEF SessionLoaded, Replaced
    <3>2. r \notin made /\ status[r] = "none"
      BY <1>1, <3>1 DEF CliShape, SessionSound, StatusSound, Before
    <3> QED BY <1>2, <1>3, <3>1, <3>2 DEF Live
  <2>3. CASE NotHandled(r) \/ Leave(r)
    BY <1>4, <2>3 DEF NotHandled, Leave, LetGo, Release
  <2>4. CASE Enter(r) \/ AgentSelected(r) \/ SelectionFails(r) \/ LoadFails(r)
    BY <1>4, <2>4 DEF Enter, AgentSelected, SelectionFails, LoadFails, poolVars, turnVars
  <2>5. CASE HandleRequest(r) \/ ModelFails(r) \/ Steer(r) \/ Answered(r) \/ EndSteering(r)
    BY <1>4, <2>5 DEF HandleRequest, ModelFails, Steer, Answered, EndSteering, poolVars
  <2> QED BY <1>9, <2>1, <2>2, <2>3, <2>4, <2>5 DEF CliStep
<1> QED BY <1>6, <1>7, <1>8, <1>9 DEF WorkNext

LEMMA ProgressInit == CliInit => ProgressIInv
<1> SUFFICES ASSUME CliInit PROVE ChainSound /\ SentSound /\ WaitQueued /\ OverIsTimed
  BY SharedInit DEF ProgressIInv
<1>1. ChainSound
  BY DEF CliInit, ChainSound, InChain
<1>2. SentSound /\ WaitQueued /\ OverIsTimed
  BY DEF CliInit, SentSound, WaitQueued, OverIsTimed, Live
<1> QED BY <1>1, <1>2

LEMMA ProgressStep == ProgressIInv /\ [WorkNext]_workVars => ProgressIInv'
<1>1. ASSUME ProgressIInv, WorkNext PROVE ProgressIInv'
  <2>1. CliIInv' /\ CliShape /\ CliIInv
    BY <1>1, SharedStep DEF ProgressIInv, CliIInv
  <2>2. ChainSound' /\ SentSound' /\ OverIsTimed'
    BY <1>1, <2>1, ChainStep, SentStep, TimedStep DEF ProgressIInv
  <2>3. ~Disturbed' => WaitQueued'
    BY <1>1, <2>1, DisturbedStays, WaitStep DEF ProgressIInv
  <2> QED BY <2>1, <2>2, <2>3 DEF ProgressIInv
<1>2. ASSUME ProgressIInv, UNCHANGED workVars PROVE ProgressIInv'
  <2>1. /\ UNCHANGED <<queue, made, disposed, deletion, expired, terminator, status, chain, before>>
        /\ UNCHANGED <<sent, handled, pc, session, cancelled>>
    BY <1>2 DEF workVars, mutexVars, poolVars, turnVars
  <2>2. CliIInv'
    BY <1>2, SharedStep DEF ProgressIInv
  <2>3. ChainSound'
    BY <1>2, <2>1 DEF ProgressIInv, ChainSound, InChain, ChainEntry
  <2>4. SentSound' /\ (Disturbed \/ WaitQueued)' /\ OverIsTimed'
    BY <1>2, <2>1 DEF ProgressIInv, SentSound, WaitQueued, InQueue, Disturbed, OverIsTimed, Live
  <2> QED BY <2>2, <2>3, <2>4 DEF ProgressIInv
<1> QED BY <1>1, <1>2

\* Of requests that steer there is one whose snapshot is shortest.
LEMMA Shortest ==
  ASSUME NEW S \in SUBSET Requests, S # {}, before \in [Requests -> Nat]
  PROVE  \E r \in S : \A q \in S : before[r] <= before[q]
<1> DEFINE T == {before[q] : q \in S}
<1>1. T \subseteq Nat /\ T # {}
  OBVIOUS
<1>2. PICK x \in T : \A y \in T : <<y, x>> \notin OpToRel(<, Nat)
  BY <1>1, WFMin, NatLessThanWellFounded
<1>3. PICK r \in S : x = before[r]
  OBVIOUS
<1>4. ASSUME NEW q \in S PROVE before[r] <= before[q]
  <2>1. before[q] \in T /\ before[q] \in Nat /\ x \in Nat
    BY <1>1
  <2>2. ~ (before[q] < x)
    BY <1>2, <2>1 DEF OpToRel
  <2> QED BY <1>3, <2>1, <2>2
<1> QED BY <1>4

\* A steering request whose message was answered and that cannot return yet awaits
\* an open promise of its snapshot, before which all were resolved.
LEMMA FirstOpen ==
  ASSUME CliShape, NEW r \in Requests, pc[r] = "steering", sent[r] = "ok", ~SteerSettled(r)
  PROVE  \E i \in DOMAIN Previous(r) : handled[Previous(r)[i]] = "no"
<1>1. /\ session[r] \in Requests /\ chain[session[r]] \in Seq(Requests)
      /\ before[r] \in Nat /\ before[r] + 1 \in DOMAIN chain[session[r]]
  BY DEF CliShape, SessionSound, Served, PoolTypes, TurnTypes, SnapshotSound, InTurn
<1>2. Previous(r) \in Seq(Requests) /\ DOMAIN Previous(r) = 1..before[r]
      /\ \A i \in 1..before[r] : Previous(r)[i] = chain[session[r]][i]
  BY <1>1 DEF Previous
<1>3. ~PreviousRejected(r) /\ ~PreviousResolved(r)
  BY DEF SteerSettled, SteerFails
<1> DEFINE T == {i \in DOMAIN Previous(r) : handled[Previous(r)[i]] # "ok"}
<1>4. T \subseteq Nat /\ T # {}
  BY <1>2, <1>3 DEF PreviousResolved
<1>5. PICK i \in T : \A y \in T : <<y, i>> \notin OpToRel(<, Nat)
  BY <1>4, WFMin, NatLessThanWellFounded
<1>6. \A j \in 1..i-1 : handled[Previous(r)[j]] = "ok"
  <2> SUFFICES ASSUME NEW j \in 1..i-1, handled[Previous(r)[j]] # "ok" PROVE FALSE
    OBVIOUS
  <2>1. i \in 1..before[r] /\ i \in Nat /\ j \in 1..before[r] /\ j < i /\ j \in Nat
    BY <1>1, <1>2
  <2>2. j \in T
    BY <1>2, <2>1
  <2> QED BY <1>5, <2>1, <2>2 DEF OpToRel
<1>7. handled[Previous(r)[i]] # "failed"
  BY <1>3, <1>5, <1>6 DEF PreviousRejected
<1>8. Previous(r)[i] \in Requests /\ i \in DOMAIN Previous(r)
  <2>1. i \in 1..before[r] /\ i \in DOMAIN chain[session[r]]
    BY <1>1, <1>2
  <2> QED BY <1>1, <1>2, <2>1
<1> QED BY <1>5, <1>7, <1>8 DEF CliShape, TurnTypes

LEMMA Somebody == ProgressIInv => SomebodyGoesOn
<1> SUFFICES ASSUME ProgressIInv, NEW r0 \in Requests, pc[r0] \notin {"idle", "leaked", "over"},
                    pc[r0] = "waiting" => ~Disturbed, \A r \in Requests : ~CanGoOn(r)
             PROVE  FALSE
  BY DEF SomebodyGoesOn
<1>1. /\ CliShape /\ ChainSound /\ SentSound
      /\ pc \in [Requests -> PCs] /\ before \in [Requests -> Nat]
      /\ sent \in [Requests -> {"no", "out", "aborted", "ok", "failed"}]
  BY DEF ProgressIInv, CliIInv, CliShape, FlowTypes, TurnTypes
<1>2. Quiet
  BY DEF CanGoOn, Quiet
<1>3. \A r \in Requests :
        /\ pc[r] \in {"idle", "waiting", "running", "steering", "leaked", "over"}
        /\ sent[r] \notin {"out", "aborted"}
        /\ pc[r] = "running" => sent[r] \notin {"ok", "failed"}
  BY <1>1, <1>2 DEF CanGoOn, PCs, Before, Served
<1>4. \A r \in Requests : pc[r] # "running" /\ (pc[r] = "steering" => sent[r] \in {"ok", "failed"})
  BY <1>1, <1>3 DEF SentSound
\* nobody steers: the one with the shortest snapshot could return
<1>5. \A r \in Requests : pc[r] # "steering"
  <2> DEFINE S == {r \in Requests : pc[r] = "steering"}
  <2> SUFFICES ASSUME S # {} PROVE FALSE
    OBVIOUS
  <2>1. PICK r \in S : \A q \in S : before[r] <= before[q]
    <3>1. S \in SUBSET Requests
      OBVIOUS
    <3> HIDE DEF S
    <3> QED BY <1>1, <3>1, Shortest
  <2>2. r \in Requests /\ pc[r] = "steering" /\ ~SteerSettled(r)
    BY DEF CanGoOn
  <2>3. sent[r] = "ok"
    BY <1>4, <2>2 DEF SteerSettled, SteerFails
  <2>4. PICK i \in DOMAIN Previous(r) : handled[Previous(r)[i]] = "no"
    BY <1>1, <2>2, <2>3, FirstOpen
  <2>5. /\ session[r] \in Requests /\ chain[session[r]] \in Seq(Requests)
        /\ before[r] \in Nat /\ before[r] + 1 \in DOMAIN chain[session[r]]
    BY <1>1, <2>2 DEF CliShape, SessionSound, Served, PoolTypes, TurnTypes, SnapshotSound, InTurn
  <2>6. i \in 1..before[r] /\ i \in DOMAIN chain[session[r]]
        /\ Previous(r)[i] = chain[session[r]][i] /\ chain[session[r]][i] \in Requests
    BY <2>5 DEF Previous
  <2>7. PICK q \in Requests : q = chain[session[r]][i]
    BY <2>6
  <2>8. pc[q] \in InTurn /\ before[q] + 1 = i
    BY <1>1, <2>4, <2>5, <2>6, <2>7 DEF ChainSound, InChain, ChainEntry
  <2>9. q \in S
    BY <1>3, <1>4, <2>8 DEF InTurn
  <2> QED BY <1>1, <2>1, <2>5, <2>6, <2>8, <2>9
\* nor does anybody wait: who holds the mutex goes on
<1>6. pc[r0] = "waiting" /\ ~Disturbed
  BY <1>3, <1>4, <1>5
<1>7. WaitQueued /\ Shared
  BY <1>6 DEF ProgressIInv, CliIInv
<1>8. PICK m \in Requests : queue[m] # <<>>
  BY <1>6, <1>7 DEF WaitQueued, InQueue
<1>9. holder[m] # NoRequest /\ pc[holder[m]] \in Inside /\ holder[m] \in Requests
  BY <1>1, <1>7, <1>8 DEF Shared, Exclusion, QueueHeld, HeldInside, CliShape, FlowTypes
<1> QED BY <1>3, <1>9 DEF Inside

\* While a request is under way somebody can go on: the chain of promises has no
\* circle, and who waits for the mutex waits for a request that can, while nothing
\* disturbs it.
THEOREM RequestsGoOn == CliSpec => []SomebodyGoesOn
BY Somebody, ProgressInit, ProgressStep, Works, PTL DEF CliSpec

\* A session whose turn is over has its timer running, while nothing disturbs it.
THEOREM OverSessionsTimed == CliSpec => []OverIsTimed
<1>1. ProgressIInv => OverIsTimed
  BY DEF ProgressIInv
<1> QED BY <1>1, ProgressInit, ProgressStep, Works, PTL DEF CliSpec
==============================================================================

------------------------ MODULE AsyncRefinement_proofs -------------------------
(***************************************************************************)
(* The safety part of the refinement, for all ids, texts and capacities:   *)
(* every step of AsyncCompletions is a step of CompletionCalls, or changes *)
(* nothing that its callers can see.                                       *)
(***************************************************************************)
EXTENDS AsyncRefinement, AsyncCompletions_proofs

\* A call of the second kind is made in the turn that issues the request.
OwnWithRequest == \A i \in Ids : phase[i] = "none" => status[<<i, "own">>] = "none"

LEMMA OwnInit == Init => OwnWithRequest
BY DEF Init, OwnWithRequest, Calls, Kinds

LEMMA OwnStep ==
  ASSUME IInv, OwnWithRequest, TableMoves PROVE OwnWithRequest'
<1>1. /\ status \in [Calls -> {"none", "waiting", "resolved", "disposed"}]
      /\ phase \in [Ids -> {"none", "pending", "completed", "failed"}]
      /\ \A i \in Ids, k \in Kinds : <<i, k>> \in Calls
  BY DEF IInv, TypeOK, Calls
<1>2. ASSUME NEW i \in Ids, NEW t \in Texts, Peek(i, t) PROVE OwnWithRequest'
  BY <1>1, <1>2 DEF Peek, GetFirstMatching, OwnWithRequest, requestVars, Kinds
<1>3. ASSUME NEW i \in Ids, NEW t \in Texts, Queue(i, t) PROVE OwnWithRequest'
  <2>1. /\ phase' = [phase EXCEPT ![i] = "pending"]
        /\ \E x : status' = [status EXCEPT ![<<i, "own">>] = x]
    BY <1>3 DEF Queue, GetFirstMatching
  <2> QED BY <1>1, <2>1 DEF OwnWithRequest, Kinds
\* a call that is not made is not finished
<1>4. ASSUME NEW r, NEW C, NEW found, FinishRequest(r, C, found)
      PROVE  \A c \in Calls : status[c] = "none" => status'[c] = "none"
  BY <1>4 DEF FinishRequest
<1>5. ASSUME NEW r \in Ids, NEW t \in Texts, Update(r, t) PROVE OwnWithRequest'
  BY <1>1, <1>4, <1>5 DEF Update, OwnWithRequest, Kinds
<1>6. ASSUME NEW r \in Ids, Fail(r) \/ \E t \in Texts : Complete(r, t) PROVE OwnWithRequest'
  <2>1. /\ \A i \in Ids : phase'[i] = "none" => phase[i] = "none"
        /\ \A c \in Calls : status[c] = "none" => status'[c] = "none"
    BY <1>1, <1>4, <1>6 DEF Fail, Complete
  <2> QED BY <1>1, <2>1 DEF OwnWithRequest, Kinds
<1>7. ASSUME NEW c \in Calls, Dispose(c) PROVE OwnWithRequest'
  BY <1>1, <1>7 DEF Dispose, OwnWithRequest, requestVars, Kinds
<1>8. CASE Clear \/ UNCHANGED vars \/ \E i \in Ids : PeekTimeout(i)
  BY <1>8 DEF Clear, PeekTimeout, vars, requestVars, callVars, OwnWithRequest
<1> QED BY <1>2, <1>3, <1>5, <1>6, <1>7, <1>8 DEF TableMoves
------------------------------------------------------------------------------
\* getFirstMatchingRequest is Ask.
LEMMA LookRefines ==
  ASSUME IInv, NEW i \in Ids, NEW kind \in Kinds, NEW t \in Texts,
         NEW m \in Tables, HasLeast(m.older), NEW R \in SUBSET Ids,
         GetFirstMatching(i, kind, t, m, R),
         status[<<i, kind>>] = "none", ctx[i] \in {NoText, t},
         ctx' = [ctx EXCEPT ![i] = t], final' = final,
         \A r \in Ids : phase'[r] = "completed" <=> phase[r] = "completed",
         \A r \in R : phase[r] = "completed" => <<t, final[r]>> \in Ext /\ final[r] # t
  PROVE  Promise!Ask(<<i, kind>>, t)
<1> DEFINE c == <<i, kind>>
           hits == {r \in R : phase[r] = "completed"}
<1>1. /\ c \in Calls
      /\ ctx \in [Ids -> Texts \cup {NoText}]
      /\ status \in [Calls -> {"none", "waiting", "resolved", "disposed"}]
      /\ outcome \in [Calls -> Texts \cup {NoText}]
  BY DEF IInv, TypeOK, Calls
<1>2. PICK found : /\ found = FirstFound(m, hits)
                   /\ status' = [status EXCEPT ![c] = IF found = NoText THEN "waiting" ELSE "resolved"]
                   /\ outcome' = [outcome EXCEPT ![c] = found]
  BY DEF GetFirstMatching
<1>3. /\ status'[c] = IF found = NoText THEN "waiting" ELSE "resolved"
      /\ \A d \in Calls : d # c => status'[d] = status[d]
  BY <1>1, <1>2
<1>4. Asked[c] = NoText
  BY <1>1 DEF Asked
<1>5. Asked' = [Asked EXCEPT ![c] = t]
  <2>1. \A d \in Calls : Asked'[d] = IF d = c THEN t ELSE Asked[d]
    <3> SUFFICES ASSUME NEW d \in Calls PROVE Asked'[d] = IF d = c THEN t ELSE Asked[d]
      OBVIOUS
    <3>1. d[1] \in Ids
      BY DEF Calls
    <3>2. CASE d = c
      BY <1>1, <1>3, <3>2 DEF Asked
    <3>3. CASE d # c
      <4>1. status'[d] = status[d]
        BY <1>3, <3>3
      <4>2. status[d] # "none" => ctx[d[1]] \in Texts
        BY DEF IInv, CallsKnown
      <4>3. status[d] # "none" => ctx'[d[1]] = ctx[d[1]]
        BY <1>1, <3>1, <4>2, TextsAssumption
      <4> QED BY <3>3, <4>1, <4>3 DEF Asked
    <3> QED BY <3>2, <3>3
  <2>2. Asked = [d \in Calls |-> Asked[d]] /\ Asked' = [d \in Calls |-> Asked'[d]]
    BY DEF Asked
  <2> HIDE DEF c
  <2>3. Asked' = [d \in Calls |-> IF d = c THEN t ELSE Asked[d]]
    BY <2>1, <2>2
  <2> QED BY <2>2, <2>3
<1>6. Known' = Known
  BY DEF Known
<1>7. CASE found = NoText
  <2>1. outcome[c] = NoText
    BY <1>1 DEF IInv, CallsKnown
  <2>2. outcome' = outcome
    BY <1>1, <1>2, <1>7, <2>1
  <2>3. Settled' = Settled
    BY <1>1, <1>3, <1>7 DEF Settled
  <2> QED BY <1>4, <1>5, <1>6, <2>2, <2>3 DEF Promise!Ask
<1>8. CASE found # NoText
  <2>1. hits # {} /\ hits \in SUBSET Ids
    BY <1>2, <1>8 DEF FirstFound
  <2>2. PICK r \in hits : found = final[r]
    BY <1>2, <2>1, FirstHitProperties DEF FirstFound
  <2>3. found \in Known /\ <<t, found>> \in {p \in Ext : p[1] # p[2]}
    BY <2>1, <2>2 DEF Known
  <2>4. Settled' = Settled \cup {c}
    BY <1>1, <1>3, <1>8 DEF Settled
  <2> QED BY <1>2, <1>4, <1>5, <1>6, <2>3, <2>4 DEF Promise!Ask
<1> QED BY <1>7, <1>8

LEMMA PeekRefines ==
  ASSUME IInv, NEW i \in Ids, NEW t \in Texts, Peek(i, t)
  PROVE  Promise!Ask(<<i, "peek">>, t)
<1> DEFINE R == {r \in table.keys : IsCandidate(t, r)}
<1>1. /\ t \in Texts /\ "peek" \in Kinds /\ <<i, "peek">> \in Calls
      /\ table \in Tables /\ HasLeast(table.older) /\ R \in SUBSET Ids
  BY TextsAssumption DEF IInv, TypeOK, WellOrdered, Kinds, Calls, Tables
<1>2. /\ GetFirstMatching(i, "peek", t, table, R)
      /\ ctx[i] = NoText /\ ctx' = [ctx EXCEPT ![i] = t]
      /\ final' = final /\ phase' = phase
  BY DEF Peek, requestVars
<1>3. status[<<i, "peek">>] = "none"
  <2>1. status[<<i, "peek">>] # "none" => ctx[<<i, "peek">>[1]] \in Texts
    BY <1>1 DEF IInv, CallsKnown
  <2> QED BY <1>2, <2>1, TextsAssumption
<1>4. \A r \in R : phase[r] = "completed" => <<t, final[r]>> \in Ext /\ final[r] # t
  BY DEF IsCandidate, Candidate, StartsWith
<1> HIDE DEF R
<1> QED BY <1>1, <1>2, <1>3, <1>4, LookRefines

LEMMA QueueRefines ==
  ASSUME IInv, OwnWithRequest, NEW i \in Ids, NEW t \in Texts, Queue(i, t)
  PROVE  Promise!Ask(<<i, "own">>, t)
<1> DEFINE m == Inserted(table, i)
           R == {i} \cup {r \in m.keys \ {i} : IsCandidate(t, r)}
<1>1. /\ t \in Texts /\ "own" \in Kinds
      /\ table \in Tables /\ HasLeast(table.older) /\ table.keys \subseteq Ids
  BY TextsAssumption DEF IInv, TypeOK, WellOrdered, Kinds, Tables
<1>2. /\ m \in Tables /\ HasLeast(m.older)
      /\ i \in m.keys /\ m.keys \subseteq table.keys \cup {i}
  BY <1>1, InsertedProperties
<1>3. /\ GetFirstMatching(i, "own", t, m, R)
      /\ ctx[i] \in {NoText, t} /\ ctx' = [ctx EXCEPT ![i] = t] /\ final' = final
      /\ phase[i] = "none" /\ phase' = [phase EXCEPT ![i] = "pending"]
  BY DEF Queue
<1>4. \A r \in Ids : phase'[r] = "completed" <=> phase[r] = "completed"
  BY <1>3 DEF IInv, TypeOK
<1>5. status[<<i, "own">>] = "none"
  BY <1>3 DEF OwnWithRequest
<1> HIDE DEF m
<1>6. \A r \in R : phase[r] = "completed" => <<t, final[r]>> \in Ext /\ final[r] # t
  BY <1>3 DEF IsCandidate, Candidate, StartsWith
<1>7. R \in SUBSET Ids
  BY <1>1, <1>2
<1> HIDE DEF R
<1> QED BY <1>1, <1>2, <1>3, <1>4, <1>5, <1>6, <1>7, LookRefines

\* A request that grows, is cancelled or fails leaves some calls with nothing.
LEMMA GiveUpRefines ==
  ASSUME IInv, NEW r, NEW C \in SUBSET Calls, FinishRequest(r, C, {}), ctx' = ctx,
         \A q \in Ids : phase'[q] = "completed" <=> phase[q] = "completed", final' = final
  PROVE  Promise!GiveUp
<1> DEFINE D == {c \in Calls : status[c] = "waiting" /\ status'[c] = "resolved"}
<1>1. /\ outcome \in [Calls -> Texts \cup {NoText}]
      /\ \A c \in Calls : status[c] # "none" => ctx[c[1]] \in Texts
  BY DEF IInv, TypeOK, CallsKnown
<1>2. \A c \in Calls : \/ status'[c] = status[c]
                       \/ status[c] = "waiting" /\ status'[c] = "resolved"
  BY DEF FinishRequest
<1>3. outcome' = outcome
  <2>1. outcome' = [c \in Calls |-> outcome[c]]
    BY DEF FinishRequest
  <2> QED BY <1>1, <2>1
<1>4. Asked' = Asked /\ Known' = Known
  BY <1>2 DEF Asked, Known
<1>5. D \in SUBSET Promise!Waiting
  BY <1>1, TextsAssumption DEF Promise!Waiting, Asked, Settled
<1>6. Settled' = Settled \cup D
  BY <1>2 DEF Settled
<1> QED BY <1>3, <1>4, <1>5, <1>6 DEF Promise!GiveUp

LEMMA CompleteRefines ==
  ASSUME IInv, NEW r \in Ids, NEW t \in Texts, Complete(r, t)
  PROVE  Promise!Arrives(t)
<1> DEFINE found == {c \in Subscribers(r) : Candidate(ctx[c[1]], r, "completed", NoText, t)}
           C == {c \in found : status[c] = "waiting"}
           D == {c \in Calls : status[c] = "waiting" /\ status'[c] = "resolved" /\ c \notin found}
<1>1. /\ outcome \in [Calls -> Texts \cup {NoText}]
      /\ phase \in [Ids -> {"none", "pending", "completed", "failed"}]
      /\ final \in [Ids -> Texts \cup {NoText}]
      /\ \A c \in Calls : status[c] # "none" => ctx[c[1]] \in Texts
      /\ \A c \in Subscribers(r) : c \in Calls /\ StartsWith(ctx[c[1]], ctx[r])
  BY DEF IInv, TypeOK, CallsKnown, Subscribers
<1>2. /\ phase' = [phase EXCEPT ![r] = "completed"] /\ phase[r] = "pending"
      /\ final' = [final EXCEPT ![r] = t] /\ ctx' = ctx
      /\ FinishRequest(r, Subscribers(r), found)
  BY DEF Complete
<1>3. \A c \in Calls :
        /\ \/ status'[c] = status[c]
           \/ status[c] = "waiting" /\ status'[c] = "resolved"
        /\ c \in C => status'[c] = "resolved"
        /\ status'[c] = "resolved" /\ c \notin C /\ c \notin D => status[c] = "resolved"
        /\ c \in D => c \in Subscribers(r)
  BY <1>2 DEF FinishRequest
<1>4. Asked' = Asked
  BY <1>2, <1>3 DEF Asked
<1>5. Known' = Known \cup {t}
  <2>1. /\ phase'[r] = "completed" /\ final'[r] = t
        /\ \A q \in Ids : q # r => phase'[q] = phase[q] /\ final'[q] = final[q]
    BY <1>1, <1>2
  <2> QED BY <1>2, <2>1 DEF Known
<1>6. outcome' = [c \in Calls |-> IF c \in C THEN t ELSE outcome[c]]
  <2>1. final'[r] = t
    BY <1>1, <1>2
  <2> QED BY <1>2, <2>1 DEF FinishRequest
<1>7. Settled' = (Settled \cup C) \cup D
  BY <1>1, <1>3 DEF Settled
<1>8. C \in SUBSET Promise!Waiting /\ D \in SUBSET Promise!Waiting
  BY <1>1, TextsAssumption DEF Promise!Waiting, Asked, Settled
<1>9. \A c \in C : <<Asked[c], t>> \in {p \in Ext : p[1] # p[2]}
  BY <1>1 DEF Asked, Candidate, StartsWith
<1>10. \A c \in D : <<Asked[c], t>> \notin {p \in Ext : p[1] # p[2]}
  BY <1>1, <1>3 DEF Asked, Candidate, StartsWith
<1> QED BY <1>4, <1>5, <1>6, <1>7, <1>8, <1>9, <1>10 DEF Promise!Arrives
------------------------------------------------------------------------------
LEMMA RefinedInit == Init => Promise!CallsInit
<1> SUFFICES ASSUME Init PROVE Promise!CallsInit
  OBVIOUS
<1>1. Asked = [c \in Calls |-> NoText] /\ Settled = {} /\ Known = {}
  BY DEF Init, Asked, Settled, Known
<1> QED BY <1>1 DEF Init, Promise!CallsInit

LEMMA RefinedStep ==
  ASSUME IInv, OwnWithRequest, TableMoves
  PROVE  [Promise!CallsNext]_Promise!callsVars
<1>1. ASSUME NEW i \in Ids, NEW t \in Texts, Peek(i, t) \/ Queue(i, t) PROVE Promise!CallsNext
  <2>1. \E k \in Kinds : Promise!Ask(<<i, k>>, t)
    BY <1>1, PeekRefines, QueueRefines DEF Kinds
  <2> QED BY <2>1 DEF Promise!CallsNext, Calls
<1>2. ASSUME NEW r \in Ids, NEW t \in Texts, Update(r, t) PROVE Promise!GiveUp
  <2> DEFINE C == {c \in Subscribers(r) : ~Candidate(ctx[c[1]], r, "pending", t, NoText)}
  <2>1. /\ C \in SUBSET Calls /\ FinishRequest(r, C, {})
        /\ UNCHANGED <<ctx, phase, final>>
    BY <1>2 DEF Update, Subscribers
  <2> HIDE DEF C
  <2> QED BY <2>1, GiveUpRefines
<1>3. ASSUME NEW r \in Ids, Fail(r) PROVE Promise!GiveUp
  <2>1. /\ Subscribers(r) \in SUBSET Calls /\ FinishRequest(r, Subscribers(r), {})
        /\ ctx' = ctx /\ final' = final
        /\ phase[r] = "pending" /\ phase' = [phase EXCEPT ![r] = "failed"]
    BY <1>3 DEF Fail, Subscribers
  <2>2. \A q \in Ids : phase'[q] = "completed" <=> phase[q] = "completed"
    BY <2>1 DEF IInv, TypeOK
  <2> QED BY <2>1, <2>2, GiveUpRefines
<1>4. ASSUME NEW r \in Ids, Fail(r) \/ \E t \in Texts : Complete(r, t) PROVE Promise!CallsNext
  BY <1>3, <1>4, CompleteRefines DEF Promise!CallsNext
<1>5. CASE \/ Clear \/ UNCHANGED vars
           \/ \E i \in Ids : PeekTimeout(i)
           \/ \E c \in Calls : Dispose(c)
  <2>1. /\ UNCHANGED <<ctx, phase, final, outcome>>
        /\ \/ status' = status
           \/ \E c \in Calls : status[c] = "resolved" /\ status' = [status EXCEPT ![c] = "disposed"]
    BY <1>5 DEF Clear, PeekTimeout, Dispose, vars, requestVars, callVars
  <2>2. \A c \in Calls : status'[c] = status[c] \/ (status[c] = "resolved" /\ status'[c] = "disposed")
    BY <2>1 DEF IInv, TypeOK
  <2>3. UNCHANGED <<Asked, Settled, Known>>
    BY <2>1, <2>2 DEF Asked, Settled, Known
  <2> QED BY <2>1, <2>3 DEF Promise!callsVars
<1> QED BY <1>1, <1>2, <1>4, <1>5 DEF TableMoves, Promise!CallsNext

\* AsyncCompletionManager implements the safety part of what CompletionCalls
\* promises to its callers.
THEOREM AsyncImplementsCalls == Spec => Promise!CallsSafety
<1>1. Init => IInv /\ OwnWithRequest
  BY InitIInv, OwnInit
<1>2. IInv /\ OwnWithRequest /\ IInv' /\ [Next]_vars => OwnWithRequest'
  BY OwnStep, NextMoves
<1>3. IInv /\ OwnWithRequest /\ [Next]_vars => [Promise!CallsNext]_Promise!callsVars
  BY RefinedStep, NextMoves
<1> QED BY <1>1, <1>2, <1>3, RefinedInit, Invariance, PTL DEF Spec, Promise!CallsSafety
==============================================================================

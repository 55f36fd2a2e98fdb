----------------------- MODULE AsyncCompletions_proofs ------------------------
(***************************************************************************)
(* Theorems about the table of completion requests, for every set of ids,  *)
(* every text order and every capacity.  IInv is the inductive invariant.  *)
(***************************************************************************)
EXTENDS AsyncCompletions, TLAPS, FiniteSetTheorems

(* Deleting keys keeps the table well formed and forgets nothing else. *)
LEMMA DeleteProperties ==
  ASSUME NEW m \in Tables, NEW D, HasLeast(m.older)
  PROVE  /\ Delete(m, D) \in Tables
         /\ Delete(m, D).keys = m.keys \ D
         /\ HasLeast(Delete(m, D).older)
  BY DEF Tables, Delete, HasLeast

(* Using a key makes it the youngest: it precedes no other key, so the     *)
(* least member of any other set of keys stays the least.                  *)
LEMMA TouchedProperties ==
  ASSUME NEW m \in Tables, NEW r \in Ids, HasLeast(m.older)
  PROVE  /\ Touched(m, r) \in Tables
         /\ Touched(m, r).keys = m.keys \cup {r}
         /\ HasLeast(Touched(m, r).older)
<1> DEFINE old == {p \in m.older : p[1] \notin {r} /\ p[2] \notin {r}}
           new == old \cup ((m.keys \ {r}) \X {r})
<1>1. Touched(m, r) = [keys |-> m.keys \cup {r}, older |-> new]
  BY DEF Touched, Delete
<1>2. new \in SUBSET (Ids \X Ids)
  BY DEF Tables
<1>3. ASSUME NEW T \in SUBSET Ids, T # {}
      PROVE  \E x \in T : \A y \in T : <<y, x>> \notin new
  <2>1. CASE T = {r}
    BY <2>1
  <2>2. CASE T # {r}
    <3>1. PICK x \in T \ {r} : \A y \in T \ {r} : <<y, x>> \notin m.older
      BY <1>3, <2>2, T \ {r} # {} DEF HasLeast
    <3>2. \A y \in T : <<y, x>> \notin new
      BY <3>1
    <3> QED BY <3>2
  <2> QED BY <2>1, <2>2
<1> HIDE DEF new
<1> QED BY <1>1, <1>2, <1>3 DEF HasLeast, Tables

(* Inserting a key evicts at most others. *)
LEMMA InsertedProperties ==
  ASSUME NEW m \in Tables, NEW r \in Ids, HasLeast(m.older)
  PROVE  /\ Inserted(m, r) \in Tables
         /\ r \in Inserted(m, r).keys
         /\ Inserted(m, r).keys \subseteq m.keys \cup {r}
         /\ HasLeast(Inserted(m, r).older)
<1> DEFINE d == Delete(m, {Oldest(m)})
<1>1. d \in Tables /\ d.keys \subseteq m.keys /\ HasLeast(d.older)
  BY DeleteProperties
<1>2. /\ Touched(d, r) \in Tables /\ Touched(d, r).keys = d.keys \cup {r}
      /\ HasLeast(Touched(d, r).older)
  BY <1>1, TouchedProperties
<1> HIDE DEF d
<1> QED BY <1>1, <1>2, TouchedProperties DEF Inserted, d

(* The first completed candidate is one of the candidates. *)
LEMMA FirstHitProperties ==
  ASSUME NEW m \in Tables, HasLeast(m.older), NEW hits \in SUBSET Ids, hits # {}
  PROVE  FirstHit(m, hits) \in hits
  BY DEF FirstHit, HasLeast

------------------------------------------------------------------------------
(***************************************************************************)
(* The steps.                                                              *)
(***************************************************************************)
(* The initial state. *)
LEMMA InitIInv == Init => IInv
  BY IdsAssumption, TextsAssumption
  DEF Init, IInv, TypeOK, Tables, EmptyTable, Calls, Kinds, RequestsKnown, InTable,
      WellOrdered, HasLeast, CallsKnown, NoLostWaiter, CancelledNotOffered, OutcomeContinues

(* What a call to getFirstMatchingRequest leaves behind, given the table m *)
(* it looks at and the candidates R it finds there.                        *)
LEMMA GetFirstMatchingEffect ==
  ASSUME IInv, NEW i \in Ids, NEW kind \in Kinds, NEW t \in Texts,
         NEW m \in Tables, HasLeast(m.older), NEW R \in SUBSET Ids,
         \A r \in R : phase[r] = "completed" => final[r] \in Texts,
         GetFirstMatching(i, kind, t, m, R)
  PROVE  /\ mostRecent' \in (Ids \cup {NoId}) \ Speculative
         /\ table' \in Tables /\ HasLeast(table'.older)
         /\ table'.keys \subseteq m.keys
         /\ R \cap m.keys \subseteq table'.keys
         /\ cancelled' \in [Ids -> BOOLEAN]
         /\ \A r \in Ids : cancelled'[r] =>
              \/ cancelled[r]
              \/ /\ r \in m.keys \ R /\ phase[r] = "pending"
                 /\ r \notin table'.keys /\ mostRecent' = i
         /\ \A c \in Calls : c # <<i, kind>> =>
              status'[c] = status[c] /\ subs'[c] = subs[c] /\ outcome'[c] = outcome[c]
         /\ subs'[<<i, kind>>] = R
         /\ \/ /\ status'[<<i, kind>>] = "waiting" /\ outcome'[<<i, kind>>] = NoText
               /\ \A r \in R : phase[r] # "completed"
            \/ /\ status'[<<i, kind>>] = "resolved"
               /\ \E r \in R : phase[r] = "completed" /\ outcome'[<<i, kind>>] = final[r]
         /\ status' \in [Calls -> {"none", "waiting", "resolved", "disposed"}]
         /\ subs' \in [Calls -> SUBSET Ids]
         /\ outcome' \in [Calls -> Texts \cup {NoText}]
<1> DEFINE hits == {r \in R : phase[r] = "completed"}
           found == FirstFound(m, hits)
           stale == {r \in m.keys \ R : phase[r] = "pending"}
           dropped == IF MostRecentAfter(i) = i THEN stale ELSE {}
<1>1. /\ mostRecent' = MostRecentAfter(i)
      /\ table' = Delete(m, dropped)
      /\ cancelled' = [r \in Ids |-> cancelled[r] \/ r \in dropped]
      /\ status' = [status EXCEPT ![<<i, kind>>] =
                      IF found = NoText THEN "waiting" ELSE "resolved"]
      /\ outcome' = [outcome EXCEPT ![<<i, kind>>] = found]
      /\ subs' = [subs EXCEPT ![<<i, kind>>] = R]
  BY DEF GetFirstMatching, AfterCancel
<1>2. \/ found = NoText /\ hits = {}
      \/ \E r \in hits : found = final[r] /\ found \in Texts
  <2>1. CASE hits = {}
    BY <2>1 DEF FirstFound
  <2>2. CASE hits # {}
    <3>1. FirstHit(m, hits) \in hits
      <4> HIDE DEF hits
      <4> QED BY <2>2, hits \in SUBSET Ids, FirstHitProperties DEF hits
    <3> QED BY <2>2, <3>1 DEF FirstFound
  <2> QED BY <2>1, <2>2
<1>3. <<i, kind>> \in Calls
  BY DEF Calls
<1>4. /\ table' \in Tables /\ HasLeast(table'.older)
      /\ table'.keys = m.keys \ dropped
  BY <1>1, DeleteProperties
<1>5. /\ mostRecent' \in (Ids \cup {NoId}) \ Speculative
      /\ dropped # {} => mostRecent' = i
  BY <1>1, IdsAssumption DEF MostRecentAfter, IInv, TypeOK, CallsKnown
<1>6. /\ cancelled' \in [Ids -> BOOLEAN]
      /\ \A r \in Ids : cancelled'[r] => cancelled[r] \/ r \in dropped
  BY <1>1, <1>5 DEF IInv, TypeOK
<1>7. /\ status' \in [Calls -> {"none", "waiting", "resolved", "disposed"}]
      /\ subs' \in [Calls -> SUBSET Ids]
      /\ outcome' \in [Calls -> Texts \cup {NoText}]
      /\ \A c \in Calls : c # <<i, kind>> =>
           status'[c] = status[c] /\ subs'[c] = subs[c] /\ outcome'[c] = outcome[c]
      /\ subs'[<<i, kind>>] = R
      /\ status'[<<i, kind>>] = IF found = NoText THEN "waiting" ELSE "resolved"
      /\ outcome'[<<i, kind>>] = found
  <2> HIDE DEF found, hits
  <2> QED BY <1>1, <1>2, <1>3 DEF IInv, TypeOK, hits
<1>8. dropped \subseteq stale
  OBVIOUS
<1> HIDE DEF found, dropped
<1> QED BY <1>2, <1>4, <1>5, <1>6, <1>7, <1>8, TextsAssumption

(* A call of getFirstMatchingRequest preserves the invariant, whether it    *)
(* only looks (phase is unchanged) or its id has just queued a request.    *)
LEMMA LookIInv ==
  ASSUME IInv, NEW i \in Ids, NEW kind \in Kinds, NEW t \in Texts,
         NEW m \in Tables, HasLeast(m.older), NEW R \in SUBSET m.keys, R # {},
         GetFirstMatching(i, kind, t, m, R),
         ctx[i] \in {NoText, t}, ctx' = [ctx EXCEPT ![i] = t],
         partial' = partial, final' = final, timedOut' = timedOut,
         NEW queued \in SUBSET {i},
         m.keys \subseteq table.keys \cup queued,
         \A r \in queued : phase[r] = "none",
         phase' = [r \in Ids |-> IF r \in queued THEN "pending" ELSE phase[r]],
         \A r \in R \ queued : IsCandidate(t, r)
  PROVE  IInv'
<1> DEFINE call == <<i, kind>>
<1>1. /\ call \in Calls /\ R \in SUBSET Ids
      /\ \A r \in R \ queued : phase[r] \in {"pending", "completed"}
      /\ \A r \in R : phase[r] = "completed" => final[r] \in Texts
  BY DEF IInv, RequestsKnown, InTable, Calls, Tables
<1>2. /\ \A r \in R \ queued : StartsWith(t, ctx[r])
      /\ \A r \in R : phase[r] = "completed" =>
           StartsWith(t, ctx[r]) /\ StartsWith(final[r], t) /\ final[r] # t
  BY DEF IsCandidate, Candidate
<1>3. /\ mostRecent' \in (Ids \cup {NoId}) \ Speculative
      /\ table' \in Tables /\ HasLeast(table'.older)
      /\ table'.keys \subseteq m.keys /\ R \subseteq table'.keys
      /\ cancelled' \in [Ids -> BOOLEAN]
      /\ \A r \in Ids : cancelled'[r] =>
           cancelled[r] \/ (phase[r] = "pending" /\ r \notin table'.keys)
  BY <1>1, GetFirstMatchingEffect
<1>4. /\ \A c \in Calls \ {call} :
           status'[c] = status[c] /\ subs'[c] = subs[c] /\ outcome'[c] = outcome[c]
      /\ subs'[call] = R
      /\ status'[call] \in {"waiting", "resolved"}
      /\ status'[call] = "waiting" => \A r \in R : phase[r] # "completed"
      /\ outcome'[call] # NoText =>
           /\ status'[call] = "resolved"
           /\ \E r \in R : phase[r] = "completed" /\ outcome'[call] = final[r]
      /\ status' \in [Calls -> {"none", "waiting", "resolved", "disposed"}]
      /\ subs' \in [Calls -> SUBSET Ids]
      /\ outcome' \in [Calls -> Texts \cup {NoText}]
  BY <1>1, GetFirstMatchingEffect
<1>5. ctx' \in [Ids -> Texts \cup {NoText}] /\ ctx'[i] = t
  BY DEF IInv, TypeOK
<1>6. /\ \A r \in Ids : phase[r] # "none" => ctx'[r] = ctx[r]
      /\ \A c \in Calls : status[c] # "none" => ctx'[c[1]] = ctx[c[1]]
  BY TextsAssumption DEF IInv, RequestsKnown, CallsKnown, TypeOK, Calls
<1>7. /\ phase' \in [Ids -> {"none", "pending", "completed", "failed"}]
      /\ \A r \in Ids : phase'[r] = IF r \in queued THEN "pending" ELSE phase[r]
  BY DEF IInv, TypeOK
<1>8. TypeOK'
  BY <1>3, <1>4, <1>5, <1>7 DEF IInv, TypeOK
<1>9. RequestsKnown'
  BY <1>3, <1>5, <1>6, <1>7 DEF IInv, RequestsKnown, InTable
<1>10. CallsKnown'
  <2>1. ASSUME NEW c \in Calls
        PROVE  /\ status'[c] # "none" => ctx'[c[1]] \in Texts
               /\ outcome'[c] # NoText => status'[c] \in {"resolved", "disposed"}
    <3>1. CASE c = call
      BY <1>4, <1>5, <3>1
    <3>2. CASE c # call
      BY <1>4, <1>6, <3>2 DEF IInv, CallsKnown
    <3> QED BY <3>1, <3>2
  <2>2. ASSUME NEW c \in Calls, NEW r \in Ids, r \in subs'[c]
        PROVE  status'[c] # "none" /\ phase'[r] # "none" /\ StartsWith(ctx'[c[1]], ctx'[r])
    <3>1. CASE c = call /\ r \in queued
      BY <1>4, <1>5, <1>7, <3>1, ExtAssumption DEF StartsWith
    <3>2. CASE c = call /\ r \notin queued
      BY <1>1, <1>2, <1>4, <1>5, <1>6, <1>7, <2>2, <3>2
    <3>3. CASE c # call
      <4>1. status[c] # "none" /\ phase[r] # "none" /\ StartsWith(ctx[c[1]], ctx[r])
        BY <1>4, <2>2, <3>3 DEF IInv, CallsKnown
      <4> QED BY <1>4, <1>6, <1>7, <3>3, <4>1
    <3> QED BY <3>1, <3>2, <3>3
  <2> QED BY <1>3, <2>1, <2>2 DEF CallsKnown, StartsWith
<1>11. NoLostWaiter'
  <2> SUFFICES ASSUME NEW c \in Calls, status'[c] = "waiting"
               PROVE  subs'[c] # {} /\ \A r \in subs'[c] : phase'[r] = "pending"
    BY DEF NoLostWaiter
  <2>1. CASE c = call
    BY <1>1, <1>4, <1>7, <2>1
  <2>2. CASE c # call
    BY <1>4, <1>7, <2>2 DEF IInv, NoLostWaiter, TypeOK
  <2> QED BY <2>1, <2>2
<1>12. CancelledNotOffered'
  BY <1>3, <1>7 DEF IInv, CancelledNotOffered, InTable, RequestsKnown
<1>13. OutcomeContinues'
  <2> SUFFICES ASSUME NEW c \in Calls, outcome'[c] # NoText
               PROVE  /\ StartsWith(outcome'[c], ctx'[c[1]]) /\ outcome'[c] # ctx'[c[1]]
                      /\ \E r \in Ids : /\ phase'[r] = "completed" /\ final'[r] = outcome'[c]
                                        /\ StartsWith(ctx'[c[1]], ctx'[r])
    BY DEF OutcomeContinues, StartsWith
  <2>1. CASE c = call
    <3>1. PICK r \in R : phase[r] = "completed" /\ outcome'[call] = final[r]
      BY <1>4, <2>1
    <3>2. r \in Ids /\ ctx'[r] = ctx[r] /\ phase'[r] = "completed"
      BY <1>1, <1>6, <1>7, <3>1
    <3> QED BY <1>2, <1>5, <2>1, <3>1, <3>2
  <2>2. CASE c # call
    <3>1. outcome'[c] = outcome[c] /\ ctx'[c[1]] = ctx[c[1]]
      BY <1>4, <1>6, <2>2 DEF IInv, CallsKnown
    <3>2. PICK r \in Ids : /\ phase[r] = "completed" /\ final[r] = outcome[c]
                           /\ StartsWith(ctx[c[1]], ctx[r])
      BY <3>1 DEF IInv, OutcomeContinues
    <3>3. ctx'[r] = ctx[r] /\ phase'[r] = "completed"
      BY <1>6, <1>7, <3>2
    <3> QED BY <3>1, <3>2, <3>3 DEF IInv, OutcomeContinues
  <2> QED BY <2>1, <2>2
<1>14. WellOrdered'
  BY <1>3 DEF WellOrdered
<1> QED BY <1>8, <1>9, <1>10, <1>11, <1>12, <1>13, <1>14 DEF IInv

LEMMA PeekIInv ==
  ASSUME IInv, NEW i \in Ids, NEW t \in Texts, Peek(i, t)
  PROVE  IInv'
<1> DEFINE R == {r \in table.keys : IsCandidate(t, r)}
<1>1. /\ "peek" \in Kinds
      /\ table \in Tables /\ HasLeast(table.older)
  BY DEF IInv, TypeOK, WellOrdered, Kinds
<1>2. R \in SUBSET table.keys /\ R # {} /\ \A r \in R : IsCandidate(t, r)
  BY DEF Peek, ShouldWait
<1>3. /\ GetFirstMatching(i, "peek", t, table, R)
      /\ ctx[i] = NoText /\ ctx' = [ctx EXCEPT ![i] = t]
      /\ partial' = partial /\ final' = final /\ timedOut' = timedOut /\ phase' = phase
  BY DEF Peek, requestVars
<1>4. phase' = [r \in Ids |-> IF r \in {} THEN "pending" ELSE phase[r]]
  BY <1>3 DEF IInv, TypeOK
<1> DEFINE queued == {}
<1>5. /\ queued \in SUBSET {i} /\ table.keys \subseteq table.keys \cup queued
      /\ \A r \in queued : phase[r] = "none"
      /\ phase' = [r \in Ids |-> IF r \in queued THEN "pending" ELSE phase[r]]
      /\ \A r \in R \ queued : IsCandidate(t, r)
      /\ ctx[i] \in {NoText, t}
  BY <1>2, <1>3, <1>4
<1> HIDE DEF R, queued
<1> QED BY <1>1, <1>2, <1>3, <1>5, LookIInv

LEMMA QueueIInv ==
  ASSUME IInv, NEW i \in Ids, NEW t \in Texts, Queue(i, t)
  PROVE  IInv'
<1> DEFINE m == Inserted(table, i)
           R == {i} \cup {r \in m.keys \ {i} : IsCandidate(t, r)}
<1>1. /\ "own" \in Kinds
      /\ table \in Tables /\ HasLeast(table.older)
  BY DEF IInv, TypeOK, WellOrdered, Kinds
<1>2. /\ m \in Tables /\ HasLeast(m.older)
      /\ i \in m.keys /\ m.keys \subseteq table.keys \cup {i}
  BY <1>1, InsertedProperties
<1>3. /\ GetFirstMatching(i, "own", t, m, R)
      /\ ctx[i] \in {NoText, t} /\ ctx' = [ctx EXCEPT ![i] = t]
      /\ partial' = partial /\ final' = final /\ timedOut' = timedOut
      /\ phase[i] = "none" /\ phase' = [phase EXCEPT ![i] = "pending"]
  BY DEF Queue
<1>4. phase' = [r \in Ids |-> IF r \in {i} THEN "pending" ELSE phase[r]]
  BY <1>3 DEF IInv, TypeOK
<1> HIDE DEF m
<1>5. R \in SUBSET m.keys /\ R # {} /\ \A r \in R \ {i} : IsCandidate(t, r)
  BY <1>2
<1> HIDE DEF R
<1> QED BY <1>1, <1>2, <1>3, <1>4, <1>5, LookIInv

LEMMA UpdateIInv ==
  ASSUME IInv, NEW r \in Ids, NEW t \in Texts, Update(r, t)
  PROVE  IInv'
<1> DEFINE diverged == {c \in Subscribers(r) : ~Candidate(ctx[c[1]], r, "pending", t, NoText)}
           drop == \E c \in diverged : c[1] = mostRecent
<1>1. /\ phase[r] = "pending" /\ r \in table.keys
      /\ partial' = [partial EXCEPT ![r] = t]
      /\ table' = IF drop THEN Delete(table, {r}) ELSE Touched(table, r)
      /\ cancelled' = [cancelled EXCEPT ![r] = @ \/ drop]
      /\ ctx' = ctx /\ phase' = phase /\ final' = final
      /\ mostRecent' = mostRecent /\ timedOut' = timedOut
      /\ FinishRequest(r, diverged, {})
  BY DEF Update, AfterCancel, InTable
<1>2. diverged \in SUBSET Calls /\ \A c \in diverged : r \in subs[c]
  BY DEF Subscribers
<1> HIDE DEF diverged, drop
<1>3. /\ table' \in Tables /\ HasLeast(table'.older)
      /\ table'.keys = IF drop THEN table.keys \ {r} ELSE table.keys
  <2>1. table \in Tables /\ HasLeast(table.older)
    BY DEF IInv, TypeOK, WellOrdered
  <2>2. CASE drop
    BY <1>1, <2>1, <2>2, DeleteProperties
  <2>3. CASE ~drop
    <3>1. table' = Touched(table, r) /\ table.keys \cup {r} = table.keys
      BY <1>1, <2>3
    <3> QED BY <2>1, <2>3, <3>1, TouchedProperties
  <2> QED BY <2>2, <2>3
<1>4. /\ subs' \in [Calls -> SUBSET Ids]
      /\ status' \in [Calls -> {"none", "waiting", "resolved", "disposed"}]
      /\ outcome' = outcome
      /\ \A c \in Calls :
           /\ subs'[c] = IF c \in diverged THEN subs[c] \ {r} ELSE subs[c]
           /\ status'[c] = status[c] \/ (status[c] = "waiting" /\ status'[c] = "resolved")
           /\ status'[c] = "waiting" => ~(c \in diverged /\ subs[c] = {r})
  BY <1>1, <1>2 DEF FinishRequest, LastSubscription, IInv, TypeOK
<1>5. TypeOK'
  BY <1>1, <1>3, <1>4 DEF IInv, TypeOK
<1>6. cancelled' = cancelled \/ (r \notin table'.keys /\ \A q \in Ids \ {r} : cancelled'[q] = cancelled[q])
  BY <1>1, <1>3 DEF IInv, TypeOK
<1>7. RequestsKnown'
  BY <1>1, <1>3, <1>6 DEF IInv, RequestsKnown, InTable
<1>8. WellOrdered'
  BY <1>3 DEF WellOrdered
<1>9. CallsKnown'
  BY <1>1, <1>4 DEF IInv, CallsKnown, StartsWith
<1>10. NoLostWaiter'
  BY <1>1, <1>2, <1>4 DEF IInv, NoLostWaiter, TypeOK
<1>11. CancelledNotOffered'
  BY <1>1, <1>3, <1>6 DEF IInv, CancelledNotOffered, InTable
<1>12. OutcomeContinues'
  BY <1>1, <1>4 DEF IInv, OutcomeContinues, StartsWith
<1> QED BY <1>5, <1>7, <1>8, <1>9, <1>10, <1>11, <1>12 DEF IInv

(* A request that ends, well or not, leaves no call waiting for it. *)
LEMMA EndIInv ==
  ASSUME IInv, NEW r \in Ids, phase[r] = "pending",
         NEW end \in {"completed", "failed"},
         phase' = [phase EXCEPT ![r] = end],
         ctx' = ctx, partial' = partial, cancelled' = cancelled,
         mostRecent' = mostRecent, timedOut' = timedOut,
         final' \in [Ids -> Texts \cup {NoText}],
         \A q \in Ids \ {r} : final'[q] = final[q],
         end = "completed" => final'[r] \in Texts,
         table' \in Tables, HasLeast(table'.older), table'.keys \subseteq table.keys \cup {r},
         end = "failed" => r \notin table'.keys,
         NEW found \in SUBSET Subscribers(r),
         found # {} => end = "completed",
         \A c \in found : StartsWith(final'[r], ctx[c[1]]) /\ final'[r] # ctx[c[1]],
         FinishRequest(r, Subscribers(r), found)
  PROVE  IInv'
<1>1. /\ Subscribers(r) \in SUBSET Calls
      /\ \A c \in Calls : c \in Subscribers(r) <=> r \in subs[c]
  BY DEF Subscribers
<1>2. /\ subs' \in [Calls -> SUBSET Ids]
      /\ status' \in [Calls -> {"none", "waiting", "resolved", "disposed"}]
      /\ outcome' \in [Calls -> Texts \cup {NoText}]
      /\ \A c \in Calls :
           /\ subs'[c] = subs[c] \ {r}
           /\ status'[c] = status[c] \/ (status[c] = "waiting" /\ status'[c] = "resolved")
           /\ status'[c] = "waiting" => subs[c] # {r}
           /\ outcome'[c] # outcome[c] =>
                /\ c \in found /\ status'[c] = "resolved" /\ outcome'[c] = final'[r]
  <2>1. \A c \in Calls : r \notin subs[c] => subs[c] \ {r} = subs[c] /\ subs[c] # {r}
    OBVIOUS
  <2> QED BY <1>1, <2>1 DEF FinishRequest, LastSubscription, IInv, TypeOK
<1>3. phase' \in [Ids -> {"none", "pending", "completed", "failed"}]
      /\ phase'[r] = end /\ \A q \in Ids \ {r} : phase'[q] = phase[q]
  BY DEF IInv, TypeOK
<1>4. TypeOK'
  BY <1>2, <1>3 DEF IInv, TypeOK
<1>5. RequestsKnown'
  BY <1>3 DEF IInv, RequestsKnown, InTable
<1>6. WellOrdered'
  BY DEF WellOrdered
<1>7. CallsKnown'
  BY <1>2, <1>3 DEF IInv, CallsKnown, StartsWith
<1>8. NoLostWaiter'
  BY <1>2, <1>3 DEF IInv, NoLostWaiter, TypeOK
<1>9. CancelledNotOffered'
  BY <1>3 DEF IInv, CancelledNotOffered, InTable
<1>10. OutcomeContinues'
  <2> SUFFICES ASSUME NEW c \in Calls, outcome'[c] # NoText
               PROVE  /\ StartsWith(outcome'[c], ctx'[c[1]]) /\ outcome'[c] # ctx'[c[1]]
                      /\ \E q \in Ids : /\ phase'[q] = "completed" /\ final'[q] = outcome'[c]
                                        /\ StartsWith(ctx'[c[1]], ctx'[q])
    BY DEF OutcomeContinues, StartsWith
  <2>1. CASE outcome'[c] # outcome[c]
    BY <1>1, <1>2, <1>3, <2>1 DEF IInv, CallsKnown
  <2>2. CASE outcome'[c] = outcome[c]
    BY <1>3, <2>2 DEF IInv, OutcomeContinues
  <2> QED BY <2>1, <2>2
<1> QED BY <1>4, <1>5, <1>6, <1>7, <1>8, <1>9, <1>10 DEF IInv

LEMMA CompleteIInv ==
  ASSUME IInv, NEW r \in Ids, NEW t \in Texts, Complete(r, t)
  PROVE  IInv'
<1> DEFINE d == Delete(table, {r})
           found == {c \in Subscribers(r) : Candidate(ctx[c[1]], r, "completed", NoText, t)}
<1>1. /\ phase[r] = "pending" /\ phase' = [phase EXCEPT ![r] = "completed"]
      /\ final' = [final EXCEPT ![r] = t] /\ table' = Inserted(d, r)
      /\ ctx' = ctx /\ partial' = partial /\ cancelled' = cancelled
      /\ mostRecent' = mostRecent /\ timedOut' = timedOut
      /\ FinishRequest(r, Subscribers(r), found)
  BY DEF Complete
<1>2. d \in Tables /\ HasLeast(d.older) /\ d.keys = table.keys \ {r}
  BY DeleteProperties DEF IInv, TypeOK, WellOrdered
<1> HIDE DEF d
<1>3. table' \in Tables /\ HasLeast(table'.older) /\ table'.keys \subseteq table.keys \cup {r}
  BY <1>1, <1>2, InsertedProperties
<1>4. /\ final' \in [Ids -> Texts \cup {NoText}] /\ final'[r] = t
      /\ \A q \in Ids \ {r} : final'[q] = final[q]
  BY <1>1 DEF IInv, TypeOK
<1>5. /\ found \in SUBSET Subscribers(r)
      /\ \A c \in found : StartsWith(final'[r], ctx[c[1]]) /\ final'[r] # ctx[c[1]]
  BY <1>4 DEF Candidate
<1> HIDE DEF found
<1> QED BY <1>1, <1>3, <1>4, <1>5, EndIInv, ZenonT(60)

LEMMA FailIInv ==
  ASSUME IInv, NEW r \in Ids, Fail(r)
  PROVE  IInv'
<1> DEFINE end == "failed"
           found == {}
<1>1. /\ phase[r] = "pending" /\ phase' = [phase EXCEPT ![r] = end]
      /\ table' = Delete(table, {r}) /\ final' = final
      /\ ctx' = ctx /\ partial' = partial /\ cancelled' = cancelled
      /\ mostRecent' = mostRecent /\ timedOut' = timedOut
      /\ FinishRequest(r, Subscribers(r), found)
  BY DEF Fail
<1>2. /\ table' \in Tables /\ HasLeast(table'.older) /\ table'.keys = table.keys \ {r}
  BY <1>1, DeleteProperties DEF IInv, TypeOK, WellOrdered
<1>3. final' \in [Ids -> Texts \cup {NoText}] /\ \A q \in Ids \ {r} : final'[q] = final[q]
  BY <1>1 DEF IInv, TypeOK
<1>4. /\ found \in SUBSET Subscribers(r) /\ end \in {"completed", "failed"}
      /\ end # "completed"
      /\ found = {}
  OBVIOUS
<1> HIDE DEF found, end
<1> QED BY <1>1, <1>2, <1>3, <1>4, EndIInv

(* The remaining steps change no request: they retire calls, let a timer    *)
(* win or empty the table.                                                 *)
LEMMA OtherIInv ==
  ASSUME IInv,
         ctx' = ctx, phase' = phase, partial' = partial, final' = final,
         cancelled' = cancelled, mostRecent' = mostRecent, outcome' = outcome,
         timedOut' \in [Ids -> BOOLEAN],
         table' \in Tables, HasLeast(table'.older), table'.keys \subseteq table.keys,
         status' \in [Calls -> {"none", "waiting", "resolved", "disposed"}],
         subs' \in [Calls -> SUBSET Ids],
         \A c \in Calls :
           \/ status'[c] = status[c] /\ subs'[c] = subs[c]
           \/ status[c] = "resolved" /\ status'[c] = "disposed" /\ subs'[c] = {}
  PROVE  IInv'
<1>1. TypeOK' /\ WellOrdered'
  BY DEF IInv, TypeOK, WellOrdered
<1>2. RequestsKnown' /\ CancelledNotOffered'
  BY DEF IInv, RequestsKnown, CancelledNotOffered, InTable
<1>3. CallsKnown'
  BY DEF IInv, CallsKnown, StartsWith
<1>4. NoLostWaiter'
  BY DEF IInv, NoLostWaiter
<1>5. OutcomeContinues'
  BY DEF IInv, OutcomeContinues, StartsWith
<1> QED BY <1>1, <1>2, <1>3, <1>4, <1>5 DEF IInv

LEMMA DisposeIInv ==
  ASSUME IInv, NEW c \in Calls, Dispose(c)
  PROVE  IInv'
<1>1. /\ status' \in [Calls -> {"none", "waiting", "resolved", "disposed"}]
      /\ subs' \in [Calls -> SUBSET Ids]
      /\ \A d \in Calls :
           \/ status'[d] = status[d] /\ subs'[d] = subs[d]
           \/ status[d] = "resolved" /\ status'[d] = "disposed" /\ subs'[d] = {}
  BY DEF Dispose, IInv, TypeOK
<1>2. /\ table' \in Tables /\ HasLeast(table'.older) /\ table'.keys \subseteq table.keys
      /\ timedOut' \in [Ids -> BOOLEAN]
  BY DEF Dispose, IInv, TypeOK, WellOrdered
<1> QED BY <1>1, <1>2, OtherIInv DEF Dispose, requestVars

LEMMA TimeoutClearIInv ==
  ASSUME IInv, Clear \/ UNCHANGED vars \/ \E i \in Ids : PeekTimeout(i)
  PROVE  IInv'
<1>1. /\ ctx' = ctx /\ phase' = phase /\ partial' = partial /\ final' = final
      /\ cancelled' = cancelled /\ mostRecent' = mostRecent /\ outcome' = outcome
      /\ status' = status /\ subs' = subs
      /\ table' = table \/ table' = EmptyTable
      /\ timedOut' \in [Ids -> BOOLEAN]
  BY DEF Clear, PeekTimeout, vars, requestVars, callVars, IInv, TypeOK
<1>2. table' \in Tables /\ HasLeast(table'.older) /\ table'.keys \subseteq table.keys
  BY <1>1 DEF EmptyTable, Tables, HasLeast, IInv, TypeOK, WellOrdered
<1>3. /\ status' \in [Calls -> {"none", "waiting", "resolved", "disposed"}]
      /\ subs' \in [Calls -> SUBSET Ids]
  BY <1>1 DEF IInv, TypeOK
<1> QED BY <1>1, <1>2, <1>3, OtherIInv

(* The steps of the table, with questions for any text: a speculative call *)
(* of getGhostText is made for a document that was never typed.            *)
TableMoves ==
  \/ \E i \in Ids, t \in Texts : Peek(i, t) \/ Queue(i, t) \/ Update(i, t) \/ Complete(i, t)
  \/ \E i \in Ids : Fail(i) \/ PeekTimeout(i)
  \/ \E c \in Calls : Dispose(c)
  \/ Clear
  \/ UNCHANGED vars

\* The table keeps its invariant under all of them.
LEMMA TableMovesIInv ==
  ASSUME IInv, TableMoves
  PROVE  IInv'
BY PeekIInv, QueueIInv, UpdateIInv, CompleteIInv, FailIInv, DisposeIInv, TimeoutClearIInv
   DEF TableMoves

LEMMA NextMoves == ASSUME [Next]_vars PROVE TableMoves
BY TextsAssumption DEF Next, Network, TableMoves

(* The inductive invariant holds in every reachable state. *)
THEOREM Invariance == Spec => []IInv
<1>1. IInv /\ [Next]_vars => IInv'
  BY NextMoves, TableMovesIInv
<1> QED BY InitIInv, <1>1, PTL DEF Spec

(* Types are correct, for every set of ids and texts. *)
THEOREM TypeCorrect == Spec => []TypeOK
<1>1. IInv => TypeOK
  BY DEF IInv
<1> QED BY Invariance, <1>1, PTL

(* No call waits for nothing: whatever is evicted from the table, cancelled *)
(* or cleared, every unanswered call has a request in flight to answer it.  *)
THEOREM NoCallIsLost == Spec => []NoLostWaiter
<1>1. IInv => NoLostWaiter
  BY DEF IInv
<1> QED BY Invariance, <1>1, PTL

(* No caller ever starts to wait for a request that was cancelled. *)
THEOREM CancelledIsNotOffered == Spec => []CancelledNotOffered
<1>1. IInv => CancelledNotOffered
  BY DEF IInv
<1> QED BY Invariance, <1>1, PTL

(* Every answer strictly continues what its caller had typed. *)
THEOREM AnswersContinueTyping == Spec => []OutcomeContinues
<1>1. IInv => OutcomeContinues
  BY DEF IInv
<1> QED BY Invariance, <1>1, PTL

(* A request is cancelled only on behalf of the most recent user id, and   *)
(* only when it does not match the text of that id.                        *)
THEOREM OnlyMismatchesAreCancelled == Spec => CancelOnlyMismatch
<1>1. ASSUME IInv, NEW i \in Ids, NEW kind \in Kinds, NEW t \in Texts,
             NEW m \in Tables, HasLeast(m.older), NEW R \in SUBSET Ids,
             \A r \in m.keys \ R : ~IsCandidate(t, r),
             \A r \in R : phase[r] = "completed" => final[r] \in Texts,
             GetFirstMatching(i, kind, t, m, R),
             ctx[i] \in {NoText, t}, ctx' = [ctx EXCEPT ![i] = t],
             partial' = partial, final' = final,
             \A r \in Ids : phase[r] # "none" => phase'[r] = phase[r]
      PROVE  CancelsOnlyMismatch
  <2> SUFFICES ASSUME NEW r \in Ids, cancelled'[r], ~cancelled[r]
               PROVE  /\ phase[r] = "pending"
                      /\ mostRecent' \in Ids \ Speculative
                      /\ ~IsCandidate(ctx[mostRecent], r)'
    BY DEF CancelsOnlyMismatch
  <2>1. /\ r \in m.keys \ R /\ phase[r] = "pending" /\ mostRecent' = i
        /\ mostRecent' \notin Speculative
    BY <1>1, GetFirstMatchingEffect, ZenonT(60)
  <2>2. ctx'[i] = t /\ ctx'[r] = ctx[r]
    BY <1>1, <2>1, TextsAssumption DEF IInv, RequestsKnown, TypeOK
  <2>3. ~IsCandidate(t, r) /\ phase'[r] = phase[r]
    BY <1>1, <2>1
  <2> QED BY <1>1, <2>1, <2>2, <2>3 DEF IsCandidate, Candidate, StartsWith
<1>2. ASSUME IInv, NEW i \in Ids, NEW t \in Typed, Peek(i, t)
      PROVE  CancelsOnlyMismatch
  <2> DEFINE R == {r \in table.keys : IsCandidate(t, r)}
  <2>1. /\ t \in Texts /\ "peek" \in Kinds
        /\ table \in Tables /\ HasLeast(table.older) /\ R \in SUBSET Ids
        /\ \A r \in R : phase[r] = "completed" => final[r] \in Texts
    BY <1>2, TextsAssumption DEF IInv, TypeOK, Tables, WellOrdered, Kinds, RequestsKnown
  <2>2. /\ GetFirstMatching(i, "peek", t, table, R)
        /\ ctx[i] = NoText /\ ctx' = [ctx EXCEPT ![i] = t]
        /\ partial' = partial /\ final' = final /\ phase' = phase
        /\ \A r \in table.keys \ R : ~IsCandidate(t, r)
    BY <1>2 DEF Peek, requestVars
  <2> HIDE DEF R
  <2> QED BY <1>1, <1>2, <2>1, <2>2
<1>3. ASSUME IInv, NEW i \in Ids, NEW t \in Typed, Queue(i, t)
      PROVE  CancelsOnlyMismatch
  <2> DEFINE m == Inserted(table, i)
             R == {i} \cup {r \in m.keys \ {i} : IsCandidate(t, r)}
  <2>1. /\ t \in Texts /\ "own" \in Kinds
        /\ m \in Tables /\ HasLeast(m.older)
    BY <1>3, TextsAssumption, InsertedProperties DEF IInv, TypeOK, WellOrdered, Kinds
  <2>2. /\ GetFirstMatching(i, "own", t, m, R)
        /\ ctx[i] \in {NoText, t} /\ ctx' = [ctx EXCEPT ![i] = t]
        /\ partial' = partial /\ final' = final
        /\ phase[i] = "none" /\ phase' = [phase EXCEPT ![i] = "pending"]
    BY <1>3 DEF Queue
  <2> HIDE DEF m
  <2>3. /\ \A r \in m.keys \ R : ~IsCandidate(t, r)
        /\ R \in SUBSET Ids
        /\ \A r \in R : phase[r] = "completed" => final[r] \in Texts
    BY <1>3, <2>1 DEF Tables, IInv, RequestsKnown
  <2>4. \A r \in Ids : phase[r] # "none" => phase'[r] = phase[r]
    BY <1>3, <2>2 DEF IInv, TypeOK
  <2> HIDE DEF R
  <2> QED BY <1>1, <1>3, <2>1, <2>2, <2>3, <2>4
<1>4. ASSUME IInv, NEW r \in Ids, NEW t \in Texts, Update(r, t)
      PROVE  CancelsOnlyMismatch
  <2> SUFFICES ASSUME NEW q \in Ids, cancelled'[q], ~cancelled[q]
               PROVE  /\ phase[q] = "pending"
                      /\ mostRecent' \in Ids \ Speculative
                      /\ ~IsCandidate(ctx[mostRecent], q)'
    BY DEF CancelsOnlyMismatch
  <2>1. /\ q = r /\ phase[r] = "pending"
        /\ \E c \in Subscribers(r) : /\ c[1] = mostRecent
                                     /\ ~Candidate(ctx[c[1]], r, "pending", t, NoText)
    BY <1>4 DEF Update, IInv, TypeOK
  <2>2. /\ mostRecent \in Ids \ Speculative
        /\ ~Candidate(ctx[mostRecent], r, "pending", t, NoText)
    BY <1>4, <2>1 DEF Subscribers, Calls, IInv, CallsKnown
  <2>3. /\ mostRecent' = mostRecent /\ ctx' = ctx /\ phase' = phase /\ final' = final
        /\ partial'[r] = t
    BY <1>4 DEF Update, IInv, TypeOK
  <2> QED BY <2>1, <2>2, <2>3 DEF IsCandidate, Candidate, StartsWith
<1>5. ASSUME IInv, [Next]_vars
      PROVE  [CancelsOnlyMismatch]_vars
  <2>1. CASE \E i \in Ids, t \in Typed : Peek(i, t) \/ Queue(i, t)
    BY <1>2, <1>3, <1>5, <2>1
  <2>2. CASE \E r \in Ids, t \in Texts : Update(r, t)
    BY <1>4, <1>5, <2>2
  <2>3. CASE cancelled' = cancelled
    BY <2>3 DEF CancelsOnlyMismatch
  <2> QED BY <1>5, <2>1, <2>2, <2>3
      DEF Next, Network, Complete, Fail, PeekTimeout, Dispose, Clear, vars
<1> QED BY Invariance, <1>5, PTL DEF Spec, CancelOnlyMismatch

------------------------------------------------------------------------------
(***************************************************************************)
(* The limit of the table and its order of use.                            *)
(***************************************************************************)
\* TableSound of any table, whose keys are finitely many
Sound(m) ==
  /\ IsFiniteSet(m.keys) /\ Cardinality(m.keys) <= Capacity
  /\ m.older \subseteq m.keys \X m.keys
  /\ \A p, q \in m.keys : p # q => (<<p, q>> \in m.older <=> <<q, p>> \notin m.older)

LEMMA DeleteSound ==
  ASSUME NEW m, Sound(m), NEW D
  PROVE  Sound(Delete(m, D))
<1> DEFINE d == Delete(m, D)
<1>1. /\ d.keys = m.keys \ D
      /\ d.older = {p \in m.older : p[1] \notin D /\ p[2] \notin D}
  BY DEF Delete
<1>2. IsFiniteSet(d.keys) /\ Cardinality(d.keys) <= Cardinality(m.keys)
  BY <1>1, FS_Subset DEF Sound
<1>3. Cardinality(d.keys) \in Nat /\ Cardinality(m.keys) \in Nat /\ Capacity \in Nat
  BY <1>2, FS_CardinalityType, CapacityAssumption DEF Sound
<1>4. Cardinality(d.keys) <= Capacity
  BY <1>2, <1>3 DEF Sound
<1>5. /\ d.older \subseteq d.keys \X d.keys
      /\ \A p, q \in d.keys : p # q => (<<p, q>> \in d.older <=> <<q, p>> \notin d.older)
  BY <1>1 DEF Sound
<1> QED BY <1>2, <1>4, <1>5 DEF Sound

\* A key may be touched that the table has, or has room for.
LEMMA TouchedSound ==
  ASSUME NEW m, Sound(m), NEW r, r \in m.keys \/ Cardinality(m.keys) < Capacity
  PROVE  Sound(Touched(m, r))
<1> DEFINE d == Touched(m, r)
           rest == {p \in m.older : p[1] \notin {r} /\ p[2] \notin {r}}
<1>1. d.keys = m.keys \cup {r} /\ d.older = rest \cup ((m.keys \ {r}) \X {r})
  BY DEF Touched, Delete
<1>2. IsFiniteSet(d.keys) /\ Cardinality(m.keys) \in Nat /\ Capacity \in Nat
  BY <1>1, FS_AddElement, FS_CardinalityType, CapacityAssumption DEF Sound
<1>3. Cardinality(d.keys) <= Capacity
  <2>1. CASE r \in m.keys
    <3>1. d.keys = m.keys
      BY <1>1, <2>1
    <3> QED BY <3>1 DEF Sound
  <2>2. CASE r \notin m.keys
    <3>1. Cardinality(d.keys) = Cardinality(m.keys) + 1
      BY <1>1, <2>2, FS_AddElement DEF Sound
    <3> QED BY <1>2, <2>2, <3>1
  <2> QED BY <2>1, <2>2
<1>4. d.older \subseteq d.keys \X d.keys
  BY <1>1 DEF Sound
<1>5. ASSUME NEW p \in d.keys, NEW q \in d.keys, p # q
      PROVE  <<p, q>> \in d.older <=> <<q, p>> \notin d.older
  BY <1>1, <1>5 DEF Sound
<1> QED BY <1>2, <1>3, <1>4, <1>5 DEF Sound

\* A full table has an oldest key, which makes room.
LEMMA InsertedSound ==
  ASSUME NEW m \in Tables, Sound(m), HasLeast(m.older), NEW r
  PROVE  Sound(Inserted(m, r))
<1>1. CASE r \in m.keys \/ Cardinality(m.keys) < Capacity
  BY <1>1, TouchedSound DEF Inserted
<1>2. CASE ~(r \in m.keys \/ Cardinality(m.keys) < Capacity)
  <2> DEFINE o == Oldest(m)
             d == Delete(m, {o})
  <2>1. Cardinality(m.keys) \in Nat \ {0} /\ m.keys # {} /\ m.keys \in SUBSET Ids
    <3>1. Cardinality(m.keys) \in Nat /\ Cardinality(m.keys) # 0
      BY <1>2, FS_CardinalityType, CapacityAssumption DEF Sound
    <3> QED BY <3>1, FS_EmptySet DEF Tables
  <2>2. o \in m.keys
    BY <2>1 DEF HasLeast, Oldest
  <2>3. d.keys = m.keys \ {o} /\ Cardinality(m.keys \ {o}) = Cardinality(m.keys) - 1
    BY <2>2, FS_RemoveElement DEF Delete, Sound
  <2>4. Sound(d) /\ Cardinality(d.keys) < Capacity
    <3>1. Cardinality(m.keys) <= Capacity /\ Sound(d)
      BY DeleteSound DEF Sound
    <3> HIDE DEF d
    <3> QED BY <2>1, <2>3, <3>1, CapacityAssumption
  <2> HIDE DEF d
  <2>5. Sound(Touched(d, r))
    BY <2>4, TouchedSound
  <2> QED BY <1>2, <2>5 DEF Inserted, d
<1> QED BY <1>1, <1>2

LEMMA TableStepSound ==
  ASSUME IInv, Sound(table), [Next]_vars
  PROVE  Sound(table')
<1>1. table \in Tables /\ HasLeast(table.older)
  BY DEF IInv, TypeOK, WellOrdered
<1>2. ASSUME NEW i \in Ids, NEW t \in Typed, Peek(i, t) \/ Queue(i, t)
      PROVE  Sound(table')
  <2>1. \E D : table' = Delete(table, D) \/ table' = Delete(Inserted(table, i), D)
    BY <1>2 DEF Peek, Queue, GetFirstMatching, AfterCancel
  <2> QED BY <1>1, <2>1, DeleteSound, InsertedSound
<1>3. ASSUME NEW r \in Ids, NEW t \in Texts, Update(r, t)
      PROVE  Sound(table')
  <2>1. r \in table.keys /\ (table' = Delete(table, {r}) \/ table' = Touched(table, r))
    BY <1>3 DEF Update, AfterCancel, InTable
  <2> QED BY <2>1, DeleteSound, TouchedSound
<1>4. ASSUME NEW r \in Ids, Network(r)
      PROVE  Sound(table')
  <2> DEFINE d == Delete(table, {r})
  <2>1. table' = d \/ table' = Inserted(d, r)
    BY <1>4 DEF Network, Fail, Complete
  <2>2. d \in Tables /\ HasLeast(d.older) /\ Sound(d)
    BY <1>1, DeleteProperties, DeleteSound
  <2> HIDE DEF d
  <2> QED BY <2>1, <2>2, InsertedSound
<1>5. CASE Clear
  <2>1. table'.keys = {} /\ table'.older = {}
    BY <1>5 DEF Clear, EmptyTable
  <2> QED BY <2>1, FS_EmptySet, CapacityAssumption DEF Sound
<1>6. CASE UNCHANGED table
  BY <1>6
<1> QED BY <1>2, <1>3, <1>4, <1>5, <1>6 DEF Next, PeekTimeout, Dispose, vars

(* The table never exceeds its limit, and its keys are totally ordered by  *)
(* their last use.                                                         *)
THEOREM TableIsBounded == Spec => []TableSound
<1>1. Init => Sound(table)
  <2>1. Init => table.keys = {} /\ table.older = {}
    BY DEF Init, EmptyTable
  <2> QED BY <2>1, FS_EmptySet, CapacityAssumption DEF Sound
<1>2. IInv /\ Sound(table) /\ [Next]_vars => Sound(table)'
  BY TableStepSound DEF Sound
<1>3. Sound(table) => TableSound
  BY DEF Sound, TableSound
<1> QED BY Invariance, <1>1, <1>2, <1>3, PTL DEF Spec
==============================================================================

----------------------- MODULE NextEditRequests_proofs ------------------------
(***************************************************************************)
(* Theorems about the requests for next edits, for any calls, speculative  *)
(* requests and contents.  NEInv is the inductive invariant.               *)
(***************************************************************************)
EXTENDS NextEditRequests, FiniteSetTheorems, TLAPS

(* Counting the live hooks after some are disposed and others made. *)
LEMMA Counting ==
  ASSUME NEW S, IsFiniteSet(S), NEW L \in SUBSET S, NEW A \in SUBSET S,
         NEW D \in SUBSET L, A \cap L = {}
  PROVE  /\ Cardinality((L \ D) \cup A) = Cardinality(L) + Cardinality(A) - Cardinality(D)
         /\ Cardinality((L \ D) \cup A) \in Nat
<1>1. IsFiniteSet(L) /\ IsFiniteSet(A) /\ IsFiniteSet(D) /\ IsFiniteSet(L \ D)
  BY FS_Subset, L \ D \in SUBSET S
<1>2. Cardinality(L \ D) = Cardinality(L) - Cardinality(D)
  BY <1>1, FS_Difference, L \cap D = D
<1>3. Cardinality((L \ D) \cup A) = Cardinality(L \ D) + Cardinality(A) - Cardinality({})
  BY <1>1, FS_Union, (L \ D) \cap A = {}
<1>4. /\ Cardinality(L) \in Nat /\ Cardinality(A) \in Nat /\ Cardinality(D) \in Nat
      /\ Cardinality(L \ D) \in Nat /\ Cardinality({}) = 0
  BY <1>1, FS_CardinalityType, FS_EmptySet
<1> QED BY <1>2, <1>3, <1>4

LEMMA HooksFinite == IsFiniteSet(Calls \X Reqs)
  BY NECallsAssumption, FS_Union, FS_Product DEF Reqs

HookStates == {"none", "live", "removed", "timer"}

(* Making and disposing hooks keeps the count of live dependants.          *)
LEMMA HookingCounts ==
  ASSUME NETypeOK, LiveDependants,
         NEW A \in SUBSET (Calls \X Reqs), NEW D \in SUBSET (Calls \X Reqs),
         A \cap D = {}, \A p \in A : hook[p] # "live",
         Hooking(A, D)
  PROVE  LiveDependants' /\ deps' \in [Reqs -> Nat] /\ hook' \in [Calls \X Reqs -> HookStates]
<1>1. hook' \in [Calls \X Reqs -> HookStates]
  BY DEF Hooking, NETypeOK, HookStates
<1>2. ASSUME NEW r \in Reqs
      PROVE  deps'[r] = Cardinality(LiveHooks(r)') /\ deps'[r] \in Nat
  <2> DEFINE L == LiveHooks(r)
             AA == {p \in A : p[2] = r}
             DD == {p \in D : p[2] = r /\ hook[p] = "live"}
  <2>1. LiveHooks(r)' = (L \ DD) \cup AA
    BY DEF Hooking, LiveHooks
  <2>2. /\ L \in SUBSET (Calls \X Reqs) /\ AA \in SUBSET (Calls \X Reqs)
        /\ DD \in SUBSET L /\ AA \cap L = {}
    BY DEF LiveHooks
  <2>3. deps'[r] = Cardinality(L) + Cardinality(AA) - Cardinality(DD)
    BY DEF Hooking, Added, Removed, LiveDependants
  <2> HIDE DEF L, AA, DD
  <2> QED BY <2>1, <2>2, <2>3, Counting, HooksFinite
<1>3. deps' \in [Reqs -> Nat]
  BY <1>2 DEF Hooking
<1> QED BY <1>1, <1>2, <1>3 DEF LiveDependants

(* A finished call is done or held back, with the edit or nothing. *)
LEMMA FinishEffect ==
  ASSUME NEW c \in Calls, NEW t, NEW e, Finish(c, t, e)
  PROVE  \E w \in {"done", "delay"}, x \in {e, NoAnswer} :
           /\ pc' = [pc EXCEPT ![c] = w] /\ answer' = [answer EXCEPT ![c] = x]
           /\ x # NoAnswer => x = e /\ doc = t
  BY DEF Finish, Return, Goto, DocDidChange

LEMMA EditType ==
  ASSUME NETypeOK, NEW t, NEW h \in Reqs, NEW f \in Docs \cup {Mixed}, NEW o \in Reqs
  PROVE  Edit(t, h, f, o) \in Answers \cup {NoAnswer}
  BY DEF Edit, Answers, NETypeOK

LEMMA ActiveDocumentType ==
  ASSUME NEInv, NEW r \in Reqs, stream[r] # "none"
  PROVE  ActiveDocument(r) \in Docs \cup {Mixed}
  BY DEF ActiveDocument, NEInv, CallsPlaced, RequestsMade, NETypeOK, Reqs

(* Hooks that are left alone keep their count. *)
LEMMA SameHooks ==
  ASSUME NEInv, UNCHANGED hookVars
  PROVE  LiveDependants' /\ deps' \in [Reqs -> Nat] /\ hook' \in [Calls \X Reqs -> HookStates]
  BY DEF hookVars, LiveDependants, LiveHooks, NEInv, NETypeOK, HookStates

------------------------------------------------------------------------------
(***************************************************************************)
(* Every step keeps NEInv.                                                 *)
(***************************************************************************)
(* The initial state. *)
LEMMA InitNEInv == Init => NEInv
<1> SUFFICES ASSUME Init PROVE NEInv
  OBVIOUS
<1>1. NETypeOK
  BY NECallsAssumption DEF Init, NETypeOK, Reqs, Answers
<1>2. LiveDependants
  <2>1. \A r \in Reqs : LiveHooks(r) = {}
    BY DEF Init, LiveHooks
  <2> QED BY <2>1, FS_EmptySet DEF Init, LiveDependants
<1>3. RequestsMade /\ SlotsFilled /\ ScheduledKnown /\ CallsPlaced /\ HooksPlaced
  BY NEDocsAssumption DEF Init, RequestsMade, SlotsFilled, ScheduledKnown, CallsPlaced,
     HooksPlaced, Reqs, NoAnswer, Waiting
<1> QED BY <1>1, <1>2, <1>3 DEF NEInv

(* An answer from the cache. *)
LEMMA FromCacheStep ==
  ASSUME NEInv, NEW c \in Calls, pc[c] = "idle", at' = [at EXCEPT ![c] = doc], FromCache(c),
         UNCHANGED <<docVars, mixed, first, issued, doomed, tokenDone>>
  PROVE  NEInv'
<1>1. \E w \in {"done", "delay"}, x \in Answers \cup {NoAnswer} :
         pc' = [pc EXCEPT ![c] = w] /\ answer' = [answer EXCEPT ![c] = x]
  <2>1. CASE (\E r \in Reqs : first[r] = NoEdit) /\ Return(c, NoAnswer)
    BY <2>1 DEF Return, Goto
  <2>2. CASE \E t \in Docs \ {doc}, r \in {q \in Reqs : first[q] \in Docs} :
               Finish(c, doc, Edit(t, r, IF r \in mixed THEN Mixed ELSE doc, r))
    <3>1. PICK t \in Docs \ {doc}, r \in {q \in Reqs : first[q] \in Docs} :
               Finish(c, doc, Edit(t, r, IF r \in mixed THEN Mixed ELSE doc, r))
      BY <2>2
    <3>2. (IF r \in mixed THEN Mixed ELSE doc) \in Docs \cup {Mixed}
      BY DEF NEInv, NETypeOK
    <3> QED BY <3>1, <3>2, FinishEffect, EditType DEF NEInv
  <2> QED BY <2>1, <2>2 DEF FromCache
<1>2. LiveDependants' /\ deps' \in [Reqs -> Nat] /\ hook' \in [Calls \X Reqs -> HookStates]
  BY SameHooks DEF FromCache, hookVars
<1>3. NETypeOK'
  <2>1. pc' \in [Calls -> {"idle", "own", "join", "rebase", "eager", "delay", "done"}]
    BY <1>1 DEF NEInv, NETypeOK
  <2>2. answer' \in [Calls -> Answers \cup {NoAnswer}]
    BY <1>1 DEF NEInv, NETypeOK
  <2> QED BY <2>1, <2>2, <1>2 DEF NEInv, NETypeOK, FromCache, docVars, slotVars, HookStates
<1>4. RequestsMade' /\ SlotsFilled'
  BY DEF NEInv, RequestsMade, SlotsFilled, FromCache, slotVars, Running
<1>5. CallsPlaced'
  BY <1>1 DEF NEInv, NETypeOK, CallsPlaced, FromCache, Waiting, hookVars
<1>6. HooksPlaced'
  BY <1>1 DEF NEInv, NETypeOK, HooksPlaced, CallsPlaced, FromCache, Waiting, hookVars
<1>s. ScheduledKnown'
  BY <1>1 DEF NEInv, NETypeOK, ScheduledKnown, HasSuggestion, FromCache, slotVars
<1> QED BY <1>2, <1>3, <1>4, <1>5, <1>6, <1>s DEF NEInv

(* The speculative request is joined. *)
LEMMA JoinSpeculativeStep ==
  ASSUME NEInv, NEW c \in Calls, pc[c] = "idle", at' = [at EXCEPT ![c] = doc], JoinSpeculative(c),
         spec # NoId, UNCHANGED <<docVars, mixed, first, issued, doomed, tokenDone>>
  PROVE  NEInv'
<1>1. spec \in Reqs /\ spec # c /\ stream[spec] # "none"
  BY NECallsAssumption DEF NEInv, NETypeOK, SlotsFilled, Reqs
<1>2. LiveDependants' /\ deps' \in [Reqs -> Nat] /\ hook' \in [Calls \X Reqs -> HookStates]
  <2> DEFINE A == {<<c, spec>>}
             D == {}
  <2>1. A \in SUBSET (Calls \X Reqs) /\ D \in SUBSET (Calls \X Reqs) /\ A \cap D = {}
    BY <1>1
  <2>2. \A p \in A : hook[p] # "live"
    BY <1>1 DEF NEInv, HooksPlaced, Waiting
  <2>3. Hooking(A, D)
    BY DEF JoinSpeculative
  <2> HIDE DEF A, D
  <2> QED BY <2>1, <2>2, <2>3, HookingCounts DEF NEInv
<1>3. NETypeOK'
  BY <1>1, <1>2 DEF NEInv, NETypeOK, JoinSpeculative, Goto, docVars, HookStates
<1>4. RequestsMade' /\ SlotsFilled'
  BY DEF NEInv, RequestsMade, SlotsFilled, JoinSpeculative, Running
<1>5. CallsPlaced'
  BY <1>1 DEF NEInv, NETypeOK, CallsPlaced, JoinSpeculative, Goto, Waiting
<1>6. HooksPlaced'
  BY <1>1 DEF NEInv, NETypeOK, HooksPlaced, CallsPlaced, JoinSpeculative, Goto, Hooking, Waiting
<1>s. ScheduledKnown'
  BY DEF NEInv, NETypeOK, ScheduledKnown, HasSuggestion, JoinSpeculative, Goto
<1> QED BY <1>2, <1>3, <1>4, <1>5, <1>6, <1>s DEF NEInv

(* What _executeNewNextEditRequest does to the requests and slots. *)
LEMMA ExecuteNewEffect ==
  ASSUME NEInv, NEW c \in Calls, NEW p \in Calls \cup {NoId}, stream[c] = "none",
         ExecuteNew(c, p), UNCHANGED <<mixed, first, issued>>
  PROVE  /\ RequestsMade' /\ SlotsFilled'
         /\ pending' = c /\ spec' \in Specs \cup {NoId} /\ scheduled' \in {scheduled, NoId}
         /\ cancelled' \in [Reqs -> BOOLEAN]
         /\ base' = [base EXCEPT ![c] = doc] /\ base' \in [Reqs -> Docs \cup {NoDoc}]
         /\ stream' = [stream EXCEPT ![c] = "fetching"]
         /\ stream' \in [Reqs -> {"none", "fetching", "editing", "ended"}]
<1>1. /\ pending' = c /\ spec' \in {spec, NoId} /\ scheduled' \in {scheduled, NoId}
      /\ base' = [base EXCEPT ![c] = doc] /\ stream' = [stream EXCEPT ![c] = "fetching"]
  BY DEF ExecuteNew, ScheduleAfter
<1>2. cancelled' \in [Reqs -> BOOLEAN]
  BY DEF ExecuteNew, Cancelling, NEInv, NETypeOK
<1>3. c \in Reqs /\ base \in [Reqs -> Docs \cup {NoDoc}] /\ doc \in Docs
      /\ stream \in [Reqs -> {"none", "fetching", "editing", "ended"}]
  BY DEF Reqs, NEInv, NETypeOK
<1>4. RequestsMade'
  BY <1>1, <1>3 DEF NEInv, RequestsMade
<1>5. SlotsFilled'
  BY <1>1, <1>3 DEF NEInv, NETypeOK, SlotsFilled, Running, Reqs
<1> QED BY <1>1, <1>2, <1>3, <1>4, <1>5 DEF NEInv, NETypeOK

(* The call makes a request of its own. *)
LEMMA MakeRequestStep ==
  ASSUME NEInv, NEW c \in Calls, pc[c] = "idle", at' = [at EXCEPT ![c] = doc], MakeRequest(c),
         UNCHANGED <<docVars, mixed, first, issued, doomed, tokenDone>>
  PROVE  NEInv'
<1> c \in Reqs
  BY DEF Reqs
<1>a. stream[c] = "none"
  BY DEF NEInv, CallsPlaced
<1>1. /\ RequestsMade' /\ SlotsFilled'
      /\ pending' = c /\ spec' \in Specs \cup {NoId} /\ scheduled' \in {scheduled, NoId}
      /\ cancelled' \in [Reqs -> BOOLEAN] /\ base' \in [Reqs -> Docs \cup {NoDoc}]
      /\ stream' = [stream EXCEPT ![c] = "fetching"]
      /\ stream' \in [Reqs -> {"none", "fetching", "editing", "ended"}]
  BY <1>a, ExecuteNewEffect DEF MakeRequest, NEInv, NETypeOK
<1>2. LiveDependants' /\ deps' \in [Reqs -> Nat] /\ hook' \in [Calls \X Reqs -> HookStates]
  <2> DEFINE A == {<<c, c>>}
             D == {}
  <2>1. A \in SUBSET (Calls \X Reqs) /\ D \in SUBSET (Calls \X Reqs) /\ A \cap D = {}
    OBVIOUS
  <2>2. \A p \in A : hook[p] # "live"
    BY <1>a DEF NEInv, HooksPlaced, Waiting
  <2>3. Hooking(A, D)
    BY DEF MakeRequest
  <2> HIDE DEF A, D
  <2> QED BY <2>1, <2>2, <2>3, HookingCounts DEF NEInv
<1>3. NETypeOK'
  <2>1. pc' \in [Calls -> {"idle", "own", "join", "rebase", "eager", "delay", "done"}]
    BY DEF NEInv, NETypeOK, MakeRequest, Goto
  <2>2. at' \in [Calls -> Docs \cup {NoDoc}] /\ target' \in [Calls -> Reqs \cup {NoId}]
    BY DEF NEInv, NETypeOK, MakeRequest
  <2>3. answer' = answer
    BY DEF MakeRequest
  <2>4. {pending', shown', scheduled'} \subseteq Calls \cup {NoId}
    BY <1>1 DEF NEInv, NETypeOK, docVars
  <2> QED BY <2>1, <2>2, <2>3, <2>4, <1>1, <1>2 DEF NEInv, NETypeOK, docVars, HookStates
<1>4. CallsPlaced'
  BY <1>1 DEF NEInv, NETypeOK, CallsPlaced, MakeRequest, ExecuteNew, Goto, Waiting
<1>5. HooksPlaced'
  BY <1>1 DEF NEInv, NETypeOK, HooksPlaced, CallsPlaced, MakeRequest, Goto, Hooking, Waiting
<1>s. ScheduledKnown'
  BY <1>1 DEF NEInv, NETypeOK, ScheduledKnown, HasSuggestion, MakeRequest, Goto
<1> QED BY <1>1, <1>2, <1>3, <1>4, <1>5, <1>s DEF NEInv

(* The pending request is joined and nothing else is made. *)
LEMMA JoinOnlyStep ==
  ASSUME NEInv, NEW c \in Calls, pc[c] = "idle", at' = [at EXCEPT ![c] = doc],
         pending # NoId, target' = [target EXCEPT ![c] = pending],
         Goto(c, IF base[pending] = doc THEN "join" ELSE "rebase"),
         Hooking({<<c, pending>>}, {}),
         UNCHANGED <<slotVars, base, stream, cancelled, answer>>,
         UNCHANGED <<docVars, mixed, first, issued, doomed, tokenDone>>
  PROVE  NEInv'
<1>1. pending \in Calls /\ pending \in Reqs /\ pending # c /\ stream[pending] # "none"
  BY DEF NEInv, NETypeOK, SlotsFilled, Running, CallsPlaced, Reqs
<1>2. LiveDependants' /\ deps' \in [Reqs -> Nat] /\ hook' \in [Calls \X Reqs -> HookStates]
  <2> DEFINE A == {<<c, pending>>}
             D == {}
  <2>1. A \in SUBSET (Calls \X Reqs) /\ D \in SUBSET (Calls \X Reqs) /\ A \cap D = {}
    BY <1>1
  <2>2. \A p \in A : hook[p] # "live"
    BY <1>1 DEF NEInv, HooksPlaced, Waiting
  <2>3. Hooking(A, D)
    OBVIOUS
  <2> HIDE DEF A, D
  <2> QED BY <2>1, <2>2, <2>3, HookingCounts DEF NEInv
<1>3. NETypeOK'
  BY <1>1, <1>2 DEF NEInv, NETypeOK, Goto, docVars, slotVars, HookStates
<1>4. RequestsMade' /\ SlotsFilled'
  BY DEF NEInv, RequestsMade, SlotsFilled, Running, slotVars
<1>5. CallsPlaced'
  BY <1>1 DEF NEInv, NETypeOK, CallsPlaced, Goto, Waiting
<1>6. HooksPlaced'
  BY <1>1 DEF NEInv, NETypeOK, HooksPlaced, CallsPlaced, Goto, Hooking, Waiting
<1>s. ScheduledKnown'
  BY DEF NEInv, NETypeOK, ScheduledKnown, HasSuggestion, Goto, slotVars
<1> QED BY <1>2, <1>3, <1>4, <1>5, <1>6, <1>s DEF NEInv

(* The pending request is joined and a backup request made. *)
LEMMA JoinEagerStep ==
  ASSUME NEInv, NEW c \in Calls, pc[c] = "idle", at' = [at EXCEPT ![c] = doc],
         pending # NoId, target' = [target EXCEPT ![c] = pending],
         base[pending] # doc, Goto(c, "eager"), ExecuteNew(c, NoId),
         Hooking({<<c, c>>, <<c, pending>>}, {}), UNCHANGED answer,
         UNCHANGED <<docVars, mixed, first, issued, doomed, tokenDone>>
  PROVE  NEInv'
<1>a. /\ pending \in Calls /\ pending \in Reqs /\ pending # c /\ stream[pending] # "none"
      /\ c \in Reqs /\ stream[c] = "none"
  BY DEF NEInv, NETypeOK, SlotsFilled, Running, CallsPlaced, Reqs
<1>1. /\ RequestsMade' /\ SlotsFilled'
      /\ pending' = c /\ spec' \in Specs \cup {NoId} /\ scheduled' \in {scheduled, NoId}
      /\ cancelled' \in [Reqs -> BOOLEAN]
      /\ base' = [base EXCEPT ![c] = doc] /\ base' \in [Reqs -> Docs \cup {NoDoc}]
      /\ stream' = [stream EXCEPT ![c] = "fetching"]
      /\ stream' \in [Reqs -> {"none", "fetching", "editing", "ended"}]
  BY <1>a, ExecuteNewEffect
<1>2. LiveDependants' /\ deps' \in [Reqs -> Nat] /\ hook' \in [Calls \X Reqs -> HookStates]
  <2> DEFINE A == {<<c, c>>, <<c, pending>>}
             D == {}
  <2>1. A \in SUBSET (Calls \X Reqs) /\ D \in SUBSET (Calls \X Reqs) /\ A \cap D = {}
    BY <1>a
  <2>2. \A p \in A : hook[p] # "live"
    BY <1>a DEF NEInv, HooksPlaced, Waiting
  <2>3. Hooking(A, D)
    OBVIOUS
  <2> HIDE DEF A, D
  <2> QED BY <2>1, <2>2, <2>3, HookingCounts DEF NEInv
<1>3. NETypeOK'
  <2>1. pc' \in [Calls -> {"idle", "own", "join", "rebase", "eager", "delay", "done"}]
    BY DEF NEInv, NETypeOK, Goto
  <2>2. at' \in [Calls -> Docs \cup {NoDoc}] /\ target' \in [Calls -> Reqs \cup {NoId}]
    BY <1>a DEF NEInv, NETypeOK
  <2>3. answer' = answer
    OBVIOUS
  <2>4. {pending', shown', scheduled'} \subseteq Calls \cup {NoId}
    BY <1>1 DEF NEInv, NETypeOK, docVars
  <2> QED BY <2>1, <2>2, <2>3, <2>4, <1>1, <1>2, ZenonT(60) DEF NEInv, NETypeOK, docVars, HookStates
<1>4. CallsPlaced'
  BY <1>a, <1>1 DEF NEInv, NETypeOK, CallsPlaced, Goto, Waiting
<1>5. HooksPlaced'
  BY <1>a, <1>1 DEF NEInv, NETypeOK, HooksPlaced, CallsPlaced, Goto, Hooking, Waiting
<1>s. ScheduledKnown'
  BY <1>1 DEF NEInv, NETypeOK, ScheduledKnown, HasSuggestion, Goto
<1> QED BY <1>1, <1>2, <1>3, <1>4, <1>5, <1>s DEF NEInv

(* getNextEdit, up to its first await. *)
LEMMA GetNextEditStep ==
  ASSUME NEInv, NEW c \in Calls, GetNextEdit(c)
  PROVE  NEInv'
<1>1. CASE FromCache(c)
  BY <1>1, FromCacheStep DEF GetNextEdit
<1>2. CASE \E W \in EditWindows : Reusable(spec, W) /\ JoinSpeculative(c)
  BY <1>2, JoinSpeculativeStep DEF GetNextEdit, Reusable
<1>3. CASE \E W \in EditWindows, eager \in Eager : Reusable(pending, W) /\ JoinPending(c, eager)
  <2>1. PICK eager \in Eager : pending # NoId /\ JoinPending(c, eager)
    BY <1>3 DEF Reusable
  <2>2. CASE base[pending] # doc /\ eager
    BY <2>1, <2>2, JoinEagerStep DEF GetNextEdit, JoinPending
  <2>3. CASE ~(base[pending] # doc /\ eager)
    BY <2>1, <2>3, JoinOnlyStep DEF GetNextEdit, JoinPending
  <2> QED BY <2>2, <2>3
<1>4. CASE MakeRequest(c)
  BY <1>4, MakeRequestStep DEF GetNextEdit
<1> QED BY <1>1, <1>2, <1>3, <1>4 DEF GetNextEdit

(* A call that awaits a result ends with an edit or nothing. *)
LEMMA ResultStep ==
  ASSUME NEInv, NEW c \in Calls, pc[c] \in {"own", "join", "rebase", "eager"},
         NEW w \in {"done", "delay"}, NEW x \in Answers \cup {NoAnswer},
         pc' = [pc EXCEPT ![c] = w], answer' = [answer EXCEPT ![c] = x],
         IF pc[c] = "own" THEN UNCHANGED hookVars ELSE Hooking({}, {<<c, target[c]>>}),
         cancelled' \in [Reqs -> BOOLEAN], doomed' \subseteq Calls,
         UNCHANGED <<docVars, slotVars, requestVars, at, target, tokenDone>>
  PROVE  NEInv'
<1>1. LiveDependants' /\ deps' \in [Reqs -> Nat] /\ hook' \in [Calls \X Reqs -> HookStates]
  <2>a. CASE pc[c] = "own"
    BY <2>a, SameHooks
  <2>b. CASE pc[c] # "own"
    <3> DEFINE A == {}
               D == {<<c, target[c]>>}
    <3>1. A \in SUBSET (Calls \X Reqs) /\ D \in SUBSET (Calls \X Reqs) /\ A \cap D = {}
      BY <2>b DEF NEInv, CallsPlaced, Waiting
    <3>2. \A p \in A : hook[p] # "live"
      OBVIOUS
    <3>3. Hooking(A, D)
      BY <2>b
    <3> HIDE DEF A, D
    <3> QED BY <3>1, <3>2, <3>3, HookingCounts DEF NEInv
  <2> QED BY <2>a, <2>b
<1>2. NETypeOK'
  <2>1. pc' \in [Calls -> {"idle", "own", "join", "rebase", "eager", "delay", "done"}]
    BY DEF NEInv, NETypeOK
  <2>2. answer' \in [Calls -> Answers \cup {NoAnswer}]
    BY DEF NEInv, NETypeOK
  <2> QED BY <2>1, <2>2, <1>1 DEF NEInv, NETypeOK, docVars, slotVars, requestVars, HookStates
<1>3. RequestsMade' /\ SlotsFilled'
  BY DEF NEInv, RequestsMade, SlotsFilled, Running, slotVars, requestVars
<1>4. CallsPlaced'
  BY DEF NEInv, NETypeOK, CallsPlaced, Waiting, requestVars
<1>5. HooksPlaced'
  <2>a. CASE pc[c] = "own"
    BY <2>a DEF NEInv, NETypeOK, HooksPlaced, CallsPlaced, Waiting, requestVars, hookVars
  <2>b. CASE pc[c] # "own"
    <3> SUFFICES ASSUME NEW k \in Calls, NEW r \in Reqs, hook'[<<k, r>>] # "none"
                 PROVE  \/ r = k /\ stream[k] # "none"
                        \/ r = target[k] /\ pc'[k] \in Waiting
      BY DEF HooksPlaced, requestVars
    <3>1. hook[<<k, r>>] # "none" /\ <<k, r>> # <<c, target[c]>>
      BY <2>b DEF Hooking
    <3> QED BY <3>1 DEF NEInv, NETypeOK, HooksPlaced
  <2> QED BY <2>a, <2>b
<1>s. ScheduledKnown'
  BY DEF NEInv, NETypeOK, ScheduledKnown, HasSuggestion, slotVars
<1> QED BY <1>1, <1>2, <1>3, <1>4, <1>5, <1>s DEF NEInv

(* The call's own request has its first edit. *)
LEMMA OwnResultStep ==
  ASSUME NEInv, NEW c \in Calls, OwnResult(c)
  PROVE  NEInv'
<1>1. ActiveDocument(c) \in Docs \cup {Mixed}
  BY ActiveDocumentType DEF OwnResult, NEInv, CallsPlaced, Reqs
<1>2. Edit(first[c], c, ActiveDocument(c), c) \in Answers \cup {NoAnswer}
  BY <1>1, EditType DEF NEInv, Reqs
<1>3. \E w \in {"done", "delay"}, x \in Answers \cup {NoAnswer} :
         pc' = [pc EXCEPT ![c] = w] /\ answer' = [answer EXCEPT ![c] = x]
  BY <1>2, FinishEffect DEF OwnResult
<1> QED BY <1>3, ResultStep DEF OwnResult, NEInv, NETypeOK

(* The request it has joined is settled. *)
LEMMA JoinedResultStep ==
  ASSUME NEInv, NEW c \in Calls, JoinedResult(c)
  PROVE  NEInv'
<1> DEFINE r == target[c]
<1>1. r \in Reqs /\ stream[r] # "none"
  BY DEF JoinedResult, NEInv, CallsPlaced, Waiting
<1>2. ActiveDocument(r) \in Docs \cup {Mixed}
  BY <1>1, ActiveDocumentType
<1>3. Edit(first[r], c, ActiveDocument(r), r) \in Answers \cup {NoAnswer}
  BY <1>1, <1>2, EditType DEF NEInv, Reqs
<1>4. \E w \in {"done", "delay"}, x \in Answers \cup {NoAnswer} :
         pc' = [pc EXCEPT ![c] = w] /\ answer' = [answer EXCEPT ![c] = x]
  BY <1>3, FinishEffect DEF JoinedResult
<1> QED BY <1>4, ResultStep DEF JoinedResult, NEInv, NETypeOK

(* The result of a stale request is rebased, or not. *)
LEMMA RebasedEdit ==
  ASSUME NEInv, NEW c \in Calls, pc[c] \in {"rebase", "eager"},
         \/ \E t \in Docs \ {at[c]} : Finish(c, at[c], Edit(t, c, at[c], target[c]))
         \/ Return(c, NoAnswer)
  PROVE  \E w \in {"done", "delay"}, x \in Answers \cup {NoAnswer} :
           pc' = [pc EXCEPT ![c] = w] /\ answer' = [answer EXCEPT ![c] = x]
<1>1. \A t : Edit(t, c, at[c], target[c]) \in Answers \cup {NoAnswer}
  BY EditType DEF NEInv, CallsPlaced, Waiting, Reqs
<1> QED BY <1>1, FinishEffect DEF Return, Goto

LEMMA EagerResultStep ==
  ASSUME NEInv, NEW c \in Calls, EagerResult(c)
  PROVE  NEInv'
<1>1. /\ pc[c] = "eager" /\ Hooking({}, {<<c, target[c]>>})
      /\ UNCHANGED <<docVars, slotVars, requestVars, at, target, tokenDone>>
  BY DEF EagerResult
<1>2. cancelled' \in [Reqs -> BOOLEAN] /\ doomed' \subseteq Calls
  <2>1. CASE CancelBackup(c)
    <3>1. CASE first[c] = NoDoc
      BY <2>1, <3>1 DEF CancelBackup, NEInv, NETypeOK
    <3>2. CASE first[c] # NoDoc
      <4>1. Cancelling({c}) /\ doomed' = doomed
        BY <2>1, <3>2 DEF CancelBackup
      <4>2. cancelled' \in [Reqs -> BOOLEAN]
        BY <4>1 DEF Cancelling, NEInv, NETypeOK
      <4> QED BY <4>1, <4>2 DEF NEInv, NETypeOK
    <3> QED BY <3>1, <3>2
  <2>2. CASE UNCHANGED <<cancelled, doomed>>
    BY <2>2 DEF NEInv, NETypeOK
  <2> QED BY <2>1, <2>2 DEF EagerResult
<1>3. CASE \/ \E t \in Docs \ {at[c]} : Finish(c, at[c], Edit(t, c, at[c], target[c]))
           \/ Return(c, NoAnswer)
  <2>1. PICK w \in {"done", "delay"}, x \in Answers \cup {NoAnswer} :
           pc' = [pc EXCEPT ![c] = w] /\ answer' = [answer EXCEPT ![c] = x]
    BY <1>1, <1>3, RebasedEdit
  <2> QED BY <1>1, <1>2, <2>1, ResultStep
<1>4. CASE Goto(c, "own") /\ UNCHANGED <<answer, cancelled, doomed>>
  <2>1. LiveDependants' /\ deps' \in [Reqs -> Nat] /\ hook' \in [Calls \X Reqs -> HookStates]
    <3> DEFINE A == {}
               D == {<<c, target[c]>>}
    <3>1. A \in SUBSET (Calls \X Reqs) /\ D \in SUBSET (Calls \X Reqs) /\ A \cap D = {}
      BY <1>1 DEF NEInv, CallsPlaced, Waiting
    <3>2. \A p \in A : hook[p] # "live"
      OBVIOUS
    <3>3. Hooking(A, D)
      BY <1>1
    <3> HIDE DEF A, D
    <3> QED BY <3>1, <3>2, <3>3, HookingCounts DEF NEInv
  <2>2. NETypeOK'
    <3>1. pc' \in [Calls -> {"idle", "own", "join", "rebase", "eager", "delay", "done"}]
      BY <1>4 DEF NEInv, NETypeOK, Goto
    <3> QED BY <3>1, <2>1, <1>1, <1>2, <1>4 DEF NEInv, NETypeOK, docVars, slotVars, requestVars, HookStates
  <2>3. RequestsMade' /\ SlotsFilled'
    BY <1>1 DEF NEInv, RequestsMade, SlotsFilled, Running, slotVars, requestVars
  <2>4. CallsPlaced'
    BY <1>1, <1>4 DEF NEInv, NETypeOK, CallsPlaced, Goto, Waiting, requestVars
  <2>5. HooksPlaced'
    BY <1>1, <1>4 DEF NEInv, NETypeOK, HooksPlaced, CallsPlaced, Goto, Waiting, requestVars, Hooking
  <2>6. ScheduledKnown'
    BY <1>1, <1>4 DEF NEInv, NETypeOK, ScheduledKnown, HasSuggestion, Goto, slotVars
  <2> QED BY <2>1, <2>2, <2>3, <2>4, <2>5, <2>6 DEF NEInv
<1> QED BY <1>3, <1>4 DEF EagerResult

LEMMA RebasedResultStep ==
  ASSUME NEInv, NEW c \in Calls, RebasedResult(c)
  PROVE  NEInv'
<1> DEFINE r == target[c]
<1>1. /\ pc[c] = "rebase" /\ r \in Reqs \ {c} /\ stream[r] # "none" /\ base[r] # at[c]
      /\ stream[c] = "none" /\ c \in Reqs
      /\ UNCHANGED <<docVars, mixed, first, issued, at, doomed, tokenDone>>
  BY DEF RebasedResult, NEInv, CallsPlaced, Waiting, Reqs
<1>2. CASE /\ \/ \E t \in Docs \ {at[c]} : Finish(c, at[c], Edit(t, c, at[c], r))
              \/ Return(c, NoAnswer)
           /\ Hooking({}, {<<c, r>>}) /\ UNCHANGED <<slotVars, base, stream, cancelled, target>>
  <2>1. PICK w \in {"done", "delay"}, x \in Answers \cup {NoAnswer} :
           pc' = [pc EXCEPT ![c] = w] /\ answer' = [answer EXCEPT ![c] = x]
    BY <1>1, <1>2, RebasedEdit
  <2>2. cancelled' \in [Reqs -> BOOLEAN] /\ doomed' \subseteq Calls
    BY <1>1, <1>2 DEF NEInv, NETypeOK
  <2>3. UNCHANGED <<docVars, slotVars, requestVars, at, target, tokenDone>>
    BY <1>1, <1>2 DEF requestVars
  <2> QED BY <1>1, <1>2, <2>1, <2>2, <2>3, ResultStep
<1>3. CASE /\ pending # NoId /\ base[pending] = at[c] /\ Goto(c, "join")
           /\ target' = [target EXCEPT ![c] = pending]
           /\ Hooking({<<c, pending>>}, {<<c, r>>})
           /\ UNCHANGED <<slotVars, base, stream, cancelled, answer>>
  <2>1. /\ pending \in Calls /\ pending \in Reqs /\ pending # c /\ pending # r
        /\ stream[pending] # "none"
    BY <1>1, <1>3 DEF NEInv, NETypeOK, SlotsFilled, Running, Reqs
  <2>2. LiveDependants' /\ deps' \in [Reqs -> Nat] /\ hook' \in [Calls \X Reqs -> HookStates]
    <3> DEFINE A == {<<c, pending>>}
               D == {<<c, r>>}
    <3>1. A \in SUBSET (Calls \X Reqs) /\ D \in SUBSET (Calls \X Reqs) /\ A \cap D = {}
      BY <1>1, <2>1
    <3>2. \A p \in A : hook[p] # "live"
      BY <1>1, <2>1 DEF NEInv, HooksPlaced
    <3>3. Hooking(A, D)
      BY <1>3
    <3> HIDE DEF A, D
    <3> QED BY <3>1, <3>2, <3>3, HookingCounts DEF NEInv
  <2>3. NETypeOK'
    <3>1. pc' \in [Calls -> {"idle", "own", "join", "rebase", "eager", "delay", "done"}]
      BY <1>3 DEF NEInv, NETypeOK, Goto
    <3>2. target' \in [Calls -> Reqs \cup {NoId}]
      BY <1>3, <2>1 DEF NEInv, NETypeOK
    <3> QED BY <3>1, <3>2, <2>2, <1>1, <1>3 DEF NEInv, NETypeOK, docVars, slotVars, HookStates
  <2>4. RequestsMade' /\ SlotsFilled'
    BY <1>1, <1>3 DEF NEInv, RequestsMade, SlotsFilled, Running, slotVars
  <2>5. ScheduledKnown'
    BY <1>1, <1>3 DEF NEInv, NETypeOK, ScheduledKnown, HasSuggestion, Goto, slotVars
  <2>6. CallsPlaced'
    BY <1>1, <1>3, <2>1 DEF NEInv, NETypeOK, CallsPlaced, Goto, Waiting
  <2>7. HooksPlaced'
    <3> SUFFICES ASSUME NEW k \in Calls, NEW q \in Reqs, hook'[<<k, q>>] # "none"
                 PROVE  \/ q = k /\ stream'[k] # "none"
                        \/ q = target'[k] /\ pc'[k] \in Waiting
      BY DEF HooksPlaced
    <3>1. \/ <<k, q>> = <<c, pending>>
          \/ hook[<<k, q>>] # "none" /\ <<k, q>> # <<c, r>>
      BY <1>3 DEF Hooking
    <3> QED BY <1>1, <1>3, <3>1 DEF NEInv, NETypeOK, HooksPlaced, Goto, Waiting
  <2> QED BY <2>2, <2>3, <2>4, <2>5, <2>6, <2>7 DEF NEInv
<1>4. CASE /\ Goto(c, "own") /\ ExecuteNew(c, pending)
           /\ Hooking({<<c, c>>}, {<<c, r>>}) /\ UNCHANGED <<target, answer>>
  <2>1. /\ RequestsMade' /\ SlotsFilled'
        /\ pending' = c /\ spec' \in Specs \cup {NoId} /\ scheduled' \in {scheduled, NoId}
        /\ cancelled' \in [Reqs -> BOOLEAN] /\ base' \in [Reqs -> Docs \cup {NoDoc}]
        /\ base' = [base EXCEPT ![c] = doc]
        /\ stream' = [stream EXCEPT ![c] = "fetching"]
        /\ stream' \in [Reqs -> {"none", "fetching", "editing", "ended"}]
    BY <1>1, <1>4, ExecuteNewEffect DEF NEInv, NETypeOK
  <2>2. LiveDependants' /\ deps' \in [Reqs -> Nat] /\ hook' \in [Calls \X Reqs -> HookStates]
    <3> DEFINE A == {<<c, c>>}
               D == {<<c, r>>}
    <3>1. A \in SUBSET (Calls \X Reqs) /\ D \in SUBSET (Calls \X Reqs) /\ A \cap D = {}
      BY <1>1
    <3>2. \A p \in A : hook[p] # "live"
      BY <1>1 DEF NEInv, HooksPlaced
    <3>3. Hooking(A, D)
      BY <1>4
    <3> HIDE DEF A, D
    <3> QED BY <3>1, <3>2, <3>3, HookingCounts DEF NEInv
  <2>3. NETypeOK'
    <3>1. pc' \in [Calls -> {"idle", "own", "join", "rebase", "eager", "delay", "done"}]
      BY <1>4 DEF NEInv, NETypeOK, Goto
    <3>2. {pending', shown', scheduled'} \subseteq Calls \cup {NoId}
      BY <1>1, <2>1 DEF NEInv, NETypeOK, docVars
    <3> QED BY <3>1, <3>2, <2>1, <2>2, <1>1, <1>4 DEF NEInv, NETypeOK, docVars, HookStates
  <2>4. ScheduledKnown'
    BY <1>1, <1>4, <2>1 DEF NEInv, NETypeOK, ScheduledKnown, HasSuggestion, Goto
  <2>5. CallsPlaced'
    <3>1. \A k \in Calls \ {c} : base'[k] = base[k] /\ stream'[k] = stream[k]
      BY <2>1 DEF NEInv, NETypeOK, Reqs
    <3>2. \A q \in Reqs : q # c => base'[q] = base[q] /\ stream'[q] = stream[q]
      BY <2>1 DEF NEInv, NETypeOK, Reqs
    <3>3. stream'[c] # "none" /\ pc'[c] = "own" /\ at'[c] = at[c] /\ answer'[c] = answer[c]
      BY <1>1, <1>4, <2>1 DEF NEInv, NETypeOK, Goto
    <3>4. \A k \in Calls \ {c} : pc'[k] = pc[k] /\ (pc[k] \in Waiting => target[k] # c)
      BY <1>1, <1>4 DEF NEInv, NETypeOK, CallsPlaced, Goto
    <3> QED BY <1>1, <1>4, <3>1, <3>2, <3>3, <3>4 DEF NEInv, NETypeOK, CallsPlaced, Goto, Waiting
  <2>6. HooksPlaced'
    <3> SUFFICES ASSUME NEW k \in Calls, NEW q \in Reqs, hook'[<<k, q>>] # "none"
                 PROVE  \/ q = k /\ stream'[k] # "none"
                        \/ q = target'[k] /\ pc'[k] \in Waiting
      BY DEF HooksPlaced
    <3>1. \/ <<k, q>> = <<c, c>>
          \/ hook[<<k, q>>] # "none" /\ <<k, q>> # <<c, r>>
      BY <1>4 DEF Hooking
    <3> QED BY <1>1, <1>4, <2>1, <3>1 DEF NEInv, NETypeOK, HooksPlaced, Goto, Waiting
  <2> QED BY <2>1, <2>2, <2>3, <2>4, <2>5, <2>6 DEF NEInv
<1> QED BY <1>2, <1>3, <1>4 DEF RebasedResult

(* The end of the minimum delay, and the edit streams. *)
LEMMA DelayedStep ==
  ASSUME NEInv, NEW c \in Calls, Delayed(c)
  PROVE  NEInv'
<1>1. LiveDependants' /\ deps' \in [Reqs -> Nat] /\ hook' \in [Calls \X Reqs -> HookStates]
  BY SameHooks DEF Delayed, hookVars
<1>2. NETypeOK'
  BY <1>1 DEF NEInv, NETypeOK, Delayed, Return, Goto, docVars, slotVars, requestVars, hookVars, HookStates
<1>3. RequestsMade' /\ SlotsFilled'
  BY DEF NEInv, NETypeOK, RequestsMade, SlotsFilled, Running, Delayed, Return, Goto, docVars, slotVars, requestVars, hookVars
<1>4. ScheduledKnown'
  BY DEF NEInv, NETypeOK, ScheduledKnown, HasSuggestion, Delayed, Return, Goto, docVars, slotVars, requestVars, hookVars
<1>5. CallsPlaced'
  BY DEF NEInv, NETypeOK, CallsPlaced, Waiting, Delayed, Return, Goto, docVars, slotVars, requestVars, hookVars
<1>6. HooksPlaced'
  BY DEF NEInv, NETypeOK, HooksPlaced, Waiting, Delayed, Return, Goto, docVars, slotVars, requestVars, hookVars
<1> QED BY <1>1, <1>2, <1>3, <1>4, <1>5, <1>6 DEF NEInv

LEMMA IssueFetchStep ==
  ASSUME NEInv, NEW r \in Reqs, IssueFetch(r)
  PROVE  NEInv'
<1>1. LiveDependants' /\ deps' \in [Reqs -> Nat] /\ hook' \in [Calls \X Reqs -> HookStates]
  BY SameHooks DEF IssueFetch, hookVars
<1>2. NETypeOK'
  BY <1>1 DEF NEInv, NETypeOK, IssueFetch, docVars, slotVars, hookVars, callVars, HookStates
<1>3. RequestsMade' /\ SlotsFilled'
  BY DEF NEInv, NETypeOK, RequestsMade, SlotsFilled, Running, IssueFetch, docVars, slotVars, hookVars, callVars
<1>4. ScheduledKnown'
  BY DEF NEInv, NETypeOK, ScheduledKnown, HasSuggestion, IssueFetch, docVars, slotVars, hookVars, callVars
<1>5. CallsPlaced'
  BY DEF NEInv, NETypeOK, CallsPlaced, Waiting, IssueFetch, docVars, slotVars, hookVars, callVars
<1>6. HooksPlaced'
  BY DEF NEInv, NETypeOK, HooksPlaced, Waiting, IssueFetch, docVars, slotVars, hookVars, callVars
<1> QED BY <1>1, <1>2, <1>3, <1>4, <1>5, <1>6 DEF NEInv

LEMMA FirstEditStep ==
  ASSUME NEInv, NEW r \in Reqs, NEW t \in Docs \cup {NoEdit}, FirstEdit(r, t)
  PROVE  NEInv'
<1>1. LiveDependants' /\ deps' \in [Reqs -> Nat] /\ hook' \in [Calls \X Reqs -> HookStates]
  BY SameHooks DEF FirstEdit, hookVars
<1>2. NETypeOK'
  BY <1>1 DEF NEInv, NETypeOK, FirstEdit, docVars, slotVars, hookVars, callVars, Cancelling, HookStates
<1>3. RequestsMade' /\ SlotsFilled'
  BY NEDocsAssumption DEF NEInv, NETypeOK, RequestsMade, SlotsFilled, Running, FirstEdit, slotVars
<1>4. ScheduledKnown'
  BY DEF NEInv, NETypeOK, ScheduledKnown, HasSuggestion, FirstEdit, docVars, slotVars, hookVars, callVars, Cancelling
<1>5. CallsPlaced'
  BY DEF NEInv, NETypeOK, CallsPlaced, Waiting, FirstEdit, docVars, slotVars, hookVars, callVars, Cancelling
<1>6. HooksPlaced'
  BY DEF NEInv, NETypeOK, HooksPlaced, Waiting, FirstEdit, docVars, slotVars, hookVars, callVars, Cancelling
<1> QED BY <1>1, <1>2, <1>3, <1>4, <1>5, <1>6 DEF NEInv

LEMMA MoreEditsStep ==
  ASSUME NEInv, NEW r \in Reqs, MoreEdits(r)
  PROVE  NEInv'
<1>1. LiveDependants' /\ deps' \in [Reqs -> Nat] /\ hook' \in [Calls \X Reqs -> HookStates]
  BY SameHooks DEF MoreEdits, hookVars
<1>2. NETypeOK'
  BY <1>1 DEF NEInv, NETypeOK, MoreEdits, docVars, requestVars, hookVars, callVars, HookStates
<1>3. RequestsMade' /\ SlotsFilled'
  BY DEF NEInv, NETypeOK, RequestsMade, SlotsFilled, Running, MoreEdits, docVars, requestVars, hookVars, callVars
<1>4. ScheduledKnown'
  BY DEF NEInv, NETypeOK, ScheduledKnown, HasSuggestion, MoreEdits, docVars, requestVars, hookVars, callVars
<1>5. CallsPlaced'
  BY DEF NEInv, NETypeOK, CallsPlaced, Waiting, MoreEdits, docVars, requestVars, hookVars, callVars
<1>6. HooksPlaced'
  BY DEF NEInv, NETypeOK, HooksPlaced, Waiting, MoreEdits, docVars, requestVars, hookVars, callVars
<1> QED BY <1>1, <1>2, <1>3, <1>4, <1>5, <1>6 DEF NEInv

LEMMA EndSpeculativeStep ==
  ASSUME NEInv, NEW r \in Reqs, EndSpeculative(r)
  PROVE  NEInv'
<1>1. LiveDependants' /\ deps' \in [Reqs -> Nat] /\ hook' \in [Calls \X Reqs -> HookStates]
  BY SameHooks DEF EndSpeculative, hookVars
<1>2. NETypeOK'
  BY <1>1 DEF NEInv, NETypeOK, EndSpeculative, docVars, slotVars, hookVars, callVars, SettledFirst, HookStates
<1>3. RequestsMade' /\ SlotsFilled'
  <2>1. /\ stream' = [stream EXCEPT ![r] = "ended"] /\ first'[r] # NoDoc
        /\ first' = [first EXCEPT ![r] = SettledFirst(r)]
    BY NEDocsAssumption DEF EndSpeculative, SettledFirst, NEInv, NETypeOK
  <2>2. pending # r
    BY NECallsAssumption DEF EndSpeculative, NEInv, NETypeOK
  <2> QED BY <2>1, <2>2 DEF NEInv, NETypeOK, RequestsMade, SlotsFilled, Running, EndSpeculative, slotVars
<1>4. ScheduledKnown'
  BY DEF NEInv, NETypeOK, ScheduledKnown, HasSuggestion, EndSpeculative, docVars, slotVars, hookVars, callVars, SettledFirst
<1>5. CallsPlaced'
  <2>1. \A q \in Reqs : stream'[q] = "none" <=> stream[q] = "none"
    BY DEF NEInv, NETypeOK, EndSpeculative, Running
  <2> QED BY <2>1 DEF NEInv, NETypeOK, CallsPlaced, Waiting, EndSpeculative, callVars, Reqs
<1>6. HooksPlaced'
  BY DEF NEInv, NETypeOK, HooksPlaced, Waiting, EndSpeculative, docVars, slotVars, hookVars, callVars, SettledFirst
<1> QED BY <1>1, <1>2, <1>3, <1>4, <1>5, <1>6 DEF NEInv

(* The user. *)
LEMMA EditDocumentStep ==
  ASSUME NEInv, NEW d \in Docs, EditDocument(d)
  PROVE  NEInv'
<1>1. LiveDependants' /\ deps' \in [Reqs -> Nat] /\ hook' \in [Calls \X Reqs -> HookStates]
  BY SameHooks DEF EditDocument, hookVars
<1>2. NETypeOK'
  BY <1>1 DEF NEInv, NETypeOK, EditDocument, slotVars, requestVars, hookVars, callVars, Cancelling, HookStates
<1>3. RequestsMade' /\ SlotsFilled'
  BY DEF NEInv, NETypeOK, RequestsMade, SlotsFilled, Running, EditDocument, slotVars, requestVars, hookVars, callVars, Cancelling
<1>4. ScheduledKnown'
  BY DEF NEInv, NETypeOK, ScheduledKnown, HasSuggestion, EditDocument, slotVars, requestVars, hookVars, callVars, Cancelling
<1>5. CallsPlaced'
  BY DEF NEInv, NETypeOK, CallsPlaced, Waiting, EditDocument, slotVars, requestVars, hookVars, callVars, Cancelling
<1>6. HooksPlaced'
  BY DEF NEInv, NETypeOK, HooksPlaced, Waiting, EditDocument, slotVars, requestVars, hookVars, callVars, Cancelling
<1> QED BY <1>1, <1>2, <1>3, <1>4, <1>5, <1>6 DEF NEInv

LEMMA HandleRejectionStep ==
  ASSUME NEInv, NEW c \in Calls, HandleRejection(c)
  PROVE  NEInv'
<1>1. LiveDependants' /\ deps' \in [Reqs -> Nat] /\ hook' \in [Calls \X Reqs -> HookStates]
  BY SameHooks DEF HandleRejection, hookVars
<1>2. NETypeOK'
  BY <1>1 DEF NEInv, NETypeOK, HandleRejection, requestVars, hookVars, callVars, CancelSpeculative, NothingScheduled, Cancelling, HookStates
<1>3. RequestsMade' /\ SlotsFilled'
  BY DEF NEInv, NETypeOK, RequestsMade, SlotsFilled, Running, HandleRejection, requestVars, hookVars, callVars, CancelSpeculative, NothingScheduled, Cancelling
<1>4. ScheduledKnown'
  BY DEF NEInv, NETypeOK, ScheduledKnown, HasSuggestion, HandleRejection, requestVars, hookVars, callVars, CancelSpeculative, NothingScheduled, Cancelling
<1>5. CallsPlaced'
  BY DEF NEInv, NETypeOK, CallsPlaced, Waiting, HandleRejection, requestVars, hookVars, callVars, CancelSpeculative, NothingScheduled, Cancelling
<1>6. HooksPlaced'
  BY DEF NEInv, NETypeOK, HooksPlaced, Waiting, HandleRejection, requestVars, hookVars, callVars, CancelSpeculative, NothingScheduled, Cancelling
<1> QED BY <1>1, <1>2, <1>3, <1>4, <1>5, <1>6 DEF NEInv

LEMMA HandleIgnoredStep ==
  ASSUME NEInv, NEW c \in Calls, HandleIgnored(c)
  PROVE  NEInv'
<1>1. LiveDependants' /\ deps' \in [Reqs -> Nat] /\ hook' \in [Calls \X Reqs -> HookStates]
  BY SameHooks DEF HandleIgnored, hookVars
<1>2. NETypeOK'
  <2>1. scheduled' \in Calls \cup {NoId} /\ spec' \in Specs \cup {NoId} /\ pending' = pending
    BY DEF NEInv, NETypeOK, HandleIgnored, CancelSpeculative, NothingScheduled, slotVars
  <2>2. cancelled' \in [Reqs -> BOOLEAN]
    <3>1. cancelled' = cancelled \/ Cancelling(Replaced)
      BY DEF HandleIgnored, CancelSpeculative
    <3> QED BY <3>1, ZenonT(60) DEF NEInv, NETypeOK, Cancelling
  <2>3. ui' \in [Calls -> {"none", "shown", "over", "declined"}]
    BY ZenonT(60) DEF NEInv, NETypeOK, HandleIgnored
  <2> QED BY <1>1, <2>1, <2>2, <2>3 DEF NEInv, NETypeOK, HandleIgnored, requestVars, callVars, HookStates
<1>3. RequestsMade' /\ SlotsFilled'
  BY DEF NEInv, NETypeOK, RequestsMade, SlotsFilled, Running, HandleIgnored, slotVars, requestVars, hookVars, callVars, CancelSpeculative, NothingScheduled, Cancelling
<1>4. ScheduledKnown'
  BY DEF NEInv, NETypeOK, ScheduledKnown, HasSuggestion, HandleIgnored, slotVars, requestVars, hookVars, callVars, CancelSpeculative, NothingScheduled, Cancelling
<1>5. CallsPlaced'
  BY DEF NEInv, NETypeOK, CallsPlaced, Waiting, HandleIgnored, slotVars, requestVars, hookVars, callVars, CancelSpeculative, NothingScheduled, Cancelling
<1>6. HooksPlaced'
  BY DEF NEInv, NETypeOK, HooksPlaced, Waiting, HandleIgnored, slotVars, requestVars, hookVars, callVars, CancelSpeculative, NothingScheduled, Cancelling
<1> QED BY <1>1, <1>2, <1>3, <1>4, <1>5, <1>6 DEF NEInv

LEMMA HandleAcceptanceStep ==
  ASSUME NEInv, NEW c \in Calls, HandleAcceptance(c)
  PROVE  NEInv'
<1>1. LiveDependants' /\ deps' \in [Reqs -> Nat] /\ hook' \in [Calls \X Reqs -> HookStates]
  BY SameHooks DEF HandleAcceptance, hookVars
<1>2. NETypeOK'
  BY <1>1 DEF NEInv, NETypeOK, HandleAcceptance, slotVars, requestVars, hookVars, callVars, HookStates
<1>3. RequestsMade' /\ SlotsFilled'
  BY DEF NEInv, NETypeOK, RequestsMade, SlotsFilled, Running, HandleAcceptance, slotVars, requestVars, hookVars, callVars
<1>4. ScheduledKnown'
  BY DEF NEInv, NETypeOK, ScheduledKnown, HasSuggestion, HandleAcceptance, slotVars, requestVars, hookVars, callVars
<1>5. CallsPlaced'
  BY DEF NEInv, NETypeOK, CallsPlaced, Waiting, HandleAcceptance, slotVars, requestVars, hookVars, callVars
<1>6. HooksPlaced'
  BY DEF NEInv, NETypeOK, HooksPlaced, Waiting, HandleAcceptance, slotVars, requestVars, hookVars, callVars
<1> QED BY <1>1, <1>2, <1>3, <1>4, <1>5, <1>6 DEF NEInv

(* A call's token is cancelled: it stops to count wherever it did.         *)
LEMMA CancelTokenStep ==
  ASSUME NEInv, NEW c \in Calls, CancelToken(c)
  PROVE  NEInv'
<1> DEFINE live == {p \in {c} \X Reqs : hook[p] = "live"}
<1>1. /\ \A p \in Calls \X Reqs : p \notin live => hook'[p] = hook[p]
      /\ \A p \in live : hook'[p] \in {"timer", "removed"} /\ hook[p] = "live"
      /\ hook' \in [Calls \X Reqs -> HookStates]
  BY DEF CancelToken, NEInv, NETypeOK, HookStates
<1>2. \A r \in Reqs : deps'[r] = deps[r] - Removed(r, live)
  BY DEF CancelToken
<1>3. ASSUME NEW r \in Reqs
      PROVE  deps'[r] = Cardinality(LiveHooks(r)') /\ deps'[r] \in Nat
  <2> DEFINE L == LiveHooks(r)
             DD == {p \in live : p[2] = r /\ hook[p] = "live"}
             AA == {}
  <2>1. LiveHooks(r)' = (L \ DD) \cup AA
    <3> HIDE DEF live
    <3> QED BY <1>1 DEF LiveHooks
  <2>2. /\ L \in SUBSET (Calls \X Reqs) /\ AA \in SUBSET (Calls \X Reqs)
        /\ DD \in SUBSET L /\ AA \cap L = {}
    BY DEF LiveHooks
  <2>3. deps'[r] = Cardinality(L) - Cardinality(DD)
    BY <1>2 DEF Removed, NEInv, LiveDependants
  <2>4. Cardinality(AA) = 0
    BY FS_EmptySet
  <2>5. L \in SUBSET (Calls \X Reqs) /\ IsFiniteSet(L) /\ IsFiniteSet(DD)
    BY <2>2, HooksFinite, FS_Subset
  <2>6. Cardinality(L) \in Nat /\ Cardinality(DD) \in Nat
    BY <2>5, FS_CardinalityType
  <2> HIDE DEF L, AA, DD
  <2>7. /\ Cardinality((L \ DD) \cup AA) = Cardinality(L) + Cardinality(AA) - Cardinality(DD)
        /\ Cardinality((L \ DD) \cup AA) \in Nat
    BY <2>2, Counting, HooksFinite
  <2> QED BY <2>1, <2>3, <2>4, <2>6, <2>7
<1>4. LiveDependants' /\ deps' \in [Reqs -> Nat]
  BY <1>3 DEF LiveDependants, CancelToken
<1>5. cancelled' \in [Reqs -> BOOLEAN] /\ tokenDone' \in [Calls -> BOOLEAN]
  BY DEF CancelToken, Cancelling, NEInv, NETypeOK
<1> HIDE DEF live
<1>6. UNCHANGED <<docVars, slotVars, requestVars, callVars, doomed>>
  BY DEF CancelToken
<1>7. NETypeOK'
  BY <1>1, <1>4, <1>5, <1>6 DEF NEInv, NETypeOK, docVars, slotVars, requestVars, callVars, HookStates
<1>8. RequestsMade' /\ SlotsFilled' /\ ScheduledKnown' /\ CallsPlaced'
  BY <1>6 DEF NEInv, RequestsMade, SlotsFilled, Running, ScheduledKnown, HasSuggestion, CallsPlaced,
     Waiting, slotVars, requestVars, callVars
<1>9. HooksPlaced'
  BY <1>1, <1>6 DEF NEInv, HooksPlaced, Waiting, requestVars, callVars
<1> QED BY <1>4, <1>7, <1>8, <1>9 DEF NEInv

LEMMA CancellationTimerStep ==
  ASSUME NEInv, NEW c \in Calls, NEW r \in Reqs, CancellationTimer(c, r)
  PROVE  NEInv'
<1>1. /\ hook' = [hook EXCEPT ![<<c, r>>] = "removed"] /\ hook[<<c, r>>] = "timer"
      /\ hook' \in [Calls \X Reqs -> HookStates]
  BY DEF CancellationTimer, NEInv, NETypeOK, HookStates
<1>2. cancelled' \in [Reqs -> BOOLEAN]
  BY DEF CancellationTimer, Cancelling, NEInv, NETypeOK
<1>3. UNCHANGED <<docVars, slotVars, requestVars, callVars, deps, doomed, tokenDone>>
  BY DEF CancellationTimer
<1>4. LiveDependants'
  <2>1. \A q \in Reqs : LiveHooks(q)' = LiveHooks(q)
    BY <1>1 DEF LiveHooks, NEInv, NETypeOK
  <2> QED BY <2>1, <1>3 DEF NEInv, LiveDependants
<1>5. NETypeOK'
  BY <1>1, <1>2, <1>3 DEF NEInv, NETypeOK, docVars, slotVars, requestVars, callVars, HookStates
<1>6. RequestsMade' /\ SlotsFilled' /\ ScheduledKnown' /\ CallsPlaced'
  BY <1>3 DEF NEInv, RequestsMade, SlotsFilled, Running, ScheduledKnown, HasSuggestion, CallsPlaced,
     Waiting, slotVars, requestVars, callVars
<1>7. HooksPlaced'
  BY <1>1, <1>3 DEF NEInv, NETypeOK, HooksPlaced, Waiting, requestVars, callVars
<1> QED BY <1>4, <1>5, <1>6, <1>7 DEF NEInv

(* What the speculative request for the suggestion of call c does: at most *)
(* one speculative request is made, with content from Docs.                *)
LEMMA TriggerEffect ==
  ASSUME NEInv, NEW c \in Calls, answer[c] # NoAnswer, NEW p, NEW str, Trigger(c, p, str)
  PROVE  /\ scheduled' = NoId /\ cancelled' \in [Reqs -> BOOLEAN] /\ mixed' \subseteq Specs
         /\ \/ stream' = str /\ base' = base /\ spec' \in {spec, NoId}
            \/ \E s \in Specs : /\ stream[s] = "none" /\ spec' = s
                                /\ stream' = [str EXCEPT ![s] = "fetching"]
                                /\ \E d \in Docs : base' = [base EXCEPT ![s] = d]
<1>1. answer[c].after \in Docs
  BY DEF NEInv, NETypeOK, Answers
<1>2. cancelled' \in [Reqs -> BOOLEAN]
  <2>1. cancelled' = cancelled \/ Cancelling(Replaced)
    BY DEF Trigger
  <2> QED BY <2>1, ZenonT(60) DEF NEInv, NETypeOK, Cancelling
<1>3. mixed' \subseteq Specs
  BY DEF Trigger, NEInv, NETypeOK
<1> QED BY <1>1, <1>2, <1>3 DEF Trigger

(* The stream of a request ends, and with it the wait for its schedule.    *)
LEMMA EndStreamStep ==
  ASSUME NEInv, NEW r \in Reqs, EndStream(r)
  PROVE  NEInv'
<1> DEFINE ended == [stream EXCEPT ![r] = "ended"]
           A == {}
           D == {<<r, r>>}
<1>1. r \in Calls /\ Running(r)
  BY DEF EndStream
<1>2. LiveDependants' /\ deps' \in [Reqs -> Nat] /\ hook' \in [Calls \X Reqs -> HookStates]
  <2>1. A \in SUBSET (Calls \X Reqs) /\ D \in SUBSET (Calls \X Reqs) /\ A \cap D = {}
    BY <1>1
  <2>2. \A p \in A : hook[p] # "live"
    OBVIOUS
  <2>3. Hooking(A, D)
    BY DEF EndStream
  <2> HIDE DEF A, D
  <2> QED BY <2>1, <2>2, <2>3, HookingCounts DEF NEInv
<1>3. /\ first' = [first EXCEPT ![r] = SettledFirst(r)] /\ SettledFirst(r) \in Docs \cup {NoEdit}
      /\ pending' = IF pending = r THEN NoId ELSE pending
      /\ UNCHANGED <<docVars, issued, callVars, doomed, tokenDone>>
  BY <1>1 DEF EndStream, SettledFirst, NEInv, NETypeOK
<1>4. /\ scheduled' \in {scheduled, NoId} /\ cancelled' \in [Reqs -> BOOLEAN] /\ mixed' \subseteq Specs
      /\ \/ stream' = ended /\ base' = base /\ spec' \in {spec, NoId}
         \/ \E s \in Specs : /\ stream[s] = "none" /\ spec' = s
                             /\ stream' = [ended EXCEPT ![s] = "fetching"]
                             /\ \E d \in Docs : base' = [base EXCEPT ![s] = d]
  <2>1. CASE scheduled # NoId /\ answer[scheduled].header = r
    <3>1. scheduled \in Calls /\ answer[scheduled] # NoAnswer
      BY <2>1 DEF NEInv, NETypeOK, ScheduledKnown, HasSuggestion
    <3>2. PICK p : Trigger(scheduled, p, ended)
      BY <2>1 DEF EndStream
    <3> HIDE DEF ended
    <3> QED BY <3>1, <3>2, TriggerEffect
  <2>2. CASE ~(scheduled # NoId /\ answer[scheduled].header = r)
    BY <2>2 DEF EndStream, NEInv, NETypeOK
  <2> QED BY <2>1, <2>2
<1>5. /\ stream' \in [Reqs -> {"none", "fetching", "editing", "ended"}]
      /\ base' \in [Reqs -> Docs \cup {NoDoc}] /\ spec' \in Specs \cup {NoId}
      /\ stream'[r] = "ended" /\ base'[r] = base[r]
      /\ \A q \in Calls : q # r => stream'[q] = stream[q] /\ base'[q] = base[q]
      /\ \A q \in Reqs : q # r => \/ stream'[q] = stream[q] /\ base'[q] = base[q]
                                  \/ stream[q] = "none" /\ stream'[q] = "fetching" /\ base'[q] \in Docs
      /\ spec' # NoId => stream'[spec'] # "none"
  <2>1. /\ base \in [Reqs -> Docs \cup {NoDoc}] /\ spec \in Specs \cup {NoId} /\ r \notin Specs
        /\ ended \in [Reqs -> {"none", "fetching", "editing", "ended"}] /\ ended[r] = "ended"
        /\ \A q \in Reqs : q # r => ended[q] = stream[q]
        /\ spec # NoId => stream[spec] # "none"
    BY <1>1, NECallsAssumption DEF NEInv, NETypeOK, SlotsFilled
  <2> HIDE DEF ended, A, D
  <2>2. CASE stream' = ended /\ base' = base /\ spec' \in {spec, NoId}
    BY <1>1, <2>1, <2>2 DEF Reqs
  <2>3. CASE \E s \in Specs : /\ stream[s] = "none" /\ spec' = s
                            /\ stream' = [ended EXCEPT ![s] = "fetching"]
                            /\ \E d \in Docs : base' = [base EXCEPT ![s] = d]
    <3>1. PICK s \in Specs, d \in Docs :
            /\ stream[s] = "none" /\ spec' = s
            /\ stream' = [ended EXCEPT ![s] = "fetching"] /\ base' = [base EXCEPT ![s] = d]
      BY <2>3
    <3>2. \A q \in Calls : q # s
      BY NECallsAssumption
    <3> QED BY <1>1, <2>1, <3>1, <3>2 DEF Reqs
  <2> QED BY <1>4, <2>2, <2>3
<1> HIDE DEF ended, A, D
<1>6. NETypeOK'
  <2>1. {pending', shown', scheduled'} \subseteq Calls \cup {NoId}
    BY <1>3, <1>4 DEF NEInv, NETypeOK, docVars
  <2>2. first' \in [Reqs -> Docs \cup {NoDoc, NoEdit}]
    BY <1>3 DEF NEInv, NETypeOK
  <2> QED BY <1>2, <1>3, <1>4, <1>5, <2>1, <2>2 DEF NEInv, NETypeOK, docVars, callVars, HookStates
<1>7. RequestsMade'
  BY <1>1, <1>3, <1>5, NEDocsAssumption DEF NEInv, NETypeOK, RequestsMade, Running
<1>8. SlotsFilled'
  BY <1>3, <1>5 DEF NEInv, NETypeOK, SlotsFilled, Running
<1>9. ScheduledKnown'
  BY <1>3, <1>4 DEF NEInv, ScheduledKnown, HasSuggestion, callVars
<1>10. CallsPlaced'
  <2>1. \A q \in Reqs : stream[q] # "none" => stream'[q] # "none" /\ base'[q] = base[q]
    BY <1>5
  <2>2. \A q \in Calls : stream[q] = "none" => stream'[q] = "none"
    BY <1>1, <1>5 DEF Running
  <2> QED BY <1>3, <2>1, <2>2 DEF NEInv, NETypeOK, CallsPlaced, Waiting, callVars, Reqs
<1>11. HooksPlaced'
  <2>1. \A q \in Calls : stream[q] # "none" => stream'[q] # "none"
    BY <1>5
  <2>2. \A k \in Calls, q \in Reqs : hook'[<<k, q>>] # "none" => hook[<<k, q>>] # "none"
    BY DEF EndStream, Hooking
  <2> QED BY <1>3, <2>1, <2>2 DEF NEInv, HooksPlaced, Waiting, callVars
<1> QED BY <1>2, <1>6, <1>7, <1>8, <1>9, <1>10, <1>11 DEF NEInv

(* A suggestion is shown. *)
LEMMA HandleShownStep ==
  ASSUME NEInv, NEW c \in Calls, HandleShown(c)
  PROVE  NEInv'
<1>1. HasSuggestion(c) /\ answer[c] # NoAnswer
  BY DEF HandleShown, HasSuggestion
<1>2. UNCHANGED <<doc, pending, first, issued, hookVars, callVars, doomed, tokenDone>>
      /\ ui' = [ui EXCEPT ![c] = "shown"] /\ shown' = c
  BY DEF HandleShown
<1>3. /\ scheduled' \in {c, NoId} /\ cancelled' \in [Reqs -> BOOLEAN] /\ mixed' \subseteq Specs
      /\ \/ stream' = stream /\ base' = base /\ spec' \in {spec, NoId}
         \/ \E s \in Specs : /\ stream[s] = "none" /\ spec' = s
                             /\ stream' = [stream EXCEPT ![s] = "fetching"]
                             /\ \E d \in Docs : base' = [base EXCEPT ![s] = d]
  <2>1. CASE pending # NoId /\ answer[c].header = pending
    BY <2>1 DEF HandleShown, NEInv, NETypeOK
  <2>2. CASE Trigger(c, pending, stream)
    BY <2>2, <1>1, TriggerEffect
  <2> QED BY <2>1, <2>2 DEF HandleShown
<1>4. /\ stream' \in [Reqs -> {"none", "fetching", "editing", "ended"}]
      /\ base' \in [Reqs -> Docs \cup {NoDoc}] /\ spec' \in Specs \cup {NoId}
      /\ \A q \in Calls : stream'[q] = stream[q] /\ base'[q] = base[q]
      /\ \A q \in Reqs : \/ stream'[q] = stream[q] /\ base'[q] = base[q]
                         \/ stream[q] = "none" /\ stream'[q] = "fetching" /\ base'[q] \in Docs
      /\ spec' # NoId => stream'[spec'] # "none"
  BY <1>3, NECallsAssumption DEF NEInv, NETypeOK, Reqs, SlotsFilled
<1>5. LiveDependants' /\ deps' \in [Reqs -> Nat] /\ hook' \in [Calls \X Reqs -> HookStates]
  BY <1>2, SameHooks
<1>6. NETypeOK'
  <2>1. {pending', shown', scheduled'} \subseteq Calls \cup {NoId}
    BY <1>2, <1>3 DEF NEInv, NETypeOK
  <2>2. ui' \in [Calls -> {"none", "shown", "over", "declined"}]
    BY <1>2 DEF NEInv, NETypeOK
  <2> QED BY <1>2, <1>3, <1>4, <1>5, <2>1, <2>2 DEF NEInv, NETypeOK, callVars, HookStates
<1>7. RequestsMade'
  BY <1>2, <1>4, NEDocsAssumption DEF NEInv, NETypeOK, RequestsMade
<1>8. SlotsFilled'
  BY <1>2, <1>4 DEF NEInv, NETypeOK, SlotsFilled, Running
<1>9. ScheduledKnown'
  BY <1>1, <1>2, <1>3 DEF NEInv, ScheduledKnown, HasSuggestion, callVars
<1>10. CallsPlaced'
  <2>1. \A q \in Reqs : stream[q] # "none" => stream'[q] # "none" /\ base'[q] = base[q]
    BY <1>4
  <2> QED BY <1>2, <1>4, <2>1 DEF NEInv, NETypeOK, CallsPlaced, Waiting, callVars, Reqs
<1>11. HooksPlaced'
  BY <1>2, <1>4 DEF NEInv, HooksPlaced, Waiting, callVars, hookVars
<1> QED BY <1>5, <1>6, <1>7, <1>8, <1>9, <1>10, <1>11 DEF NEInv

(* Every step, and a stutter. *)
LEMMA NextNEInv == NEInv /\ [Next]_vars => NEInv'
<1> SUFFICES ASSUME NEInv, [Next]_vars PROVE NEInv'
  OBVIOUS
<1>1. CASE UNCHANGED vars
  <2>1. /\ UNCHANGED <<doc, shown, ui, pending, spec, scheduled, base, mixed, stream, first, issued>>
        /\ UNCHANGED <<deps, hook, pc, at, target, answer, cancelled, doomed, tokenDone>>
        /\ UNCHANGED hookVars
    BY <1>1 DEF vars, docVars, slotVars, requestVars, hookVars, callVars
  <2>2. LiveDependants'
    BY <2>1, SameHooks
  <2>3. NETypeOK'
    BY <2>1 DEF NEInv, NETypeOK
  <2>4. RequestsMade' /\ SlotsFilled' /\ ScheduledKnown' /\ CallsPlaced' /\ HooksPlaced'
    BY <2>1 DEF NEInv, RequestsMade, SlotsFilled, Running, ScheduledKnown, HasSuggestion, CallsPlaced,
       HooksPlaced, Waiting
  <2> QED BY <2>2, <2>3, <2>4 DEF NEInv
<1>2. ASSUME NEW c \in Calls, Resume(c) PROVE NEInv'
  BY <1>2, OwnResultStep, JoinedResultStep, RebasedResultStep, EagerResultStep, DelayedStep DEF Resume
<1>3. ASSUME NEW r \in Reqs, IssueFetch(r) \/ MoreEdits(r) \/ EndStream(r) \/ EndSpeculative(r)
      PROVE  NEInv'
  BY <1>3, IssueFetchStep, MoreEditsStep, EndStreamStep, EndSpeculativeStep
<1>4. ASSUME NEW r \in Reqs, NEW t \in Docs \cup {NoEdit}, FirstEdit(r, t) PROVE NEInv'
  BY <1>4, FirstEditStep
<1>5. ASSUME NEW c \in Calls, GetNextEdit(c) \/ CancelToken(c) \/ User(c) PROVE NEInv'
  BY <1>5, GetNextEditStep, CancelTokenStep, HandleShownStep, HandleRejectionStep, HandleIgnoredStep,
     HandleAcceptanceStep DEF User
<1>6. ASSUME NEW c \in Calls, NEW r \in Reqs, CancellationTimer(c, r) PROVE NEInv'
  BY <1>6, CancellationTimerStep
<1>7. ASSUME NEW d \in Docs, EditDocument(d) PROVE NEInv'
  BY <1>7, EditDocumentStep
<1> QED BY <1>1, <1>2, <1>3, <1>4, <1>5, <1>6, <1>7 DEF Next

(* NEInv holds of every reachable state. *)
THEOREM Invariance == Spec => []NEInv
  BY InitNEInv, NextNEInv, PTL DEF Spec

(* Type correctness of every reachable state. *)
THEOREM TypeCorrect == Spec => []NETypeOK
  BY Invariance, PTL DEF NEInv

(* liveDependentants is the number of calls that depend on the request and *)
(* whose tokens are alive, for any number of calls.                        *)
THEOREM DependantsCounted == Spec => []LiveDependants
  BY Invariance, PTL DEF NEInv
------------------------------------------------------------------------------
(***************************************************************************)
(* The safety properties that go beyond the counting of dependants.  Each  *)
(* is inductive together with NEInv and the parts named here.              *)
(***************************************************************************)

(* What getNextEdit and its continuations do to the slots and requests:    *)
(* nothing, but for a speculative request that is joined, or they make a   *)
(* request.  Only an eager backup request is made beside a pending one.    *)
SlotEffect(c) ==
  \/ /\ UNCHANGED <<pending, scheduled, base, stream>>
     /\ \A r \in Reqs : cancelled[r] => cancelled'[r]
     /\ spec' = spec \/ (spec' = NoId /\ spec # NoId /\ hook'[<<c, spec>>] = "live")
  \/ /\ stream[c] = "none"
     /\ \E p \in {pending, NoId} : ExecuteNew(c, p) /\ (p # pending => TRUE \in Eager)

LEMMA ResumeEffect ==
  ASSUME NEInv, NEW c \in Calls, Resume(c)
  PROVE  /\ UNCHANGED <<docVars, mixed, first, issued, at>>
         /\ pc[c] \notin {"idle", "done"} /\ SlotEffect(c)
         /\ \A k \in Calls : k # c => answer'[k] = answer[k] /\ pc'[k] = pc[k]
<1>1. CASE OwnResult(c) \/ JoinedResult(c) \/ Delayed(c)
  <2>1. UNCHANGED <<docVars, slotVars, requestVars, cancelled, at>> /\ pc[c] \notin {"idle", "done"}
    BY <1>1 DEF OwnResult, JoinedResult, Delayed
  <2>2. \A k \in Calls : k # c => answer'[k] = answer[k] /\ pc'[k] = pc[k]
    BY <1>1 DEF NEInv, NETypeOK, OwnResult, JoinedResult, Delayed, Finish, Return, Goto
  <2> QED BY <2>1, <2>2 DEF SlotEffect, slotVars, requestVars
<1>2. CASE EagerResult(c)
  <2>1. UNCHANGED <<docVars, slotVars, requestVars, at>> /\ pc[c] = "eager"
    BY <1>2 DEF EagerResult
  <2>2. \A k \in Calls : k # c => answer'[k] = answer[k] /\ pc'[k] = pc[k]
    BY <1>2 DEF NEInv, NETypeOK, EagerResult, Finish, Return, Goto
  <2>3. \A r \in Reqs : cancelled[r] => cancelled'[r]
    BY <1>2 DEF EagerResult, CancelBackup, Cancelling
  <2> QED BY <2>1, <2>2, <2>3 DEF SlotEffect, slotVars, requestVars
<1>3. CASE RebasedResult(c)
  <2>1. UNCHANGED <<docVars, mixed, first, issued, at>> /\ pc[c] = "rebase" /\ stream[c] = "none"
    BY <1>3 DEF RebasedResult, NEInv, CallsPlaced
  <2>2. \A k \in Calls : k # c => answer'[k] = answer[k] /\ pc'[k] = pc[k]
    BY <1>3 DEF NEInv, NETypeOK, RebasedResult, Finish, Return, Goto
  <2>3. UNCHANGED <<slotVars, base, stream, cancelled>> \/ ExecuteNew(c, pending)
    BY <1>3 DEF RebasedResult
  <2> QED BY <2>1, <2>2, <2>3 DEF SlotEffect, slotVars
<1> QED BY <1>1, <1>2, <1>3 DEF Resume

LEMMA GetNextEditEffect ==
  ASSUME NEInv, NEW c \in Calls, GetNextEdit(c)
  PROVE  /\ UNCHANGED <<docVars, mixed, first, issued>>
         /\ pc[c] = "idle" /\ SlotEffect(c)
         /\ \A k \in Calls : k # c => answer'[k] = answer[k] /\ pc'[k] = pc[k] /\ at'[k] = at[k]
<1>1. UNCHANGED <<docVars, mixed, first, issued>> /\ pc[c] = "idle" /\ stream[c] = "none"
      /\ at' = [at EXCEPT ![c] = doc]
  BY DEF GetNextEdit, NEInv, CallsPlaced
<1>2. CASE FromCache(c)
  <2>1. \A k \in Calls : k # c => answer'[k] = answer[k] /\ pc'[k] = pc[k]
    BY <1>2 DEF NEInv, NETypeOK, FromCache, Finish, Return, Goto
  <2> QED BY <1>1, <1>2, <2>1 DEF FromCache, SlotEffect, slotVars, NEInv, NETypeOK
<1>3. CASE spec # NoId /\ JoinSpeculative(c)
  <2>1. spec \in Reqs
    BY <1>3 DEF NEInv, NETypeOK, Reqs
  <2>2. hook'[<<c, spec>>] = "live"
    BY <1>3, <2>1 DEF JoinSpeculative, Hooking
  <2> QED BY <1>1, <1>3, <2>2 DEF JoinSpeculative, Goto, SlotEffect, NEInv, NETypeOK
<1>4. CASE \E eager \in Eager : JoinPending(c, eager)
  <2>1. PICK eager \in Eager : JoinPending(c, eager)
    BY <1>4
  <2>2. \/ eager = TRUE /\ ExecuteNew(c, NoId)
        \/ UNCHANGED <<slotVars, base, stream, cancelled>>
    BY <2>1, NEConfigAssumption DEF JoinPending
  <2>3. SlotEffect(c)
    BY <1>1, <2>1, <2>2 DEF SlotEffect, slotVars
  <2>4. \A k \in Calls : k # c => answer'[k] = answer[k] /\ pc'[k] = pc[k]
    BY <2>1 DEF JoinPending, Goto, NEInv, NETypeOK
  <2> QED BY <1>1, <2>3, <2>4 DEF NEInv, NETypeOK
<1>5. CASE MakeRequest(c)
  BY <1>1, <1>5 DEF MakeRequest, Goto, SlotEffect, NEInv, NETypeOK
<1> QED BY <1>2, <1>3, <1>4, <1>5 DEF GetNextEdit, Reusable

(* What the speculative request of a shown suggestion does.  The request   *)
(* in the slot is cancelled when it makes way.                             *)
LEMMA TriggerKeeps ==
  ASSUME NEInv, NEW c \in Calls, NEW p, NEW str, Trigger(c, p, str)
  PROVE  /\ \A r \in Reqs : cancelled[r] => cancelled'[r]
         /\ spec # NoId => spec' = spec \/ cancelled'[spec]
         /\ \/ stream' = str /\ base' = base /\ UNCHANGED mixed
            \/ \E s \in Specs : /\ stream[s] = "none" /\ spec' = s
                                /\ stream' = [str EXCEPT ![s] = "fetching"]
                                /\ \A r \in Reqs : r # s => base'[r] = base[r]
<1>1. \A r \in Reqs : cancelled[r] => cancelled'[r]
  BY DEF Trigger, Cancelling
<1>2. spec # NoId => spec' = spec \/ cancelled'[spec]
  <2>1. spec # NoId => spec \in Reqs /\ spec \in Replaced
    BY DEF NEInv, NETypeOK, Reqs, Replaced
  <2>2. UNCHANGED spec \/ Cancelling(Replaced)
    BY DEF Trigger
  <2> QED BY <2>1, <2>2 DEF Cancelling
<1>3. \/ stream' = str /\ base' = base /\ UNCHANGED mixed
      \/ \E s \in Specs : /\ stream[s] = "none" /\ spec' = s
                          /\ stream' = [str EXCEPT ![s] = "fetching"]
                          /\ \A r \in Reqs : r # s => base'[r] = base[r]
  BY DEF Trigger, NEInv, NETypeOK
<1> QED BY <1>1, <1>2, <1>3
------------------------------------------------------------------------------
(***************************************************************************)
(* The schedule of speculative requests.                                   *)
(***************************************************************************)
LEMMA ScheduledNotDeclinedStep ==
  ASSUME NEInv, ScheduledNotDeclined, [Next]_vars
  PROVE  ScheduledNotDeclined'
<1>1. CASE scheduled' \in {scheduled, NoId} /\ UNCHANGED <<shown, ui>>
  BY <1>1 DEF ScheduledNotDeclined
<1>2. CASE \E c \in Calls : Resume(c) \/ GetNextEdit(c)
  <2>1. PICK c \in Calls : Resume(c) \/ GetNextEdit(c)
    BY <1>2
  <2>2. SlotEffect(c) /\ UNCHANGED docVars
    BY <2>1, ResumeEffect, GetNextEditEffect
  <2> QED BY <2>2, <1>1 DEF SlotEffect, ExecuteNew, ScheduleAfter, docVars
<1>3. CASE \E r \in Reqs : \/ IssueFetch(r) \/ MoreEdits(r) \/ EndSpeculative(r)
                           \/ \E t \in Docs \cup {NoEdit} : FirstEdit(r, t)
  BY <1>3, <1>1 DEF IssueFetch, MoreEdits, EndSpeculative, FirstEdit, docVars, slotVars
<1>4. CASE \E r \in Reqs : EndStream(r)
  BY <1>4, <1>1 DEF EndStream, Trigger, docVars
<1>5. CASE \E c \in Calls : CancelToken(c) \/ \E r \in Reqs : CancellationTimer(c, r)
  BY <1>5, <1>1 DEF CancelToken, CancellationTimer, docVars, slotVars
<1>6. CASE \E d \in Docs : EditDocument(d)
  BY <1>6, <1>1 DEF EditDocument, slotVars
<1>7. CASE UNCHANGED vars
  BY <1>7, <1>1 DEF vars, docVars, slotVars
<1>8. ASSUME NEW c \in Calls, HandleShown(c) PROVE ScheduledNotDeclined'
  <2>1. ui' = [ui EXCEPT ![c] = "shown"] /\ shown' = c /\ scheduled' \in {c, NoId}
    BY <1>8 DEF HandleShown, Trigger
  <2> QED BY <2>1 DEF ScheduledNotDeclined, NEInv, NETypeOK
<1>9. ASSUME NEW c \in Calls, HandleRejection(c) \/ HandleIgnored(c) \/ HandleAcceptance(c)
      PROVE  ScheduledNotDeclined'
  <2>1. /\ shown' = shown
        /\ \/ scheduled' = NoId
           \/ scheduled' = scheduled /\ ui' = [ui EXCEPT ![c] = "over"]
    BY <1>9 DEF HandleRejection, HandleIgnored, HandleAcceptance, CancelSpeculative, NothingScheduled, slotVars
  <2> QED BY <2>1 DEF ScheduledNotDeclined, NEInv, NETypeOK
<1> QED BY <1>2, <1>3, <1>4, <1>5, <1>6, <1>7, <1>8, <1>9 DEF Next, User

(* No request is made later for a suggestion the user has declined: what   *)
(* is scheduled is for the suggestion shown last.                          *)
THEOREM NoSpeculationOnceDeclined == Spec => []ScheduledNotDeclined
<1>1. Init => ScheduledNotDeclined
  BY DEF Init, ScheduledNotDeclined
<1>2. NEInv /\ ScheduledNotDeclined /\ [Next]_vars => ScheduledNotDeclined'
  BY ScheduledNotDeclinedStep
<1> QED BY <1>1, <1>2, Invariance, PTL DEF Spec
------------------------------------------------------------------------------
(***************************************************************************)
(* One regular request at a time, and whose schedule it is, when no backup *)
(* requests are made beside a pending one.                                 *)
(***************************************************************************)
RegularInv == OneRegularRequest /\ ScheduledBelongsToPending

(* A new request takes the place of the pending one. *)
LEMMA ExecuteNewRegular ==
  ASSUME NEInv, RegularInv, NEW c \in Calls, stream[c] = "none", ExecuteNew(c, pending)
  PROVE  RegularInv'
<1>1. /\ pending' = c /\ stream' = [stream EXCEPT ![c] = "fetching"] /\ scheduled' = NoId
      /\ \A r \in Reqs : cancelled'[r] <=> cancelled[r] \/ r \in Superseded(pending)
  <2>1. CASE scheduled # NoId /\ pending = NoId
    <3>1. NoId = answer[scheduled].header /\ answer[scheduled] \in Answers
      BY <2>1 DEF RegularInv, ScheduledBelongsToPending, ScheduledKnown, HasSuggestion, NEInv, NETypeOK
    <3> QED BY <3>1, NECallsAssumption DEF Answers, Reqs
  <2>2. CASE scheduled = NoId \/ pending # NoId
    BY <2>2 DEF ExecuteNew, ScheduleAfter, Cancelling
  <2> QED BY <2>1, <2>2
<1>2. ASSUME NEW r \in Calls, Running(r)', ~cancelled'[r] PROVE r = c
  <2>1. r \in Reqs
    BY DEF Reqs
  <2>2. CASE r # c
    <3>1. Running(r) /\ ~cancelled[r] /\ r \notin Superseded(pending)
      BY <1>1, <1>2, <2>1, <2>2 DEF Running, NEInv, NETypeOK
    <3>2. r = pending
      BY <3>1 DEF RegularInv, OneRegularRequest
    <3>3. pending # NoId => pending \in Superseded(pending)
      BY DEF Superseded
    <3>4. r # NoId
      BY NECallsAssumption
    <3> QED BY <3>1, <3>2, <3>3, <3>4
  <2> QED BY <2>2
<1> QED BY <1>1, <1>2 DEF RegularInv, OneRegularRequest, ScheduledBelongsToPending

(* A step that makes no regular request. *)
LEMMA QuietRegular ==
  ASSUME NEInv, RegularInv, UNCHANGED pending, scheduled' \in {scheduled, NoId},
         \A r \in Calls : Running(r)' <=> Running(r),
         \A r \in Reqs : cancelled[r] => cancelled'[r],
         \A k \in Calls : HasSuggestion(k) => answer'[k] = answer[k]
  PROVE  RegularInv'
<1>1. OneRegularRequest'
  BY DEF RegularInv, OneRegularRequest, Reqs
<1>2. ScheduledBelongsToPending'
  <2> SUFFICES ASSUME scheduled' # NoId
               PROVE  pending = answer'[scheduled].header /\ Running(pending)'
    BY DEF ScheduledBelongsToPending
  <2>1. scheduled' = scheduled /\ scheduled \in Calls /\ HasSuggestion(scheduled)
    BY DEF NEInv, NETypeOK, ScheduledKnown
  <2>2. pending = answer[scheduled].header /\ Running(pending)
    BY <2>1 DEF RegularInv, ScheduledBelongsToPending
  <2>3. pending # NoId
    <3>1. answer[scheduled] \in Answers
      BY <2>1 DEF HasSuggestion, NEInv, NETypeOK
    <3> QED BY <2>2, <3>1, NECallsAssumption DEF Answers, Reqs
  <2>4. pending \in Calls
    BY <2>3 DEF NEInv, NETypeOK
  <2> QED BY <2>1, <2>2, <2>4
<1> QED BY <1>1, <1>2 DEF RegularInv

LEMMA RegularStep ==
  ASSUME Eager = {FALSE}, NEInv, RegularInv, [Next]_vars
  PROVE  RegularInv'
<1>1. ASSUME NEW c \in Calls, Resume(c) \/ GetNextEdit(c) PROVE RegularInv'
  <2>1. /\ SlotEffect(c) /\ pc[c] # "done"
        /\ \A k \in Calls : k # c => answer'[k] = answer[k]
    BY <1>1, ResumeEffect, GetNextEditEffect
  <2>2. CASE stream[c] = "none" /\ ExecuteNew(c, pending)
    BY <2>2, ExecuteNewRegular
  <2>3. CASE /\ UNCHANGED <<pending, scheduled, stream>>
             /\ \A r \in Reqs : cancelled[r] => cancelled'[r]
    <3>1. \A k \in Calls : HasSuggestion(k) => answer'[k] = answer[k]
      BY <2>1 DEF HasSuggestion
    <3>2. \A r \in Calls : Running(r)' <=> Running(r)
      BY <2>3 DEF Running
    <3> QED BY <2>3, <3>1, <3>2, QuietRegular
  <2> QED BY <2>1, <2>2, <2>3 DEF SlotEffect
<1>2. ASSUME NEW r \in Reqs, \/ IssueFetch(r) \/ MoreEdits(r) \/ EndSpeculative(r)
                             \/ \E t \in Docs \cup {NoEdit} : FirstEdit(r, t)
      PROVE  RegularInv'
  <2>1. UNCHANGED pending /\ UNCHANGED answer /\ scheduled' \in {scheduled, NoId}
    BY <1>2 DEF IssueFetch, MoreEdits, EndSpeculative, FirstEdit, slotVars, callVars
  <2>2. \A q \in Reqs : cancelled[q] => cancelled'[q]
    BY <1>2 DEF IssueFetch, MoreEdits, EndSpeculative, FirstEdit, Cancelling
  <2>3. \A q \in Calls : Running(q)' <=> Running(q)
    <3>1. CASE UNCHANGED stream
      BY <3>1 DEF Running
    <3>2. CASE stream[r] = "fetching" /\ stream' = [stream EXCEPT ![r] = "editing"]
      BY <3>2 DEF Running, NEInv, NETypeOK
    <3>3. CASE r \in Specs /\ stream' = [stream EXCEPT ![r] = "ended"]
      BY <3>3, NECallsAssumption DEF Running, NEInv, NETypeOK
    <3> QED BY <1>2, <3>1, <3>2, <3>3 DEF IssueFetch, MoreEdits, EndSpeculative, FirstEdit, requestVars
  <2> QED BY <2>1, <2>2, <2>3, QuietRegular
<1>3. ASSUME NEW r \in Reqs, EndStream(r) PROVE RegularInv'
  <2>1. /\ r \in Calls /\ UNCHANGED answer /\ pending' = IF pending = r THEN NoId ELSE pending
    BY <1>3 DEF EndStream, callVars
  <2>2. /\ \A q \in Reqs : cancelled[q] => cancelled'[q]
        /\ \A q \in Calls : Running(q)' <=> Running(q) /\ q # r
        /\ \/ scheduled' = NoId
           \/ scheduled' = scheduled /\ ~(scheduled # NoId /\ answer[scheduled].header = r)
    <3>1. CASE scheduled # NoId /\ answer[scheduled].header = r
      <4> DEFINE ended == [stream EXCEPT ![r] = "ended"]
      <4>1. PICK p : Trigger(scheduled, p, ended)
        BY <1>3, <3>1 DEF EndStream
      <4>2. scheduled \in Calls
        BY <3>1 DEF NEInv, NETypeOK
      <4>3. \A q \in Calls : ended[q] = IF q = r THEN "ended" ELSE stream[q]
        BY DEF NEInv, NETypeOK, Reqs
      <4>0. ended \in [Reqs -> {"none", "fetching", "editing", "ended"}]
        BY DEF NEInv, NETypeOK
      <4> HIDE DEF ended
      <4>4. /\ \A q \in Reqs : cancelled[q] => cancelled'[q]
            /\ \/ stream' = ended
               \/ \E s \in Specs : stream' = [ended EXCEPT ![s] = "fetching"]
        BY <4>1, <4>2, TriggerKeeps
      <4>5. \A q \in Calls : stream'[q] = ended[q]
        <5>1. \A q \in Calls, s \in Specs : q # s /\ q \in Reqs
          BY NECallsAssumption DEF Reqs
        <5> QED BY <4>0, <4>4, <5>1
      <4>6. scheduled' = NoId
        BY <4>1 DEF Trigger
      <4> QED BY <4>3, <4>4, <4>5, <4>6 DEF Running
    <3>2. CASE ~(scheduled # NoId /\ answer[scheduled].header = r)
      <4>1. stream' = [stream EXCEPT ![r] = "ended"] /\ UNCHANGED <<scheduled, cancelled>>
        BY <1>3, <3>2 DEF EndStream
      <4> QED BY <3>2, <4>1 DEF Running, NEInv, NETypeOK, Reqs
    <3> QED BY <3>1, <3>2
  <2>3. OneRegularRequest'
    BY <2>1, <2>2 DEF RegularInv, OneRegularRequest, Reqs
  <2>4. ScheduledBelongsToPending'
    <3> SUFFICES ASSUME scheduled' # NoId
                 PROVE  pending' = answer'[scheduled].header /\ Running(pending)'
      BY <2>2 DEF ScheduledBelongsToPending
    <3>1. /\ scheduled # NoId /\ answer[scheduled].header # r
          /\ pending = answer[scheduled].header /\ Running(pending)
      BY <2>2 DEF RegularInv, ScheduledBelongsToPending
    <3>2. answer[scheduled] \in Answers
      BY <3>1 DEF ScheduledKnown, HasSuggestion, NEInv, NETypeOK
    <3>3. pending \in Calls
      BY <3>1, <3>2, NECallsAssumption DEF Answers, Reqs, NEInv, NETypeOK
    <3> QED BY <2>1, <2>2, <3>1, <3>3
  <2> QED BY <2>3, <2>4 DEF RegularInv
<1>4. ASSUME NEW c \in Calls, HandleShown(c) PROVE RegularInv'
  <2>1. UNCHANGED <<pending, answer>>
    BY <1>4 DEF HandleShown, callVars
  <2>2. CASE pending # NoId /\ answer[c].header = pending
    <3>1. scheduled' = c /\ UNCHANGED <<stream, cancelled>>
      BY <1>4, <2>2 DEF HandleShown
    <3> QED BY <2>1, <2>2, <3>1 DEF RegularInv, OneRegularRequest, ScheduledBelongsToPending, Running, NEInv,
              SlotsFilled
  <2>3. CASE Trigger(c, pending, stream)
    <3>1. /\ \A q \in Reqs : cancelled[q] => cancelled'[q]
          /\ \/ stream' = stream
             \/ \E s \in Specs : stream' = [stream EXCEPT ![s] = "fetching"]
      BY <2>3, TriggerKeeps
    <3>2. \A q \in Calls : stream'[q] = stream[q]
      <4>1. \A q \in Calls, s \in Specs : q # s /\ q \in Reqs
        BY NECallsAssumption DEF Reqs
      <4> QED BY <3>1, <4>1 DEF NEInv, NETypeOK
    <3>3. scheduled' = NoId
      BY <2>3 DEF Trigger
    <3>4. \A q \in Calls : Running(q)' <=> Running(q)
      BY <3>2 DEF Running
    <3> QED BY <2>1, <3>1, <3>3, <3>4, QuietRegular
  <2> QED BY <1>4, <2>2, <2>3 DEF HandleShown
<1>5. CASE \/ \E c \in Calls : \/ CancelToken(c) \/ HandleRejection(c) \/ HandleIgnored(c) \/ HandleAcceptance(c)
                               \/ \E r \in Reqs : CancellationTimer(c, r)
           \/ \E d \in Docs : EditDocument(d)
           \/ UNCHANGED vars
  <2>1. UNCHANGED <<pending, stream, answer>> /\ scheduled' \in {scheduled, NoId}
    BY <1>5 DEF CancelToken, HandleRejection, HandleIgnored, HandleAcceptance, CancellationTimer, EditDocument,
       CancelSpeculative, NothingScheduled, vars, slotVars, requestVars, callVars
  <2>2. \A q \in Reqs : cancelled[q] => cancelled'[q]
    BY <1>5 DEF CancelToken, HandleRejection, HandleIgnored, HandleAcceptance, CancellationTimer, EditDocument,
       CancelSpeculative, Cancelling, vars
  <2>3. \A q \in Calls : Running(q)' <=> Running(q)
    BY <2>1 DEF Running
  <2> QED BY <2>1, <2>2, <2>3, QuietRegular
<1> QED BY <1>1, <1>2, <1>3, <1>4, <1>5 DEF Next, User

(* Without eager backup requests at most one regular request runs that has *)
(* not been cancelled: the pending one.                                    *)
THEOREM RegularRequestsSuperseded ==
  ASSUME Eager = {FALSE} PROVE Spec => []OneRegularRequest
<1>1. Init => RegularInv
  BY DEF Init, RegularInv, OneRegularRequest, ScheduledBelongsToPending, Running, Reqs
<1>2. NEInv /\ RegularInv /\ [Next]_vars => RegularInv'
  BY RegularStep
<1>3. RegularInv => OneRegularRequest
  BY DEF RegularInv
<1> QED BY <1>1, <1>2, <1>3, Invariance, PTL DEF Spec

(* Without them a scheduled speculative request belongs to the stream of   *)
(* the pending request, which runs and will fire or clear it.              *)
THEOREM ScheduleNeverOutlivesStream ==
  ASSUME Eager = {FALSE} PROVE Spec => []ScheduledBelongsToPending
<1>1. Init => RegularInv
  BY DEF Init, RegularInv, OneRegularRequest, ScheduledBelongsToPending, Running, Reqs
<1>2. NEInv /\ RegularInv /\ [Next]_vars => RegularInv'
  BY RegularStep
<1>3. RegularInv => ScheduledBelongsToPending
  BY DEF RegularInv
<1> QED BY <1>1, <1>2, <1>3, Invariance, PTL DEF Spec
------------------------------------------------------------------------------
(***************************************************************************)
(* Speculative requests are accounted for.                                 *)
(***************************************************************************)
Hooked(r) == \E c \in Calls : hook[<<c, r>>] \in {"live", "timer"}

(* A cancelled request stays cancelled, an edit that was found is kept and *)
(* a speculative request starts in its slot.                               *)
LEMMA CancelledStays ==
  ASSUME NEInv, [Next]_vars, NEW r \in Reqs, cancelled[r]
  PROVE  cancelled'[r]
<1>1. ASSUME NEW c \in Calls, Resume(c) \/ GetNextEdit(c) PROVE cancelled'[r]
  BY <1>1, ResumeEffect, GetNextEditEffect DEF SlotEffect, ExecuteNew, Cancelling
<1>2. ASSUME NEW q \in Reqs, EndStream(q) PROVE cancelled'[r]
  <2>1. CASE UNCHANGED cancelled
    BY <2>1
  <2>2. CASE scheduled \in Calls /\ \E p, str : Trigger(scheduled, p, str)
    BY <2>2, TriggerKeeps
  <2> QED BY <1>2, <2>1, <2>2 DEF EndStream, NEInv, NETypeOK
<1>3. ASSUME NEW c \in Calls, HandleShown(c) PROVE cancelled'[r]
  <2>1. UNCHANGED cancelled \/ Trigger(c, pending, stream)
    BY <1>3 DEF HandleShown
  <2> QED BY <2>1, TriggerKeeps
<1>4. CASE \/ \E c \in Calls : \/ CancelToken(c) \/ HandleRejection(c) \/ HandleIgnored(c) \/ HandleAcceptance(c)
                               \/ \E q \in Reqs : CancellationTimer(c, q)
           \/ \E d \in Docs : EditDocument(d)
           \/ \E q \in Reqs : \/ IssueFetch(q) \/ MoreEdits(q) \/ EndSpeculative(q)
                              \/ \E t \in Docs \cup {NoEdit} : FirstEdit(q, t)
           \/ UNCHANGED vars
  BY <1>4 DEF CancelToken, HandleRejection, HandleIgnored, HandleAcceptance, CancellationTimer, EditDocument,
     IssueFetch, MoreEdits, EndSpeculative, FirstEdit, CancelSpeculative, Cancelling, vars
<1> QED BY <1>1, <1>2, <1>3, <1>4 DEF Next, User

LEMMA FirstStays ==
  ASSUME NEInv, [Next]_vars, NEW r \in Reqs, first[r] # NoDoc
  PROVE  first'[r] # NoDoc
<1>1. CASE UNCHANGED first
  BY <1>1
<1>2. CASE \E q \in Reqs : first' = [first EXCEPT ![q] = SettledFirst(q)]
  BY <1>2, NEDocsAssumption DEF SettledFirst, NEInv, NETypeOK
<1>3. CASE \E q \in Reqs, t \in Docs \cup {NoEdit} : first' = [first EXCEPT ![q] = t]
  BY <1>3, NEDocsAssumption DEF NEInv, NETypeOK
<1>4. \A c \in Calls : Resume(c) \/ GetNextEdit(c) => UNCHANGED first
  BY ResumeEffect, GetNextEditEffect
<1>5. \A c \in Calls : CancelToken(c) \/ User(c) => UNCHANGED first
  BY DEF CancelToken, User, HandleShown, HandleRejection, HandleIgnored, HandleAcceptance, requestVars
<1>6. \A c \in Calls, q \in Reqs : CancellationTimer(c, q) => UNCHANGED first
  BY DEF CancellationTimer, requestVars
<1>7. \A d \in Docs : EditDocument(d) => UNCHANGED first
  BY DEF EditDocument, requestVars
<1>8. \A q \in Reqs : IssueFetch(q) \/ MoreEdits(q) => UNCHANGED first
  BY DEF IssueFetch, MoreEdits, requestVars
<1>9. \A q \in Reqs : EndStream(q) \/ EndSpeculative(q) => first' = [first EXCEPT ![q] = SettledFirst(q)]
  BY DEF EndStream, EndSpeculative
<1>10. \A q \in Reqs, t \in Docs \cup {NoEdit} : FirstEdit(q, t) => first' = [first EXCEPT ![q] = t]
  BY DEF FirstEdit
<1>11. UNCHANGED vars => UNCHANGED first
  BY DEF vars, requestVars
<1> QED BY <1>1, <1>2, <1>3, <1>4, <1>5, <1>6, <1>7, <1>8, <1>9, <1>10, <1>11 DEF Next

LEMMA StartsInSlot ==
  ASSUME NEInv, [Next]_vars, NEW r \in Specs, ~Running(r), Running(r)'
  PROVE  spec' = r
<1>1. r \in Reqs /\ r \notin Calls
  BY NECallsAssumption DEF Reqs
<1>2. ASSUME NEW c \in Calls, Resume(c) \/ GetNextEdit(c) PROVE stream'[r] = stream[r]
  <2>1. SlotEffect(c)
    BY <1>2, ResumeEffect, GetNextEditEffect
  <2> QED BY <1>1, <2>1 DEF SlotEffect, ExecuteNew, NEInv, NETypeOK
<1>3. ASSUME NEW q \in Reqs, FirstEdit(q, NoEdit) \/ EndSpeculative(q) \/ \E t \in Docs : FirstEdit(q, t)
      PROVE  FALSE
  <2>1. CASE EndSpeculative(q)
    BY <1>1, <2>1 DEF EndSpeculative, Running, NEInv, NETypeOK
  <2>2. CASE stream[q] = "fetching" /\ stream' = [stream EXCEPT ![q] = "editing"]
    BY <1>1, <2>2 DEF Running, NEInv, NETypeOK
  <2> QED BY <1>3, <2>1, <2>2 DEF FirstEdit
<1>4. ASSUME NEW c \in Calls, NEW p, NEW str, Trigger(c, p, str), str[r] = stream[r],
             str \in [Reqs -> {"none", "fetching", "editing", "ended"}]
      PROVE  spec' = r
  <2>1. \/ stream' = str
        \/ \E s \in Specs : spec' = s /\ stream' = [str EXCEPT ![s] = "fetching"]
    BY <1>4, TriggerKeeps
  <2> QED BY <1>1, <1>4, <2>1 DEF Running
<1>5. ASSUME NEW q \in Reqs, EndStream(q) PROVE spec' = r
  <2> DEFINE ended == [stream EXCEPT ![q] = "ended"]
  <2>1. q # r /\ ended[r] = stream[r] /\ ended \in [Reqs -> {"none", "fetching", "editing", "ended"}]
    BY <1>1, <1>5 DEF EndStream, NEInv, NETypeOK
  <2>2. \/ stream' = ended
        \/ scheduled \in Calls /\ \E p : Trigger(scheduled, p, ended)
    BY <1>5 DEF EndStream, NEInv, NETypeOK
  <2> HIDE DEF ended
  <2> QED BY <1>4, <2>1, <2>2 DEF Running
<1>6. ASSUME NEW c \in Calls, HandleShown(c) PROVE spec' = r
  <2>1. UNCHANGED stream \/ Trigger(c, pending, stream)
    BY <1>6 DEF HandleShown
  <2> QED BY <1>4, <2>1 DEF Running, NEInv, NETypeOK
<1>7. ASSUME \/ \E c \in Calls : \/ CancelToken(c) \/ HandleRejection(c) \/ HandleIgnored(c) \/ HandleAcceptance(c)
                                 \/ \E q \in Reqs : CancellationTimer(c, q)
             \/ \E d \in Docs : EditDocument(d)
             \/ \E q \in Reqs : IssueFetch(q) \/ MoreEdits(q)
             \/ UNCHANGED vars
      PROVE  stream' = stream
  BY <1>7 DEF CancelToken, HandleRejection, HandleIgnored, HandleAcceptance, CancellationTimer, EditDocument,
     IssueFetch, MoreEdits, requestVars, vars
<1> QED BY <1>2, <1>3, <1>5, <1>6, <1>7 DEF Next, User, Running

(* A hook on an unanswered speculative request goes only when another call *)
(* depends on the request or it is cancelled.                              *)
LEMMA HookedKept ==
  ASSUME NEInv, [Next]_vars, NEW r \in Specs, first'[r] = NoDoc, ~cancelled'[r], Hooked(r)
  PROVE  Hooked(r)'
<1> r \in Reqs
  BY DEF Reqs
<1>a. first[r] = NoDoc
  BY FirstStays
<1>1. CASE UNCHANGED hook
  BY <1>1 DEF Hooked
<1>2. ASSUME NEW A, NEW k \in Calls, NEW q \in Reqs, Hooking(A, {<<k, q>>}), q # r PROVE Hooked(r)'
  BY <1>2 DEF Hooking, Hooked
<1>3. ASSUME NEW A, Hooking(A, {}) PROVE Hooked(r)'
  BY <1>3 DEF Hooking, Hooked
<1>4. ASSUME NEW c \in Calls, Resume(c) PROVE Hooked(r)'
  <2>1. CASE OwnResult(c) \/ Delayed(c)
    BY <1>1, <2>1 DEF OwnResult, Delayed, hookVars
  <2>2. CASE JoinedResult(c) \/ RebasedResult(c) \/ EagerResult(c)
    <3>1. target[c] # r
      BY <1>a, <2>2 DEF JoinedResult, RebasedResult, EagerResult, Settled, NEInv, RequestsMade
    <3>2. target[c] \in Reqs
      BY <2>2 DEF JoinedResult, RebasedResult, EagerResult, NEInv, CallsPlaced, Waiting
    <3>3. \E A : Hooking(A, {<<c, target[c]>>})
      BY <2>2 DEF JoinedResult, RebasedResult, EagerResult
    <3> QED BY <1>2, <3>1, <3>2, <3>3
  <2> QED BY <1>4, <2>1, <2>2 DEF Resume
<1>5. ASSUME NEW c \in Calls, GetNextEdit(c) PROVE Hooked(r)'
  <2>1. UNCHANGED hook \/ \E A : Hooking(A, {})
    BY <1>5 DEF GetNextEdit, FromCache, JoinSpeculative, JoinPending, MakeRequest, hookVars
  <2> QED BY <1>1, <1>3, <2>1
<1>6. ASSUME NEW c \in Calls, CancelToken(c) PROVE Hooked(r)'
  <2>1. PICK k \in Calls : hook[<<k, r>>] \in {"live", "timer"}
    BY DEF Hooked
  <2>2. CASE hook[<<k, r>>] = "timer" \/ k # c
    <3>1. hook'[<<k, r>>] = hook[<<k, r>>]
      BY <1>6, <2>2 DEF CancelToken
    <3> QED BY <2>1, <3>1 DEF Hooked
  <2>3. CASE hook[<<c, r>>] = "live" /\ deps[r] > 1
    <3> DEFINE L == LiveHooks(r)
    <3>1. <<c, r>> \in L /\ Cardinality(L) > 1
      BY <2>3 DEF LiveHooks, NEInv, LiveDependants
    <3>2. Cardinality({<<c, r>>}) = 1
      BY FS_Singleton
    <3>3. PICK p \in L : p # <<c, r>>
      <4> HIDE DEF L
      <4> QED BY <3>1, <3>2, L # {<<c, r>>}
    <3>4. PICK j \in Calls : p = <<j, r>> /\ hook[<<j, r>>] = "live" /\ j # c
      BY <3>3 DEF LiveHooks
    <3>5. hook'[<<j, r>>] = "live"
      BY <1>6, <3>4 DEF CancelToken
    <3> QED BY <3>5 DEF Hooked
  <2>4. CASE hook[<<c, r>>] = "live" /\ ~(deps[r] > 1)
    <3>1. issued[r]
      <4> SUFFICES ASSUME ~issued[r] PROVE FALSE
        OBVIOUS
      <4> DEFINE live == {p \in {c} \X Reqs : hook[p] = "live"}
                 alone == {p \in live : ~OthersDepend(p)}
      <4>1. <<c, r>> \in alone
        BY <2>4 DEF OthersDepend
      <4>2. cancelled'[r] <=> cancelled[r] \/ r \in {p[2] : p \in {q \in alone : ~issued[q[2]]}}
        BY <1>6 DEF CancelToken, Cancelling
      <4> HIDE DEF live, alone
      <4>3. <<c, r>> \in {q \in alone : ~issued[q[2]]}
        BY <4>1
      <4> QED BY <4>2, <4>3
    <3>2. hook'[<<c, r>>] = "timer"
      BY <1>6, <2>4, <3>1 DEF CancelToken, OthersDepend
    <3> QED BY <3>2 DEF Hooked
  <2> QED BY <2>1, <2>2, <2>3, <2>4
<1>7. ASSUME NEW c \in Calls, NEW q \in Reqs, CancellationTimer(c, q) PROVE Hooked(r)'
  <2>1. hook' = [hook EXCEPT ![<<c, q>>] = "removed"]
    BY <1>7 DEF CancellationTimer
  <2>2. CASE q # r
    <3>1. PICK k \in Calls : hook[<<k, r>>] \in {"live", "timer"}
      BY DEF Hooked
    <3>2. hook'[<<k, r>>] = hook[<<k, r>>]
      BY <2>1, <2>2 DEF NEInv, NETypeOK
    <3> QED BY <3>1, <3>2 DEF Hooked
  <2>3. CASE q = r
    <3>1. deps[r] # 0 /\ hook[<<c, r>>] = "timer"
      BY <1>7, <2>3 DEF CancellationTimer, Cancelling
    <3>2. LiveHooks(r) # {}
      BY <3>1, FS_EmptySet DEF NEInv, LiveDependants
    <3>3. PICK j \in Calls : hook[<<j, r>>] = "live"
      BY <3>2 DEF LiveHooks
    <3>4. hook'[<<j, r>>] = "live"
      BY <2>1, <2>3, <3>1, <3>3 DEF NEInv, NETypeOK
    <3> QED BY <3>4 DEF Hooked
  <2> QED BY <2>2, <2>3
<1>8. ASSUME NEW q \in Reqs, EndStream(q) PROVE Hooked(r)'
  <2>1. q \in Calls /\ Hooking({}, {<<q, q>>}) /\ q # r
    BY <1>8, NECallsAssumption DEF EndStream
  <2> QED BY <1>2, <2>1
<1>9. CASE \/ \E c \in Calls : User(c)
           \/ \E d \in Docs : EditDocument(d)
           \/ \E q \in Reqs : \/ IssueFetch(q) \/ MoreEdits(q) \/ EndSpeculative(q)
                              \/ \E t \in Docs \cup {NoEdit} : FirstEdit(q, t)
           \/ UNCHANGED vars
  BY <1>1, <1>9 DEF User, HandleShown, HandleRejection, HandleIgnored, HandleAcceptance, EditDocument,
     IssueFetch, MoreEdits, EndSpeculative, FirstEdit, hookVars, vars
<1> QED BY <1>4, <1>5, <1>6, <1>7, <1>8, <1>9 DEF Next

(* It leaves its slot cancelled or joined. *)
LEMMA SlotKept ==
  ASSUME NEInv, [Next]_vars, NEW r \in Specs, spec = r, spec' # r
  PROVE  cancelled'[r] \/ Hooked(r)'
<1>1. r # NoId /\ r \in Reqs /\ r \in Replaced
  BY NECallsAssumption DEF Reqs, Replaced
<1>2. ASSUME NEW c \in Calls, Resume(c) \/ GetNextEdit(c) PROVE cancelled'[r] \/ Hooked(r)'
  <2>1. SlotEffect(c)
    BY <1>2, ResumeEffect, GetNextEditEffect
  <2>2. CASE hook'[<<c, r>>] = "live"
    BY <2>2 DEF Hooked
  <2>3. CASE \E p : ExecuteNew(c, p)
    BY <1>1, <2>3 DEF ExecuteNew, Cancelling, Superseded
  <2> QED BY <2>1, <2>2, <2>3 DEF SlotEffect
<1>3. ASSUME NEW q \in Reqs, EndStream(q) PROVE cancelled'[r]
  <2>1. scheduled \in Calls /\ \E p, str : Trigger(scheduled, p, str)
    BY <1>3 DEF EndStream, NEInv, NETypeOK
  <2> QED BY <1>1, <2>1, TriggerKeeps
<1>4. ASSUME NEW c \in Calls, HandleShown(c) PROVE cancelled'[r]
  <2>1. Trigger(c, pending, stream)
    BY <1>4 DEF HandleShown
  <2> QED BY <1>1, <2>1, TriggerKeeps
<1>5. ASSUME NEW c \in Calls, HandleRejection(c) \/ HandleIgnored(c) PROVE cancelled'[r]
  BY <1>1, <1>5 DEF HandleRejection, HandleIgnored, CancelSpeculative, Cancelling, slotVars
<1>6. ASSUME \/ \E c \in Calls : \/ CancelToken(c) \/ HandleAcceptance(c)
                                 \/ \E q \in Reqs : CancellationTimer(c, q)
             \/ \E d \in Docs : EditDocument(d)
             \/ \E q \in Reqs : \/ IssueFetch(q) \/ MoreEdits(q) \/ EndSpeculative(q)
                                \/ \E t \in Docs \cup {NoEdit} : FirstEdit(q, t)
             \/ UNCHANGED vars
      PROVE  FALSE
  BY <1>6 DEF CancelToken, HandleAcceptance, CancellationTimer, EditDocument, IssueFetch, MoreEdits,
     EndSpeculative, FirstEdit, slotVars, vars
<1> QED BY <1>2, <1>3, <1>4, <1>5, <1>6 DEF Next, User

LEMMA AccountedStep ==
  ASSUME NEInv, SpeculativeAccounted, [Next]_vars
  PROVE  SpeculativeAccounted'
<1> SUFFICES ASSUME NEW r \in Specs, Running(r)', ~cancelled'[r], first'[r] = NoDoc
             PROVE  r = spec' \/ Hooked(r)'
  BY DEF SpeculativeAccounted, Hooked
<1>1. CASE Hooked(r)
  BY <1>1, HookedKept
<1>2. CASE spec = r
  BY <1>2, SlotKept
<1>3. CASE spec # r /\ ~Hooked(r)
  <2>1. r \in Reqs /\ r \notin Calls
    BY NECallsAssumption DEF Reqs
  <2>2. cancelled[r] => cancelled'[r]
    BY <2>1, CancelledStays
  <2>3. ~Running(r)
    <3>1. CASE Running(r) /\ first[r] # NoDoc
      BY <2>1, <3>1, FirstStays
    <3>2. CASE Running(r) /\ first[r] = NoDoc
      BY <1>3, <2>2, <3>2 DEF SpeculativeAccounted, Hooked
    <3> QED BY <3>1, <3>2
  <2> QED BY <2>1, <2>3, StartsInSlot
<1> QED BY <1>1, <1>2, <1>3

(* A speculative request that has not answered is in its slot, cancelled   *)
(* or has a call that waits for it: none is left running to itself.        *)
THEOREM NoOrphanSpeculation == Spec => []SpeculativeAccounted
<1>1. Init => SpeculativeAccounted
  BY DEF Init, SpeculativeAccounted, Running, Reqs
<1>2. NEInv /\ SpeculativeAccounted /\ [Next]_vars => SpeculativeAccounted'
  BY AccountedStep
<1> QED BY <1>1, <1>2, Invariance, PTL DEF Spec
------------------------------------------------------------------------------
(***************************************************************************)
(* Offers fit the document.                                                *)
(***************************************************************************)
FitInv == RequestsFit /\ AnswerFitsDocument

(* A finished call has an edit for the content it was made at. *)
LEMMA FinishFits ==
  ASSUME NEInv, AnswerFitsDocument, NEW c \in Calls, NEW t, NEW a, NEW h, NEW f, NEW o,
         Finish(c, t, Edit(a, h, f, o)), o \in Calls => f = t
  PROVE  AnswerFitsDocument'
<1> DEFINE e == Edit(a, h, f, o)
<1>1. PICK w \in {"done", "delay"}, x \in {e, NoAnswer} :
        answer' = [answer EXCEPT ![c] = x] /\ (x # NoAnswer => x = e /\ doc = t)
  BY FinishEffect
<1>2. x # NoAnswer => x.before = doc /\ x.for = f /\ x.origin = o
  BY <1>1 DEF Edit
<1> QED BY <1>1, <1>2 DEF AnswerFitsDocument, OffersItsOwn, NEInv, NETypeOK

(* A step of the streams, the tokens or the user. *)
LEMMA QuietFit ==
  ASSUME NEInv, FitInv, UNCHANGED callVars,
         \A r \in Reqs : stream[r] # "none" => base'[r] = base[r],
         \A c \in Calls : stream[c] = "none" => stream'[c] = "none"
  PROVE  FitInv'
<1>1. AnswerFitsDocument'
  BY DEF FitInv, AnswerFitsDocument, OffersItsOwn, callVars
<1>2. RequestsFit'
  BY DEF FitInv, RequestsFit, NEInv, CallsPlaced, Waiting, callVars, Reqs
<1> QED BY <1>1, <1>2 DEF FitInv

LEMMA ResumeFits ==
  ASSUME NEInv, FitInv, NEW c \in Calls, Resume(c)
  PROVE  FitInv'
<1>1. CASE OwnResult(c)
  <2>1. AnswerFitsDocument'
    BY <1>1, FinishFits DEF OwnResult, ActiveDocument, FitInv
  <2>2. RequestsFit'
    BY <1>1 DEF OwnResult, Finish, Return, Goto, FitInv, RequestsFit, requestVars, NEInv, NETypeOK
  <2> QED BY <2>1, <2>2 DEF FitInv
<1>2. CASE JoinedResult(c)
  <2>1. target[c] \in Calls => at[target[c]] = at[c]
    BY <1>2 DEF JoinedResult, FitInv, RequestsFit, NEInv, CallsPlaced, Waiting
  <2>2. AnswerFitsDocument'
    BY <1>2, <2>1, FinishFits DEF JoinedResult, ActiveDocument, FitInv
  <2>3. RequestsFit'
    BY <1>2 DEF JoinedResult, Finish, Return, Goto, FitInv, RequestsFit, requestVars, NEInv, NETypeOK
  <2> QED BY <2>2, <2>3 DEF FitInv
<1>3. CASE RebasedResult(c)
  BY <1>3 DEF RebasedResult, FitInv, RequestsFit
<1>4. CASE EagerResult(c)
  <2>1. /\ \/ \E t : Finish(c, at[c], Edit(t, c, at[c], target[c]))
           \/ Return(c, NoAnswer)
           \/ Goto(c, "own") /\ UNCHANGED answer
        /\ UNCHANGED <<requestVars, at, target>>
    BY <1>4 DEF EagerResult
  <2>2. AnswerFitsDocument'
    <3>1. CASE \E t : Finish(c, at[c], Edit(t, c, at[c], target[c]))
      BY <3>1, FinishFits DEF FitInv
    <3>2. CASE Return(c, NoAnswer) \/ UNCHANGED answer
      BY <3>2 DEF Return, FitInv, AnswerFitsDocument, OffersItsOwn, NEInv, NETypeOK
    <3> QED BY <2>1, <3>1, <3>2
  <2>3. RequestsFit'
    BY <2>1 DEF Finish, Return, Goto, FitInv, RequestsFit, requestVars, NEInv, NETypeOK
  <2> QED BY <2>2, <2>3 DEF FitInv
<1>5. CASE Delayed(c)
  BY <1>5 DEF Delayed, Return, Goto, FitInv, RequestsFit, AnswerFitsDocument, OffersItsOwn, requestVars,
     NEInv, NETypeOK
<1> QED BY <1>1, <1>2, <1>3, <1>4, <1>5 DEF Resume

LEMMA GetNextEditFits ==
  ASSUME Eager = {TRUE}, NEInv, FitInv, NEW c \in Calls, GetNextEdit(c)
  PROVE  FitInv'
<1>1. at' = [at EXCEPT ![c] = doc] /\ stream[c] = "none" /\ c \in Reqs /\ pc[c] = "idle"
  BY DEF GetNextEdit, NEInv, CallsPlaced, Reqs
<1>2. CASE FromCache(c)
  <2>1. UNCHANGED <<base, stream, target>> /\ \A k \in Calls : pc'[k] = pc[k] \/ pc'[k] \in {"done", "delay"}
    BY <1>2 DEF FromCache, Finish, Return, Goto, NEInv, NETypeOK
  <2>2. RequestsFit'
    <3>1. pc'[c] \in {"done", "delay"}
      BY <1>2 DEF FromCache, Finish, Return, Goto, NEInv, NETypeOK
    <3> QED BY <1>1, <2>1, <3>1 DEF FitInv, RequestsFit, NEInv, NETypeOK
  <2>3. AnswerFitsDocument'
    <3>1. CASE Return(c, NoAnswer)
      BY <3>1 DEF Return, FitInv, AnswerFitsDocument, OffersItsOwn, NEInv, NETypeOK
    <3>2. CASE \E t, r : Finish(c, doc, Edit(t, r, IF r \in mixed THEN Mixed ELSE doc, r))
      <4>1. \A r : r \in Calls => r \notin mixed
        BY NECallsAssumption DEF NEInv, NETypeOK
      <4> QED BY <3>2, <4>1, FinishFits DEF FitInv
    <3> QED BY <1>2, <3>1, <3>2 DEF FromCache
  <2> QED BY <2>2, <2>3 DEF FitInv
<1>3. CASE spec # NoId /\ base[spec] = doc /\ JoinSpeculative(c)
  BY <1>1, <1>3 DEF JoinSpeculative, Goto, FitInv, RequestsFit, AnswerFitsDocument, OffersItsOwn, NEInv, NETypeOK
<1>4. CASE pending # NoId /\ JoinPending(c, TRUE)
  <2>1. pending \in Calls /\ pending # c /\ UNCHANGED answer /\ target' = [target EXCEPT ![c] = pending]
    BY <1>1, <1>4 DEF JoinPending, NEInv, NETypeOK, SlotsFilled, Running
  <2>2. CASE base[pending] = doc
    <3>1. Goto(c, "join") /\ UNCHANGED <<base, stream>>
      BY <1>4, <2>2 DEF JoinPending
    <3> QED BY <1>1, <2>1, <2>2, <3>1 DEF Goto, FitInv, RequestsFit, AnswerFitsDocument, OffersItsOwn,
              NEInv, NETypeOK
  <2>3. CASE base[pending] # doc
    <3>1. Goto(c, "eager") /\ base' = [base EXCEPT ![c] = doc] /\ stream' = [stream EXCEPT ![c] = "fetching"]
      BY <1>4, <2>3 DEF JoinPending, ExecuteNew
    <3>2. \A k \in Calls : pc[k] = "join" => target[k] \in Reqs \ {c}
      BY <1>1 DEF NEInv, CallsPlaced, Waiting
    <3> QED BY <1>1, <2>1, <3>1, <3>2 DEF Goto, FitInv, RequestsFit, AnswerFitsDocument, OffersItsOwn,
              NEInv, NETypeOK
  <2> QED BY <2>2, <2>3
<1>5. CASE MakeRequest(c)
  <2>1. /\ Goto(c, "own") /\ base' = [base EXCEPT ![c] = doc] /\ stream' = [stream EXCEPT ![c] = "fetching"]
        /\ UNCHANGED <<target, answer>>
    BY <1>5 DEF MakeRequest, ExecuteNew
  <2>2. \A k \in Calls : pc[k] = "join" => target[k] \in Reqs \ {c}
    BY <1>1 DEF NEInv, CallsPlaced, Waiting
  <2> QED BY <1>1, <2>1, <2>2 DEF Goto, FitInv, RequestsFit, AnswerFitsDocument, OffersItsOwn, NEInv, NETypeOK
<1> QED BY <1>2, <1>3, <1>4, <1>5 DEF GetNextEdit, Reusable

LEMMA FitStep ==
  ASSUME Eager = {TRUE}, NEInv, FitInv, [Next]_vars
  PROVE  FitInv'
<1>1. ASSUME NEW c \in Calls, Resume(c) \/ GetNextEdit(c) PROVE FitInv'
  BY <1>1, ResumeFits, GetNextEditFits
<1>2. ASSUME NEW q \in Reqs, \/ IssueFetch(q) \/ MoreEdits(q) \/ EndSpeculative(q)
                             \/ \E t \in Docs \cup {NoEdit} : FirstEdit(q, t)
      PROVE  FitInv'
  <2>1. UNCHANGED callVars /\ UNCHANGED base
    BY <1>2 DEF IssueFetch, MoreEdits, EndSpeculative, FirstEdit, requestVars
  <2>2. \A c \in Calls : stream[c] = "none" => stream'[c] = "none"
    <3>1. \/ UNCHANGED stream
          \/ stream[q] # "none" /\ \E x : stream' = [stream EXCEPT ![q] = x]
      BY <1>2 DEF IssueFetch, MoreEdits, EndSpeculative, FirstEdit, requestVars, Running
    <3> QED BY <3>1 DEF NEInv, NETypeOK, Reqs
  <2> QED BY <2>1, <2>2, QuietFit
<1>3. ASSUME NEW c \in Calls, NEW p, NEW str, Trigger(c, p, str), UNCHANGED callVars,
             str \in [Reqs -> {"none", "fetching", "editing", "ended"}],
             \A k \in Calls : stream[k] = "none" => str[k] = "none"
      PROVE  FitInv'
  <2>1. \/ stream' = str /\ base' = base
        \/ \E s \in Specs : /\ stream[s] = "none" /\ stream' = [str EXCEPT ![s] = "fetching"]
                            /\ \A r \in Reqs : r # s => base'[r] = base[r]
    BY <1>3, TriggerKeeps
  <2>2. \A k \in Calls, s \in Specs : k # s /\ k \in Reqs
    BY NECallsAssumption DEF Reqs
  <2>3. \A k \in Calls : stream[k] = "none" => stream'[k] = "none"
    BY <1>3, <2>1, <2>2
  <2>4. \A r \in Reqs : stream[r] # "none" => base'[r] = base[r]
    BY <2>1
  <2> QED BY <1>3, <2>3, <2>4, QuietFit
<1>4. ASSUME NEW q \in Reqs, EndStream(q) PROVE FitInv'
  <2> DEFINE ended == [stream EXCEPT ![q] = "ended"]
  <2>1. /\ ended \in [Reqs -> {"none", "fetching", "editing", "ended"}] /\ UNCHANGED callVars
        /\ \A k \in Calls : stream[k] = "none" => ended[k] = "none"
    BY <1>4 DEF EndStream, Running, NEInv, NETypeOK, Reqs
  <2>2. \/ stream' = ended /\ UNCHANGED base
        \/ scheduled \in Calls /\ \E p : Trigger(scheduled, p, ended)
    BY <1>4 DEF EndStream, NEInv, NETypeOK
  <2> HIDE DEF ended
  <2> QED BY <1>3, <2>1, <2>2, QuietFit
<1>5. ASSUME NEW c \in Calls, HandleShown(c) PROVE FitInv'
  <2>1. UNCHANGED <<stream, base>> \/ Trigger(c, pending, stream)
    BY <1>5 DEF HandleShown
  <2>2. UNCHANGED callVars
    BY <1>5 DEF HandleShown
  <2> QED BY <1>3, <2>1, <2>2, QuietFit DEF NEInv, NETypeOK
<1>6. CASE \/ \E c \in Calls : \/ CancelToken(c) \/ HandleRejection(c) \/ HandleIgnored(c) \/ HandleAcceptance(c)
                               \/ \E q \in Reqs : CancellationTimer(c, q)
           \/ \E d \in Docs : EditDocument(d)
           \/ UNCHANGED vars
  <2>1. UNCHANGED callVars /\ UNCHANGED <<base, stream>>
    BY <1>6 DEF CancelToken, HandleRejection, HandleIgnored, HandleAcceptance, CancellationTimer, EditDocument,
       requestVars, vars
  <2> QED BY <2>1, QuietFit
<1> QED BY <1>1, <1>2, <1>4, <1>5, <1>6 DEF Next, User

(* With eager backup requests, the edit of a regular request is offered    *)
(* only for the content it was computed for.                               *)
THEOREM RegularEditsFit ==
  ASSUME Eager = {TRUE} PROVE Spec => []AnswerFitsDocument
<1>1. Init => FitInv
  BY DEF Init, FitInv, RequestsFit, AnswerFitsDocument, OffersItsOwn, Reqs
<1>2. NEInv /\ FitInv /\ [Next]_vars => FitInv'
  BY FitStep
<1>3. FitInv => AnswerFitsDocument
  BY DEF FitInv
<1> QED BY <1>1, <1>2, <1>3, Invariance, PTL DEF Spec

------------------------------------------------------------------------------
(***************************************************************************)
(* Waiting calls keep their requests.                                      *)
(***************************************************************************)
\* A call whose token is alive is hooked on the request it waits for, until that ends.
HooksHeld ==
  \A c \in Calls, r \in Reqs :
    WaitsFor(c, r) /\ Running(r) /\ ~tokenDone[c] => hook[<<c, r>>] = "live"
NoBackups == doomed = {} /\ \A c \in Calls : pc[c] # "eager"

\* Calls that stay where they are keep their hooks, whatever streams end or begin.
LEMMA QuietHooks ==
  ASSUME NEInv, HooksHeld, UNCHANGED <<pc, target, tokenDone>>,
         \A c \in Calls, r \in Reqs : hook[<<c, r>>] = "live" =>
           hook'[<<c, r>>] = "live" \/ ~Running(r)',
         \A r \in Reqs : Running(r)' => Running(r) \/ stream[r] = "none"
  PROVE  HooksHeld'
<1>1. ASSUME NEW c \in Calls, NEW r \in Reqs, WaitsFor(c, r), Running(r)', ~tokenDone[c]
      PROVE  hook'[<<c, r>>] = "live"
  <2>1. stream[r] # "none"
    BY <1>1 DEF WaitsFor, NEInv, CallsPlaced, Waiting
  <2> QED BY <1>1, <2>1 DEF HooksHeld
<1> QED BY <1>1 DEF HooksHeld, WaitsFor

\* A call that goes on leaves the others as they are: it waits no more, or for the
\* request it is hooked on.
LEMMA GoingOnHooks ==
  ASSUME NEInv, HooksHeld, NEW c \in Calls, UNCHANGED tokenDone,
         \A k \in Calls : k # c => pc'[k] = pc[k] /\ target'[k] = target[k],
         \A k \in Calls, r \in Reqs : k # c /\ hook[<<k, r>>] = "live" => hook'[<<k, r>>] = "live",
         \A r \in Reqs : Running(r)' => Running(r) \/ r = c,
         stream[c] = "none" \/ UNCHANGED stream,
         \A r \in Reqs : WaitsFor(c, r)' /\ Running(r)' /\ ~tokenDone[c] => hook'[<<c, r>>] = "live"
  PROVE  HooksHeld'
<1>1. ASSUME NEW k \in Calls, NEW r \in Reqs, k # c, WaitsFor(k, r)', Running(r)', ~tokenDone[k]
      PROVE  hook'[<<k, r>>] = "live"
  <2>1. WaitsFor(k, r)
    BY <1>1 DEF WaitsFor
  <2>2. stream[r] # "none"
    BY <1>1, <2>1 DEF WaitsFor, NEInv, CallsPlaced, Waiting
  <2>3. Running(r)
    BY <1>1, <2>2 DEF Running
  <2> QED BY <1>1, <2>1, <2>3 DEF HooksHeld
<1> QED BY <1>1 DEF HooksHeld

\* What a call does when it is made or goes on.
LEMMA CallsGoOn ==
  ASSUME NEInv, HooksHeld, NEW c \in Calls, Resume(c) \/ GetNextEdit(c)
  PROVE  /\ UNCHANGED tokenDone /\ (UNCHANGED doomed \/ pc[c] = "eager")
         /\ \/ UNCHANGED cancelled /\ UNCHANGED stream
            \/ pc[c] = "eager" /\ Cancelling({c}) /\ UNCHANGED stream
            \/ stream[c] = "none" /\ \E p : ExecuteNew(c, p)
         /\ \A k \in Calls : k # c => pc'[k] = pc[k] /\ target'[k] = target[k]
         /\ \A k \in Calls, r \in Reqs : k # c /\ hook[<<k, r>>] = "live" => hook'[<<k, r>>] = "live"
         /\ pc'[c] = "eager" => TRUE \in Eager
         /\ \A r \in Reqs : WaitsFor(c, r)' /\ Running(r)' /\ ~tokenDone[c] => hook'[<<c, r>>] = "live"
<1> DEFINE Kept == \A k \in Calls, r \in Reqs :
                     k # c /\ hook[<<k, r>>] = "live" => hook'[<<k, r>>] = "live"
           Placed == /\ pc'[c] = "eager" => TRUE \in Eager
                     /\ \A r \in Reqs :
                          WaitsFor(c, r)' /\ Running(r)' /\ ~tokenDone[c] => hook'[<<c, r>>] = "live"
           Others == \A k \in Calls : k # c => pc'[k] = pc[k] /\ target'[k] = target[k]
<1>1. pc \in [Calls -> {"idle", "own", "join", "rebase", "eager", "delay", "done"}]
      /\ target \in [Calls -> Reqs \cup {NoId}] /\ c \in Reqs
  BY DEF NEInv, NETypeOK, Reqs
<1>2. ASSUME NEW w \in {"done", "delay"}, Goto(c, w), UNCHANGED target,
             UNCHANGED hook \/ \E r \in Reqs : Hooking({}, {<<c, r>>})
      PROVE  Kept /\ Placed /\ Others
  <2>1. pc'[c] = w /\ Others
    BY <1>1, <1>2 DEF Goto
  <2>2. Kept
    BY <1>2 DEF Hooking
  <2> QED BY <2>1, <2>2 DEF WaitsFor
<1>3. ASSUME NEW w \in {"join", "rebase"}, NEW q \in Reqs, NEW D \in SUBSET ({c} \X Reqs), Goto(c, w),
             target' = [target EXCEPT ![c] = q], Hooking({<<c, q>>}, D)
      PROVE  Kept /\ Placed /\ Others
  <2>1. pc'[c] = w /\ target'[c] = q /\ Others
    BY <1>1, <1>3 DEF Goto
  <2>2. Kept /\ hook'[<<c, q>>] = "live"
    BY <1>3 DEF Hooking
  <2> QED BY <2>1, <2>2 DEF WaitsFor
<1>4. ASSUME NEW D \in SUBSET ({c} \X Reqs), Goto(c, "own"), UNCHANGED target, Hooking({<<c, c>>}, D)
      PROVE  Kept /\ Placed /\ Others
  <2>1. pc'[c] = "own" /\ Others
    BY <1>1, <1>4 DEF Goto
  <2>2. Kept /\ hook'[<<c, c>>] = "live"
    BY <1>1, <1>4 DEF Hooking
  <2> QED BY <2>1, <2>2 DEF WaitsFor
<1>5. \A t, e : Finish(c, t, e) => \E w \in {"done", "delay"} : Goto(c, w)
  BY DEF Finish, Return
<1> HIDE DEF Kept, Placed, Others
<1>6. CASE OwnResult(c) \/ JoinedResult(c) \/ Delayed(c)
  <2>1. \E w \in {"done", "delay"} : Goto(c, w)
    BY <1>5, <1>6 DEF OwnResult, JoinedResult, Delayed, Return
  <2>2. target[c] \in Reqs \/ pc[c] \notin Waiting
    BY <1>1 DEF NEInv, CallsPlaced
  <2>3. UNCHANGED target /\ (UNCHANGED hook \/ \E r \in Reqs : Hooking({}, {<<c, r>>}))
    BY <1>6, <2>2 DEF OwnResult, JoinedResult, Delayed, hookVars, Waiting
  <2>4. UNCHANGED <<cancelled, stream, tokenDone, doomed>>
    BY <1>6 DEF OwnResult, JoinedResult, Delayed, requestVars
  <2> QED BY <1>2, <2>1, <2>3, <2>4 DEF Kept, Placed, Others
<1>7. CASE RebasedResult(c)
  <2>1. target[c] \in Reqs /\ stream[c] = "none" /\ UNCHANGED <<tokenDone, doomed>>
    BY <1>7 DEF RebasedResult, NEInv, CallsPlaced, Waiting
  <2>2. CASE /\ \E w \in {"done", "delay"} : Goto(c, w)
             /\ Hooking({}, {<<c, target[c]>>}) /\ UNCHANGED <<slotVars, base, stream, cancelled, target>>
    BY <1>2, <2>1, <2>2 DEF Kept, Placed, Others
  <2>3. CASE /\ Goto(c, "join") /\ pending # NoId /\ target' = [target EXCEPT ![c] = pending]
             /\ Hooking({<<c, pending>>}, {<<c, target[c]>>})
             /\ UNCHANGED <<slotVars, base, stream, cancelled, answer>>
    <3>1. pending \in Reqs /\ {<<c, target[c]>>} \in SUBSET ({c} \X Reqs)
      BY <2>1, <2>3 DEF NEInv, NETypeOK, Reqs
    <3>2. Kept /\ Placed /\ Others
      BY <1>3, <2>3, <3>1
    <3> QED BY <2>1, <2>3, <3>2 DEF Kept, Placed, Others
  <2>4. CASE Goto(c, "own") /\ ExecuteNew(c, pending) /\ Hooking({<<c, c>>}, {<<c, target[c]>>})
             /\ UNCHANGED <<target, answer>>
    <3>1. {<<c, target[c]>>} \in SUBSET ({c} \X Reqs)
      BY <2>1
    <3>2. Kept /\ Placed /\ Others
      BY <1>4, <2>4, <3>1
    <3> QED BY <2>1, <2>4, <3>2 DEF Kept, Placed, Others
  <2> QED BY <1>5, <1>7, <2>2, <2>3, <2>4 DEF RebasedResult, Return
<1>8. CASE EagerResult(c)
  <2>1. /\ target[c] \in Reqs /\ pc[c] = "eager"
        /\ UNCHANGED <<target, tokenDone, stream>> /\ Hooking({}, {<<c, target[c]>>})
    BY <1>8 DEF EagerResult, NEInv, CallsPlaced, Waiting, requestVars
  <2>2. UNCHANGED cancelled \/ Cancelling({c})
    BY <1>8 DEF EagerResult, CancelBackup
  <2>3. CASE \E w \in {"done", "delay"} : Goto(c, w)
    BY <1>2, <2>1, <2>2, <2>3 DEF Kept, Placed, Others
  <2>4. CASE Goto(c, "own") /\ ~tokenDone[c]
    <3>1. pc'[c] = "own" /\ Others
      BY <1>1, <2>1, <2>4 DEF Goto, Others
    <3>2. <<c, c>> # <<c, target[c]>>
      BY <2>1 DEF NEInv, CallsPlaced, Waiting
    <3>3. Kept /\ hook'[<<c, c>>] = hook[<<c, c>>]
      BY <1>1, <2>1, <3>2 DEF Hooking, Kept
    <3>4. Running(c) => hook[<<c, c>>] = "live"
      BY <1>1, <2>1, <2>4 DEF HooksHeld, WaitsFor
    <3>5. Placed
      BY <2>1, <3>1, <3>3, <3>4 DEF WaitsFor, Running, Placed
    <3> QED BY <2>1, <2>2, <3>1, <3>3, <3>5 DEF Kept, Placed, Others
  <2> QED BY <1>5, <1>8, <2>3, <2>4 DEF EagerResult, Return
<1>9. CASE GetNextEdit(c)
  <2>1. UNCHANGED <<tokenDone, doomed>> /\ stream[c] = "none" /\ pc[c] = "idle"
    BY <1>9 DEF GetNextEdit, NEInv, CallsPlaced
  <2>2. CASE FromCache(c)
    <3>1. \E w \in {"done", "delay"} : Goto(c, w)
      BY <1>5, <2>2 DEF FromCache, Return
    <3> QED BY <1>2, <2>1, <2>2, <3>1 DEF FromCache, hookVars, Kept, Placed, Others
  <2>3. CASE spec # NoId /\ JoinSpeculative(c)
    <3>1. spec \in Reqs
      BY <2>3 DEF NEInv, NETypeOK, Reqs
    <3> QED BY <1>3, <2>1, <2>3, <3>1 DEF JoinSpeculative, Kept, Placed, Others
  <2>4. ASSUME NEW eager \in Eager, pending # NoId, JoinPending(c, eager)
        PROVE  ((UNCHANGED cancelled /\ UNCHANGED stream) \/ (\E p : ExecuteNew(c, p))) /\ Kept /\ Placed /\ Others
    <3>1. pending \in Reqs
      BY <2>4 DEF NEInv, NETypeOK, Reqs
    <3>2. CASE base[pending] # doc /\ eager
      <4>1. /\ Goto(c, "eager") /\ ExecuteNew(c, NoId) /\ Hooking({<<c, c>>, <<c, pending>>}, {})
            /\ target' = [target EXCEPT ![c] = pending] /\ TRUE \in Eager
        BY <2>4, <3>2, NEConfigAssumption DEF JoinPending
      <4>2. pc'[c] = "eager" /\ target'[c] = pending /\ Others
        BY <1>1, <4>1 DEF Goto, Others
      <4>3. Kept /\ hook'[<<c, c>>] = "live" /\ hook'[<<c, pending>>] = "live"
        BY <1>1, <3>1, <4>1 DEF Hooking, Kept
      <4>4. Placed
        BY <4>1, <4>2, <4>3 DEF WaitsFor, Placed
      <4> QED BY <4>1, <4>2, <4>3, <4>4
    <3>3. CASE ~(base[pending] # doc /\ eager)
      <4>1. \E w \in {"join", "rebase"} : Goto(c, w)
        BY <2>4, <3>3 DEF JoinPending
      <4> QED BY <1>3, <2>4, <3>1, <3>3, <4>1 DEF JoinPending, Kept, Placed, Others
    <3> QED BY <3>2, <3>3
  <2>5. CASE MakeRequest(c)
    BY <1>4, <2>1, <2>5 DEF MakeRequest, Kept, Placed, Others
  <2>6. \/ FromCache(c) \/ (spec # NoId /\ JoinSpeculative(c)) \/ MakeRequest(c)
        \/ \E eager \in Eager : pending # NoId /\ JoinPending(c, eager)
    BY <1>9 DEF GetNextEdit, Reusable
  <2> QED BY <2>1, <2>2, <2>3, <2>4, <2>5, <2>6 DEF Kept, Placed, Others
<1> QED BY <1>6, <1>7, <1>8, <1>9 DEF Resume

LEMMA WaitStep ==
  ASSUME NEInv, HooksHeld, [Next]_vars
  PROVE  HooksHeld'
<1>1. ASSUME NEW c \in Calls, Resume(c) \/ GetNextEdit(c) PROVE HooksHeld'
  <2>1. UNCHANGED stream \/ (stream[c] = "none" /\ \E p : ExecuteNew(c, p))
    BY <1>1, CallsGoOn
  <2>2. \A r \in Reqs : Running(r)' => Running(r) \/ r = c
    BY <2>1 DEF ExecuteNew, Running, NEInv, NETypeOK
  <2>3. stream[c] = "none" \/ UNCHANGED stream
    BY <2>1
  <2> QED BY <1>1, <2>2, <2>3, CallsGoOn, GoingOnHooks
<1>2. ASSUME NEW c \in Calls, NEW p, NEW str, Trigger(c, p, str),
             UNCHANGED <<pc, target, tokenDone>>,
             str \in [Reqs -> {"none", "fetching", "editing", "ended"}],
             \A r \in Reqs : str[r] \in {"fetching", "editing"} => Running(r),
             \A k \in Calls, r \in Reqs : hook[<<k, r>>] = "live" =>
               hook'[<<k, r>>] = "live" \/ (r \in Calls /\ str[r] = "ended")
      PROVE  HooksHeld'
  <2>1. \/ stream' = str
        \/ \E s \in Specs : stream[s] = "none" /\ stream' = [str EXCEPT ![s] = "fetching"]
    BY <1>2, TriggerKeeps
  <2>2. \A r \in Reqs : Running(r)' => Running(r) \/ stream[r] = "none"
    BY <1>2, <2>1 DEF Running, Reqs
  <2>3. \A r \in Calls : stream'[r] = str[r]
    BY <1>2, <2>1, NECallsAssumption DEF Reqs
  <2>4. \A k \in Calls, r \in Reqs : hook[<<k, r>>] = "live" =>
          hook'[<<k, r>>] = "live" \/ ~Running(r)'
    BY <1>2, <2>3 DEF Running
  <2> QED BY <1>2, <2>2, <2>4, QuietHooks
<1>3. ASSUME NEW q \in Reqs, EndStream(q) PROVE HooksHeld'
  <2> DEFINE ended == [stream EXCEPT ![q] = "ended"]
  <2>1. /\ q \in Calls /\ UNCHANGED <<pc, target, tokenDone>>
        /\ Hooking({}, {<<q, q>>})
    BY <1>3 DEF EndStream, callVars
  <2>2. /\ ended \in [Reqs -> {"none", "fetching", "editing", "ended"}] /\ ended[q] = "ended"
        /\ \A r \in Reqs : ended[r] \in {"fetching", "editing"} => Running(r)
    BY DEF NEInv, NETypeOK, Running
  <2>3. \A k \in Calls, r \in Reqs : hook[<<k, r>>] = "live" => hook'[<<k, r>>] = "live" \/ r = q
    BY <2>1 DEF Hooking
  <2>4. \/ stream' = ended
        \/ scheduled \in Calls /\ \E p : Trigger(scheduled, p, ended)
    BY <1>3 DEF EndStream, NEInv, NETypeOK
  <2> HIDE DEF ended
  <2>5. CASE stream' = ended
    <3>1. \A r \in Reqs : Running(r)' => Running(r) \/ stream[r] = "none"
      BY <2>2, <2>5 DEF Running
    <3>2. ~Running(q)'
      BY <2>2, <2>5 DEF Running
    <3> QED BY <2>1, <2>3, <3>1, <3>2, QuietHooks
  <2> QED BY <1>2, <2>1, <2>2, <2>3, <2>4, <2>5
<1>4. ASSUME NEW c \in Calls, HandleShown(c) PROVE HooksHeld'
  <2>1. UNCHANGED <<pc, target, tokenDone, hook>>
    BY <1>4 DEF HandleShown, callVars, hookVars
  <2>2. CASE UNCHANGED stream
    BY <2>1, <2>2, QuietHooks DEF Running
  <2>3. CASE Trigger(c, pending, stream)
    <3>1. /\ stream \in [Reqs -> {"none", "fetching", "editing", "ended"}]
          /\ \A r \in Reqs : stream[r] \in {"fetching", "editing"} => Running(r)
      BY DEF NEInv, NETypeOK, Running
    <3> QED BY <1>2, <2>1, <2>3, <3>1
  <2> QED BY <1>4, <2>2, <2>3 DEF HandleShown
<1>5. ASSUME NEW c \in Calls, CancelToken(c) PROVE HooksHeld'
  <2>1. /\ tokenDone' = [tokenDone EXCEPT ![c] = TRUE]
        /\ UNCHANGED <<pc, target, stream>>
        /\ \A k \in Calls, r \in Reqs : k # c => hook'[<<k, r>>] = hook[<<k, r>>]
    BY <1>5 DEF CancelToken, callVars, requestVars
  <2>2. tokenDone'[c] /\ \A k \in Calls : k # c => tokenDone'[k] = tokenDone[k]
    BY <2>1 DEF NEInv, NETypeOK
  <2> QED BY <2>1, <2>2 DEF HooksHeld, WaitsFor, Running
<1>6. ASSUME NEW c \in Calls, NEW q \in Reqs, CancellationTimer(c, q) PROVE HooksHeld'
  <2>1. /\ hook[<<c, q>>] = "timer" /\ UNCHANGED <<pc, target, tokenDone, stream>>
        /\ hook' = [hook EXCEPT ![<<c, q>>] = "removed"]
    BY <1>6 DEF CancellationTimer, callVars, requestVars
  <2>2. \A k \in Calls, r \in Reqs : hook[<<k, r>>] = "live" => hook'[<<k, r>>] = "live"
    BY <2>1 DEF NEInv, NETypeOK
  <2> QED BY <2>1, <2>2, QuietHooks DEF Running
<1>7. ASSUME NEW q \in Reqs, \/ IssueFetch(q) \/ MoreEdits(q) \/ EndSpeculative(q)
                             \/ \E t \in Docs \cup {NoEdit} : FirstEdit(q, t)
      PROVE  HooksHeld'
  <2>1. UNCHANGED <<pc, target, tokenDone, hook>>
    BY <1>7 DEF IssueFetch, MoreEdits, EndSpeculative, FirstEdit, callVars, hookVars
  <2>2. \/ UNCHANGED stream
        \/ Running(q) /\ \E x : stream' = [stream EXCEPT ![q] = x]
    BY <1>7 DEF IssueFetch, MoreEdits, EndSpeculative, FirstEdit, requestVars, Running
  <2>3. \A r \in Reqs : Running(r)' => Running(r)
    BY <2>2 DEF Running, NEInv, NETypeOK
  <2> QED BY <2>1, <2>3, QuietHooks
<1>8. CASE \/ \E c \in Calls : HandleRejection(c) \/ HandleIgnored(c) \/ HandleAcceptance(c)
           \/ \E d \in Docs : EditDocument(d)
           \/ UNCHANGED vars
  <2>1. UNCHANGED <<pc, target, tokenDone, hook, stream>>
    BY <1>8 DEF HandleRejection, HandleIgnored, HandleAcceptance, EditDocument, callVars, hookVars,
       requestVars, vars
  <2> QED BY <2>1, QuietHooks DEF Running
<1> QED BY <1>1, <1>3, <1>4, <1>5, <1>6, <1>7, <1>8 DEF Next, User

\* A request that others depend on is not cancelled with the token of one of its calls.
LEMMA OthersCount ==
  ASSUME NEInv, NEW c \in Calls, NEW k \in Calls, NEW r \in Reqs, c # k,
         hook[<<c, r>>] = "live", hook[<<k, r>>] = "live"
  PROVE  deps[r] > 1
<1> DEFINE L == LiveHooks(r)
<1>1. IsFiniteSet(L) /\ {<<c, r>>, <<k, r>>} \subseteq L
  BY HooksFinite, FS_Subset DEF LiveHooks
<1>2. Cardinality({<<c, r>>}) = 1 /\ IsFiniteSet({<<c, r>>})
  BY FS_Singleton
<1>3. Cardinality({<<c, r>>} \cup {<<k, r>>}) = 2
  BY <1>2, FS_AddElement
<1>4. deps[r] = Cardinality(L)
  BY DEF NEInv, LiveDependants
<1> HIDE DEF L
<1>5. Cardinality({<<c, r>>} \cup {<<k, r>>}) <= Cardinality(L) /\ Cardinality(L) \in Nat
  BY <1>1, FS_Subset, FS_CardinalityType, {<<c, r>>} \cup {<<k, r>>} \in SUBSET L
<1> QED BY <1>3, <1>4, <1>5

LEMMA SparedStep ==
  ASSUME NEInv, HooksHeld, [Next]_vars, NEW r \in Reqs, NEW c \in Calls,
         cancelled'[r], ~cancelled[r], Running(r), WaitsFor(c, r),
         pending' = pending, spec' = spec, doc' = doc
  PROVE  tokenDone'[c] \/ IsBackup(r)
<1> SUFFICES ASSUME ~tokenDone'[c], ~IsBackup(r) PROVE FALSE
  OBVIOUS
<1>1. ~tokenDone[c]
  <2>1. ASSUME NEW k \in Calls, CancelToken(k) PROVE tokenDone[c] => tokenDone'[c]
    BY <2>1 DEF CancelToken, NEInv, NETypeOK
  <2>2. ASSUME NEW k \in Calls, Resume(k) \/ GetNextEdit(k) PROVE UNCHANGED tokenDone
    BY <2>2, CallsGoOn
  <2>3. CASE ~\E k \in Calls : CancelToken(k) \/ Resume(k) \/ GetNextEdit(k)
    BY <2>3 DEF Next, User, CancellationTimer, EditDocument, HandleShown, HandleRejection, HandleIgnored,
       HandleAcceptance, IssueFetch, MoreEdits, EndStream, EndSpeculative, FirstEdit, callVars, vars
  <2> QED BY <2>1, <2>2, <2>3
<1>2. hook[<<c, r>>] = "live"
  BY <1>1 DEF HooksHeld
<1>3. ASSUME NEW k \in Calls, Resume(k) \/ GetNextEdit(k) PROVE FALSE
  <2>0. ~(pc[k] = "eager" /\ Cancelling({k}))
    BY DEF Cancelling, IsBackup
  <2>1. stream[k] = "none" /\ pending = k
    BY <1>3, <2>0, CallsGoOn DEF ExecuteNew
  <2>2. k # NoId
    BY NECallsAssumption
  <2> QED BY <2>1, <2>2 DEF NEInv, SlotsFilled, Running
<1>4. ASSUME NEW k \in Calls, NEW p, NEW str, Trigger(k, p, str), UNCHANGED cancelled \/ Cancelling(Replaced)
      PROVE FALSE
  <2>1. r \in Replaced
    BY <1>4 DEF Cancelling
  <2>2. spec # NoId /\ r = spec
    BY <2>1 DEF Replaced
  <2>3. spec' = NoId \/ \E s \in Specs : stream[s] = "none" /\ spec' = s
    BY <1>4 DEF Trigger
  <2> QED BY <2>2, <2>3 DEF NEInv, SlotsFilled
<1>5. ASSUME NEW q \in Reqs, EndStream(q) PROVE FALSE
  <2>1. scheduled \in Calls /\ \E p, str : Trigger(scheduled, p, str)
    BY <1>5 DEF EndStream, NEInv, NETypeOK
  <2> QED BY <1>4, <2>1 DEF Trigger
<1>6. ASSUME NEW k \in Calls, HandleShown(k) PROVE FALSE
  BY <1>4, <1>6 DEF HandleShown, Trigger
<1>7. ASSUME NEW k \in Calls, HandleRejection(k) \/ HandleIgnored(k) PROVE FALSE
  <2>1. r \in Replaced /\ spec' = NoId
    BY <1>7 DEF HandleRejection, HandleIgnored, CancelSpeculative, Cancelling
  <2> QED BY <2>1 DEF Replaced
<1>8. ASSUME NEW k \in Calls, CancelToken(k) PROVE FALSE
  <2>1. k # c
    BY <1>8 DEF CancelToken, NEInv, NETypeOK
  <2> DEFINE live == {p \in {k} \X Reqs : hook[p] = "live"}
             alone == {p \in live : ~OthersDepend(p)}
             R == {p[2] : p \in {q \in alone : ~issued[q[2]]}}
  <2>a. Cancelling(R)
    BY <1>8 DEF CancelToken
  <2>b. r \in R
    <3> HIDE DEF R
    <3> QED BY <2>a DEF Cancelling
  <2>c. PICK p \in alone : r = p[2]
    BY <2>b
  <2>d. p = <<k, r>>
    BY <2>c
  <2>2. hook[<<k, r>>] = "live" /\ ~OthersDepend(<<k, r>>)
    BY <2>c, <2>d
  <2> QED BY <1>2, <2>1, <2>2, OthersCount DEF OthersDepend
<1>9. ASSUME NEW k \in Calls, NEW q \in Reqs, CancellationTimer(k, q) PROVE FALSE
  <2>1. deps[r] = 0
    BY <1>9 DEF CancellationTimer, Cancelling
  <2>2. LiveHooks(r) = {}
    BY <2>1, HooksFinite, FS_Subset, FS_EmptySet DEF NEInv, LiveDependants, LiveHooks
  <2> QED BY <1>2, <2>2 DEF LiveHooks
<1>10. CASE \/ \E k \in Calls : HandleAcceptance(k)
            \/ \E d \in Docs : EditDocument(d)
            \/ \E q \in Reqs : \/ IssueFetch(q) \/ MoreEdits(q) \/ EndSpeculative(q)
                               \/ \E t \in Docs \cup {NoEdit} : FirstEdit(q, t)
            \/ UNCHANGED vars
  BY <1>10 DEF HandleAcceptance, EditDocument, IssueFetch, MoreEdits, EndSpeculative, FirstEdit, Cancelling,
     IsBackup, vars
<1> QED BY <1>3, <1>5, <1>6, <1>7, <1>8, <1>9, <1>10 DEF Next, User

LEMMA HooksAlwaysHeld == Spec => []HooksHeld
<1>1. Init => HooksHeld
  BY DEF Init, HooksHeld, WaitsFor
<1>2. NEInv /\ HooksHeld /\ [Next]_vars => HooksHeld'
  BY WaitStep
<1> QED BY <1>1, <1>2, Invariance, PTL DEF Spec

(* A request that a call with a live token waits for is cancelled only when *)
(* it is superseded, its document changes, or it is a backup whose own     *)
(* call does not need it (nextEditProvider.ts:578), whoever else has       *)
(* joined it or left it.                                                   *)
THEOREM OnlyBackupsAreDropped == Spec => OnlyBackupsDropped
<1>1. NEInv /\ HooksHeld /\ [Next]_vars => [SparedOrBackup]_vars
  BY SparedStep DEF SparedOrBackup
<1> QED BY <1>1, HooksAlwaysHeld, Invariance, PTL DEF Spec, OnlyBackupsDropped

\* Only its own steps move a call.
LEMMA PlacesKept ==
  ASSUME [Next]_vars, ~\E c \in Calls : Resume(c) \/ GetNextEdit(c)
  PROVE  UNCHANGED <<pc, doomed>>
<1>1. \A c \in Calls : CancelToken(c) => UNCHANGED <<pc, doomed>>
  BY DEF CancelToken, callVars
<1>2. \A c \in Calls : User(c) => UNCHANGED <<pc, doomed>>
  BY DEF User, HandleShown, HandleRejection, HandleIgnored, HandleAcceptance, callVars
<1>3. \A c \in Calls, q \in Reqs : CancellationTimer(c, q) => UNCHANGED <<pc, doomed>>
  BY DEF CancellationTimer, callVars
<1>4. \A d \in Docs : EditDocument(d) => UNCHANGED <<pc, doomed>>
  BY DEF EditDocument, callVars
<1>5. \A q \in Reqs : IssueFetch(q) \/ MoreEdits(q) \/ EndSpeculative(q) => UNCHANGED <<pc, doomed>>
  BY DEF IssueFetch, MoreEdits, EndSpeculative, callVars
<1>6. \A q \in Reqs : EndStream(q) => UNCHANGED <<pc, doomed>>
  BY DEF EndStream, callVars
<1>7. \A q \in Reqs, t \in Docs \cup {NoEdit} : FirstEdit(q, t) => UNCHANGED <<pc, doomed>>
  BY DEF FirstEdit, callVars
<1>8. UNCHANGED vars => UNCHANGED <<pc, doomed>>
  BY DEF vars, callVars
<1> QED BY <1>1, <1>2, <1>3, <1>4, <1>5, <1>6, <1>7, <1>8 DEF Next

\* Nobody makes backup requests where they are not eager.
LEMMA NoBackupsStep ==
  ASSUME Eager = {FALSE}, NEInv, HooksHeld, NoBackups, [Next]_vars
  PROVE  NoBackups'
<1>1. ASSUME NEW c \in Calls, Resume(c) \/ GetNextEdit(c) PROVE NoBackups'
  <2>1. UNCHANGED doomed /\ pc'[c] # "eager" /\ \A k \in Calls : k # c => pc'[k] = pc[k]
    BY <1>1, CallsGoOn DEF NoBackups
  <2> QED BY <2>1 DEF NoBackups
<1>2. CASE ~\E c \in Calls : Resume(c) \/ GetNextEdit(c)
  <2>1. UNCHANGED <<pc, doomed>>
    BY <1>2, PlacesKept
  <2> QED BY <2>1 DEF NoBackups
<1> QED BY <1>1, <1>2

(* Without eager backup requests, a request that a call with a live token  *)
(* waits for is cancelled only when it is superseded or its document       *)
(* changes, whoever else has joined or left it.                            *)
THEOREM WaitingCallsKeepTheirRequest ==
  ASSUME Eager = {FALSE} PROVE Spec => WaitersSpared
<1>1. Init => NoBackups
  BY DEF Init, NoBackups
<1>2. NEInv /\ HooksHeld /\ NoBackups /\ [Next]_vars => NoBackups'
  BY NoBackupsStep
<1>3. NoBackups => \A r \in Reqs : ~IsBackup(r)
  BY DEF NoBackups, IsBackup
<1>4. ASSUME NEInv, HooksHeld, NoBackups, [Next]_vars
      PROVE  [\A r \in Reqs, c \in Calls :
                /\ cancelled'[r] /\ ~cancelled[r] /\ Running(r) /\ WaitsFor(c, r)
                /\ pending' = pending /\ spec' = spec /\ doc' = doc
                => tokenDone'[c]]_vars
  BY <1>3, <1>4, SparedStep
<1> QED BY <1>1, <1>2, <1>4, HooksAlwaysHeld, Invariance, PTL DEF Spec, WaitersSpared
------------------------------------------------------------------------------
(***************************************************************************)
(* Why every call returns.                                                 *)
(***************************************************************************)
PlacesRanked ==
  /\ PlaceRank["idle"] = 5 /\ PlaceRank["rebase"] = 4 /\ PlaceRank["eager"] = 4
  /\ PlaceRank["join"] = 3 /\ PlaceRank["own"] = 2 /\ PlaceRank["delay"] = 1
  /\ PlaceRank["done"] = 0
  /\ StreamRank["none"] = 3 /\ StreamRank["fetching"] = 2 /\ StreamRank["editing"] = 1
  /\ StreamRank["ended"] = 0
LEMMA PlaceRanks == PlacesRanked
BY DEF PlacesRanked, PlaceRank, StreamRank

\* A call that goes on goes to a later place.
LEMMA GoesFurther ==
  ASSUME NEInv, NEW c \in Calls, Resume(c) \/ GetNextEdit(c)
  PROVE  /\ PlaceRank[pc'[c]] < PlaceRank[pc[c]]
         /\ \A k \in Calls : k # c => pc'[k] = pc[k]
<1> DEFINE Goes(w) == Goto(c, w) /\ PlaceRank[w] < PlaceRank[pc[c]]
<1>1. pc \in [Calls -> {"idle", "own", "join", "rebase", "eager", "delay", "done"}]
  BY DEF NEInv, NETypeOK
<1>2. \A t, e : Finish(c, t, e) => Goto(c, "done") \/ Goto(c, "delay")
  BY DEF Finish, Return
<1>3. OwnResult(c) => \E w : Goes(w)
  BY <1>2, PlaceRanks DEF OwnResult, PlacesRanked
<1>4. JoinedResult(c) => \E w : Goes(w)
  BY <1>2, PlaceRanks DEF JoinedResult, PlacesRanked
<1>5. RebasedResult(c) => \E w : Goes(w)
  BY <1>2, PlaceRanks DEF RebasedResult, Return, PlacesRanked
<1>6. EagerResult(c) => \E w : Goes(w)
  BY <1>2, PlaceRanks DEF EagerResult, Return, PlacesRanked
<1>7. Delayed(c) => \E w : Goes(w)
  BY PlaceRanks DEF Delayed, Return, PlacesRanked
<1>8. GetNextEdit(c) => \E w : Goes(w)
  <2> SUFFICES ASSUME GetNextEdit(c) PROVE \E w : Goes(w)
    OBVIOUS
  <2>1. \E w \in {"own", "join", "rebase", "eager", "delay", "done"} : Goto(c, w)
    BY <1>2 DEF GetNextEdit, FromCache, JoinSpeculative, JoinPending, MakeRequest, Return
  <2> QED BY <2>1, PlaceRanks DEF GetNextEdit, PlacesRanked
<1>9. PICK w : Goes(w)
  BY <1>3, <1>4, <1>5, <1>6, <1>7, <1>8 DEF Resume
<1> QED BY <1>1, <1>9 DEF Goto

\* Streams begin, have an edit and end, in that order, whoever makes the step.
LEMMA StreamsGoOn ==
  ASSUME NEInv, [Next]_vars
  PROVE  \A r \in Reqs :
           /\ stream[r] = "fetching" => stream'[r] # "none"
           /\ stream[r] = "editing" => stream'[r] \in {"editing", "ended"}
           /\ stream[r] = "ended" => stream'[r] = "ended"
<1> DEFINE Forward(str) ==
             \A r \in Reqs :
               /\ stream[r] = "fetching" => str[r] # "none"
               /\ stream[r] = "editing" => str[r] \in {"editing", "ended"}
               /\ stream[r] = "ended" => str[r] = "ended"
<1>1. stream \in [Reqs -> {"none", "fetching", "editing", "ended"}]
  BY DEF NEInv, NETypeOK
<1>2. ASSUME NEW r \in Reqs, stream[r] = "none" /\ stream' = [stream EXCEPT ![r] = "fetching"]
      PROVE  Forward(stream')
  BY <1>1, <1>2
<1>3. ASSUME NEW r \in Reqs, Running(r) PROVE Forward([stream EXCEPT ![r] = "ended"])
  BY <1>1, <1>3 DEF Running
<1>4. ASSUME NEW c \in Calls, NEW p, NEW str, Forward(str), str \in [Reqs -> {"none", "fetching", "editing", "ended"}],
             Trigger(c, p, str)
      PROVE  Forward(stream')
  <2>1. \/ stream' = str
        \/ \E s \in Specs : stream[s] = "none" /\ stream' = [str EXCEPT ![s] = "fetching"]
    BY <1>4, TriggerKeeps
  <2> QED BY <1>4, <2>1
<1>5. UNCHANGED stream => Forward(stream')
  BY <1>1
<1>6. ASSUME NEW c \in Calls, Resume(c) \/ GetNextEdit(c) PROVE Forward(stream')
  <2>1. SlotEffect(c)
    BY <1>6, ResumeEffect, GetNextEditEffect
  <2>2. UNCHANGED stream \/ (stream[c] = "none" /\ stream' = [stream EXCEPT ![c] = "fetching"])
    BY <2>1 DEF SlotEffect, ExecuteNew
  <2> QED BY <1>2, <1>5, <2>2 DEF Reqs
<1>7. ASSUME NEW r \in Reqs, EndStream(r) PROVE Forward(stream')
  <2>1. Forward([stream EXCEPT ![r] = "ended"])
    BY <1>3, <1>7 DEF EndStream
  <2>2. [stream EXCEPT ![r] = "ended"] \in [Reqs -> {"none", "fetching", "editing", "ended"}]
    BY <1>1
  <2>3. \/ stream' = [stream EXCEPT ![r] = "ended"]
        \/ scheduled \in Calls /\ \E p : Trigger(scheduled, p, [stream EXCEPT ![r] = "ended"])
    BY <1>7 DEF EndStream, NEInv, NETypeOK
  <2> HIDE DEF Forward
  <2> QED BY <1>4, <2>1, <2>2, <2>3
<1>8. ASSUME NEW r \in Reqs, EndSpeculative(r) PROVE Forward(stream')
  <2>1. Running(r) /\ stream' = [stream EXCEPT ![r] = "ended"]
    BY <1>8 DEF EndSpeculative
  <2> QED BY <1>3, <2>1
<1>9. ASSUME NEW r \in Reqs, NEW t, FirstEdit(r, t) PROVE Forward(stream')
  BY <1>1, <1>9 DEF FirstEdit
<1>10. ASSUME NEW c \in Calls, HandleShown(c) PROVE Forward(stream')
  <2>1. Forward(stream) /\ stream \in [Reqs -> {"none", "fetching", "editing", "ended"}]
    BY <1>1
  <2>2. UNCHANGED stream \/ Trigger(c, pending, stream)
    BY <1>10 DEF HandleShown
  <2> HIDE DEF Forward
  <2> QED BY <1>4, <1>5, <2>1, <2>2
<1>11. /\ \A c \in Calls : CancelToken(c) \/ HandleRejection(c) \/ HandleIgnored(c) \/ HandleAcceptance(c) =>
              UNCHANGED stream
       /\ \A c \in Calls, q \in Reqs : CancellationTimer(c, q) => UNCHANGED stream
       /\ \A d \in Docs : EditDocument(d) => UNCHANGED stream
       /\ \A q \in Reqs : IssueFetch(q) \/ MoreEdits(q) => UNCHANGED stream
       /\ UNCHANGED vars => UNCHANGED stream
  <2>1. \A c \in Calls : CancelToken(c) => UNCHANGED stream
    BY DEF CancelToken, requestVars
  <2>2. \A c \in Calls : HandleRejection(c) \/ HandleIgnored(c) \/ HandleAcceptance(c) => UNCHANGED stream
    BY DEF HandleRejection, HandleIgnored, HandleAcceptance, requestVars
  <2>3. \A c \in Calls, q \in Reqs : CancellationTimer(c, q) => UNCHANGED stream
    BY DEF CancellationTimer, requestVars
  <2>4. \A d \in Docs : EditDocument(d) => UNCHANGED stream
    BY DEF EditDocument, requestVars
  <2>5. \A q \in Reqs : IssueFetch(q) \/ MoreEdits(q) => UNCHANGED stream
    BY DEF IssueFetch, MoreEdits, requestVars
  <2>6. UNCHANGED vars => UNCHANGED stream
    BY DEF vars, requestVars
  <2> QED BY <2>1, <2>2, <2>3, <2>4, <2>5, <2>6
<1> HIDE DEF Forward
<1>12. Forward(stream')
  BY <1>5, <1>6, <1>7, <1>8, <1>9, <1>10, <1>11 DEF Next, User
<1> QED BY <1>12 DEF Forward

LEMMA EndsStream ==
  ASSUME NEInv, NEW r \in Reqs, EndStream(r) \/ EndSpeculative(r)
  PROVE  Running(r) /\ stream'[r] = "ended"
<1>1. CASE EndSpeculative(r)
  BY <1>1 DEF EndSpeculative, NEInv, NETypeOK
<1>2. CASE EndStream(r)
  <2> DEFINE ended == [stream EXCEPT ![r] = "ended"]
  <2>1. \/ stream' = ended
        \/ \E s \in Specs : stream[s] = "none" /\ stream' = [ended EXCEPT ![s] = "fetching"]
    <3>1. \/ stream' = ended
          \/ scheduled \in Calls /\ \E p : Trigger(scheduled, p, ended)
      BY <1>2 DEF EndStream, NEInv, NETypeOK
    <3> HIDE DEF ended
    <3> QED BY <3>1, TriggerKeeps
  <2>2. Running(r)
    BY <1>2 DEF EndStream
  <2> QED BY <2>1, <2>2 DEF NEInv, NETypeOK, Running
<1> QED BY <1>1, <1>2

LEMMA AdvanceStep ==
  ASSUME NEInv, NETypeOK', [Next]_vars
  PROVE  [Advance]_vars
<1>1. pc \in [Calls -> {"idle", "own", "join", "rebase", "eager", "delay", "done"}]
      /\ stream \in [Reqs -> {"none", "fetching", "editing", "ended"}]
      /\ stream' \in [Reqs -> {"none", "fetching", "editing", "ended"}]
  BY DEF NEInv, NETypeOK
<1>2. \A r \in Reqs : StreamRank[stream'[r]] <= StreamRank[stream[r]]
  <2> TAKE r \in Reqs
  <2>1. /\ stream[r] = "fetching" => stream'[r] # "none"
        /\ stream[r] = "editing" => stream'[r] \in {"editing", "ended"}
        /\ stream[r] = "ended" => stream'[r] = "ended"
    BY StreamsGoOn
  <2> QED BY <1>1, <2>1, PlaceRanks DEF PlacesRanked
<1>3. \A r \in Reqs :
        EndStream(r) \/ EndSpeculative(r) => StreamRank[stream'[r]] < StreamRank[stream[r]]
  BY EndsStream, PlaceRanks DEF PlacesRanked, Running
<1>4. \A c \in Calls : GetNextEdit(c) \/ Resume(c) => PlaceRank[pc'[c]] < PlaceRank[pc[c]]
  BY GoesFurther
<1>5. \A c \in Calls : PlaceRank[pc'[c]] <= PlaceRank[pc[c]]
  <2>1. \A w \in {"idle", "own", "join", "rebase", "eager", "delay", "done"} : PlaceRank[w] \in Nat
    BY PlaceRanks DEF PlacesRanked
  <2>2. CASE \E k \in Calls : Resume(k) \/ GetNextEdit(k)
    <3>1. PICK k \in Calls : /\ PlaceRank[pc'[k]] < PlaceRank[pc[k]]
                             /\ \A c \in Calls : c # k => pc'[c] = pc[c]
      BY <2>2, GoesFurther
    <3>2. pc' \in [Calls -> {"idle", "own", "join", "rebase", "eager", "delay", "done"}]
      BY DEF NETypeOK
    <3> QED BY <1>1, <2>1, <3>1, <3>2
  <2>3. CASE ~\E k \in Calls : Resume(k) \/ GetNextEdit(k)
    <3>1. UNCHANGED pc
      BY <2>3, PlacesKept
    <3> QED BY <1>1, <2>1, <3>1
  <2> QED BY <2>2, <2>3
<1> QED BY <1>2, <1>3, <1>4, <1>5 DEF Advance

(* Every step of a call takes it to a later place and every end of a       *)
(* stream is final: however many calls join, rebase and supersede each     *)
(* other's requests, a call makes at most five steps of its own.           *)
THEOREM CallsRankFalls == Spec => CallsAdvance
<1>1. NEInv /\ NEInv' /\ [Next]_vars => [Advance]_vars
  BY AdvanceStep DEF NEInv
<1> QED BY <1>1, Invariance, PTL DEF Spec, CallsAdvance

(* A call that has not returned goes on or waits for a stream that runs:   *)
(* no cancellation, supersession, speculation or backup leaves it waiting  *)
(* for a request that has ended or was never made (nextEditProvider.ts:584, *)
(* :660, :723).                                                            *)
THEOREM NobodyWaitsInVain == Spec => []CallsReturning
<1>1. NEInv => CallsReturning
  <2> SUFFICES ASSUME NEInv, NEW c \in Calls, pc[c] \notin {"idle", "done", "delay"}
               PROVE  Returning(c)
    BY DEF CallsReturning, Returning
  <2>1. pc[c] \in {"own", "join", "rebase", "eager"} /\ c \in Reqs
    BY DEF NEInv, NETypeOK, Reqs
  <2>2. CASE pc[c] = "own"
    BY <2>1, <2>2 DEF NEInv, NETypeOK, CallsPlaced, RequestsMade, Returning, Ready, WaitsFor, Running
  <2>3. CASE pc[c] \in {"join", "rebase", "eager"}
    BY <2>1, <2>3 DEF NEInv, NETypeOK, CallsPlaced, Waiting, RequestsMade, Returning, Ready, Settled, WaitsFor,
                      Running
  <2> QED BY <2>1, <2>2, <2>3
<1> QED BY <1>1, Invariance, PTL
==============================================================================

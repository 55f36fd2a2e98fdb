--------------------------- MODULE GhostText_proofs ----------------------------
(***************************************************************************)
(* Theorems about getGhostText for any number of calls, any texts and any  *)
(* capacity of the request table: each step of a call is a step of the     *)
(* table or leaves it alone, so that what is proved of the table holds     *)
(* under it, and with it what is shown to the user.                        *)
(***************************************************************************)
EXTENDS GhostText, AsyncRefinement_proofs, FiniteSetTheorems

\* Where a call may be suspended, and where it ends.
Places == {"idle", "telemetry", "prompt", "debounce", "strategy", "peek", "own", "delay"} \cup Ended

\* The parts of GhostTypeOK that are not the table's.
FlowTypes ==
  /\ pc \in [Ids -> Places]
  /\ pos \in [Ids -> Texts \cup {NoText}]
  /\ choice \in [Ids -> Texts \cup {NoText}]
  /\ tokenDone \in [Ids -> BOOLEAN]
  /\ rank \in [Ids -> 0 .. Cardinality(Ids)]
  /\ current \in Ids \cup {NoId}
  /\ rest \in [Ids -> SUBSET Texts]
  /\ ghost \in [at : Texts \cup {NoText}, text : Texts \cup {NoText}, more : SUBSET Texts,
               by : Users \cup {NoId}]
  /\ cache \subseteq Texts \X Texts
  /\ prompts \in Seq(Ids)
  /\ unspent \subseteq Users
  /\ post \in PostProcessing

LEMMA TypeParts == GhostTypeOK <=> TypeOK /\ FlowTypes
BY DEF GhostTypeOK, FlowTypes, Places

\* What is to be shown of a step, once the table's invariant is known to be kept.
FlowParts == FlowTypes /\ CallsPlaced /\ PromptsQueued /\ AnswersKnown /\ CurrentIsLast

LEMMA PartsOfInv == GhostInv <=> IInv /\ FlowParts
BY TypeParts DEF GhostInv, FlowInv, FlowParts, IInv

LEMMA GhostInitInv == GhostInit => GhostInv
<1> SUFFICES ASSUME GhostInit PROVE GhostInv
  OBVIOUS
<1>1. IInv
  BY InitIInv DEF GhostInit
<1>2. Cardinality(Ids) \in Nat
  BY GhostIdsAssumption, FS_CardinalityType
<1>3. FlowTypes
  BY <1>2 DEF GhostInit, FlowTypes, Places, NoGhost, Ended
<1>4. CallsPlaced /\ PromptsQueued /\ AnswersKnown
  BY DEF GhostInit, Init, CallsPlaced, PromptsQueued, AnswersKnown
<1>5. CurrentIsLast
  <2>1. Begun = {}
    BY DEF GhostInit, Begun
  <2>2. Cardinality(Begun) = 0
    BY <2>1, FS_EmptySet
  <2> QED BY <2>2 DEF GhostInit, CurrentIsLast
<1> QED BY <1>1, <1>3, <1>4, <1>5, PartsOfInv DEF FlowParts

------------------------------------------------------------------------------
(***************************************************************************)
(* A call begins.                                                          *)
(***************************************************************************)
\* A call that begins is counted: it comes after all those begun before.
LEMMA StartRanks ==
  ASSUME FlowParts, NEW i \in Ids, NEW t \in Texts, Start(i, t)
  PROVE  /\ rank' \in [Ids -> 0 .. Cardinality(Ids)]
         /\ rank'[i] > 0
         /\ CurrentIsLast'
<1> DEFINE n == Cardinality(Begun)
<1>1. /\ rank \in [Ids -> 0 .. Cardinality(Ids)] /\ rank[i] = 0
      /\ rank' = [rank EXCEPT ![i] = 1 + n] /\ current' = i
  BY DEF FlowParts, FlowTypes, CallsPlaced, Start, Begun
<1>2. IsFiniteSet(Begun) /\ i \notin Begun /\ Begun \cup {i} \subseteq Ids
  BY <1>1, GhostIdsAssumption, FS_Subset DEF Begun
<1>3. n \in Nat /\ Cardinality(Begun \cup {i}) = n + 1
  BY <1>2, FS_CardinalityType, FS_AddElement
<1>4. Cardinality(Ids) \in Nat /\ n + 1 <= Cardinality(Ids)
  BY <1>2, <1>3, GhostIdsAssumption, FS_CardinalityType, FS_Subset
<1>5. rank' \in [Ids -> 0 .. Cardinality(Ids)] /\ rank'[i] = n + 1
  BY <1>1, <1>3, <1>4
<1>6. Begun' = Begun \cup {i}
  BY <1>1, <1>3, <1>4 DEF Begun
<1>7. \A j \in Ids : rank[j] <= n
  BY DEF FlowParts, CurrentIsLast
<1> HIDE DEF n
<1>8. \A j \in Ids : j # i => rank'[j] = rank[j]
  BY <1>1
<1> QED BY <1>1, <1>3, <1>4, <1>5, <1>6, <1>7, <1>8 DEF CurrentIsLast

LEMMA StartKeeps ==
  ASSUME IInv, FlowParts, NEW i \in Ids, NEW t \in Texts, Start(i, t), unspent' \in SUBSET unspent
  PROVE  FlowParts'
<1>1. /\ pc[i] = "idle" /\ pc' = [pc EXCEPT ![i] = "telemetry"]
      /\ pos' = [pos EXCEPT ![i] = t] /\ current' = i
      /\ UNCHANGED <<vars, choice, rest, tokenDone, ghost, cache, prompts, post>>
  BY DEF Start, Goto
<1>2. FlowTypes'
  BY <1>1, StartRanks DEF FlowParts, FlowTypes, Places
<1>3. CallsPlaced'
  <2>1. ctx' = ctx /\ ctx[i] = NoText
    BY <1>1 DEF vars, FlowParts, CallsPlaced
  <2>2. \A j \in Ids : j # i => rank'[j] = rank[j] /\ pos'[j] = pos[j] /\ pc'[j] = pc[j]
    BY <1>1 DEF Start, FlowParts, FlowTypes
  <2>3. pos'[i] = t /\ pc'[i] = "telemetry" /\ rank'[i] # 0 /\ t # NoText
    BY <1>1, StartRanks, TextsAssumption DEF FlowParts, FlowTypes
  <2> QED BY <2>1, <2>2, <2>3 DEF FlowParts, CallsPlaced
<1>4. PromptsQueued'
  BY <1>1 DEF FlowParts, FlowTypes, PromptsQueued
<1>5. AnswersKnown'
  BY <1>1 DEF FlowParts, FlowTypes, AnswersKnown
<1> QED BY <1>2, <1>3, <1>4, <1>5, StartRanks DEF FlowParts

------------------------------------------------------------------------------
(***************************************************************************)
(* A call goes on without an answer.                                       *)
(***************************************************************************)
\* Until it looks for choices, a call only moves on; what is in the queue of the
\* prompt factory stays, but for a prompt that nobody waits for any more.
LEMMA MoveKeeps ==
  ASSUME FlowParts, NEW i \in Ids, NEW where \in {"aborted", "prompt", "debounce", "strategy"},
         pc[i] \in {"telemetry", "prompt", "debounce", "peek"}, Goto(i, where), ctx' = ctx,
         prompts' \in Seq(Ids), PromptsQueued',
         UNCHANGED <<pos, choice, rest, tokenDone, rank, current, ghost, cache, unspent, post>>
  PROVE  FlowParts'
<1>1. /\ pc' \in [Ids -> Places] /\ pc'[i] = where /\ where \notin {"idle", "peek", "own", "delay", "success"}
      /\ \A j \in Ids : j # i => pc'[j] = pc[j]
  BY DEF FlowParts, FlowTypes, Goto, Places, Ended
<1>2. FlowTypes'
  BY <1>1 DEF FlowParts, FlowTypes
<1>3. CallsPlaced'
  BY <1>1 DEF FlowParts, CallsPlaced
<1>4. AnswersKnown'
  BY <1>1 DEF FlowParts, FlowTypes, AnswersKnown, Users
<1>5. CurrentIsLast'
  BY DEF FlowParts, CurrentIsLast, Begun
<1> QED BY <1>2, <1>3, <1>4, <1>5 DEF FlowParts

LEMMA AskPromptKeeps ==
  ASSUME FlowParts, NEW i \in Ids, AskPrompt(i)
  PROVE  FlowParts'
<1>1. /\ pc[i] = "telemetry" /\ ctx' = ctx
      /\ UNCHANGED <<pos, choice, rest, tokenDone, rank, current, ghost, cache, unspent, post>>
  BY DEF AskPrompt, vars
<1>2. CASE Goto(i, "aborted") /\ UNCHANGED prompts
  <2>1. PromptsQueued' /\ prompts' \in Seq(Ids)
    BY <1>2 DEF Goto, FlowParts, FlowTypes, PromptsQueued
  <2> QED BY <1>1, <1>2, <2>1, MoveKeeps
<1>3. CASE Goto(i, "prompt") /\ prompts' = Append(prompts, i)
  <2>1. /\ prompts' \in Seq(Ids) /\ Len(prompts') = Len(prompts) + 1 /\ Len(prompts) \in Nat
        /\ \A k \in 1..Len(prompts) : prompts'[k] = prompts[k]
        /\ prompts'[Len(prompts) + 1] = i
    BY <1>3 DEF FlowParts, FlowTypes
  <2>2. PromptsQueued'
    <3> SUFFICES ASSUME NEW j \in Ids, pc'[j] = "prompt"
                 PROVE  \E k \in 1..Len(prompts') : prompts'[k] = j
      BY DEF PromptsQueued
    <3>1. CASE j = i
      BY <3>1, <2>1
    <3>2. CASE j # i
      <4>1. PICK k \in 1..Len(prompts) : prompts[k] = j
        BY <3>2, <1>3 DEF Goto, FlowParts, FlowTypes, PromptsQueued
      <4> QED BY <4>1, <2>1
    <3> QED BY <3>1, <3>2
  <2> QED BY <1>1, <1>3, <2>1, <2>2, MoveKeeps
<1> QED BY <1>2, <1>3 DEF AskPrompt

LEMMA PromptedKeeps ==
  ASSUME FlowParts, NEW i \in Ids, Prompted(i)
  PROVE  FlowParts'
<1>1. /\ pc[i] = "prompt" /\ ctx' = ctx /\ i = Head(prompts) /\ prompts' = Tail(prompts)
      /\ UNCHANGED <<pos, choice, rest, tokenDone, rank, current, ghost, cache, unspent, post>>
  BY DEF Prompted, vars
<1>2. PICK where \in {"aborted", "debounce", "strategy"} : Goto(i, where)
  BY DEF Prompted
<1>3. prompts \in Seq(Ids) /\ prompts # <<>>
  <2>1. PICK k \in 1..Len(prompts) : prompts[k] = i
    BY <1>1 DEF FlowParts, PromptsQueued
  <2> QED BY <2>1 DEF FlowParts, FlowTypes
<1>4. /\ prompts' \in Seq(Ids) /\ Len(prompts') = Len(prompts) - 1 /\ Len(prompts) \in Nat
      /\ \A k \in 1..Len(prompts') : prompts'[k] = prompts[k + 1]
      /\ prompts[1] = i
  BY <1>1, <1>3
<1>5. PromptsQueued'
  <2> SUFFICES ASSUME NEW j \in Ids, pc'[j] = "prompt"
               PROVE  \E k \in 1..Len(prompts') : prompts'[k] = j
    BY DEF PromptsQueued
  <2>1. j # i /\ pc[j] = "prompt"
    BY <1>2 DEF Goto, FlowParts, FlowTypes
  <2>2. PICK k \in 1..Len(prompts) : prompts[k] = j
    BY <2>1 DEF FlowParts, PromptsQueued
  <2>3. k - 1 \in 1..Len(prompts') /\ prompts'[k - 1] = j
    BY <2>1, <2>2, <1>4
  <2> QED BY <2>3
<1> QED BY <1>1, <1>2, <1>4, <1>5, MoveKeeps

LEMMA DebouncedKeeps ==
  ASSUME FlowParts, NEW i \in Ids, Debounced(i)
  PROVE  FlowParts'
<1>1. /\ pc[i] = "debounce" /\ ctx' = ctx
      /\ UNCHANGED <<pos, choice, rest, tokenDone, rank, current, ghost, cache, prompts, unspent, post>>
  BY DEF Debounced, vars
<1>2. PICK where \in {"aborted", "strategy"} : Goto(i, where)
  BY DEF Debounced
<1>3. PromptsQueued' /\ prompts' \in Seq(Ids)
  BY <1>1, <1>2 DEF Goto, FlowParts, FlowTypes, PromptsQueued
<1> QED BY <1>1, <1>2, <1>3, MoveKeeps
------------------------------------------------------------------------------
(***************************************************************************)
(* A call looks for an answer, and answers.                                *)
(***************************************************************************)
\* A call that has found text f, and F besides, ends with it, is canceled, or holds it
\* back for the completions delay.
Answering(i, f, F, typed) ==
  \/ DeliverOrDelay(i, f, F, typed)
  \/ \E where \in {"empty", "canceled"} : Goto(i, where) /\ UNCHANGED <<choice, rest, ghost, unspent>>

LEMMA AnsweringKeeps ==
  ASSUME FlowParts, NEW i \in Ids, NEW f \in Texts \cup {NoText}, NEW F \in SUBSET Texts,
         NEW typed \in BOOLEAN, f # NoText => Continues(f, pos[i]),
         pc[i] \in {"strategy", "peek", "own", "delay"},
         Answering(i, f, F, typed), ctx' = ctx,
         UNCHANGED <<pos, tokenDone, rank, current, cache, prompts, post>>
  PROVE  FlowParts'
<1>1. /\ pc \in [Ids -> Places] /\ choice \in [Ids -> Texts \cup {NoText}]
      /\ pos \in [Ids -> Texts \cup {NoText}] /\ unspent \subseteq Users /\ i \notin unspent
  BY DEF FlowParts, FlowTypes, AnswersKnown
<1>2. PICK where \in {"empty", "canceled", "delay", "success"} :
        /\ Goto(i, where)
        /\ where # "success" => UNCHANGED <<ghost, unspent>>
        /\ where \in {"delay", "success"} => choice' = [choice EXCEPT ![i] = f]
        /\ where = "empty" => choice' = choice
        /\ where = "canceled" => choice' \in {choice, [choice EXCEPT ![i] = f]}
        /\ rest' \in {rest, [rest EXCEPT ![i] = F]}
        /\ where = "success" =>
             /\ ghost' = GhostAfter(i, f, F, typed)
             /\ unspent' = IF i \in Users /\ ~typed /\ f # NoText THEN unspent \cup {i} ELSE unspent
  BY DEF Answering, DeliverOrDelay, Deliver
<1>3. /\ pc' \in [Ids -> Places] /\ pc'[i] = where
      /\ \A j \in Ids : j # i => pc'[j] = pc[j]
  BY <1>1, <1>2 DEF Goto, Places, Ended
<1>4. /\ choice' \in [Ids -> Texts \cup {NoText}]
      /\ where \in {"delay", "success"} => choice'[i] = f
      /\ \A j \in Ids : j # i => choice'[j] = choice[j]
  BY <1>1, <1>2
<1>5. /\ unspent' \subseteq unspent \cup {i} /\ unspent' \subseteq Users
      /\ i \in unspent' => where = "success" /\ f # NoText
  BY <1>1, <1>2
<1>6. ghost' \in [at : Texts \cup {NoText}, text : Texts \cup {NoText}, more : SUBSET Texts,
                by : Users \cup {NoId}]
  BY <1>1, <1>2 DEF GhostAfter, Users, FlowParts, FlowTypes
<1>7. FlowTypes'
  <2>1. rest' \in [Ids -> SUBSET Texts]
    BY <1>2 DEF FlowParts, FlowTypes
  <2> QED BY <1>3, <1>4, <1>5, <1>6, <2>1 DEF FlowParts, FlowTypes
<1>8. CallsPlaced' /\ PromptsQueued'
  BY <1>3 DEF FlowParts, CallsPlaced, PromptsQueued
<1>9. AnswersKnown'
  <2>1. \A j \in Ids : pc'[j] \in {"delay", "success"} /\ choice'[j] # NoText =>
          Continues(choice'[j], pos[j])
    BY <1>3, <1>4 DEF FlowParts, AnswersKnown
  <2>2. \A j \in unspent' : pc'[j] = "success" /\ choice'[j] \in Texts
    BY <1>1, <1>3, <1>4, <1>5 DEF FlowParts, AnswersKnown, Users
  <2> QED BY <2>1, <2>2 DEF AnswersKnown, Continues, StartsWith
<1>10. CurrentIsLast'
  BY DEF FlowParts, CurrentIsLast, Begun
<1> QED BY <1>7, <1>8, <1>9, <1>10 DEF FlowParts

\* A call that asks the table, or queues its request, does so for its own text.
LEMMA LookKeeps ==
  ASSUME FlowParts, NEW i \in Ids, NEW where \in {"peek", "own"},
         pc[i] \in {"strategy", "peek"}, Goto(i, where),
         ctx' = [ctx EXCEPT ![i] = pos[i]], ctx \in [Ids -> Texts \cup {NoText}],
         UNCHANGED <<pos, choice, rest, tokenDone, rank, current, ghost, cache, prompts, unspent, post>>
  PROVE  FlowParts'
<1>1. /\ pc' \in [Ids -> Places] /\ pc'[i] = where
      /\ \A j \in Ids : j # i => pc'[j] = pc[j] /\ ctx'[j] = ctx[j]
      /\ ctx'[i] = pos[i]
  BY DEF FlowParts, FlowTypes, Goto, Places, Ended
<1>2. FlowTypes'
  BY <1>1 DEF FlowParts, FlowTypes
<1>3. CallsPlaced' /\ PromptsQueued'
  BY <1>1 DEF FlowParts, CallsPlaced, PromptsQueued
<1>4. AnswersKnown'
  BY <1>1 DEF FlowParts, FlowTypes, AnswersKnown, Users
<1>5. CurrentIsLast'
  BY DEF FlowParts, CurrentIsLast, Begun
<1> QED BY <1>2, <1>3, <1>4, <1>5 DEF FlowParts

\* What post-processing leaves of a text that continues what was typed does so too.
LEMMA LeftContinues ==
  ASSUME FlowParts, NEW t \in Texts, NEW f \in Texts \cup {NoText}, f # NoText => Continues(f, t)
  PROVE  /\ Left(t, f) \in Texts \cup {NoText}
         /\ Left(t, f) # NoText => Continues(Left(t, f), t)
<1>1. CASE f = NoText
  BY <1>1 DEF Left
<1>2. CASE f # NoText
  <2>1. post \in PostProcessing /\ f \in Texts /\ Continues(f, t) /\ Left(t, f) = post[<<t, f>>]
    BY <1>2 DEF FlowParts, FlowTypes, Left
  <2>2. post \in [Texts \X Texts -> Texts \cup {NoText}] /\ <<t, f>> \in Texts \X Texts
    BY <2>1, PostProcessingAssumption
  <2> QED BY <2>1, <2>2, PostProcessingAssumption
<1> QED BY <1>1, <1>2

LEMMA AllLeftContinue ==
  ASSUME FlowParts, NEW t \in Texts, NEW F \in SUBSET Texts, \A h \in F : Continues(h, t)
  PROVE  AllLeft(t, F) \in SUBSET Texts /\ \A h \in AllLeft(t, F) : Continues(h, t)
BY LeftContinues DEF AllLeft

\* What a call answers with from the choices it has found is one of them, or what is
\* left of it.
LEMMA LocalAnswers ==
  ASSUME FlowParts, NEW i \in Ids, pos[i] \in Texts, NEW f \in Texts, NEW F \in SUBSET Texts,
         \A h \in {f} \cup F : Continues(h, pos[i]), NEW typed \in BOOLEAN,
         AnswerLocally(i, f, F, typed)
  PROVE  \E g \in Texts \cup {NoText}, H \in SUBSET Texts :
           (g # NoText => Continues(g, pos[i])) /\ Answering(i, g, H, typed)
<1> DEFINE once == AllLeft(pos[i], {f} \cup F)
           twice == AllLeft(pos[i], once)
           first == Left(pos[i], Left(pos[i], f))
<1>1. /\ once \in SUBSET Texts /\ \A h \in once : Continues(h, pos[i])
      /\ twice \in SUBSET Texts /\ \A h \in twice : Continues(h, pos[i])
  <2>1. once \in SUBSET Texts /\ \A h \in once : Continues(h, pos[i])
    BY AllLeftContinue
  <2> HIDE DEF once
  <2> QED BY <2>1, AllLeftContinue
<1>2. first \in Texts \cup {NoText} /\ (first # NoText => Continues(first, pos[i]))
  BY LeftContinues
<1>3. \/ Goto(i, "empty") /\ UNCHANGED <<choice, rest, ghost, unspent>>
      \/ \E g \in ComesFirst(first, twice) : DeliverOrDelay(i, g, twice \ {g}, typed)
  BY DEF AnswerLocally
<1> HIDE DEF once, twice, first
<1>4. CASE Goto(i, "empty") /\ UNCHANGED <<choice, rest, ghost, unspent>>
  <2>1. Answering(i, NoText, {}, typed)
    BY <1>4 DEF Answering
  <2> QED BY <2>1
<1>5. ASSUME NEW g \in ComesFirst(first, twice), DeliverOrDelay(i, g, twice \ {g}, typed)
      PROVE  /\ g \in Texts \cup {NoText} /\ twice \ {g} \in SUBSET Texts
             /\ g # NoText => Continues(g, pos[i])
             /\ Answering(i, g, twice \ {g}, typed)
  BY <1>1, <1>2, <1>5 DEF ComesFirst, Answering
<1> QED BY <1>3, <1>4, <1>5

LEMMA LocallyKeeps ==
  ASSUME FlowParts, NEW i \in Ids, pos[i] \in Texts, NEW f \in Texts, NEW F \in SUBSET Texts,
         \A h \in {f} \cup F : Continues(h, pos[i]), NEW typed \in BOOLEAN,
         AnswerLocally(i, f, F, typed), pc[i] \in {"strategy", "peek"}, UNCHANGED vars,
         UNCHANGED <<pos, tokenDone, rank, current, cache, prompts, post>>
  PROVE  FlowParts' /\ TableMoves
<1>1. PICK g \in Texts \cup {NoText}, H \in SUBSET Texts :
        (g # NoText => Continues(g, pos[i])) /\ Answering(i, g, H, typed)
  BY LocalAnswers
<1>2. ctx' = ctx
  BY DEF vars
<1> QED BY <1>1, <1>2, AnsweringKeeps DEF TableMoves

\* What the call has found: the ghost text typed on, cached texts, or what the
\* table has answered.
LEMMA LookUpCases ==
  ASSUME FlowParts, NEW i \in Ids, LookUp(i)
  PROVE  /\ pc[i] = "strategy" /\ pos[i] \in Texts
         /\ UNCHANGED <<pos, tokenDone, rank, current, cache, prompts, post>>
         /\ \/ /\ TypedOn(pos[i]) /\ UNCHANGED vars
               /\ AnswerLocally(i, ghost.text, MoreTypedOn(pos[i]) \cup Cached(pos[i]), TRUE)
            \/ /\ ~TypedOn(pos[i]) /\ UNCHANGED vars
               /\ \E f \in Cached(pos[i]) : AnswerLocally(i, f, Cached(pos[i]), FALSE)
            \/ /\ ~TypedOn(pos[i]) /\ Peek(i, pos[i]) /\ Goto(i, "peek")
               /\ UNCHANGED <<choice, rest, ghost, unspent>>
            \/ /\ ~TypedOn(pos[i]) /\ Queue(i, pos[i]) /\ Goto(i, "own")
               /\ UNCHANGED <<choice, rest, ghost, unspent>>
BY DEF LookUp, FlowParts, FlowTypes, CallsPlaced

\* The choices found at a text continue it.
LEMMA FoundContinue ==
  ASSUME FlowParts, NEW t \in Texts
  PROVE  /\ Cached(t) \in SUBSET Texts /\ \A h \in Cached(t) : Continues(h, t)
         /\ MoreTypedOn(t) \in SUBSET Texts /\ \A h \in MoreTypedOn(t) : Continues(h, t)
         /\ TypedOn(t) => ghost.text \in Texts /\ Continues(ghost.text, t)
<1>1. cache \subseteq Texts \X Texts /\ ghost.more \in SUBSET Texts /\ ghost.text \in Texts \cup {NoText}
  BY DEF FlowParts, FlowTypes
<1>2. Cached(t) \in SUBSET Texts /\ \A h \in Cached(t) : Continues(h, t)
  BY <1>1 DEF Cached
<1>3. MoreTypedOn(t) \in SUBSET Texts /\ \A h \in MoreTypedOn(t) : Continues(h, t)
  BY <1>1 DEF MoreTypedOn
<1>4. TypedOn(t) => ghost.text \in Texts /\ Continues(ghost.text, t)
  BY <1>1 DEF TypedOn, Continues
<1> QED BY <1>2, <1>3, <1>4

LEMMA LookUpKeeps ==
  ASSUME IInv, FlowParts, NEW i \in Ids, LookUp(i)
  PROVE  FlowParts' /\ TableMoves
<1>1. /\ pc[i] = "strategy" /\ pos[i] \in Texts
      /\ UNCHANGED <<pos, tokenDone, rank, current, cache, prompts, post>>
      /\ ctx \in [Ids -> Texts \cup {NoText}]
  BY LookUpCases DEF IInv, TypeOK
<1>2. CASE /\ TypedOn(pos[i]) /\ UNCHANGED vars
           /\ AnswerLocally(i, ghost.text, MoreTypedOn(pos[i]) \cup Cached(pos[i]), TRUE)
  <2> DEFINE F == MoreTypedOn(pos[i]) \cup Cached(pos[i])
  <2>1. /\ ghost.text \in Texts /\ F \in SUBSET Texts
        /\ \A h \in {ghost.text} \cup F : Continues(h, pos[i])
    BY <1>1, <1>2, FoundContinue
  <2> HIDE DEF F
  <2>2. AnswerLocally(i, ghost.text, F, TRUE)
    BY <1>2 DEF F
  <2> QED BY <1>1, <1>2, <2>1, <2>2, LocallyKeeps
<1>3. CASE UNCHANGED vars /\ \E f \in Cached(pos[i]) : AnswerLocally(i, f, Cached(pos[i]), FALSE)
  <2>1. PICK f \in Cached(pos[i]) : AnswerLocally(i, f, Cached(pos[i]), FALSE)
    BY <1>3
  <2>2. /\ f \in Texts /\ Cached(pos[i]) \in SUBSET Texts
        /\ \A h \in {f} \cup Cached(pos[i]) : Continues(h, pos[i])
    BY <1>1, <2>1, FoundContinue
  <2> QED BY <1>1, <1>3, <2>1, <2>2, LocallyKeeps
<1>4. CASE Peek(i, pos[i]) /\ Goto(i, "peek") /\ UNCHANGED <<choice, rest, ghost, unspent>>
  <2>1. ctx' = [ctx EXCEPT ![i] = pos[i]]
    BY <1>4 DEF Peek
  <2> QED BY <1>1, <1>4, <2>1, LookKeeps DEF TableMoves
<1>5. CASE Queue(i, pos[i]) /\ Goto(i, "own") /\ UNCHANGED <<choice, rest, ghost, unspent>>
  <2>1. ctx' = [ctx EXCEPT ![i] = pos[i]]
    BY <1>5 DEF Queue
  <2> QED BY <1>1, <1>5, <2>1, LookKeeps DEF TableMoves
<1> QED BY LookUpCases, <1>2, <1>3, <1>4, <1>5

\* What the table has answered a call continues the text of the call.
LEMMA OutcomeAnswers ==
  ASSUME IInv, FlowParts, NEW i \in Ids, NEW kind \in Kinds, pc[i] \in {"peek", "own"},
         outcome[<<i, kind>>] # NoText
  PROVE  Continues(outcome[<<i, kind>>], pos[i]) /\ outcome[<<i, kind>>] \in Texts
<1>1. <<i, kind>> \in Calls /\ ctx[i] = pos[i]
  BY DEF Calls, FlowParts, CallsPlaced
<1> QED BY <1>1 DEF IInv, OutcomeContinues, TypeOK, Continues

LEMMA PeekedKeeps ==
  ASSUME IInv, FlowParts, NEW i \in Ids, Peeked(i)
  PROVE  FlowParts' /\ TableMoves
<1> DEFINE f == outcome[<<i, "peek">>]
<1>1. /\ pc[i] = "peek" /\ pos[i] \in Texts
      /\ UNCHANGED <<pos, tokenDone, rank, current, cache, prompts, post>>
      /\ ctx \in [Ids -> Texts \cup {NoText}]
  BY DEF Peeked, IInv, TypeOK, FlowParts, FlowTypes, CallsPlaced
<1>2. \/ Goto(i, "aborted") /\ UNCHANGED <<vars, choice, rest, ghost, unspent>>
      \/ f # NoText /\ AnswerLocally(i, f, {}, FALSE) /\ UNCHANGED vars
      \/ Queue(i, pos[i]) /\ Goto(i, "own") /\ UNCHANGED <<choice, rest, ghost, unspent>>
  BY DEF Peeked
<1> HIDE DEF f
<1>3. CASE Goto(i, "aborted") /\ UNCHANGED <<vars, choice, rest, ghost, unspent>>
  <2>1. PromptsQueued' /\ prompts' \in Seq(Ids) /\ ctx' = ctx
    BY <1>1, <1>3 DEF Goto, FlowParts, FlowTypes, PromptsQueued, vars
  <2> QED BY <1>1, <1>3, <2>1, MoveKeeps DEF TableMoves
<1>4. CASE f # NoText /\ AnswerLocally(i, f, {}, FALSE) /\ UNCHANGED vars
  <2>1. f \in Texts /\ Continues(f, pos[i])
    BY <1>1, <1>4, OutcomeAnswers DEF f, Kinds
  <2>2. \A h \in {f} \cup {} : Continues(h, pos[i])
    BY <2>1
  <2> QED BY <1>1, <1>4, <2>1, <2>2, LocallyKeeps
<1>5. CASE Queue(i, pos[i]) /\ Goto(i, "own") /\ UNCHANGED <<choice, rest, ghost, unspent>>
  <2>1. ctx' = [ctx EXCEPT ![i] = pos[i]]
    BY <1>5 DEF Queue
  <2> QED BY <1>1, <1>5, <2>1, LookKeeps DEF TableMoves
<1> QED BY <1>2, <1>3, <1>4, <1>5

LEMMA OwnedKeeps ==
  ASSUME IInv, FlowParts, NEW i \in Ids, Owned(i)
  PROVE  FlowParts'
<1> DEFINE f == outcome[<<i, "own">>]
<1>1. /\ pc[i] = "own" /\ ctx' = ctx
      /\ UNCHANGED <<pos, tokenDone, rank, current, cache, prompts, post>>
  BY DEF Owned, vars
<1>2. \/ Answering(i, NoText, {}, FALSE)
      \/ f # NoText /\ Answering(i, Left(pos[i], f), {}, FALSE)
  BY DEF Owned, Answering
<1>3. f # NoText => f \in Texts /\ Continues(f, pos[i])
  BY <1>1, OutcomeAnswers DEF Kinds
<1> HIDE DEF f
<1>4. CASE Answering(i, NoText, {}, FALSE)
  BY <1>1, <1>4, AnsweringKeeps
<1>5. CASE f # NoText /\ Answering(i, Left(pos[i], f), {}, FALSE)
  <2>1. pos[i] \in Texts
    BY <1>1 DEF FlowParts, FlowTypes, CallsPlaced
  <2>2. /\ Left(pos[i], f) \in Texts \cup {NoText}
        /\ Left(pos[i], f) # NoText => Continues(Left(pos[i], f), pos[i])
    BY <1>3, <1>5, <2>1, LeftContinues
  <2> QED BY <1>1, <1>5, <2>2, AnsweringKeeps
<1> QED BY <1>2, <1>4, <1>5

LEMMA DelayedKeeps ==
  ASSUME FlowParts, NEW i \in Ids, Delayed(i)
  PROVE  FlowParts'
<1>1. /\ pc[i] = "delay" /\ ctx' = ctx
      /\ UNCHANGED <<pos, tokenDone, rank, current, cache, prompts, post>>
  BY DEF Delayed, vars
<1>2. /\ choice[i] \in Texts \cup {NoText}
      /\ choice[i] # NoText => Continues(choice[i], pos[i])
  BY <1>1 DEF FlowParts, FlowTypes, AnswersKnown
<1>3. Answering(i, choice[i], rest[i], FALSE) /\ rest[i] \in SUBSET Texts
  BY DEF Delayed, Answering, DeliverOrDelay, FlowParts, FlowTypes
<1> QED BY <1>1, <1>2, <1>3, AnsweringKeeps
------------------------------------------------------------------------------
(***************************************************************************)
(* What happens between the calls, and every step together.                *)
(***************************************************************************)
LEMMA NetworkKeeps ==
  ASSUME IInv, FlowParts, NEW r \in Ids, NEW t \in Texts, NetworkCompletes(r, t)
  PROVE  FlowParts' /\ TableMoves
<1>1. /\ Complete(r, t) /\ cache' = cache \cup {<<ctx[r], t>>}
      /\ UNCHANGED <<pc, pos, choice, rest, tokenDone, rank, current, ghost, prompts, unspent, post>>
  BY DEF NetworkCompletes
<1>2. ctx[r] \in Texts /\ ctx' = ctx
  BY <1>1 DEF Complete, IInv, RequestsKnown
<1>3. FlowTypes'
  BY <1>1, <1>2 DEF FlowParts, FlowTypes
<1>4. CallsPlaced' /\ PromptsQueued' /\ AnswersKnown' /\ CurrentIsLast'
  BY <1>1, <1>2 DEF FlowParts, CallsPlaced, PromptsQueued, AnswersKnown, CurrentIsLast, Begun
<1> QED BY <1>1, <1>3, <1>4 DEF FlowParts, TableMoves

LEMMA MoreKeeps ==
  ASSUME FlowParts, NEW r \in Ids, NEW d \in Texts, NEW t \in Texts, CacheMore(r, d, t)
  PROVE  FlowParts' /\ TableMoves
<1>1. /\ cache' = cache \cup {<<d, t>>} /\ UNCHANGED vars /\ ctx' = ctx
      /\ UNCHANGED <<pc, pos, choice, rest, tokenDone, rank, current, ghost, prompts, unspent, post>>
  BY DEF CacheMore, vars
<1>2. FlowTypes'
  BY <1>1 DEF FlowParts, FlowTypes
<1>3. CallsPlaced' /\ PromptsQueued' /\ AnswersKnown' /\ CurrentIsLast'
  BY <1>1 DEF FlowParts, CallsPlaced, PromptsQueued, AnswersKnown, CurrentIsLast, Begun
<1> QED BY <1>1, <1>2, <1>3 DEF FlowParts, TableMoves

\* Steps that leave the calls where they are.
LEMMA AsideKeeps ==
  ASSUME FlowParts, ctx' = ctx,
         cache' \in SUBSET cache, tokenDone' \in [Ids -> BOOLEAN],
         UNCHANGED <<pc, pos, choice, rest, rank, current, ghost, prompts, unspent, post>>
  PROVE  FlowParts'
<1>1. FlowTypes'
  BY DEF FlowParts, FlowTypes
<1>2. CallsPlaced' /\ PromptsQueued' /\ AnswersKnown' /\ CurrentIsLast'
  BY DEF FlowParts, CallsPlaced, PromptsQueued, AnswersKnown, CurrentIsLast, Begun
<1> QED BY <1>1, <1>2 DEF FlowParts

LEMMA BetweenKeeps ==
  ASSUME FlowParts, TableStep \/ SelectModel \/ UNCHANGED allVars \/ \E i \in Ids : CancelToken(i)
  PROVE  FlowParts' /\ TableMoves
<1>1. ctx' = ctx /\ TableMoves
  BY DEF TableStep, SelectModel, CancelToken, allVars, vars, TableMoves,
         Update, Fail, PeekTimeout, Dispose, Clear
<1>2. /\ cache' \in SUBSET cache /\ tokenDone' \in [Ids -> BOOLEAN]
      /\ UNCHANGED <<pc, pos, choice, rest, rank, current, ghost, prompts, unspent, post>>
  BY DEF TableStep, SelectModel, CancelToken, allVars, flowVars, FlowParts, FlowTypes
<1> QED BY <1>1, <1>2, AsideKeeps

LEMMA BeginKeeps ==
  ASSUME IInv, FlowParts,
         \/ \E i \in Ids, t \in Typed : Issue(i, t)
         \/ \E s, i \in Ids : Speculate(s, i)
  PROVE  FlowParts' /\ TableMoves
<1>1. PICK i \in Ids, t \in Texts : Start(i, t) /\ unspent' \in SUBSET unspent
  BY TextsAssumption DEF Issue, Speculate, FlowParts, AnswersKnown
<1> QED BY <1>1, StartKeeps DEF Start, TableMoves

LEMMA ResumeKeeps ==
  ASSUME IInv, FlowParts, NEW i \in Ids, Resume(i)
  PROVE  FlowParts' /\ TableMoves
<1>1. CASE AskPrompt(i) \/ Prompted(i) \/ Debounced(i)
  BY <1>1, AskPromptKeeps, PromptedKeeps, DebouncedKeeps
     DEF AskPrompt, Prompted, Debounced, TableMoves
<1>2. CASE LookUp(i) \/ Peeked(i)
  BY <1>2, LookUpKeeps, PeekedKeeps
<1>3. CASE Owned(i) \/ Delayed(i)
  BY <1>3, OwnedKeeps, DelayedKeeps DEF Owned, Delayed, TableMoves
<1> QED BY <1>1, <1>2, <1>3 DEF Resume

LEMMA GhostStepMoves ==
  ASSUME IInv, FlowParts, [GhostNext]_allVars
  PROVE  FlowParts' /\ TableMoves
BY BeginKeeps, ResumeKeeps, NetworkKeeps, MoreKeeps, BetweenKeeps DEF GhostNext

LEMMA GhostStepInv ==
  ASSUME GhostInv, [GhostNext]_allVars
  PROVE  GhostInv'
<1>1. IInv /\ FlowParts
  BY PartsOfInv
<1>2. FlowParts' /\ TableMoves
  BY <1>1, GhostStepMoves
<1>3. IInv'
  BY <1>1, <1>2, TableMovesIInv
<1>4. TypeOK' /\ (GhostTypeOK' <=> TypeOK' /\ FlowTypes')
  BY <1>3 DEF IInv, GhostTypeOK, FlowTypes, Places
<1> QED BY <1>2, <1>3, <1>4 DEF GhostInv, FlowInv, FlowParts

(* The inductive invariant holds in every reachable state, and with it the *)
(* table's: what is proved of the table holds when getGhostText uses it.   *)
THEOREM GhostInvariance == GhostSpec => []GhostInv
BY GhostInitInv, GhostStepInv, PTL DEF GhostSpec

(* The table keeps its promise to getGhostText: whatever users type, cancel *)
(* and speculate, each call of getFirstMatchingRequest is answered once,   *)
(* with a completion that has arrived and continues what was asked for, or *)
(* with nothing.                                                           *)
THEOREM GhostKeepsPromise == GhostSpec => Promise!CallsSafety
<1>1. GhostInit => Promise!CallsInit /\ OwnWithRequest
  BY OwnInit, RefinedInit DEF GhostInit
<1>2. GhostInv /\ [GhostNext]_allVars => TableMoves
  BY PartsOfInv, GhostStepMoves
<1>3. GhostInv /\ OwnWithRequest /\ [GhostNext]_allVars => OwnWithRequest'
  BY <1>2, PartsOfInv, OwnStep
<1>4. GhostInv /\ OwnWithRequest /\ [GhostNext]_allVars => [Promise!CallsNext]_Promise!callsVars
  BY <1>2, PartsOfInv, RefinedStep
<1> QED BY <1>1, <1>3, <1>4, GhostInvariance, PTL DEF GhostSpec, Promise!CallsSafety

(* Types are correct; in particular the ghost text is never one that a     *)
(* speculative call has found.                                             *)
THEOREM GhostTypes == GhostSpec => []GhostTypeOK
<1>1. GhostInv => GhostTypeOK
  BY DEF GhostInv, FlowInv
<1> QED BY GhostInvariance, <1>1, PTL

(* Every text a call returns continues what was typed when it was made,    *)
(* from the ghost text, the cache, another call's request or its own.      *)
THEOREM AnswersAlwaysContinue == GhostSpec => []AnswersContinue
<1>1. GhostInv => AnswersContinue
  BY DEF GhostInv, FlowInv, AnswersKnown, AnswersContinue, Continues
<1> QED BY GhostInvariance, <1>1, PTL

------------------------------------------------------------------------------
(***************************************************************************)
(* What a step may do to the ghost text.                                   *)
(***************************************************************************)
\* The ghost text is changed only by the current call, in a step that begins none.
LEMMA GhostChanges ==
  ASSUME GhostInv, [GhostNext]_allVars, ghost' # ghost
  PROVE  \E i \in Ids : i = current /\ ghost'.by = i /\ rank' = rank
<1>1. PICK i \in Ids : LookUp(i) \/ Peeked(i) \/ Owned(i) \/ Delayed(i)
  BY DEF GhostNext, allVars, flowVars, Issue, Speculate, Start, CancelToken, Resume, AskPrompt,
         Prompted, Debounced, NetworkCompletes, CacheMore, TableStep, SelectModel
<1>2. rank' = rank
  BY <1>1 DEF LookUp, Peeked, Owned, Delayed
<1>3. PICK f, F, typed : Deliver(i, f, F, typed) /\ typed \in BOOLEAN
  BY <1>1 DEF LookUp, Peeked, Owned, Delayed, AnswerLocally, DeliverOrDelay
<1>4. ~IsCancelled(i) /\ ghost' = [at |-> pos[i], text |-> f, more |-> F, by |-> i]
  BY <1>3 DEF Deliver, GhostAfter
<1> QED BY <1>2, <1>4 DEF IsCancelled

(* An answer on screen is never replaced by that of an older call.         *)
THEOREM LateAnswersAreDropped == GhostSpec => GhostInOrder
<1>1. ASSUME GhostInv, [GhostNext]_allVars
      PROVE  [ghost'.by # ghost.by =>
                \A i \in Users : i # ghost'.by /\ rank[i] > 0 => rank[i] < rank[ghost'.by]]_allVars
  <2> SUFFICES ASSUME ghost'.by # ghost.by, NEW i \in Users, i # ghost'.by, rank[i] > 0
               PROVE  rank[i] < rank[ghost'.by]
    OBVIOUS
  <2>1. ghost'.by = current
    BY <1>1, GhostChanges
  <2> QED BY <1>1, <2>1 DEF GhostInv, FlowInv, CurrentIsLast, Users
<1> QED BY GhostInvariance, <1>1, PTL DEF GhostSpec, GhostInOrder

(* While the user types along the ghost text, what post-processing leaves  *)
(* of it is what is shown, whatever the cache and the network have come to *)
(* hold, and it stays the ghost text.                                      *)
THEOREM TypingAlongKeepsGhost == GhostSpec => TypingAlongIsStable
<1>1. ASSUME GhostInv, [GhostNext]_allVars
      PROVE  [\A i \in Users :
                pc[i] = "strategy" /\ pc'[i] = "success" /\ TypedOn(pos[i]) =>
                  /\ ghost' = ghost
                  /\ LET shown == Left(pos[i], Left(pos[i], ghost.text))
                     IN  shown # NoText => choice'[i] = shown]_allVars
  <2> SUFFICES ASSUME NEW i \in Ids, pc[i] = "strategy", pc'[i] = "success", TypedOn(pos[i])
               PROVE  /\ ghost' = ghost
                      /\ LET shown == Left(pos[i], Left(pos[i], ghost.text))
                         IN  shown # NoText => choice'[i] = shown
    BY DEF Users
  <2>1. pc \in [Ids -> Places] /\ choice \in [Ids -> Texts \cup {NoText}]
    BY <1>1 DEF GhostInv, FlowInv, GhostTypeOK, Places
  <2>2. LookUp(i)
    <3>1. PICK j \in Ids : Resume(j)
      BY <1>1, <2>1 DEF GhostNext, allVars, flowVars, Issue, Speculate, Start, Goto, CancelToken,
                        NetworkCompletes, CacheMore, TableStep, SelectModel
    <3>2. \E where : Goto(j, where)
      BY <3>1 DEF Resume, AskPrompt, Prompted, Debounced, LookUp, Peeked, Owned, Delayed,
                  AnswerLocally, DeliverOrDelay, Deliver
    <3>3. j = i
      BY <2>1, <3>2 DEF Goto
    <3> QED BY <3>1, <3>3, <2>1 DEF Resume, AskPrompt, Prompted, Debounced, Peeked, Owned, Delayed, Goto
  <2>3. PICK F : AnswerLocally(i, ghost.text, F, TRUE)
    BY <2>1, <2>2 DEF LookUp, Goto
  <2> DEFINE shown == Left(pos[i], Left(pos[i], ghost.text))
  <2>4. PICK g, G : Deliver(i, g, G, TRUE) /\ (shown # NoText => g = shown)
    BY <2>1, <2>3 DEF AnswerLocally, DeliverOrDelay, ComesFirst, Goto
  <2> HIDE DEF shown
  <2>5. ghost' = ghost /\ choice'[i] = g
    BY <2>1, <2>4 DEF Deliver, GhostAfter, Goto
  <2> QED BY <2>4, <2>5 DEF shown
<1> QED BY GhostInvariance, <1>1, PTL DEF GhostSpec, TypingAlongIsStable
------------------------------------------------------------------------------
(***************************************************************************)
(* Why calls return.                                                       *)
(***************************************************************************)
\* The prompt factory's queue holds calls that wait for a prompt, each once.
PromptsOrdered ==
  /\ \A k \in DOMAIN prompts : pc[prompts[k]] = "prompt"
  /\ \A j, k \in DOMAIN prompts : prompts[j] = prompts[k] => j = k

\* A call that waits for the table has asked it.
LookedUp == \A i \in Ids, kind \in Kinds : pc[i] = kind => status[<<i, kind>>] # "none"

PlacesRanked ==
  /\ PlaceRank["idle"] = 8 /\ PlaceRank["telemetry"] = 7 /\ PlaceRank["prompt"] = 6
  /\ PlaceRank["debounce"] = 5 /\ PlaceRank["strategy"] = 4 /\ PlaceRank["peek"] = 3
  /\ PlaceRank["own"] = 2 /\ PlaceRank["delay"] = 1
  /\ \A p \in Ended : PlaceRank[p] = 0
LEMMA PlaceRanks == PlacesRanked
BY DEF PlacesRanked, PlaceRank, Ended

\* Each step of a call takes it, and no other, to a place further on.
LEMMA ResumeLowers ==
  ASSUME NEW i \in Ids, Resume(i)
  PROVE  \E where \in Places : Goto(i, where) /\ PlaceRank[where] < PlaceRank[pc[i]]
<1>1. CASE AskPrompt(i)
  <2>1. PICK where \in {"aborted", "prompt"} : Goto(i, where) /\ pc[i] = "telemetry"
    BY <1>1 DEF AskPrompt
  <2> QED BY <2>1, PlaceRanks DEF PlacesRanked, Places, Ended
<1>2. CASE Prompted(i)
  <2>1. PICK where \in {"aborted", "debounce", "strategy"} : Goto(i, where) /\ pc[i] = "prompt"
    BY <1>2 DEF Prompted
  <2> QED BY <2>1, PlaceRanks DEF PlacesRanked, Places, Ended
<1>3. CASE Debounced(i)
  <2>1. PICK where \in {"aborted", "strategy"} : Goto(i, where) /\ pc[i] = "debounce"
    BY <1>3 DEF Debounced
  <2> QED BY <2>1, PlaceRanks DEF PlacesRanked, Places, Ended
<1>4. CASE LookUp(i) \/ Peeked(i)
  <2>1. PICK where \in {"delay", "aborted", "empty", "canceled", "success", "peek", "own"} :
          Goto(i, where) /\ (where = "peek" => pc[i] = "strategy") /\ pc[i] \in {"strategy", "peek"}
    BY <1>4 DEF LookUp, Peeked, AnswerLocally, DeliverOrDelay, Deliver
  <2> QED BY <2>1, PlaceRanks DEF PlacesRanked, Places, Ended
<1>5. CASE Owned(i)
  <2>1. PICK where \in {"delay", "empty", "canceled", "success"} : Goto(i, where) /\ pc[i] = "own"
    BY <1>5 DEF Owned, DeliverOrDelay, Deliver
  <2> QED BY <2>1, PlaceRanks DEF PlacesRanked, Places, Ended
<1>6. CASE Delayed(i)
  <2>1. PICK where \in {"canceled", "success"} : Goto(i, where) /\ pc[i] = "delay"
    BY <1>6 DEF Delayed, Deliver
  <2> QED BY <2>1, PlaceRanks DEF PlacesRanked, Places, Ended
<1> QED BY <1>1, <1>2, <1>3, <1>4, <1>5, <1>6 DEF Resume

\* What a step may do to the places of the calls.
LEMMA PlaceMoves ==
  ASSUME [GhostNext]_allVars
  PROVE  \/ pc' = pc /\ prompts' = prompts
         \/ \E i \in Ids : \E t : Start(i, t)
         \/ \E i \in Ids : Resume(i)
BY DEF GhostNext, allVars, flowVars, Issue, Speculate, CancelToken, NetworkCompletes, CacheMore,
       TableStep, SelectModel

(* Every step of a call takes it further on its way and no step takes any  *)
(* call back: a call makes at most seven steps.                            *)
THEOREM CallsRankFalls == GhostSpec => CallsAdvance
<1>1. ASSUME GhostInv, [GhostNext]_allVars
      PROVE  [Further]_allVars
  <2>1. pc \in [Ids -> Places]
    BY <1>1, PartsOfInv DEF FlowParts, FlowTypes
  <2>2. \A p \in Places : PlaceRank[p] \in Nat
    BY PlaceRanks DEF PlacesRanked, Places
  <2> SUFFICES ASSUME NEW i \in Ids
               PROVE  /\ Resume(i) => PlaceRank[pc'[i]] < PlaceRank[pc[i]]
                      /\ PlaceRank[pc'[i]] <= PlaceRank[pc[i]]
    BY DEF Further
  <2>3. CASE Resume(i)
    <3>1. PICK where \in Places : Goto(i, where) /\ PlaceRank[where] < PlaceRank[pc[i]]
      BY <2>3, ResumeLowers
    <3>2. pc'[i] = where
      BY <2>1, <3>1 DEF Goto
    <3> QED BY <2>1, <2>2, <3>1, <3>2
  <2>4. CASE ~Resume(i)
    <3>1. CASE pc'[i] = pc[i]
      BY <2>1, <2>2, <2>4, <3>1
    <3>2. CASE pc'[i] # pc[i]
      <4>1. \/ \E j \in Ids : \E t : Start(j, t)
            \/ \E j \in Ids : Resume(j) /\ \E where : Goto(j, where)
        BY <1>1, <3>2, PlaceMoves, ResumeLowers
      <4>2. pc[i] = "idle" /\ pc'[i] = "telemetry"
        BY <2>1, <2>4, <3>2, <4>1 DEF Start, Goto
      <4> QED BY <2>4, <4>2, PlaceRanks DEF PlacesRanked
    <3> QED BY <3>1, <3>2
  <2> QED BY <2>3, <2>4
<1> QED BY GhostInvariance, <1>1, PTL DEF GhostSpec, CallsAdvance

LEMMA PromptsStep ==
  ASSUME GhostInv, PromptsOrdered, [GhostNext]_allVars
  PROVE  PromptsOrdered'
<1>1. pc \in [Ids -> Places] /\ prompts \in Seq(Ids)
  BY PartsOfInv DEF FlowParts, FlowTypes
<1>2. CASE pc' = pc /\ prompts' = prompts
  BY <1>2 DEF PromptsOrdered
<1>3. CASE \E i \in Ids : \E t : Start(i, t)
  <2>1. PICK i \in Ids : pc[i] = "idle" /\ pc' = [pc EXCEPT ![i] = "telemetry"] /\ prompts' = prompts
    BY <1>3 DEF Start, Goto
  <2> QED BY <1>1, <2>1 DEF PromptsOrdered
<1>4. ASSUME NEW i \in Ids, AskPrompt(i) PROVE PromptsOrdered'
  <2>1. pc[i] = "telemetry"
    BY <1>4 DEF AskPrompt
  <2>2. CASE Goto(i, "aborted") /\ prompts' = prompts
    BY <1>1, <2>1, <2>2 DEF PromptsOrdered, Goto
  <2>3. CASE Goto(i, "prompt") /\ prompts' = Append(prompts, i)
    <3>1. /\ DOMAIN prompts' = 1 .. (Len(prompts) + 1) /\ DOMAIN prompts = 1 .. Len(prompts)
          /\ Len(prompts) \in Nat /\ prompts'[Len(prompts) + 1] = i
          /\ \A k \in DOMAIN prompts : prompts'[k] = prompts[k] /\ prompts[k] \in Ids
      BY <1>1, <2>3
    <3>2. \A k \in DOMAIN prompts : prompts[k] # i
      BY <2>1 DEF PromptsOrdered
    <3>3. \A k \in DOMAIN prompts' : k \in DOMAIN prompts \/ k = Len(prompts) + 1
      BY <3>1
    <3>4. \A k \in DOMAIN prompts' : pc'[prompts'[k]] = "prompt"
      BY <1>1, <2>3, <3>1, <3>3 DEF PromptsOrdered, Goto
    <3>5. \A j, k \in DOMAIN prompts' : prompts'[j] = prompts'[k] => j = k
      BY <3>1, <3>2, <3>3 DEF PromptsOrdered
    <3> QED BY <3>4, <3>5 DEF PromptsOrdered
  <2> QED BY <1>4, <2>2, <2>3 DEF AskPrompt
<1>5. ASSUME NEW i \in Ids, Prompted(i) PROVE PromptsOrdered'
  <2>1. pc[i] = "prompt" /\ i = Head(prompts) /\ prompts' = Tail(prompts) /\ \E where : Goto(i, where)
    BY <1>5 DEF Prompted
  <2>2. prompts # <<>>
    BY <1>1, <2>1, PartsOfInv DEF FlowParts, PromptsQueued
  <2>3. /\ DOMAIN prompts' = 1 .. (Len(prompts) - 1) /\ DOMAIN prompts = 1 .. Len(prompts)
        /\ Len(prompts) \in Nat /\ prompts[1] = i
        /\ \A k \in DOMAIN prompts' : prompts'[k] = prompts[k + 1] /\ prompts[k + 1] \in Ids
    BY <1>1, <2>1, <2>2
  <2>4. \A k \in DOMAIN prompts' :
          /\ k + 1 \in DOMAIN prompts /\ prompts'[k] # i
          /\ prompts'[k] \in Ids /\ pc[prompts'[k]] = "prompt"
    BY <2>2, <2>3 DEF PromptsOrdered
  <2>5. \A k \in DOMAIN prompts' : pc'[prompts'[k]] = "prompt"
    BY <1>1, <2>1, <2>4 DEF Goto
  <2>6. \A j, k \in DOMAIN prompts' : prompts'[j] = prompts'[k] => j = k
    BY <2>3, <2>4 DEF PromptsOrdered
  <2> QED BY <2>5, <2>6 DEF PromptsOrdered
<1>6. ASSUME NEW i \in Ids, Debounced(i) \/ LookUp(i) \/ Peeked(i) \/ Owned(i) \/ Delayed(i)
      PROVE  PromptsOrdered'
  <2>1. prompts' = prompts /\ pc[i] # "prompt" /\ Resume(i)
    BY <1>6 DEF Debounced, LookUp, Peeked, Owned, Delayed, Resume
  <2>2. \E where : Goto(i, where)
    BY <2>1, ResumeLowers
  <2> QED BY <1>1, <2>1, <2>2 DEF PromptsOrdered, Goto
<1> QED BY <1>2, <1>3, <1>4, <1>5, <1>6, PlaceMoves DEF Resume

\* The table never forgets a call.
LEMMA StatusStays ==
  ASSUME TypeOK, TableMoves, NEW c \in Calls, status[c] # "none"
  PROVE  status'[c] # "none"
<1>1. status \in [Calls -> {"none", "waiting", "resolved", "disposed"}]
  BY DEF TypeOK
<1>2. CASE \E i \in Ids, t \in Texts : Peek(i, t) \/ Queue(i, t)
  <2>1. \E d \in Calls : \E v \in {"waiting", "resolved"} : status' = [status EXCEPT ![d] = v]
    <3>1. PICK i \in Ids, kind \in Kinds : \E m, R, t : GetFirstMatching(i, kind, t, m, R)
      BY <1>2 DEF Peek, Queue, Kinds
    <3>2. <<i, kind>> \in Calls
      BY DEF Calls
    <3> QED BY <3>1, <3>2 DEF GetFirstMatching
  <2> QED BY <1>1, <2>1
<1>3. CASE \E i \in Ids, t \in Texts : Update(i, t) \/ Complete(i, t)
  BY <1>1, <1>3 DEF Update, Complete, FinishRequest
<1>4. CASE \E i \in Ids : Fail(i)
  BY <1>1, <1>4 DEF Fail, FinishRequest
<1>5. CASE \E d \in Calls : Dispose(d)
  BY <1>1, <1>5 DEF Dispose
<1>6. CASE Clear \/ UNCHANGED vars \/ \E i \in Ids : PeekTimeout(i)
  BY <1>6 DEF Clear, vars, PeekTimeout, callVars
<1> QED BY <1>2, <1>3, <1>4, <1>5, <1>6 DEF TableMoves

LEMMA AskedOfTable ==
  ASSUME TypeOK, NEW i \in Ids, NEW kind \in Kinds,
         \/ kind = "peek" /\ Peek(i, pos[i])
         \/ kind = "own" /\ Queue(i, pos[i])
  PROVE  status'[<<i, kind>>] # "none"
<1>1. <<i, kind>> \in Calls
  BY DEF Calls
<1>2. \E v \in {"waiting", "resolved"} : status' = [status EXCEPT ![<<i, kind>>] = v]
  BY DEF Peek, Queue, GetFirstMatching
<1> QED BY <1>1, <1>2 DEF TypeOK

LEMMA LookedUpStep ==
  ASSUME GhostInv, LookedUp, [GhostNext]_allVars
  PROVE  LookedUp'
<1>1. /\ pc \in [Ids -> Places] /\ TypeOK /\ IInv /\ FlowParts
      /\ TableMoves
  BY PartsOfInv, GhostStepMoves DEF FlowParts, FlowTypes, IInv
<1> SUFFICES ASSUME NEW i \in Ids, NEW kind \in Kinds, pc'[i] = kind
             PROVE  status'[<<i, kind>>] # "none"
  BY DEF LookedUp
<1>2. <<i, kind>> \in Calls
  BY DEF Calls
<1>3. CASE pc[i] = kind
  BY <1>1, <1>2, <1>3, StatusStays DEF LookedUp
<1>4. CASE pc[i] # kind
  <2>1. Resume(i)
    <3>1. \/ \E j \in Ids : \E t : Start(j, t)
          \/ \E j \in Ids : Resume(j) /\ \E where : Goto(j, where)
      BY <1>4, PlaceMoves, ResumeLowers
    <3> QED BY <1>1, <1>4, <3>1 DEF Start, Goto, Kinds
  <2>2. \/ kind = "peek" /\ Peek(i, pos[i])
        \/ kind = "own" /\ Queue(i, pos[i])
    BY <1>1, <1>4, <2>1 DEF Resume, AskPrompt, Prompted, Debounced, LookUp, Peeked, Owned, Delayed,
         AnswerLocally, DeliverOrDelay, Deliver, Goto, Kinds
  <2> QED BY <1>1, <2>2, AskedOfTable
<1> QED BY <1>3, <1>4

(* No call waits for nothing: the prompt it waits for has its turn after   *)
(* those queued before it, whose calls still wait, and what it has asked   *)
(* the table is answered, or will be when a request in flight ends.        *)
THEOREM CallWaitsEnd == GhostSpec => []WaitsEnd
<1>1. GhostInit => PromptsOrdered /\ LookedUp
  BY DEF GhostInit, PromptsOrdered, LookedUp, Kinds
<1>2. GhostInv /\ PromptsOrdered /\ LookedUp /\ [GhostNext]_allVars => PromptsOrdered' /\ LookedUp'
  BY PromptsStep, LookedUpStep
<1>3. ASSUME GhostInv, PromptsOrdered, LookedUp PROVE WaitsEnd
  <2>1. prompts \in Seq(Ids) /\ PromptsQueued /\ NoLostWaiter /\ TypeOK
    BY <1>3, PartsOfInv DEF FlowParts, FlowTypes, IInv
  <2> SUFFICES ASSUME NEW i \in Ids
               PROVE  /\ pc[i] = "prompt" => prompts # <<>> /\ pc[Head(prompts)] = "prompt"
                      /\ \A kind \in Kinds : pc[i] = kind =>
                           \/ status[<<i, kind>>] \in {"resolved", "disposed"}
                           \/ \E r \in subs[<<i, kind>>] : phase[r] = "pending"
    BY DEF WaitsEnd, Kinds
  <2>2. ASSUME pc[i] = "prompt" PROVE prompts # <<>> /\ pc[Head(prompts)] = "prompt"
    <3>1. PICK k \in 1 .. Len(prompts) : prompts[k] = i
      BY <2>1, <2>2 DEF PromptsQueued
    <3>2. prompts # <<>> /\ 1 \in DOMAIN prompts /\ Head(prompts) = prompts[1]
      BY <2>1, <3>1
    <3> QED BY <1>3, <3>2 DEF PromptsOrdered
  <2>3. ASSUME NEW kind \in Kinds, pc[i] = kind
        PROVE  \/ status[<<i, kind>>] \in {"resolved", "disposed"}
               \/ \E r \in subs[<<i, kind>>] : phase[r] = "pending"
    <3>1. <<i, kind>> \in Calls /\ status[<<i, kind>>] # "none"
      BY <1>3, <2>3 DEF LookedUp, Calls
    <3>2. status[<<i, kind>>] \in {"waiting", "resolved", "disposed"}
      BY <2>1, <3>1 DEF TypeOK
    <3> QED BY <2>1, <3>1, <3>2 DEF NoLostWaiter
  <2> QED BY <2>2, <2>3
<1> QED BY GhostInvariance, <1>1, <1>2, <1>3, PTL DEF GhostSpec
==============================================================================

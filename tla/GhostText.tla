------------------------------- MODULE GhostText ------------------------------
(***************************************************************************)
(* GhostTextComputer.getGhostText (completions-core/.../ghostText.ts) and  *)
(* the two pieces of state it shares between calls: CurrentGhostText       *)
(* (current.ts) and the completions cache.  A call runs from one await to  *)
(* the next; between them other calls run, the user types, the editor      *)
(* cancels tokens and the network of AsyncCompletions answers.  Cycling    *)
(* and promptOnly calls are left out.                                      *)
(***************************************************************************)
EXTENDS AsyncCompletions, Sequences

CONSTANT PostProcessing  \* what post-processing may do to the texts: see post

\* startsWithAndExceeds; mutant: a completion typed to its end still counts
ContinuesOrEnds(f, t) == f # NoText /\ StartsWith(f, t)
Continues(f, t) == f # NoText /\ StartsWith(f, t) /\ f # t

ASSUME GhostIdsAssumption == IsFiniteSet(Ids)

\* A choice is dropped, or cut at its end: the cursor stays within it.
ASSUME PostProcessingAssumption ==
  \A p \in PostProcessing :
    /\ p \in [Texts \X Texts -> Texts \cup {NoText}]
    /\ \A t, f \in Texts : p[<<t, f>>] # NoText =>
         /\ StartsWith(f, p[<<t, f>>])
         /\ Continues(f, t) => Continues(p[<<t, f>>], t)

VARIABLES
  pc,         \* where each call is suspended, or how it has ended
  pos,        \* document text at the cursor the call was made for
  choice,     \* text of the first choice the call has found
  rest,       \* texts of its other choices, held for the completions delay
  tokenDone,  \* the editor has cancelled the call's token
  rank,       \* order of the calls (history), 0 before the call
  current,    \* currentGhostText.currentRequestId
  ghost,      \* currentGhostText: prefix, first choice, the others, and who
              \* set it (history)
  cache,      \* completions cache: pairs <<prefix text, completion text>>
  prompts,    \* calls waiting for the sequential prompt factory
  unspent,    \* ids whose completion has a speculative request stored
  post        \* what post-processing leaves at a text of a choice; never changes

flowVars == <<pc, pos, choice, rest, tokenDone, rank, current, ghost, cache, prompts, unspent,
              post>>
allVars == <<vars, flowVars>>

Users == Ids \ Speculative
NoGhost == [at |-> NoText, text |-> NoText, more |-> {}, by |-> NoId]

GhostInit ==
  /\ Init
  /\ pc = [i \in Ids |-> "idle"]
  /\ pos = [i \in Ids |-> NoText]
  /\ choice = [i \in Ids |-> NoText]
  /\ rest = [i \in Ids |-> {}]
  /\ tokenDone = [i \in Ids |-> FALSE]
  /\ rank = [i \in Ids |-> 0]
  /\ current = NoId
  /\ ghost = NoGhost
  /\ cache = {}
  /\ prompts = <<>>
  /\ unspent = {}
  /\ post \in PostProcessing

Ended == {"aborted", "canceled", "empty", "success"}

\* isCompletionRequestCancelled; mutant: only the token counts
TokenCancelled(i) == tokenDone[i]
IsCancelled(i) == tokenDone[i] \/ i # current

Goto(i, where) == pc' = [pc EXCEPT ![i] = where]

(***************************************************************************)
(* The call is made: it becomes the current one, and waits for experiments *)
(* and tokenizers.                                                         *)
(***************************************************************************)
Start(i, t) ==
  /\ pc[i] = "idle"
  /\ Goto(i, "telemetry")
  /\ pos' = [pos EXCEPT ![i] = t]
  /\ rank' = [rank EXCEPT ![i] = 1 + Cardinality({j \in Ids : rank[j] > 0})]
  /\ current' = i
  /\ UNCHANGED <<vars, choice, rest, tokenDone, ghost, cache, prompts, post>>

Issue(i, t) == i \in Users /\ Start(i, t) /\ UNCHANGED unspent

\* telemetryShown runs the request stored for the completion, once, for the
\* document with that completion inserted
Speculate(s, i) ==
  /\ s \in Speculative /\ i \in unspent
  /\ Start(s, choice[i])
  /\ unspent' = unspent \ {i}

\* the editor cancels the token of a user's call; speculative calls have none
CancelToken(i) ==
  /\ i \in Users /\ pc[i] \notin Ended \cup {"idle"} /\ ~tokenDone[i]
  /\ tokenDone' = [tokenDone EXCEPT ![i] = TRUE]
  /\ UNCHANGED <<vars, pc, pos, choice, rest, rank, current, ghost, cache, prompts, unspent, post>>

\* the check before extractPrompt; prompts are built one at a time
AskPrompt(i) ==
  /\ pc[i] = "telemetry"
  /\ IF IsCancelled(i)
     THEN Goto(i, "aborted") /\ UNCHANGED prompts
     ELSE Goto(i, "prompt") /\ prompts' = Append(prompts, i)
  /\ UNCHANGED <<vars, pos, choice, rest, tokenDone, rank, current, ghost, cache, unspent, post>>

\* Mutant: a prompt that is given up does not release the next one.
PromptHeld(i) ==
  /\ pc[i] = "prompt" /\ i = Head(prompts)
  /\ \E where \in {"aborted", "debounce", "strategy"} :
       Goto(i, where) /\ prompts' = IF where = "aborted" THEN prompts ELSE Tail(prompts)
  /\ UNCHANGED <<vars, pos, choice, rest, tokenDone, rank, current, ghost, cache, unspent, post>>

\* the prompt is there, or unusable (excluded, too short, timed out); what
\* is left of the debounce time is waited for
Prompted(i) ==
  /\ pc[i] = "prompt" /\ i = Head(prompts)
  /\ prompts' = Tail(prompts)
  /\ \E where \in {"aborted", "debounce", "strategy"} : Goto(i, where)
  /\ UNCHANGED <<vars, pos, choice, rest, tokenDone, rank, current, ghost, cache, unspent, post>>

\* the check after the debounce
Debounced(i) ==
  /\ pc[i] = "debounce"
  /\ Goto(i, IF IsCancelled(i) THEN "aborted" ELSE "strategy")
  /\ UNCHANGED <<vars, pos, choice, rest, tokenDone, rank, current, ghost, cache, prompts, unspent, post>>

(***************************************************************************)
(* Answering.                                                              *)
(***************************************************************************)
\* postProcessChoiceInContext: a choice is dropped that repeats itself or the
\* next line, and cut where it would close a block again
Left(t, f) == IF f = NoText THEN NoText ELSE post[<<t, f>>]
AllLeft(t, F) == {Left(t, f) : f \in F} \ {NoText}

\* setGhostText, unless the result is the ghost text typed on
GhostAfter(i, f, F, typed) ==
  IF typed \/ i \in Speculative THEN ghost
  ELSE [at |-> pos[i], text |-> f, more |-> F, by |-> i]

\* the check before the update of the ghost text, and the return with first
\* choice f and others F; f is NoText when post-processing has left none
Deliver(i, f, F, typed) ==
  /\ choice' = [choice EXCEPT ![i] = f]
  /\ IF IsCancelled(i)
     THEN Goto(i, "canceled") /\ UNCHANGED <<ghost, unspent>>
     ELSE /\ Goto(i, "success")
          /\ ghost' = GhostAfter(i, f, F, typed)
          /\ unspent' = IF i \in Users /\ ~typed /\ f # NoText
                        THEN unspent \cup {i} ELSE unspent

\* the completions delay, skipped for ghost text typed on
DeliverOrDelay(i, f, F, typed) ==
  \/ Deliver(i, f, F, typed) /\ UNCHANGED rest
  \/ /\ ~typed
     /\ Goto(i, "delay")
     /\ choice' = [choice EXCEPT ![i] = f] /\ rest' = [rest EXCEPT ![i] = F]
     /\ UNCHANGED <<ghost, unspent>>

\* which of the texts F that are left comes first: the one found first, or
\* if it was dropped any.  Mutant: the choice typed on is not put first.
AnyFirst(first, F) == IF F = {} THEN {NoText} ELSE F
ComesFirst(first, F) == IF first # NoText THEN {first} ELSE IF F = {} THEN {NoText} ELSE F

\* choices found locally or in another request's result, f before those of F:
\* they are post-processed, then once more with those of the network
AnswerLocally(i, f, F, typed) ==
  LET once == AllLeft(pos[i], {f} \cup F)
      twice == AllLeft(pos[i], once)
  IN  \/ once = {} /\ Goto(i, "empty") /\ UNCHANGED <<choice, rest, ghost, unspent>>
      \/ /\ once # {}
         /\ \E g \in ComesFirst(Left(pos[i], Left(pos[i], f)), twice) :
              DeliverOrDelay(i, g, twice \ {g}, typed)

Delayed(i) ==
  /\ pc[i] = "delay"
  /\ IF IsCancelled(i)
     THEN Goto(i, "canceled") /\ UNCHANGED <<choice, ghost, unspent>>
     ELSE Deliver(i, choice[i], rest[i], FALSE)
  /\ UNCHANGED <<vars, pos, rest, tokenDone, rank, current, cache, prompts, post>>

(***************************************************************************)
(* Looking for choices.  getCompletionsForUserTyping comes first, so that  *)
(* the shown completion does not disappear, then the cache, then requests  *)
(* in flight, then the network.                                            *)
(***************************************************************************)
TypedOn(t) == ghost.at # NoText /\ StartsWith(t, ghost.at) /\ Continues(ghost.text, t)
\* adjustChoicesStart: the other choices the ghost text still has
MoreTypedOn(t) == {f \in ghost.more : Continues(f, t)}
Cached(t) == {e[2] : e \in {d \in cache : StartsWith(t, d[1]) /\ Continues(d[2], t)}}

LookUp(i) ==
  /\ pc[i] = "strategy"
  /\ LET t == pos[i] IN
     \/ /\ TypedOn(t)
        /\ AnswerLocally(i, ghost.text, MoreTypedOn(t) \cup Cached(t), TRUE)
        /\ UNCHANGED vars
     \/ /\ ~TypedOn(t)
        /\ \E f \in Cached(t) : AnswerLocally(i, f, Cached(t), FALSE)
        /\ UNCHANGED vars
     \/ /\ ~TypedOn(t) /\ Cached(t) = {} /\ ShouldWait(t)
        /\ Peek(i, t) /\ Goto(i, "peek") /\ UNCHANGED <<choice, rest, ghost, unspent>>
     \/ /\ ~TypedOn(t) /\ Cached(t) = {} /\ ~ShouldWait(t)
        /\ Queue(i, t) /\ Goto(i, "own") /\ UNCHANGED <<choice, rest, ghost, unspent>>
  /\ UNCHANGED <<pos, tokenDone, rank, current, cache, prompts, post>>

\* after getFirstMatchingRequestWithTimeout: the check, then the choice of
\* the other request or a request of the call's own
Peeked(i) ==
  /\ pc[i] = "peek" /\ PeekSettled(i)
  /\ LET f == IF timedOut[i] THEN NoText ELSE outcome[<<i, "peek">>] IN
     \/ /\ IsCancelled(i) /\ Goto(i, "aborted")
        /\ UNCHANGED <<vars, choice, rest, ghost, unspent>>
     \/ /\ ~IsCancelled(i) /\ f # NoText
        /\ AnswerLocally(i, f, {}, FALSE) /\ UNCHANGED vars
     \/ /\ ~IsCancelled(i) /\ f = NoText
        /\ Queue(i, pos[i]) /\ Goto(i, "own") /\ UNCHANGED <<choice, rest, ghost, unspent>>
  /\ UNCHANGED <<pos, tokenDone, rank, current, cache, prompts, post>>

\* after the call's own getFirstMatchingRequest
Owned(i) ==
  /\ pc[i] = "own" /\ status[<<i, "own">>] = "disposed"
  /\ LET f == outcome[<<i, "own">>] IN
     \/ f = NoText /\ Goto(i, "empty") /\ UNCHANGED <<choice, rest, ghost, unspent>>
     \/ f # NoText /\ DeliverOrDelay(i, Left(pos[i], f), {}, FALSE)
  /\ UNCHANGED <<vars, pos, tokenDone, rank, current, cache, prompts, post>>

(***************************************************************************)
(* What happens between the calls.                                         *)
(***************************************************************************)
\* the network answers; the first choice goes to the cache before the
\* request table learns of it
NetworkCompletes(r, t) ==
  /\ Complete(r, t)
  /\ cache' = cache \cup {<<ctx[r], t>>}
  /\ UNCHANGED <<pc, pos, choice, rest, tokenDone, rank, current, ghost, prompts, unspent, post>>

\* further choices of the answer go to the cache when they come, and the parts
\* a multiline stream is cut into go there for the text each of them follows
CacheMore(r, d, t) ==
  /\ phase[r] \in {"pending", "completed"} /\ StartsWith(d, ctx[r]) /\ Continues(t, d)
  /\ cache' = cache \cup {<<d, t>>}
  /\ UNCHANGED <<vars, pc, pos, choice, rest, tokenDone, rank, current, ghost, prompts, unspent, post>>

TableStep ==
  /\ \/ \E r \in Ids, t \in Texts : Update(r, t)
     \/ \E r \in Ids : Fail(r) \/ PeekTimeout(r)
     \/ \E c \in Calls : Dispose(c)
  /\ UNCHANGED flowVars

\* another completions model is picked: cache and table are emptied
SelectModel ==
  /\ Clear
  /\ cache' = {}
  /\ UNCHANGED <<pc, pos, choice, rest, tokenDone, rank, current, ghost, prompts, unspent, post>>

Resume(i) == AskPrompt(i) \/ Prompted(i) \/ Debounced(i) \/ LookUp(i)
             \/ Peeked(i) \/ Owned(i) \/ Delayed(i)

GhostNext ==
  \/ \E i \in Ids, t \in Typed : Issue(i, t)
  \/ \E s, i \in Ids : Speculate(s, i)
  \/ \E i \in Ids : CancelToken(i)
  \/ \E i \in Ids : Resume(i)
  \/ \E r \in Ids, t \in Texts : NetworkCompletes(r, t)
  \/ \E r \in Ids, d, t \in Texts : CacheMore(r, d, t)
  \/ TableStep
  \/ SelectModel

\* Timers fire, prompts are built or time out, requests end and microtasks
\* run.
GhostFairness ==
  /\ \A i \in Ids : WF_allVars(Resume(i))
  /\ \A r \in Ids : WF_allVars(\/ Fail(r) /\ UNCHANGED flowVars
                               \/ \E t \in Texts : NetworkCompletes(r, t))
  /\ \A c \in Calls : WF_allVars(Dispose(c) /\ UNCHANGED flowVars)

GhostSpec == GhostInit /\ [][GhostNext]_allVars /\ GhostFairness
------------------------------------------------------------------------------
(***************************************************************************)
(* Properties                                                              *)
(***************************************************************************)
GhostTypeOK ==
  /\ TypeOK
  /\ pc \in [Ids -> {"idle", "telemetry", "prompt", "debounce", "strategy",
                     "peek", "own", "delay"} \cup Ended]
  /\ pos \in [Ids -> Texts \cup {NoText}]
  /\ choice \in [Ids -> Texts \cup {NoText}]
  /\ tokenDone \in [Ids -> BOOLEAN]
  /\ rank \in [Ids -> 0 .. Cardinality(Ids)]
  /\ current \in Ids \cup {NoId}
  /\ rest \in [Ids -> SUBSET Texts]
  /\ ghost \in [at : Texts \cup {NoText}, text : Texts \cup {NoText}, more : SUBSET Texts,
               by : Users \cup {NoId}]
  /\ cache \subseteq Texts \X Texts
  /\ prompts \in Seq(Ids)
  /\ unspent \subseteq Users
  /\ post \in PostProcessing

(* The ghost text shown is never replaced by the answer of an older call,  *)
(* however late that answer comes and whatever it waited for.              *)
GhostInOrder ==
  [][ghost'.by # ghost.by =>
       \A i \in Users : i # ghost'.by /\ rank[i] > 0 => rank[i] < rank[ghost'.by]]_allVars

(* What is shown continues the text the user had typed: over the typed-on  *)
(* ghost text, the cache, other calls' requests and the call's own.        *)
AnswersContinue ==
  \A i \in Ids : pc[i] = "success" /\ choice[i] # NoText =>
    StartsWith(choice[i], pos[i]) /\ choice[i] # pos[i]

(* While a user types along the ghost text, that text is the answer, as far *)
(* as post-processing at the new place leaves it: cached and newly fetched *)
(* completions come after it.  And it remains the ghost text, even where   *)
(* post-processing has dropped it and another choice is the answer.        *)
TypingAlongIsStable ==
  [][\A i \in Users :
       pc[i] = "strategy" /\ pc'[i] = "success" /\ TypedOn(pos[i]) =>
         /\ ghost' = ghost
         /\ LET shown == Left(pos[i], Left(pos[i], ghost.text))
            IN  shown # NoText => choice'[i] = shown]_allVars

(* Every call of getGhostText returns. *)
CallsReturn == \A i \in Ids : pc[i] = "telemetry" ~> pc[i] \in Ended

(* asyncCompletions.ts: "we only want to cancel requests that don't match  *)
(* the most recent request prefix".  The most recent request is the one    *)
(* the user has made last, be it still on its way to the table.            *)
Newest(i) == i \in Users /\ rank[i] > 0 /\ \A j \in Users : rank[j] <= rank[i]
CancelsSpareNewest ==
  [][\A r, i \in Ids : cancelled'[r] /\ ~cancelled[r] /\ Newest(i) =>
       ~IsCandidate(pos[i], r)']_allVars
------------------------------------------------------------------------------
(***************************************************************************)
(* The inductive invariant behind the safety properties.                   *)
(***************************************************************************)
\* a call asks the table for the text it was made at
CallsPlaced ==
  \A i \in Ids :
    /\ pos[i] = NoText <=> pc[i] = "idle"
    /\ rank[i] = 0 <=> pc[i] = "idle"
    /\ ctx[i] \in {NoText, pos[i]}
    /\ pc[i] \in {"peek", "own"} => ctx[i] = pos[i]

\* a prompt that is waited for is being built or will be
PromptsQueued ==
  \A i \in Ids : pc[i] = "prompt" => \E k \in 1..Len(prompts) : prompts[k] = i

AnswersKnown ==
  /\ \A i \in Ids : pc[i] \in {"delay", "success"} /\ choice[i] # NoText =>
       Continues(choice[i], pos[i])
  /\ \A i \in unspent : pc[i] = "success" /\ choice[i] \in Texts

\* the current request is the one made last
Begun == {i \in Ids : rank[i] > 0}
CurrentIsLast ==
  \A i \in Ids :
    /\ rank[i] <= Cardinality(Begun)
    /\ rank[i] > 0 /\ i # current => rank[i] < rank[current]

FlowInv ==
  /\ GhostTypeOK
  /\ CallsPlaced
  /\ PromptsQueued
  /\ AnswersKnown
  /\ CurrentIsLast
GhostInv == IInv /\ FlowInv
------------------------------------------------------------------------------
(***************************************************************************)
(* Why calls return.  A call goes on from place to place and never back,   *)
(* and what it waits for can still happen.                                 *)
(***************************************************************************)
PlaceRank ==
  [idle |-> 8, telemetry |-> 7, prompt |-> 6, debounce |-> 5, strategy |-> 4, peek |-> 3, own |-> 2,
   delay |-> 1, aborted |-> 0, canceled |-> 0, empty |-> 0, success |-> 0]

(* Every step of a call lowers its rank, and no step raises that of any.   *)
Further ==
  \A i \in Ids : /\ Resume(i) => PlaceRank[pc'[i]] < PlaceRank[pc[i]]
                  /\ PlaceRank[pc'[i]] <= PlaceRank[pc[i]]
CallsAdvance == [][Further]_allVars

(* A call that waits for its prompt waits behind one whose prompt is being *)
(* built, and a call that waits for the table has an answer, or subscribes *)
(* to a request the network will end.                                      *)
WaitsEnd ==
  \A i \in Ids :
    /\ pc[i] = "prompt" => prompts # <<>> /\ pc[Head(prompts)] = "prompt"
    /\ \A kind \in {"peek", "own"} : pc[i] = kind =>
         \/ status[<<i, kind>>] \in {"resolved", "disposed"}
         \/ \E r \in subs[<<i, kind>>] : phase[r] = "pending"
==============================================================================

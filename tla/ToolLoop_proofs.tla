---------------------------- MODULE ToolLoop_proofs ----------------------------
(***************************************************************************)
(* Proofs about ToolLoop for any limits and any number of rounds: types,   *)
(* that nothing is forgotten, that a request has the results of the calls  *)
(* it shows, that tools run once where no pass runs beside the loop, and   *)
(* that the limit bounds the requests.                                     *)
(***************************************************************************)
EXTENDS ToolLoop, TLAPS, WellFoundedInduction

\* The parts of TLTypeOK: of the loop, of the prompt, of the rounds.
LoopTypes ==
  /\ perm \in {"default", "autoApprove", "autopilot"}
  /\ mode \in {"off", "separate", "inline", "background"}
  /\ hist \in BOOLEAN
  /\ pc \in {"top", "prepare", "preWait", "tools", "rendered", "budgetWait", "summarize",
             "post", "postWait", "built", "send", "fetch", "retry", "stopHook", "done"}
  /\ i \in Nat /\ limit \in Nat \ {0} /\ sent \in Nat
  /\ last \in {"none", "ok", "failed"}
  /\ retries \in 0..MaxRetries /\ nudges \in 0..MaxNudges /\ nudged \in BOOLEAN
PromptTypes ==
  /\ kind \in {"main", "again", "inline", "sum", "plain"}
  /\ late \in BOOLEAN /\ asked \in BOOLEAN /\ applied \in BOOLEAN /\ fgFailed \in BOOLEAN
  /\ size \in Sizes
  /\ bg \in {"Idle", "InProgress", "Completed", "Failed"}
  /\ cancelled \in BOOLEAN /\ yield \in BOOLEAN
RoundTypes ==
  /\ n \in Nat
  /\ withCalls \subseteq 1..n /\ tasked \subseteq withCalls
  /\ summary \in [DOMAIN summary -> SUBSET (0..n)] /\ DOMAIN summary \subseteq 0..n
  /\ results \subseteq 1..n /\ ran \subseteq 1..n /\ reran \subseteq 1..n /\ fresh \subseteq 1..n
PassTypes ==
  pass \in [step : {"none", "summarize", "tools", "rendered"}, n : 0..n,
            results : SUBSET (1..n), target : 0..n, told : SUBSET (0..n)]

LEMMA TypeParts == TLTypeOK <=> LoopTypes /\ PromptTypes /\ RoundTypes /\ PassTypes
BY DEF TLTypeOK, LoopTypes, PromptTypes, RoundTypes, PassTypes

------------------------------------------------------------------------------
(***************************************************************************)
(* What a prompt shows.                                                    *)
(***************************************************************************)
LEMMA ExtendedGrows ==
  ASSUME NEW l \in Nat \ {0}, l < Cap
  PROVE  Extended(l) \in 1..Cap /\ Extended(l) > l
<1>1. (3 * l + 1) \div 2 \in Nat /\ (3 * l + 1) \div 2 > l
  OBVIOUS
<1>2. Extended(l) = Cap \/ (Extended(l) = (3 * l + 1) \div 2 /\ Extended(l) < Cap)
  BY DEF Extended
<1> QED BY <1>1, <1>2, TLBoundsAssumption

\* A nonempty set of numbers up to a bound has a greatest one.
LEMMA Greatest ==
  ASSUME NEW m \in Nat, NEW S, S \subseteq 0..m, S # {}
  PROVE  \E r \in S : \A q \in S : q <= r
<1> DEFINE T == {m - r : r \in S}
<1>1. T \subseteq Nat /\ T # {}
  <2>1. \A r \in S : m - r \in Nat
    OBVIOUS
  <2> QED BY <2>1
<1>2. PICK x \in T : \A y \in T : <<y, x>> \notin OpToRel(<, Nat)
  BY <1>1, WFMin, NatLessThanWellFounded
<1>3. PICK r \in S : x = m - r
  OBVIOUS
<1>4. ASSUME NEW q \in S PROVE q <= r
  <2>1. m - q \in T /\ m - q \in Nat /\ x \in Nat /\ q \in Nat /\ r \in Nat
    BY <1>1, <1>3
  <2>2. ~ (m - q < x)
    BY <1>2, <2>1 DEF OpToRel
  <2> QED BY <1>3, <2>1, <2>2
<1> QED BY <1>4

\* The summaries stored: each was made from the rounds it stands for, at least.
SummariesWhole ==
  \A r \in DOMAIN summary : All(r) \subseteq summary[r] /\ summary[r] \subseteq All(n)

LEMMA ToldWhole ==
  ASSUME RoundTypes, hist \in BOOLEAN, SummariesWhole, NEW m \in 0..n
  PROVE  All(m) \subseteq Told(m) /\ Told(m) \subseteq All(n)
<1>1. /\ n \in Nat /\ m \in Nat /\ m <= n /\ Marked(m) \subseteq 0..m
      /\ All(m) \subseteq All(n) /\ All(m) \subseteq 0..m
  BY DEF RoundTypes, Marked, All
<1>2. Told(m) \subseteq All(n)
  BY <1>1 DEF Told, Visible, Marked, SummariesWhole
<1>3. ASSUME NEW r \in All(m), r \notin Visible(m) PROVE r \in Told(m)
  <2>1. r \in 0..m
    BY <1>1, <1>3
  <2>2. PICK q \in Marked(m) : ~ (q < r)
    BY <1>3 DEF Visible
  <2>3. PICK g \in Marked(m) : \A k \in Marked(m) : k <= g
    <3>1. Marked(m) # {}
      BY <2>2
    <3> QED BY <1>1, <3>1, Greatest
  <2>4. r <= g /\ g \in 0..m
    BY <1>1, <2>1, <2>2, <2>3
  <2>5. r \in summary[g]
    BY <2>1, <2>3, <2>4 DEF Marked, SummariesWhole, All
  <2> QED BY <2>3, <2>5 DEF Told
<1> QED BY <1>2, <1>3 DEF Told

------------------------------------------------------------------------------
(***************************************************************************)
(* Types.                                                                  *)
(***************************************************************************)
LEMMA ToldTypes ==
  ASSUME RoundTypes, hist \in BOOLEAN, NEW m \in 0..n
  PROVE  Told(m) \subseteq 0..n /\ Visible(m) \subseteq 0..n
<1>1. n \in Nat /\ m <= n /\ All(m) \subseteq 0..n
  BY DEF RoundTypes, All
<1> QED BY <1>1 DEF RoundTypes, Told, Visible, Marked

LEMMA PutTypes ==
  ASSUME RoundTypes, NEW r \in 0..n, NEW told \in SUBSET (0..n)
  PROVE  Put(r, told) \in [DOMAIN Put(r, told) -> SUBSET (0..n)] /\ DOMAIN Put(r, told) \subseteq 0..n
BY DEF Put, RoundTypes

LEMMA ConsumeTypes ==
  ASSUME RoundTypes, PassTypes, Consume, UNCHANGED n
  PROVE  /\ summary' \in [DOMAIN summary' -> SUBSET (0..n)] /\ DOMAIN summary' \subseteq 0..n
         /\ PassTypes' /\ bg' = "Idle" /\ fgFailed' = FALSE
<1>1. pass.target \in 0..n /\ pass.told \in SUBSET (0..n) /\ n \in Nat
  BY DEF PassTypes, RoundTypes
<1>2. summary' \in [DOMAIN summary' -> SUBSET (0..n)] /\ DOMAIN summary' \subseteq 0..n
  BY <1>1, PutTypes DEF Consume, RoundTypes
<1>3. PassTypes'
  BY <1>1 DEF Consume, NoPass, PassTypes
<1> QED BY <1>2, <1>3 DEF Consume

\* More rounds keep the types of the pass.
LEMMA PassTypesGrow ==
  ASSUME RoundTypes, PassTypes, UNCHANGED pass, n' \in {n, n + 1}
  PROVE  PassTypes'
<1>1. n \in Nat /\ n' \in Nat /\ n <= n'
  BY DEF RoundTypes
<1>2. 0..n \subseteq 0..n' /\ 1..n \subseteq 1..n'
  BY <1>1
<1> QED BY <1>1, <1>2 DEF PassTypes

LEMMA PushTypes ==
  ASSUME LoopTypes, RoundTypes, PassTypes, NEW ask \in Asks, Push(ask), UNCHANGED <<summary, tools, pass>>
  PROVE  /\ RoundTypes' /\ PassTypes'
         /\ nudges' \in 0..MaxNudges /\ nudged' \in BOOLEAN
<1>1. n \in Nat /\ n' = n + 1 /\ 0..n \subseteq 0..n' /\ 1..n \subseteq 1..n' /\ n' \in 1..n'
  BY DEF RoundTypes, Push
<1>2. withCalls' \subseteq 1..n' /\ tasked' \subseteq withCalls'
  BY <1>1 DEF RoundTypes, Push, Asks
<1>3. RoundTypes'
  BY <1>1, <1>2 DEF RoundTypes, tools
<1>4. nudges' \in 0..MaxNudges /\ nudged' \in BOOLEAN
  BY TLBoundsAssumption DEF LoopTypes, Push
<1> QED BY <1>1, <1>3, <1>4, PassTypesGrow

(* The initial states have the types of the loop's variables. *)
THEOREM TLTypeInit == TLInit => TLTypeOK
<1> SUFFICES ASSUME TLInit PROVE TLTypeOK
  OBVIOUS
<1>1. LoopTypes
  <2>1. limit \in Nat \ {0} /\ i \in Nat /\ sent \in Nat
    BY TLBoundsAssumption DEF TLInit
  <2>2. retries \in 0..MaxRetries /\ nudges \in 0..MaxNudges
    BY TLBoundsAssumption DEF TLInit
  <2> QED BY <2>1, <2>2 DEF TLInit, LoopTypes
<1>4. PromptTypes
  BY DEF TLInit, PromptTypes, Sizes
<1>2. RoundTypes
  BY DEF TLInit, RoundTypes
<1>3. PassTypes
  BY DEF TLInit, PassTypes, NoPass
<1> QED BY <1>1, <1>2, <1>3, <1>4, TypeParts

LEMMA LoopTypesStep == ASSUME TLTypeOK, TLNext PROVE LoopTypes'
<1> USE TypeParts DEF LoopTypes, config, counters, asking, tools, prompt, background, signals
<1>1. CASE NextIteration
  BY <1>1, ExtendedGrows DEF NextIteration, AtLimit, MayExtend
<1>2. CASE Prepare
  BY <1>2 DEF Prepare
<1>3. CASE WaitBeforeRender
  BY <1>3 DEF WaitBeforeRender
<1>4. CASE RunTools
  BY <1>4 DEF RunTools
<1>5. CASE Fits
  BY <1>5 DEF Fits
<1>6. CASE Exceeds
  BY <1>6 DEF Exceeds, SummarizeOrNot
<1>7. CASE WaitOverBudget
  BY <1>7 DEF WaitOverBudget, SummarizeOrNot
<1>8. CASE InlineExceeds
  BY <1>8 DEF InlineExceeds, SummarizeOrNot
<1>9. CASE Summarize
  BY <1>9 DEF Summarize
<1>10. CASE SummarizeFails
  BY <1>10 DEF SummarizeFails
<1>11. CASE NothingFits
  BY <1>11 DEF NothingFits
<1>12. CASE CheckSize
  BY <1>12 DEF CheckSize
<1>13. CASE WaitAfterRender
  BY <1>13 DEF WaitAfterRender, SummarizeOrNot
<1>14. CASE KeepResults
  BY <1>14 DEF KeepResults
<1>15. CASE Send
  BY <1>15 DEF Send
<1>16. CASE Answer
  BY <1>16, PushTypes DEF Answer
<1>17. CASE InlineSummary
  BY <1>17 DEF InlineSummary
<1>18. CASE Failure
  BY <1>18, PushTypes, TLBoundsAssumption DEF Failure
<1>19. CASE Retry
  BY <1>19 DEF Retry
<1>20. CASE HookBlocks
  BY <1>20 DEF HookBlocks
<1>21. CASE HookLetsStop
  <2>1. nudges' \in 0..MaxNudges
    BY <1>21, TLBoundsAssumption DEF HookLetsStop, Nudge
  <2> QED BY <1>21, <2>1 DEF HookLetsStop
<1>22. CASE PassSummarizes
  BY <1>22 DEF PassSummarizes
<1>23. CASE PassRunsTools
  BY <1>23 DEF PassRunsTools
<1>24. CASE PassCompletes
  BY <1>24 DEF PassCompletes
<1>25. CASE PassFails
  BY <1>25 DEF PassFails
<1>26. CASE Cancel
  BY <1>26 DEF Cancel
<1>27. CASE AskToYield
  BY <1>27 DEF AskToYield
<1> QED BY <1>1, <1>2, <1>3, <1>4, <1>5, <1>6, <1>7, <1>8, <1>9, <1>10, <1>11, <1>12, <1>13, <1>14, <1>15, <1>16, <1>17, <1>18, <1>19, <1>20, <1>21, <1>22, <1>23, <1>24, <1>25, <1>26, <1>27
  DEF TLNext, LoopStep, Building, PassStep

LEMMA PromptTypesStep == ASSUME TLTypeOK, TLNext PROVE PromptTypes'
<1> USE TypeParts DEF PromptTypes, config, counters, asking, tools, prompt, background, signals
<1>1. CASE NextIteration
  BY <1>1 DEF NextIteration
<1>2. CASE Prepare
  BY <1>2, ConsumeTypes DEF Prepare
<1>3. CASE WaitBeforeRender
  BY <1>3, ConsumeTypes DEF WaitBeforeRender
<1>4. CASE RunTools
  BY <1>4 DEF RunTools
<1>5. CASE Fits
  BY <1>5 DEF Fits
<1>6. CASE Exceeds
  BY <1>6, ConsumeTypes DEF Exceeds, SummarizeOrNot
<1>7. CASE WaitOverBudget
  BY <1>7, ConsumeTypes DEF WaitOverBudget, SummarizeOrNot
<1>8. CASE InlineExceeds
  BY <1>8 DEF InlineExceeds, SummarizeOrNot
<1>9. CASE Summarize
  BY <1>9 DEF Summarize
<1>10. CASE SummarizeFails
  BY <1>10 DEF SummarizeFails
<1>11. CASE NothingFits
  BY <1>11 DEF NothingFits
<1>12. CASE CheckSize
  BY <1>12 DEF CheckSize, StartPass
<1>13. CASE WaitAfterRender
  BY <1>13, ConsumeTypes DEF WaitAfterRender, SummarizeOrNot
<1>14. CASE KeepResults
  BY <1>14 DEF KeepResults
<1>15. CASE Send
  BY <1>15 DEF Send
<1>16. CASE Answer
  BY <1>16 DEF Answer
<1>17. CASE InlineSummary
  BY <1>17 DEF InlineSummary
<1>18. CASE Failure
  BY <1>18 DEF Failure
<1>19. CASE Retry
  BY <1>19 DEF Retry
<1>20. CASE HookBlocks
  BY <1>20 DEF HookBlocks
<1>21. CASE HookLetsStop
  BY <1>21 DEF HookLetsStop
<1>22. CASE PassSummarizes
  BY <1>22 DEF PassSummarizes
<1>23. CASE PassRunsTools
  BY <1>23 DEF PassRunsTools
<1>24. CASE PassCompletes
  BY <1>24 DEF PassCompletes
<1>25. CASE PassFails
  BY <1>25 DEF PassFails
<1>26. CASE Cancel
  BY <1>26 DEF Cancel
<1>27. CASE AskToYield
  BY <1>27 DEF AskToYield
<1> QED BY <1>1, <1>2, <1>3, <1>4, <1>5, <1>6, <1>7, <1>8, <1>9, <1>10, <1>11, <1>12, <1>13, <1>14, <1>15, <1>16, <1>17, <1>18, <1>19, <1>20, <1>21, <1>22, <1>23, <1>24, <1>25, <1>26, <1>27
  DEF TLNext, LoopStep, Building, PassStep

LEMMA RoundTypesStep == ASSUME TLTypeOK, TLNext PROVE RoundTypes'
<1> USE TypeParts DEF RoundTypes, Rescued, Stored, config, counters, asking, tools, prompt, background
<1>1. CASE NextIteration
  BY <1>1 DEF NextIteration
<1>2. CASE Prepare
  BY <1>2, ConsumeTypes DEF Prepare
<1>3. CASE WaitBeforeRender
  BY <1>3, ConsumeTypes DEF WaitBeforeRender
<1>4. CASE RunTools
  BY <1>4 DEF RunTools
<1>5. CASE Fits
  BY <1>5 DEF Fits
<1>6. CASE Exceeds
  BY <1>6, ConsumeTypes DEF Exceeds
<1>7. CASE WaitOverBudget
  BY <1>7, ConsumeTypes DEF WaitOverBudget
<1>8. CASE InlineExceeds
  BY <1>8 DEF InlineExceeds
<1>9. CASE Summarize
  <2>1. Target(n) \in 0..n /\ Summarized(n) \in 0..n
    BY DEF Target, Summarized
  <2>2. Told(Summarized(n)) \in SUBSET (0..n)
    BY <2>1, ToldTypes DEF LoopTypes
  <2> QED BY <1>9, <2>1, <2>2, PutTypes DEF Summarize
<1>10. CASE SummarizeFails
  BY <1>10 DEF SummarizeFails
<1>11. CASE NothingFits
  BY <1>11 DEF NothingFits
<1>12. CASE CheckSize
  BY <1>12 DEF CheckSize
<1>13. CASE WaitAfterRender
  BY <1>13, ConsumeTypes DEF WaitAfterRender
<1>14. CASE KeepResults
  BY <1>14 DEF KeepResults
<1>15. CASE Send
  BY <1>15 DEF Send
<1>16. CASE Answer
  BY <1>16, PushTypes DEF Answer
<1>17. CASE InlineSummary
  <2>1. (IF n > 1 THEN n - 1 ELSE n) \in 0..n /\ n \in 0..n
    OBVIOUS
  <2>2. Told(n) \in SUBSET (0..n)
    BY <2>1, ToldTypes DEF LoopTypes
  <2> QED BY <1>17, <2>1, <2>2, PutTypes DEF InlineSummary
<1>18. CASE Failure
  BY <1>18, PushTypes DEF Failure
<1>19. CASE Retry
  BY <1>19 DEF Retry
<1>20. CASE HookBlocks
  BY <1>20 DEF HookBlocks
<1>21. CASE HookLetsStop
  BY <1>21 DEF HookLetsStop
<1>22. CASE PassSummarizes
  <2>1. pass.n \in 0..n
    BY DEF PassTypes
  <2>2. Target(pass.n) \in 0..n /\ Summarized(pass.n) \in 0..n
    BY <2>1 DEF Target, Summarized
  <2>3. Told(Summarized(pass.n)) \in SUBSET (0..n)
    BY <2>2, ToldTypes DEF LoopTypes
  <2> QED BY <1>22, <2>2, <2>3, PutTypes DEF PassSummarizes
<1>23. CASE PassRunsTools
  BY <1>23 DEF PassRunsTools
<1>24. CASE PassCompletes
  BY <1>24 DEF PassCompletes
<1>25. CASE PassFails
  BY <1>25 DEF PassFails
<1>26. CASE Cancel
  BY <1>26 DEF Cancel
<1>27. CASE AskToYield
  BY <1>27 DEF AskToYield
<1> QED BY <1>1, <1>2, <1>3, <1>4, <1>5, <1>6, <1>7, <1>8, <1>9, <1>10, <1>11, <1>12, <1>13, <1>14, <1>15, <1>16, <1>17, <1>18, <1>19, <1>20, <1>21, <1>22, <1>23, <1>24, <1>25, <1>26, <1>27
  DEF TLNext, LoopStep, Building, PassStep

LEMMA PassTypesStep == ASSUME TLTypeOK, TLNext PROVE PassTypes'
<1> USE TypeParts DEF PassTypes, config, counters, asking, tools, prompt, background
<1>1. CASE NextIteration
  BY <1>1 DEF NextIteration
<1>2. CASE Prepare
  BY <1>2, ConsumeTypes DEF Prepare
<1>3. CASE WaitBeforeRender
  BY <1>3, ConsumeTypes DEF WaitBeforeRender
<1>4. CASE RunTools
  BY <1>4 DEF RunTools
<1>5. CASE Fits
  BY <1>5 DEF Fits
<1>6. CASE Exceeds
  BY <1>6, ConsumeTypes DEF Exceeds
<1>7. CASE WaitOverBudget
  BY <1>7, ConsumeTypes DEF WaitOverBudget
<1>8. CASE InlineExceeds
  BY <1>8 DEF InlineExceeds
<1>9. CASE Summarize
  BY <1>9 DEF Summarize
<1>10. CASE SummarizeFails
  BY <1>10 DEF SummarizeFails
<1>11. CASE NothingFits
  BY <1>11 DEF NothingFits
<1>12. CASE CheckSize
  <2>1. n \in 0..n /\ 0 \in 0..n
    BY DEF RoundTypes
  <2>2. CASE StartPass
    BY <2>1, <2>2, <1>12 DEF CheckSize, StartPass, NoPass, RoundTypes
  <2>3. CASE UNCHANGED pass
    BY <2>3, <1>12 DEF CheckSize
  <2> QED BY <2>2, <2>3, <1>12 DEF CheckSize
<1>13. CASE WaitAfterRender
  BY <1>13, ConsumeTypes DEF WaitAfterRender
<1>14. CASE KeepResults
  BY <1>14 DEF KeepResults
<1>15. CASE Send
  BY <1>15 DEF Send
<1>16. CASE Answer
  BY <1>16, PushTypes DEF Answer
<1>17. CASE InlineSummary
  BY <1>17 DEF InlineSummary
<1>18. CASE Failure
  BY <1>18, PushTypes DEF Failure
<1>19. CASE Retry
  BY <1>19 DEF Retry
<1>20. CASE HookBlocks
  BY <1>20 DEF HookBlocks
<1>21. CASE HookLetsStop
  BY <1>21 DEF HookLetsStop
<1>22. CASE PassSummarizes
  <2>1. pass.n \in 0..n /\ n \in Nat
    BY DEF PassTypes, RoundTypes
  <2>2. Target(pass.n) \in 0..n /\ Summarized(pass.n) \in 0..n
    BY <2>1 DEF Target, Summarized
  <2>3. Told(Summarized(pass.n)) \in SUBSET (0..n)
    BY <2>2, ToldTypes DEF LoopTypes
  <2> QED BY <1>22, <2>2, <2>3 DEF PassSummarizes
<1>23. CASE PassRunsTools
  BY <1>23 DEF PassRunsTools
<1>24. CASE PassCompletes
  BY <1>24 DEF PassCompletes
<1>25. CASE PassFails
  BY <1>25 DEF PassFails, NoPass, RoundTypes
<1>26. CASE Cancel
  BY <1>26 DEF Cancel
<1>27. CASE AskToYield
  BY <1>27 DEF AskToYield
<1> QED BY <1>1, <1>2, <1>3, <1>4, <1>5, <1>6, <1>7, <1>8, <1>9, <1>10, <1>11, <1>12, <1>13, <1>14, <1>15, <1>16, <1>17, <1>18, <1>19, <1>20, <1>21, <1>22, <1>23, <1>24, <1>25, <1>26, <1>27
  DEF TLNext, LoopStep, Building, PassStep

(* Whatever the model answers and the tools and hooks do, the variables    *)
(* keep their types; rounds that call tools, have results or stand for     *)
(* others are rounds of this request (toolCallingLoop.ts).                 *)
THEOREM TLTypeCorrect == TLSpec => []TLTypeOK
<1>1. TLTypeOK /\ [TLNext]_vars => TLTypeOK'
  <2> SUFFICES ASSUME TLTypeOK, [TLNext]_vars PROVE TLTypeOK'
    OBVIOUS
  <2>1. CASE TLNext
    <3>1. LoopTypes' /\ PromptTypes' /\ RoundTypes' /\ PassTypes'
      BY <2>1, LoopTypesStep, PromptTypesStep, RoundTypesStep, PassTypesStep
    <3> QED BY <3>1 DEF TLTypeOK, LoopTypes, PromptTypes, RoundTypes, PassTypes
  <2>2. CASE UNCHANGED vars
    BY <2>2 DEF TLTypeOK, vars, config, counters, asking, tools, prompt, background, signals
  <2> QED BY <2>1, <2>2
<1> QED BY <1>1, TLTypeInit, PTL DEF TLSpec

------------------------------------------------------------------------------
(***************************************************************************)
(* Nothing is forgotten.                                                   *)
(***************************************************************************)
\* So was the summary that the pass has written, and will hand over.
PassWhole ==
  bg = "Completed" \/ pass.step \in {"tools", "rendered"} =>
    All(pass.target) \subseteq pass.told /\ pass.told \subseteq All(n)
Whole == SummariesWhole /\ PassWhole

LEMMA SummariesKept ==
  ASSUME TLTypeOK, Whole, UNCHANGED <<hist, summary>>, n' \in {n, n + 1}
  PROVE  SummariesWhole' /\ (UNCHANGED pass /\ (bg' = "Completed" => bg = "Completed") => PassWhole')
<1>1. All(n) \subseteq All(n') /\ All(n)' = All(n')
  BY DEF All, TLTypeOK
<1>2. \A r : All(r)' = All(r')
  BY DEF All
<1> QED BY <1>1, <1>2 DEF Whole, SummariesWhole, PassWhole, All

LEMMA SummaryAdded ==
  ASSUME Whole, NEW r, NEW told, summary' = Put(r, told), UNCHANGED <<hist, n>>,
         All(r) \subseteq told, told \subseteq All(n)
  PROVE  SummariesWhole'
<1>1. ASSUME NEW q \in DOMAIN summary' PROVE All(q) \subseteq summary'[q] /\ summary'[q] \subseteq All(n)
  BY <1>1 DEF Put, Whole, SummariesWhole
<1> QED BY <1>1 DEF SummariesWhole, All

LEMMA ConsumedWhole ==
  ASSUME TLTypeOK, Whole, Consume, UNCHANGED <<hist, n>>
  PROVE  Whole'
<1>1. SummariesWhole'
  <2>1. CASE bg = "Completed"
    BY <2>1, SummaryAdded DEF Consume, Whole, PassWhole
  <2>2. CASE bg # "Completed"
    BY <2>2, SummariesKept DEF Consume
  <2> QED BY <2>1, <2>2
<1>2. PassWhole'
  BY DEF Consume, NoPass, PassWhole
<1> QED BY <1>1, <1>2 DEF Whole

LEMMA WholeStep == ASSUME TLTypeOK, Whole, TLNext PROVE Whole'
<1> USE DEF config, counters, asking, tools, prompt, background
<1>1. CASE NextIteration
  BY <1>1, SummariesKept DEF NextIteration, Whole
<1>2. CASE Prepare
  BY <1>2, ConsumedWhole, SummariesKept DEF Prepare, Whole
<1>3. CASE WaitBeforeRender
  BY <1>3, ConsumedWhole, SummariesKept DEF WaitBeforeRender, Whole
<1>4. CASE RunTools
  BY <1>4, SummariesKept DEF RunTools, Whole
<1>5. CASE Fits
  BY <1>5, SummariesKept DEF Fits, Whole
<1>6. CASE Exceeds
  BY <1>6, ConsumedWhole, SummariesKept DEF Exceeds, Whole
<1>7. CASE WaitOverBudget
  BY <1>7, ConsumedWhole, SummariesKept DEF WaitOverBudget, Whole
<1>8. CASE InlineExceeds
  BY <1>8, SummariesKept DEF InlineExceeds, Whole
<1>9. CASE Summarize
  <2>1. n \in Nat /\ Summarized(n) \in 0..n
    BY DEF TLTypeOK, Summarized
  <2>2. All(Summarized(n)) \subseteq Told(Summarized(n)) /\ Told(Summarized(n)) \subseteq All(n)
    BY <2>1, ToldWhole, TypeParts DEF Whole, LoopTypes
  <2>3. All(Target(n)) \subseteq Told(Summarized(n))
    BY <2>1, <2>2 DEF Target, Summarized
  <2>4. SummariesWhole'
    BY <1>9, <2>2, <2>3, SummaryAdded DEF Summarize, config, asking
  <2> QED BY <1>9, <2>4 DEF Summarize, Whole, PassWhole, All
<1>10. CASE SummarizeFails
  BY <1>10, SummariesKept DEF SummarizeFails, Whole
<1>11. CASE NothingFits
  BY <1>11, SummariesKept DEF NothingFits, Whole
<1>12. CASE CheckSize
  <2>1. SummariesWhole'
    BY <1>12, SummariesKept DEF CheckSize
  <2>2. PassWhole'
    BY <1>12, SummariesKept DEF CheckSize, StartPass, NoPass, Whole, PassWhole
  <2> QED BY <2>1, <2>2 DEF Whole
<1>13. CASE WaitAfterRender
  BY <1>13, ConsumedWhole, SummariesKept DEF WaitAfterRender, Whole
<1>14. CASE KeepResults
  BY <1>14, SummariesKept DEF KeepResults, Whole
<1>15. CASE Send
  BY <1>15, SummariesKept DEF Send, Whole
<1>16. CASE Answer
  BY <1>16, SummariesKept DEF Answer, Whole, Push
<1>17. CASE InlineSummary
  <2>1. n \in Nat /\ n \in 0..n
    BY DEF TLTypeOK
  <2>2. All(n) \subseteq Told(n) /\ Told(n) \subseteq All(n)
    BY <2>1, ToldWhole, TypeParts DEF Whole, LoopTypes
  <2>3. All(IF n > 1 THEN n - 1 ELSE n) \subseteq Told(n)
    BY <2>1, <2>2 DEF All
  <2>4. SummariesWhole'
    BY <1>17, <2>2, <2>3, SummaryAdded DEF InlineSummary, config, asking
  <2> QED BY <1>17, <2>4 DEF InlineSummary, Whole, PassWhole, All
<1>18. CASE Failure
  BY <1>18, SummariesKept DEF Failure, Whole, Push
<1>19. CASE Retry
  BY <1>19, SummariesKept DEF Retry, Whole
<1>20. CASE HookBlocks
  BY <1>20, SummariesKept DEF HookBlocks, Whole
<1>21. CASE HookLetsStop
  BY <1>21, SummariesKept DEF HookLetsStop, Whole
<1>22. CASE PassSummarizes
  <2>1. pass.n \in Nat /\ Summarized(pass.n) \in 0..n
    BY TypeParts DEF PassTypes, RoundTypes, Summarized
  <2>2. All(Summarized(pass.n)) \subseteq Told(Summarized(pass.n)) /\ Told(Summarized(pass.n)) \subseteq All(n)
    BY <2>1, ToldWhole, TypeParts DEF Whole, LoopTypes
  <2>3. All(Target(pass.n)) \subseteq Told(Summarized(pass.n))
    BY <2>1, <2>2 DEF Target, Summarized
  <2>4. SummariesWhole'
    BY <1>22, <2>2, <2>3, SummaryAdded DEF PassSummarizes, config, asking
  <2>5. pass'.target = Target(pass.n) /\ pass'.told = Told(Summarized(pass.n))
    BY <1>22, TypeParts DEF PassSummarizes, PassTypes
  <2> QED BY <1>22, <2>2, <2>3, <2>4, <2>5 DEF PassSummarizes, Whole, PassWhole, All
<1>23. CASE PassRunsTools
  <2>1. SummariesWhole'
    BY <1>23, SummariesKept DEF PassRunsTools
  <2>2. PassWhole'
    BY <1>23, TypeParts DEF PassRunsTools, Whole, PassWhole, PassTypes, All
  <2> QED BY <2>1, <2>2 DEF Whole
<1>24. CASE PassCompletes
  <2>1. SummariesWhole'
    BY <1>24, SummariesKept DEF PassCompletes
  <2>2. PassWhole'
    BY <1>24, TypeParts DEF PassCompletes, Whole, PassWhole, PassTypes, All
  <2> QED BY <2>1, <2>2 DEF Whole
<1>25. CASE PassFails
  <2>1. SummariesWhole'
    BY <1>25, SummariesKept DEF PassFails
  <2>2. PassWhole'
    BY <1>25, TypeParts DEF PassFails, Whole, PassWhole, NoPass
  <2> QED BY <2>1, <2>2 DEF Whole
<1>26. CASE Cancel
  BY <1>26, SummariesKept DEF Cancel, Whole
<1>27. CASE AskToYield
  BY <1>27, SummariesKept DEF AskToYield, Whole
<1> QED BY <1>1, <1>2, <1>3, <1>4, <1>5, <1>6, <1>7, <1>8, <1>9, <1>10, <1>11, <1>12, <1>13, <1>14, <1>15, <1>16, <1>17, <1>18, <1>19, <1>20, <1>21, <1>22, <1>23, <1>24, <1>25, <1>26, <1>27
  DEF TLNext, LoopStep, Building, PassStep

(* Whatever is stored as a summary, by whom and when, a prompt tells of    *)
(* every round and of the turns before (getProps, applySummaryToRound,     *)
(* _applySummaryToRounds, addSummaryToHistory), for any number of rounds.  *)
THEOREM TLForgetsNothing == TLSpec => []NothingForgotten
<1>1. TLInit => Whole
  BY DEF TLInit, Whole, SummariesWhole, PassWhole, NoPass
<1>2. TLTypeOK /\ Whole /\ [TLNext]_vars => Whole'
  <2> SUFFICES ASSUME TLTypeOK, Whole, [TLNext]_vars PROVE Whole'
    OBVIOUS
  <2>1. CASE UNCHANGED vars
    BY <2>1 DEF vars, config, asking, background, Whole, SummariesWhole, PassWhole, All
  <2> QED BY <2>1, WholeStep
<1>3. TLTypeOK /\ Whole => NothingForgotten
  <2> SUFFICES ASSUME TLTypeOK, Whole PROVE NothingForgotten
    OBVIOUS
  <2>1. n \in 0..n
    BY DEF TLTypeOK
  <2> QED BY <2>1, ToldWhole, TypeParts DEF Whole, LoopTypes, NothingForgotten
<1> QED BY <1>1, <1>2, <1>3, TLTypeCorrect, PTL DEF TLSpec

------------------------------------------------------------------------------
(***************************************************************************)
(* Results.                                                                *)
(***************************************************************************)
\* A rendered prompt has run the calls it shows that have no result, and they
\* are stored before the request is sent.
Covered ==
  /\ pc \in {"rendered", "post", "built"} => Visible(n) \cap withCalls \subseteq results \cup fresh
  /\ pc \in {"send", "fetch"} => Visible(n) \cap withCalls \subseteq results

\* A summary hides rounds and shows none.
LEMMA VisibleShrinks ==
  ASSUME UNCHANGED <<hist, n>>, DOMAIN summary \subseteq DOMAIN summary'
  PROVE  Visible(n)' \subseteq Visible(n)
BY DEF Visible, Marked, All

LEMMA CoveredStep == ASSUME TLTypeOK, Covered, TLNext PROVE Covered'
<1> USE DEF Stored, config, counters, asking, tools, prompt, background, signals
<1>1. CASE NextIteration
  BY <1>1 DEF NextIteration, Covered
<1>2. CASE Prepare
  BY <1>2 DEF Prepare, Covered
<1>3. CASE WaitBeforeRender
  BY <1>3 DEF WaitBeforeRender, Covered
<1>4. CASE RunTools
  <2>1. Visible(n)' \subseteq Visible(n)
    BY <1>4, VisibleShrinks DEF RunTools, config, asking
  <2> QED BY <1>4, <2>1 DEF RunTools, Covered
<1>5. CASE Fits
  <2>1. Visible(n)' \subseteq Visible(n)
    BY <1>5, VisibleShrinks DEF Fits, config, asking
  <2> QED BY <1>5, <2>1 DEF Fits, Covered
<1>6. CASE Exceeds
  BY <1>6 DEF Exceeds, SummarizeOrNot, Covered
<1>7. CASE WaitOverBudget
  BY <1>7 DEF WaitOverBudget, SummarizeOrNot, Covered
<1>8. CASE InlineExceeds
  BY <1>8 DEF InlineExceeds, SummarizeOrNot, Covered
<1>9. CASE Summarize
  BY <1>9 DEF Summarize, Covered
<1>10. CASE SummarizeFails
  BY <1>10 DEF SummarizeFails, Covered
<1>11. CASE NothingFits
  <2>1. Visible(n)' \subseteq Visible(n)
    BY <1>11, VisibleShrinks DEF NothingFits, config, asking
  <2> QED BY <1>11, <2>1 DEF NothingFits, Covered
<1>12. CASE CheckSize
  <2>1. Visible(n)' \subseteq Visible(n)
    BY <1>12, VisibleShrinks DEF CheckSize, config, asking
  <2> QED BY <1>12, <2>1 DEF CheckSize, Covered
<1>13. CASE WaitAfterRender
  BY <1>13 DEF WaitAfterRender, SummarizeOrNot, Covered
<1>14. CASE KeepResults
  <2>1. Visible(n)' \subseteq Visible(n)
    BY <1>14, VisibleShrinks DEF KeepResults, config, asking
  <2> QED BY <1>14, <2>1 DEF KeepResults, Covered
<1>15. CASE Send
  <2>1. Visible(n)' \subseteq Visible(n)
    BY <1>15, VisibleShrinks DEF Send, config, asking
  <2> QED BY <1>15, <2>1 DEF Send, Covered
<1>16. CASE Answer
  BY <1>16 DEF Answer, Covered
<1>17. CASE InlineSummary
  BY <1>17 DEF InlineSummary, Covered
<1>18. CASE Failure
  BY <1>18 DEF Failure, Covered
<1>19. CASE Retry
  BY <1>19 DEF Retry, Covered
<1>20. CASE HookBlocks
  BY <1>20 DEF HookBlocks, Covered
<1>21. CASE HookLetsStop
  BY <1>21 DEF HookLetsStop, Covered
<1>22. CASE PassSummarizes
  <2>1. Visible(n)' \subseteq Visible(n)
    BY <1>22, VisibleShrinks DEF PassSummarizes, Put
  <2> QED BY <1>22, <2>1 DEF PassSummarizes, Covered
<1>23. CASE PassRunsTools
  <2>1. Visible(n)' \subseteq Visible(n)
    BY <1>23, VisibleShrinks DEF PassRunsTools, config, asking
  <2> QED BY <1>23, <2>1 DEF PassRunsTools, Covered
<1>24. CASE PassCompletes
  <2>1. Visible(n)' \subseteq Visible(n)
    BY <1>24, VisibleShrinks DEF PassCompletes, config, asking
  <2> QED BY <1>24, <2>1 DEF PassCompletes, Covered
<1>25. CASE PassFails
  <2>1. Visible(n)' \subseteq Visible(n)
    BY <1>25, VisibleShrinks DEF PassFails, config, asking
  <2> QED BY <1>25, <2>1 DEF PassFails, Covered
<1>26. CASE Cancel
  <2>1. Visible(n)' \subseteq Visible(n)
    BY <1>26, VisibleShrinks DEF Cancel, config, asking
  <2> QED BY <1>26, <2>1 DEF Cancel, Covered
<1>27. CASE AskToYield
  <2>1. Visible(n)' \subseteq Visible(n)
    BY <1>27, VisibleShrinks DEF AskToYield, config, asking
  <2> QED BY <1>27, <2>1 DEF AskToYield, Covered
<1> QED BY <1>1, <1>2, <1>3, <1>4, <1>5, <1>6, <1>7, <1>8, <1>9, <1>10, <1>11, <1>12, <1>13, <1>14, <1>15, <1>16, <1>17, <1>18, <1>19, <1>20, <1>21, <1>22, <1>23, <1>24, <1>25, <1>26, <1>27
  DEF TLNext, LoopStep, Building, PassStep

(* Every request is sent with the result of every tool call it shows,      *)
(* however often its prompt was rendered and whatever failed before, for   *)
(* any number of rounds and passes (toolCalling.tsx, buildPrompt2).        *)
THEOREM TLSendsResults == TLSpec => []ResultsBeforeRequest
<1>1. TLInit => Covered
  BY DEF TLInit, Covered
<1>2. TLTypeOK /\ Covered /\ [TLNext]_vars => Covered'
  <2> SUFFICES ASSUME TLTypeOK, Covered, [TLNext]_vars PROVE Covered'
    OBVIOUS
  <2>1. CASE UNCHANGED vars
    BY <2>1 DEF vars, config, asking, tools, Covered, Visible, Marked, All
  <2> QED BY <2>1, CoveredStep
<1>3. Covered => ResultsBeforeRequest
  BY DEF Covered, ResultsBeforeRequest
<1> QED BY <1>1, <1>2, <1>3, TLTypeCorrect, PTL DEF TLSpec

\* Without a pass beside the loop, results are only missing between a render
\* and the next store, and every render after the first shows what it showed.
Alone ==
  /\ reran = {} /\ bg = "Idle" /\ pass.step = "none" /\ late = FALSE
  /\ pc \notin {"preWait", "budgetWait", "postWait"}
  /\ pc = "summarize" => kind = "plain"
  /\ ran \subseteq results \cup fresh
  /\ pc \notin {"rendered", "post", "built", "done"} => ran \subseteq results
  /\ pc \in {"tools", "rendered", "summarize"} /\ kind # "main" =>
       ran \subseteq results /\ Visible(n) \cap withCalls \subseteq results
Once == mode # "background" => Alone

LEMMA OnceStep == ASSUME TLTypeOK, Covered, Once, TLNext PROVE Once'
<1> USE DEF Rescued, Stored, config, counters, asking, tools, prompt, background, signals
<1>1. CASE NextIteration
  <2> SUFFICES ASSUME mode # "background" PROVE Alone'
    BY <1>1 DEF NextIteration, Once
  <2>1. Visible(n)' \subseteq Visible(n)
    BY <1>1, VisibleShrinks DEF NextIteration
  <2> QED BY <1>1, <2>1 DEF NextIteration, Once, Alone
<1>2. CASE Prepare
  BY <1>2 DEF Prepare, Once, Alone
<1>3. CASE WaitBeforeRender
  BY <1>3 DEF WaitBeforeRender, Once, Alone
<1>4. CASE RunTools
  <2> SUFFICES ASSUME mode # "background" PROVE Alone'
    BY <1>4 DEF RunTools, Once
  <2>1. Visible(n)' \subseteq Visible(n)
    BY <1>4, VisibleShrinks DEF RunTools
  <2> QED BY <1>4, <2>1 DEF RunTools, Once, Alone
<1>5. CASE Fits
  <2> SUFFICES ASSUME mode # "background" PROVE Alone'
    BY <1>5 DEF Fits, Once
  <2>1. Visible(n)' \subseteq Visible(n)
    BY <1>5, VisibleShrinks DEF Fits
  <2> QED BY <1>5, <2>1 DEF Fits, Once, Alone
<1>6. CASE Exceeds
  <2> SUFFICES ASSUME mode # "background" PROVE Alone'
    BY <1>6 DEF Exceeds, Once
  <2>1. Visible(n) \cap withCalls \subseteq results' /\ ran \subseteq results' /\ summary' = summary
    BY <1>6 DEF Exceeds, Covered, Once, Alone
  <2>2. Visible(n)' \subseteq Visible(n)
    BY <1>6, <2>1, VisibleShrinks DEF Exceeds
  <2> QED BY <1>6, <2>1, <2>2 DEF Exceeds, SummarizeOrNot, Once, Alone
<1>7. CASE WaitOverBudget
  BY <1>7 DEF WaitOverBudget, Once, Alone
<1>8. CASE InlineExceeds
  <2> SUFFICES ASSUME mode # "background" PROVE Alone'
    BY <1>8 DEF InlineExceeds, Once
  <2>1. Visible(n)' \subseteq Visible(n)
    BY <1>8, VisibleShrinks DEF InlineExceeds
  <2> QED BY <1>8, <2>1 DEF InlineExceeds, Once, Alone, SummarizeOrNot
<1>9. CASE Summarize
  <2> SUFFICES ASSUME mode # "background" PROVE Alone'
    BY <1>9 DEF Summarize, Once
  <2>1. Visible(n)' \subseteq Visible(n)
    BY <1>9, VisibleShrinks DEF Summarize, Put
  <2> QED BY <1>9, <2>1 DEF Summarize, Once, Alone
<1>10. CASE SummarizeFails
  <2> SUFFICES ASSUME mode # "background" PROVE Alone'
    BY <1>10 DEF SummarizeFails, Once
  <2>1. Visible(n)' \subseteq Visible(n)
    BY <1>10, VisibleShrinks DEF SummarizeFails
  <2> QED BY <1>10, <2>1 DEF SummarizeFails, Once, Alone
<1>11. CASE NothingFits
  <2> SUFFICES ASSUME mode # "background" PROVE Alone'
    BY <1>11 DEF NothingFits, Once
  <2>1. Visible(n)' \subseteq Visible(n)
    BY <1>11, VisibleShrinks DEF NothingFits
  <2> QED BY <1>11, <2>1 DEF NothingFits, Once, Alone
<1>12. CASE CheckSize
  <2> SUFFICES ASSUME mode # "background" PROVE Alone'
    BY <1>12 DEF CheckSize, Once
  <2>1. Visible(n)' \subseteq Visible(n)
    BY <1>12, VisibleShrinks DEF CheckSize
  <2> QED BY <1>12, <2>1 DEF CheckSize, Once, Alone
<1>13. CASE WaitAfterRender
  BY <1>13 DEF WaitAfterRender, Once, Alone
<1>14. CASE KeepResults
  <2> SUFFICES ASSUME mode # "background" PROVE Alone'
    BY <1>14 DEF KeepResults, Once
  <2>1. Visible(n)' \subseteq Visible(n)
    BY <1>14, VisibleShrinks DEF KeepResults
  <2> QED BY <1>14, <2>1 DEF KeepResults, Once, Alone
<1>15. CASE Send
  <2> SUFFICES ASSUME mode # "background" PROVE Alone'
    BY <1>15 DEF Send, Once
  <2>1. Visible(n)' \subseteq Visible(n)
    BY <1>15, VisibleShrinks DEF Send
  <2> QED BY <1>15, <2>1 DEF Send, Once, Alone
<1>16. CASE Answer
  BY <1>16 DEF Answer, Push, Once, Alone
<1>17. CASE InlineSummary
  BY <1>17 DEF InlineSummary, Once, Alone
<1>18. CASE Failure
  BY <1>18 DEF Failure, Push, Once, Alone
<1>19. CASE Retry
  <2> SUFFICES ASSUME mode # "background" PROVE Alone'
    BY <1>19 DEF Retry, Once
  <2>1. Visible(n)' \subseteq Visible(n)
    BY <1>19, VisibleShrinks DEF Retry
  <2> QED BY <1>19, <2>1 DEF Retry, Once, Alone
<1>20. CASE HookBlocks
  <2> SUFFICES ASSUME mode # "background" PROVE Alone'
    BY <1>20 DEF HookBlocks, Once
  <2>1. Visible(n)' \subseteq Visible(n)
    BY <1>20, VisibleShrinks DEF HookBlocks
  <2> QED BY <1>20, <2>1 DEF HookBlocks, Once, Alone
<1>21. CASE HookLetsStop
  <2> SUFFICES ASSUME mode # "background" PROVE Alone'
    BY <1>21 DEF HookLetsStop, Once
  <2>1. Visible(n)' \subseteq Visible(n)
    BY <1>21, VisibleShrinks DEF HookLetsStop
  <2> QED BY <1>21, <2>1 DEF HookLetsStop, Once, Alone
<1>22. CASE PassSummarizes
  BY <1>22 DEF PassSummarizes, Once, Alone
<1>23. CASE PassRunsTools
  BY <1>23 DEF PassRunsTools, Once, Alone
<1>24. CASE PassCompletes
  BY <1>24 DEF PassCompletes, Once, Alone
<1>25. CASE PassFails
  BY <1>25 DEF PassFails, Once, Alone
<1>26. CASE Cancel
  <2> SUFFICES ASSUME mode # "background" PROVE Alone'
    BY <1>26 DEF Cancel, Once
  <2>1. Visible(n)' \subseteq Visible(n)
    BY <1>26, VisibleShrinks DEF Cancel
  <2> QED BY <1>26, <2>1 DEF Cancel, Once, Alone
<1>27. CASE AskToYield
  <2> SUFFICES ASSUME mode # "background" PROVE Alone'
    BY <1>27 DEF AskToYield, Once
  <2>1. Visible(n)' \subseteq Visible(n)
    BY <1>27, VisibleShrinks DEF AskToYield
  <2> QED BY <1>27, <2>1 DEF AskToYield, Once, Alone
<1> QED BY <1>1, <1>2, <1>3, <1>4, <1>5, <1>6, <1>7, <1>8, <1>9, <1>10, <1>11, <1>12, <1>13, <1>14, <1>15, <1>16, <1>17, <1>18, <1>19, <1>20, <1>21, <1>22, <1>23, <1>24, <1>25, <1>26, <1>27
  DEF TLNext, LoopStep, Building, PassStep

(* Without a background pass no tool call runs twice, however often a      *)
(* prompt is rendered and a request retried, for any number of rounds      *)
(* (agentIntent.ts, buildPrompt: the results of a render that exceeds the  *)
(* budget are kept).                                                       *)
THEOREM TLRunsToolsOnce == TLSpec => []ToolsRunOnce
<1>1. TLInit => Covered /\ Once
  BY DEF TLInit, Covered, Once, Alone, NoPass
<1>2. TLTypeOK /\ Covered /\ Once /\ [TLNext]_vars => (Covered /\ Once)'
  <2> SUFFICES ASSUME TLTypeOK, Covered, Once, [TLNext]_vars PROVE (Covered /\ Once)'
    OBVIOUS
  <2>1. CASE UNCHANGED vars
    BY <2>1 DEF vars, config, asking, tools, prompt, background, Covered, Once, Alone, Visible, Marked, All
  <2> QED BY <2>1, CoveredStep, OnceStep
<1>3. Once => ToolsRunOnce
  BY DEF Once, Alone, ToolsRunOnce
<1> QED BY <1>1, <1>2, <1>3, TLTypeCorrect, PTL DEF TLSpec

------------------------------------------------------------------------------
(***************************************************************************)
(* Requests.                                                               *)
(***************************************************************************)
\* The counter counts the requests but the first, when the loop goes round.
Counted ==
  /\ sent <= limit + 1 /\ sent <= i + 1
  /\ pc # "done" => i <= limit
  /\ pc \notin {"top", "fetch", "retry", "stopHook", "done"} => sent <= i
  /\ pc = "top" /\ last = "none" => sent = 0
  /\ pc \in {"retry", "stopHook"} => last # "none"
  /\ limit \in Limits \cup 1..Cap

LEMMA CountedStep == ASSUME TLTypeOK, Counted, TLNext PROVE Counted'
<1> USE TypeParts DEF LoopTypes, config, counters, asking, tools, prompt, background, signals
<1>1. CASE NextIteration
  <2>1. CASE AtLimit /\ MayExtend
    <3>1. limit' \in 1..Cap /\ limit' > limit
      BY <1>1, <2>1, ExtendedGrows, TLBoundsAssumption DEF NextIteration, MayExtend
    <3> QED BY <1>1, <2>1, <3>1, TLBoundsAssumption DEF NextIteration, AtLimit, Counted
  <2>2. CASE ~ (AtLimit /\ MayExtend)
    BY <1>1, <2>2 DEF NextIteration, AtLimit, StopsAtTop, Counted
  <2> QED BY <2>1, <2>2
<1>2. CASE Prepare
  BY <1>2 DEF Prepare, Counted
<1>3. CASE WaitBeforeRender
  BY <1>3 DEF WaitBeforeRender, Counted
<1>4. CASE RunTools
  BY <1>4 DEF RunTools, Counted
<1>5. CASE Fits
  BY <1>5 DEF Fits, Counted
<1>6. CASE Exceeds
  BY <1>6 DEF Exceeds, SummarizeOrNot, Counted
<1>7. CASE WaitOverBudget
  BY <1>7 DEF WaitOverBudget, SummarizeOrNot, Counted
<1>8. CASE InlineExceeds
  BY <1>8 DEF InlineExceeds, SummarizeOrNot, Counted
<1>9. CASE Summarize
  BY <1>9 DEF Summarize, Counted
<1>10. CASE SummarizeFails
  BY <1>10 DEF SummarizeFails, Counted
<1>11. CASE NothingFits
  BY <1>11 DEF NothingFits, Counted
<1>12. CASE CheckSize
  BY <1>12 DEF CheckSize, Counted
<1>13. CASE WaitAfterRender
  BY <1>13 DEF WaitAfterRender, SummarizeOrNot, Counted
<1>14. CASE KeepResults
  BY <1>14 DEF KeepResults, Counted
<1>15. CASE Send
  BY <1>15 DEF Send, Counted
<1>16. CASE Answer
  BY <1>16 DEF Answer, Counted
<1>17. CASE InlineSummary
  BY <1>17 DEF InlineSummary, Counted
<1>18. CASE Failure
  BY <1>18 DEF Failure, Counted
<1>19. CASE Retry
  BY <1>19 DEF Retry, Counted
<1>20. CASE HookBlocks
  BY <1>20 DEF HookBlocks, Counted
<1>21. CASE HookLetsStop
  BY <1>21 DEF HookLetsStop, Nudge, Counted
<1>22. CASE PassSummarizes
  BY <1>22 DEF PassSummarizes, Counted
<1>23. CASE PassRunsTools
  BY <1>23 DEF PassRunsTools, Counted
<1>24. CASE PassCompletes
  BY <1>24 DEF PassCompletes, Counted
<1>25. CASE PassFails
  BY <1>25 DEF PassFails, Counted
<1>26. CASE Cancel
  BY <1>26 DEF Cancel, Counted
<1>27. CASE AskToYield
  BY <1>27 DEF AskToYield, Counted
<1> QED BY <1>1, <1>2, <1>3, <1>4, <1>5, <1>6, <1>7, <1>8, <1>9, <1>10, <1>11, <1>12, <1>13, <1>14, <1>15, <1>16, <1>17, <1>18, <1>19, <1>20, <1>21, <1>22, <1>23, <1>24, <1>25, <1>26, <1>27
  DEF TLNext, LoopStep, Building, PassStep

(* The limit, extended by autopilot or not, bounds the requests of any     *)
(* number of rounds, retries and nudges (_runLoop, hitToolCallLimit).      *)
THEOREM TLBoundsRequests == TLSpec => []RequestsBounded
<1>1. TLInit => Counted
  <2> SUFFICES ASSUME TLInit PROVE Counted
    OBVIOUS
  <2>1. limit \in Nat \ {0}
    BY TLBoundsAssumption DEF TLInit
  <2> QED BY <2>1 DEF TLInit, Counted
<1>2. TLTypeOK /\ Counted /\ [TLNext]_vars => Counted'
  <2> SUFFICES ASSUME TLTypeOK, Counted, [TLNext]_vars PROVE Counted'
    OBVIOUS
  <2>1. CASE UNCHANGED vars
    BY <2>1 DEF vars, counters, Counted
  <2> QED BY <2>1, CountedStep
<1>3. Counted => RequestsBounded
  BY DEF Counted, RequestsBounded
<1> QED BY <1>1, <1>2, <1>3, TLTypeCorrect, PTL DEF TLSpec
------------------------------------------------------------------------------
(***************************************************************************)
(* Progress.                                                               *)
(***************************************************************************)
\* The background summarizer is in progress while its pass makes steps.
PassRuns == bg = "InProgress" <=> pass.step # "none"

LEMMA PassRunsStep == ASSUME TLTypeOK, PassRuns, TLNext PROVE PassRuns'
<1> USE DEF PassRuns, background
<1>1. CASE NextIteration
  BY <1>1 DEF NextIteration
<1>2. CASE Prepare
  BY <1>2 DEF Prepare, Consume, NoPass
<1>3. CASE WaitBeforeRender
  BY <1>3 DEF WaitBeforeRender, Consume, NoPass, PassSettled
<1>4. CASE RunTools
  BY <1>4 DEF RunTools
<1>5. CASE Fits
  BY <1>5 DEF Fits
<1>6. CASE Exceeds
  BY <1>6 DEF Exceeds, Consume, NoPass
<1>7. CASE WaitOverBudget
  BY <1>7 DEF WaitOverBudget, Consume, NoPass, PassSettled
<1>8. CASE InlineExceeds
  BY <1>8 DEF InlineExceeds
<1>9. CASE Summarize
  BY <1>9 DEF Summarize
<1>10. CASE SummarizeFails
  BY <1>10 DEF SummarizeFails
<1>11. CASE NothingFits
  BY <1>11 DEF NothingFits
<1>12. CASE CheckSize
  BY <1>12 DEF CheckSize, StartPass, NoPass
<1>13. CASE WaitAfterRender
  BY <1>13 DEF WaitAfterRender, Consume, NoPass, PassSettled
<1>14. CASE KeepResults
  BY <1>14 DEF KeepResults
<1>15. CASE Send
  BY <1>15 DEF Send
<1>16. CASE Answer
  BY <1>16 DEF Answer
<1>17. CASE InlineSummary
  BY <1>17 DEF InlineSummary
<1>18. CASE Failure
  BY <1>18 DEF Failure
<1>19. CASE Retry
  BY <1>19 DEF Retry
<1>20. CASE HookBlocks
  BY <1>20 DEF HookBlocks
<1>21. CASE HookLetsStop
  BY <1>21 DEF HookLetsStop
<1>22. CASE PassSummarizes
  BY <1>22, TypeParts DEF PassSummarizes, PassTypes, NoPass
<1>23. CASE PassRunsTools
  BY <1>23, TypeParts DEF PassRunsTools, PassTypes, NoPass
<1>24. CASE PassCompletes
  BY <1>24, TypeParts DEF PassCompletes, PassTypes, NoPass
<1>25. CASE PassFails
  BY <1>25, TypeParts DEF PassFails, PassTypes, NoPass
<1>26. CASE Cancel
  BY <1>26 DEF Cancel
<1>27. CASE AskToYield
  BY <1>27 DEF AskToYield
<1> QED BY <1>1, <1>2, <1>3, <1>4, <1>5, <1>6, <1>7, <1>8, <1>9, <1>10, <1>11, <1>12, <1>13, <1>14, <1>15, <1>16, <1>17, <1>18, <1>19, <1>20, <1>21, <1>22, <1>23, <1>24, <1>25, <1>26, <1>27
  DEF TLNext, LoopStep, Building, PassStep

(* A wait for the background pass is never for ever: the pass it waits     *)
(* for goes on, or has settled (backgroundSummarizer.ts).                  *)
THEOREM TLWaitsForPass == TLSpec => []WaitsArePassing
<1>1. TLInit => PassRuns
  BY DEF TLInit, PassRuns, NoPass
<1>2. TLTypeOK /\ PassRuns /\ [TLNext]_vars => PassRuns'
  <2> SUFFICES ASSUME TLTypeOK, PassRuns, [TLNext]_vars PROVE PassRuns'
    OBVIOUS
  <2>1. CASE UNCHANGED vars
    BY <2>1 DEF vars, background, PassRuns
  <2> QED BY <2>1, PassRunsStep
<1>3. PassRuns => WaitsArePassing
  BY DEF PassRuns, WaitsArePassing, PassSettled
<1> QED BY <1>1, <1>2, <1>3, TLTypeCorrect, PTL DEF TLSpec

LEMMA MostStays == ASSUME TLTypeOK, TLNext PROVE Most' = Most
<1> USE TLBoundsAssumption, TypeParts DEF LoopTypes, Most, counters
<1>1. CASE NextIteration
  <2>1. CASE AtLimit /\ MayExtend
    <3>1. limit' \in 1..Cap
      BY <1>1, <2>1, ExtendedGrows DEF NextIteration, MayExtend
    <3> QED BY <1>1, <2>1, <3>1 DEF MayExtend
  <2>2. CASE ~ (AtLimit /\ MayExtend)
    BY <1>1, <2>2 DEF NextIteration
  <2> QED BY <2>1, <2>2
<1>2. CASE ~NextIteration
  <2>1. UNCHANGED limit
    BY <1>2 DEF TLNext, LoopStep, Building, PassStep, Prepare, WaitBeforeRender, RunTools, Fits, Exceeds,
       WaitOverBudget, InlineExceeds, Summarize, SummarizeFails, NothingFits, CheckSize, WaitAfterRender,
       KeepResults, Send, Answer, InlineSummary, Failure, Retry, HookBlocks, HookLetsStop,
       PassSummarizes, PassRunsTools, PassCompletes, PassFails, Cancel, AskToYield
  <2> QED BY <2>1
<1> QED BY <1>1, <1>2

\* The numbers LoopRank is made of.
RankSound ==
  /\ Most \in Nat /\ sent \in Nat /\ sent <= Most
  /\ WayToRequest \in 0..29 /\ PassRank \in 0..3

LEMMA RankParts == ASSUME TLTypeOK, Counted PROVE RankSound
<1>1. sent <= Most /\ Most \in Nat /\ sent \in Nat
  BY TLBoundsAssumption, TypeParts DEF Counted, Most, LoopTypes
<1>2. WayToRequest \in 0..29
  <2>1. CASE pc \in Rendering
    BY <2>1 DEF WayToRequest, RenderRank
  <2>2. CASE pc \notin Rendering
    <3>1. pc \in {"done", "send", "built", "postWait", "post", "preWait", "prepare", "top", "retry",
                  "stopHook", "fetch"}
      BY <2>2 DEF TLTypeOK, Rendering
    <3> QED BY <2>2, <3>1 DEF WayToRequest, PlaceRank
  <2> QED BY <2>1, <2>2
<1>3. PassRank \in 0..3
  <2>1. pass.step \in {"none", "summarize", "tools", "rendered"}
    BY DEF TLTypeOK
  <2> QED BY <2>1 DEF PassRank
<1> QED BY <1>1, <1>2, <1>3 DEF RankSound

\* A request more outweighs the way to the next, and that a pass.
LEMMA Outweighs ==
  ASSUME NEW m \in Nat, NEW s \in Nat, NEW s1 \in Nat, NEW a \in 0..29, NEW a1 \in 0..29,
         NEW b \in 0..3, NEW b1 \in 0..3, s <= m, s1 <= m,
         (s1 = s /\ a1 < a) \/ (s1 = s + 1 /\ a1 <= a + 28) \/ (s1 = s /\ a1 = a /\ b1 < b)
  PROVE  4 * (30 * (m - s1) + a1) + b1 < 4 * (30 * (m - s) + a) + b
OBVIOUS

LEMMA RankNatural ==
  ASSUME NEW m \in Nat, NEW s \in Nat, NEW a \in 0..29, NEW b \in 0..3, s <= m
  PROVE  4 * (30 * (m - s) + a) + b \in Nat
OBVIOUS

\* A step of the loop gets nearer to a request, or sends it.
LEMMA LoopGetsOn ==
  ASSUME TLTypeOK, LoopStep
  PROVE  \/ sent' = sent /\ WayToRequest' < WayToRequest
         \/ sent' = sent + 1 /\ WayToRequest' <= WayToRequest + 28
<1> USE DEF WayToRequest, RenderRank, PlaceRank, Rendering, counters, prompt
<1>1. CASE NextIteration
  BY <1>1 DEF NextIteration
<1>2. CASE Prepare
  BY <1>2 DEF Prepare, Consume
<1>3. CASE WaitBeforeRender
  BY <1>3 DEF WaitBeforeRender, Consume
<1>4. CASE RunTools
  BY <1>4 DEF RunTools
<1>5. CASE Fits
  BY <1>5 DEF Fits
<1>6. CASE Exceeds
  BY <1>6 DEF Exceeds, Consume, SummarizeOrNot
<1>7. CASE WaitOverBudget
  BY <1>7 DEF WaitOverBudget, Consume, SummarizeOrNot
<1>8. CASE InlineExceeds
  BY <1>8 DEF InlineExceeds, SummarizeOrNot
<1>9. CASE Summarize
  BY <1>9 DEF Summarize
<1>10. CASE SummarizeFails
  BY <1>10 DEF SummarizeFails
<1>11. CASE NothingFits
  BY <1>11 DEF NothingFits
<1>12. CASE CheckSize
  BY <1>12 DEF CheckSize, StartPass
<1>13. CASE WaitAfterRender
  BY <1>13 DEF WaitAfterRender, Consume, SummarizeOrNot
<1>14. CASE KeepResults
  BY <1>14 DEF KeepResults
<1>15. CASE Send
  BY <1>15 DEF Send
<1>16. CASE Answer
  BY <1>16 DEF Answer
<1>17. CASE InlineSummary
  BY <1>17 DEF InlineSummary
<1>18. CASE Failure
  BY <1>18 DEF Failure
<1>19. CASE Retry
  BY <1>19 DEF Retry
<1>20. CASE HookBlocks
  BY <1>20 DEF HookBlocks
<1>21. CASE HookLetsStop
  BY <1>21 DEF HookLetsStop, Nudge
<1> QED BY <1>1, <1>2, <1>3, <1>4, <1>5, <1>6, <1>7, <1>8, <1>9, <1>10, <1>11, <1>12, <1>13, <1>14, <1>15, <1>16, <1>17, <1>18, <1>19, <1>20, <1>21 DEF LoopStep, Building

\* A step of the pass gets the pass on, and leaves the loop where it is.
LEMMA PassGetsOn ==
  ASSUME TLTypeOK, PassStep
  PROVE  PassRank' < PassRank /\ UNCHANGED <<sent, WayToRequest>>
<1>1. pass.step \in {"none", "summarize", "tools", "rendered"} /\ DOMAIN pass = DOMAIN NoPass
  BY DEF TLTypeOK, NoPass
<1>2. UNCHANGED <<sent, pc, late, kind>>
  BY DEF PassStep, PassSummarizes, PassRunsTools, PassCompletes, PassFails, counters, prompt
<1>3. PassRank' < PassRank
  <2>1. CASE PassSummarizes
    <3>1. pass.step = "summarize" /\ pass'.step = "tools"
      BY <1>1, <2>1 DEF PassSummarizes, NoPass
    <3> QED BY <3>1 DEF PassRank
  <2>2. CASE PassRunsTools
    <3>1. pass.step = "tools" /\ pass'.step = "rendered"
      BY <1>1, <2>2 DEF PassRunsTools, NoPass
    <3> QED BY <3>1 DEF PassRank
  <2>3. CASE PassCompletes
    <3>1. pass.step = "rendered" /\ pass'.step = "none"
      BY <1>1, <2>3 DEF PassCompletes, NoPass
    <3> QED BY <3>1 DEF PassRank
  <2>4. CASE PassFails
    <3>1. pass.step \in {"summarize", "rendered"} /\ pass'.step = "none"
      BY <2>4 DEF PassFails, NoPass
    <3> QED BY <3>1 DEF PassRank
  <2> QED BY <2>1, <2>2, <2>3, <2>4 DEF PassStep
<1> QED BY <1>2, <1>3 DEF WayToRequest, RenderRank, PlaceRank, Rendering

(* Every request ends, as far as steps can show it: whatever is answered,  *)
(* cancelled, retried, nudged, blocked or compacted, each step of the loop *)
(* and of its pass lowers LoopRank, and no signal raises it.  A request    *)
(* makes at most as many steps as its rank is in the beginning (_runLoop,  *)
(* whose `while (true)` has no bound of its own).                          *)
THEOREM TLAdvances == TLSpec => LoopAdvances
<1> DEFINE Advance == /\ LoopStep \/ PassStep => LoopRank' < LoopRank
                      /\ LoopRank' <= LoopRank /\ LoopRank' \in Nat
<1>1. TLInit => Counted
  BY TLBoundsAssumption DEF TLInit, Counted
<1>2. TLTypeOK /\ Counted /\ [TLNext]_vars => Counted'
  <2> SUFFICES ASSUME TLTypeOK, Counted, [TLNext]_vars PROVE Counted'
    OBVIOUS
  <2>1. CASE UNCHANGED vars
    BY <2>1 DEF vars, counters, Counted
  <2> QED BY <2>1, CountedStep
<1>3. TLTypeOK /\ Counted => RankSound
  BY RankParts
<1>4. TLTypeOK /\ RankSound /\ RankSound' /\ [TLNext]_vars => [Advance]_vars
  <2> SUFFICES ASSUME TLTypeOK, RankSound, RankSound', TLNext PROVE Advance
    OBVIOUS
  <2>1. /\ Most \in Nat /\ sent \in Nat /\ sent <= Most
        /\ WayToRequest \in 0..29 /\ PassRank \in 0..3
    BY DEF RankSound
  <2>2. /\ Most' \in Nat /\ sent' \in Nat /\ sent' <= Most'
        /\ WayToRequest' \in 0..29 /\ PassRank' \in 0..3
    BY DEF RankSound
  <2>3. Most' = Most
    BY MostStays
  <2> HIDE DEF Advance
  <2>4. LoopRank \in Nat /\ LoopRank' \in Nat
    BY <2>1, <2>2, <2>3, RankNatural DEF LoopRank
  <2>5. CASE LoopStep
    <3>1. LoopRank' < LoopRank
      <4>1. \/ sent' = sent /\ WayToRequest' < WayToRequest
            \/ sent' = sent + 1 /\ WayToRequest' <= WayToRequest + 28
        BY <2>5, LoopGetsOn
      <4> QED BY <2>1, <2>2, <2>3, <4>1, Outweighs DEF LoopRank
    <3> QED BY <2>4, <3>1 DEF Advance
  <2>6. CASE PassStep
    <3>1. LoopRank' < LoopRank
      <4>1. sent' = sent /\ WayToRequest' = WayToRequest /\ PassRank' < PassRank
        BY <2>6, PassGetsOn
      <4> QED BY <2>1, <2>2, <2>3, <4>1, Outweighs DEF LoopRank
    <3> QED BY <2>4, <3>1 DEF Advance
  <2>7. CASE ~LoopStep /\ ~PassStep
    <3>1. UNCHANGED <<sent, pc, late, kind, pass>>
      BY <2>7 DEF TLNext, Cancel, AskToYield, counters, prompt, background
    <3>2. LoopRank' = LoopRank
      BY <2>3, <3>1 DEF LoopRank, WayToRequest, RenderRank, PlaceRank, Rendering, PassRank
    <3> QED BY <2>7, <3>2, <2>4 DEF Advance
  <2> QED BY <2>5, <2>6, <2>7
<1> QED BY <1>1, <1>2, <1>3, <1>4, TLTypeCorrect, PTL DEF TLSpec, LoopAdvances
==============================================================================

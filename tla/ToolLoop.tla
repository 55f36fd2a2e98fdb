------------------------------- MODULE ToolLoop -------------------------------
(***************************************************************************)
(* One request of the agent: the loop that builds a prompt, sends it and   *)
(* runs the tools the model asks for (toolCallingLoop.ts, _runLoop and     *)
(* runOne), with the prompt building of the agent (agentIntent.ts,         *)
(* buildPrompt), which compacts the conversation when it grows: by a       *)
(* request of its own ("separate"), by asking the model in the loop        *)
(* ("inline"), or by a pass that runs beside the loop ("background",       *)
(* backgroundSummarizer.ts).                                               *)
(*                                                                         *)
(* The rounds of the request are numbered 1..n in their order; round 0     *)
(* stands for the turns before it.  Tools run while a prompt is rendered   *)
(* (toolCalling.tsx): those of a round that is shown and has no result.    *)
(* A summary is the set of rounds it was made from; stored on a round, it  *)
(* stands for that round and all before it.                                *)
(***************************************************************************)
EXTENDS Integers

CONSTANTS
  Limits,      \* values of chat.agent.maxRequests
  Cap,         \* up to which autopilot extends the limit: 200
  MaxRetries,  \* MAX_AUTOPILOT_RETRIES
  MaxNudges    \* MAX_AUTOPILOT_ITERATIONS

ASSUME TLBoundsAssumption ==
  /\ Limits \subseteq Nat \ {0}
  /\ Cap \in Nat /\ MaxRetries \in Nat /\ MaxNudges \in Nat

VARIABLES
  perm,       \* permission level of the request
  mode,       \* how the conversation is compacted
  hist,       \* whether there are turns before this one
  pc,         \* where the loop is
  i, limit,   \* the loop's counter, options.toolCallLimit
  last,       \* the last result: "none", "ok" or "failed"
  sent,       \* requests sent
  retries, nudges, nudged,  \* autopilotRetryCount, -IterationCount, -StopHookActive
  n,          \* number of rounds
  withCalls,  \* rounds with tool calls
  tasked,     \* rounds that call task_complete
  summary,    \* the summaries stored on rounds
  results,    \* rounds whose tool results the loop has stored
  ran, reran, \* rounds whose tools were run, and run again
  kind,       \* which render of the prompt is under way
  late,       \* whether it comes after the checks on the rendered prompt
  fresh,      \* rounds whose tools ran in the renders of this prompt
  asked,      \* whether the prompt asks the model for a summary
  applied,    \* summaryAppliedThisIteration
  size,       \* _lastRenderTokenCount against the thresholds
  fgFailed,   \* the turn's last summary metadata: a failure in the foreground
  bg, pass,   \* the background summarizer and its pass
  cancelled, yield

config == <<perm, mode, hist>>
counters == <<i, limit, last, sent, retries, nudges, nudged>>
asking == <<n, withCalls, tasked>>
tools == <<results, ran, reran, fresh>>
prompt == <<kind, late, asked, applied, size, fgFailed>>
background == <<bg, pass>>
signals == <<cancelled, yield>>
vars == <<config, pc, counters, asking, summary, tools, prompt, background, signals>>

Sizes == {"low", "high", "full"}
Asks == {"none", "tools", "task"}
NoPass == [step |-> "none", n |-> 0, results |-> {}, target |-> 0, told |-> {}]

(***************************************************************************)
(* What a prompt shows.                                                    *)
(***************************************************************************)
All(m) == (IF hist THEN 0 ELSE 1)..m
Marked(m) == {r \in DOMAIN summary : r <= m}
Visible(m) == {r \in All(m) : \A q \in Marked(m) : q < r}
Told(m) ==
  Visible(m) \cup UNION {summary[r] : r \in {r \in Marked(m) : \A q \in Marked(m) : q <= r}}
Put(r, told) ==
  [q \in DOMAIN summary \cup {r} |-> IF q = r THEN told ELSE summary[q]]

\* getProps: a summary is made of all rounds but the last one, or of the
\* turns before, and is stored on the last round it is made of.  Mutant: on
\* the last round there is.
Summarizable(m) == m > 1 \/ hist
Summarized(m) == IF m > 1 THEN m - 1 ELSE 0
TargetLast(m) == IF m > 1 THEN m ELSE 0
Target(m) == IF m > 1 THEN m - 1 ELSE 0

TLInit ==
  /\ perm \in {"default", "autoApprove", "autopilot"}
  /\ mode \in {"off", "separate", "inline", "background"}
  /\ hist \in BOOLEAN
  /\ pc = "top" /\ i = 0 /\ limit \in Limits /\ last = "none" /\ sent = 0
  /\ retries = 0 /\ nudges = 0 /\ nudged = FALSE
  /\ n = 0 /\ withCalls = {} /\ tasked = {}
  /\ summary = [r \in {} |-> {}]
  /\ results = {} /\ ran = {} /\ reran = {} /\ fresh = {}
  /\ kind = "main" /\ late = FALSE /\ asked = FALSE /\ applied = FALSE
  /\ size = "low" /\ fgFailed = FALSE
  /\ bg = "Idle" /\ pass = NoPass
  /\ cancelled = FALSE /\ yield = FALSE

(***************************************************************************)
(* The top of the loop.                                                    *)
(***************************************************************************)
Extended(l) == LET m == (3 * l + 1) \div 2 IN IF m < Cap THEN m ELSE Cap
\* Mutant: one request more.
PastLimit == last # "none" /\ i > limit
AtLimit == last # "none" /\ i >= limit
MayExtend == perm = "autopilot" /\ limit < Cap
\* shouldAutopilotContinue alone sets taskCompleted, and the loop then ends
Yields == last # "none" /\ yield /\ perm # "autopilot"
StopsAtTop == (AtLimit /\ ~MayExtend) \/ Yields

NextIteration ==
  /\ pc = "top"
  /\ i' = IF last = "none" THEN i ELSE i + 1
  /\ limit' = IF AtLimit /\ MayExtend THEN Extended(limit) ELSE limit
  /\ pc' = IF StopsAtTop THEN "done" ELSE "prepare"
  /\ UNCHANGED <<config, last, sent, retries, nudges, nudged, asking, summary,
                 tools, prompt, background, signals>>

(***************************************************************************)
(* Building the prompt.  A summary that the background pass has completed  *)
(* is stored on its round and recorded on the turn.                        *)
(***************************************************************************)
Consume ==
  /\ summary' = IF bg = "Completed" THEN Put(pass.target, pass.told) ELSE summary
  /\ bg' = "Idle" /\ pass' = NoPass
  /\ fgFailed' = FALSE

\* what a wait for the pass waits for.  Mutant: for its success.
PassSucceeded == bg \notin {"InProgress", "Failed"}
PassSettled == bg # "InProgress"

Prepare ==
  /\ pc = "prepare"
  /\ kind' = "main" /\ late' = FALSE /\ fresh' = {}
  /\ asked' = (mode = "inline" /\ size # "low" /\ DOMAIN summary = {})
  /\ IF bg = "Completed"
       THEN Consume /\ applied' = TRUE
       ELSE applied' = FALSE /\ UNCHANGED <<summary, background, fgFailed>>
  /\ pc' = IF bg = "InProgress" /\ size = "full" THEN "preWait" ELSE "tools"
  /\ UNCHANGED <<config, counters, asking, results, ran, reran, size, signals>>

WaitBeforeRender ==
  /\ pc = "preWait" /\ PassSettled
  /\ Consume
  /\ applied' = (bg = "Completed")
  /\ pc' = "tools"
  /\ UNCHANGED <<config, counters, asking, tools, kind, late, asked, size, signals>>

RunTools ==
  /\ pc = "tools"
  /\ LET missing == (Visible(n) \cap withCalls) \ results IN
       /\ ran' = ran \cup missing
       /\ reran' = reran \cup (missing \cap ran)
       /\ fresh' = fresh \cup missing
  /\ pc' = "rendered"
  /\ UNCHANGED <<config, counters, asking, summary, results, prompt, background, signals>>

Fits ==
  /\ pc = "rendered"
  /\ size' \in Sizes
  /\ asked' = (kind = "inline" \/ (kind = "main" /\ asked))
  /\ fgFailed' = (fgFailed /\ kind # "sum")
  /\ pc' = IF late THEN "built" ELSE "post"
  /\ UNCHANGED <<config, counters, asking, summary, tools, kind, late, applied,
                 background, signals>>

\* renderWithSummarization: a failure in the foreground is not tried again
SummarizeOrNot(failed) ==
  /\ kind' = "plain"
  /\ pc' = IF failed THEN "tools" ELSE "summarize"

\* the first render exceeds the budget: the results of its tools are kept.
\* Mutant: they are not.
RescuedNone == results
Rescued == results \cup fresh

Exceeds ==
  /\ pc = "rendered" /\ kind = "main" /\ mode # "off"
  /\ results' = Rescued
  /\ asked' = FALSE
  /\ \/ /\ bg = "InProgress"
        /\ pc' = "budgetWait"
        /\ UNCHANGED <<kind, summary, background, fgFailed, applied>>
     \/ /\ bg = "Completed"
        /\ Consume
        /\ applied' = TRUE /\ kind' = "again" /\ pc' = "tools"
     \/ /\ bg \in {"Idle", "Failed"} /\ mode = "inline"
        /\ kind' = "inline" /\ pc' = "tools"
        /\ UNCHANGED <<summary, background, fgFailed, applied>>
     \/ /\ bg \in {"Idle", "Failed"} /\ mode # "inline"
        /\ SummarizeOrNot(fgFailed)
        /\ UNCHANGED <<summary, background, fgFailed, applied>>
  /\ UNCHANGED <<config, counters, asking, ran, reran, fresh, late, size, signals>>

WaitOverBudget ==
  /\ pc = "budgetWait" /\ PassSettled
  /\ Consume
  /\ applied' = (applied \/ bg = "Completed")
  /\ IF bg = "Completed" THEN kind' = "again" /\ pc' = "tools" ELSE SummarizeOrNot(FALSE)
  /\ UNCHANGED <<config, counters, asking, tools, late, asked, size, signals>>

InlineExceeds ==
  /\ pc = "rendered" /\ kind = "inline"
  /\ SummarizeOrNot(fgFailed)
  /\ UNCHANGED <<config, counters, asking, summary, tools, late, asked, applied, size,
                 fgFailed, background, signals>>

Summarize ==
  /\ pc = "summarize" /\ Summarizable(n)
  /\ summary' = Put(Target(n), Told(Summarized(n)))
  /\ kind' = "sum" /\ pc' = "tools"
  /\ UNCHANGED <<config, counters, asking, tools, late, asked, applied, size, fgFailed,
                 background, signals>>

\* the request for the summary fails, or the render with the summary
SummarizeFails ==
  /\ pc = "summarize" \/ (pc = "rendered" /\ kind = "sum")
  /\ fgFailed' = TRUE
  /\ kind' = "plain" /\ pc' = "tools"
  /\ UNCHANGED <<config, counters, asking, summary, tools, late, asked, applied, size,
                 background, signals>>

\* no other prompt to try; late, the prompt rendered before is used
NothingFits ==
  /\ pc = "rendered" /\ (kind \in {"again", "plain"} \/ mode = "off")
  /\ pc' = IF late /\ kind = "plain" THEN "built" ELSE "done"
  /\ UNCHANGED <<config, counters, asking, summary, tools, prompt, background, signals>>

StartPass ==
  /\ bg' = "InProgress"
  /\ pass' = [NoPass EXCEPT !.step = "summarize", !.n = n, !.results = results]

CheckSize ==
  /\ pc = "post"
  /\ LET compacts == mode = "background" /\ ~applied IN
       IF compacts /\ size = "full" /\ bg = "InProgress"
       THEN pc' = "postWait" /\ UNCHANGED background
       ELSE /\ pc' = "built"
            /\ IF compacts /\ size # "low" /\ bg \in {"Idle", "Failed"}
                 THEN StartPass ELSE UNCHANGED background
  /\ UNCHANGED <<config, counters, asking, summary, tools, prompt, signals>>

\* the prompt is rendered again, with the results stored before this one
WaitAfterRender ==
  /\ pc = "postWait" /\ PassSettled
  /\ Consume
  /\ late' = TRUE
  /\ IF bg = "Completed" THEN kind' = "again" /\ pc' = "tools" ELSE SummarizeOrNot(FALSE)
  /\ UNCHANGED <<config, counters, asking, tools, asked, applied, size, signals>>

\* buildPrompt2 stores the results; a cancelled tool ends the loop.  What a
\* render that was replaced has run is run again, or is hidden by then.
\* Mutant: the results are not stored.
StoredNone == results
Stored == results \cup fresh

KeepResults ==
  /\ pc = "built"
  /\ results' = Stored
  /\ pc' \in {"send"} \cup (IF fresh # {} THEN {"done"} ELSE {})
  /\ UNCHANGED <<config, counters, asking, summary, ran, reran, fresh, prompt, background,
                 signals>>

(***************************************************************************)
(* Sending the request and taking the answer.                              *)
(***************************************************************************)
Send ==
  /\ pc = "send"
  /\ IF cancelled \/ (i > 0 /\ yield)
       THEN pc' = "done" /\ UNCHANGED sent
       ELSE pc' = "fetch" /\ sent' = sent + 1
  /\ UNCHANGED <<config, i, limit, last, retries, nudges, nudged, asking, summary, tools,
                 prompt, background, signals>>

\* the answer becomes a round; calls other than task_complete end the nudging
Push(ask) ==
  /\ n' = n + 1
  /\ withCalls' = IF ask = "none" THEN withCalls ELSE withCalls \cup {n + 1}
  /\ tasked' = IF ask = "task" THEN tasked \cup {n + 1} ELSE tasked
  /\ nudged' = (nudged /\ ask # "tools")
  /\ nudges' = IF nudged /\ ask = "tools" THEN 0 ELSE nudges

\* also a summary that was asked for and cannot be extracted or stored
Answer ==
  /\ pc = "fetch"
  /\ \E ask \in Asks :
       /\ Push(ask)
       /\ pc' = IF ask # "none" THEN "top" ELSE IF cancelled THEN "done" ELSE "stopHook"
  /\ last' = "ok"
  /\ UNCHANGED <<config, i, limit, sent, retries, summary, tools, prompt, background,
                 signals>>

\* the answer is the summary asked for: its own round is removed again
InlineSummary ==
  /\ pc = "fetch" /\ asked /\ n > 0
  /\ summary' = Put(IF n > 1 THEN n - 1 ELSE n, Told(n))
  /\ last' = "ok" /\ fgFailed' = FALSE
  /\ pc' = "top"
  /\ UNCHANGED <<config, i, limit, sent, retries, nudges, nudged, asking, tools, kind,
                 late, asked, applied, size, background, signals>>

\* the tool calls that came before a failure are kept in the round
Failure ==
  /\ pc = "fetch"
  /\ \E ask \in Asks : Push(ask)
  /\ last' = "failed"
  /\ \/ /\ ~cancelled /\ perm # "default" /\ retries < MaxRetries
        /\ retries' = retries + 1 /\ pc' = "retry"
     \/ /\ pc' = IF cancelled THEN "done" ELSE "stopHook"
        /\ UNCHANGED retries
  /\ UNCHANGED <<config, i, limit, sent, summary, tools, prompt, background, signals>>

Retry ==
  /\ pc = "retry"
  /\ pc' = IF cancelled THEN "done" ELSE "top"
  /\ UNCHANGED <<config, counters, asking, summary, tools, prompt, background, signals>>

HookBlocks ==
  /\ pc = "stopHook"
  /\ pc' = "top"
  /\ UNCHANGED <<config, counters, asking, summary, tools, prompt, background, signals>>

Nudge == perm = "autopilot" /\ last = "ok" /\ tasked = {} /\ nudges < MaxNudges

HookLetsStop ==
  /\ pc = "stopHook"
  /\ IF Nudge
       THEN nudges' = nudges + 1 /\ nudged' = TRUE /\ pc' = "top"
       ELSE pc' = "done" /\ UNCHANGED <<nudges, nudged>>
  /\ UNCHANGED <<config, i, limit, last, sent, retries, asking, summary, tools, prompt,
                 background, signals>>

(***************************************************************************)
(* The background pass: it asks for a summary, writes it to the round,     *)
(* which it shares with the loop, and renders the prompt with it.  Its     *)
(* results are those the loop had stored when it was started.              *)
(***************************************************************************)
PassSummarizes ==
  /\ pass.step = "summarize" /\ Summarizable(pass.n)
  /\ LET told == Told(Summarized(pass.n)) IN
       /\ summary' = Put(Target(pass.n), told)
       /\ pass' = [pass EXCEPT !.step = "tools", !.target = Target(pass.n), !.told = told]
  /\ UNCHANGED <<config, pc, counters, asking, tools, prompt, bg, signals>>

PassRunsTools ==
  /\ pass.step = "tools"
  /\ LET missing == (Visible(pass.n) \cap withCalls) \ pass.results IN
       /\ ran' = ran \cup missing
       /\ reran' = reran \cup (missing \cap ran)
  /\ pass' = [pass EXCEPT !.step = "rendered"]
  /\ UNCHANGED <<config, pc, counters, asking, summary, results, fresh, prompt, bg, signals>>

PassCompletes ==
  /\ pass.step = "rendered"
  /\ bg' = "Completed"
  /\ pass' = [pass EXCEPT !.step = "none"]
  /\ UNCHANGED <<config, pc, counters, asking, summary, tools, prompt, signals>>

PassFails ==
  /\ pass.step \in {"summarize", "rendered"}
  /\ bg' = "Failed" /\ pass' = NoPass
  /\ UNCHANGED <<config, pc, counters, asking, summary, tools, prompt, signals>>

\* the user cancels; the editor asks the request to make way for another
Cancel ==
  /\ pc # "done" /\ ~cancelled /\ cancelled' = TRUE
  /\ UNCHANGED <<config, pc, counters, asking, summary, tools, prompt, background, yield>>
AskToYield ==
  /\ pc # "done" /\ ~yield /\ yield' = TRUE
  /\ UNCHANGED <<config, pc, counters, asking, summary, tools, prompt, background, cancelled>>

Building ==
  \/ Prepare \/ WaitBeforeRender \/ RunTools \/ Fits \/ Exceeds \/ WaitOverBudget
  \/ InlineExceeds \/ Summarize \/ SummarizeFails \/ NothingFits \/ CheckSize
  \/ WaitAfterRender \/ KeepResults
LoopStep ==
  \/ NextIteration \/ Building \/ Send
  \/ Answer \/ InlineSummary \/ Failure \/ Retry \/ HookBlocks \/ HookLetsStop
PassStep == PassSummarizes \/ PassRunsTools \/ PassCompletes \/ PassFails

TLNext == LoopStep \/ PassStep \/ Cancel \/ AskToYield
TLSpec == TLInit /\ [][TLNext]_vars /\ WF_vars(LoopStep) /\ WF_vars(PassStep)

(***************************************************************************)
(* Properties.                                                             *)
(***************************************************************************)
TLTypeOK ==
  /\ perm \in {"default", "autoApprove", "autopilot"}
  /\ mode \in {"off", "separate", "inline", "background"}
  /\ hist \in BOOLEAN
  /\ pc \in {"top", "prepare", "preWait", "tools", "rendered", "budgetWait", "summarize",
             "post", "postWait", "built", "send", "fetch", "retry", "stopHook", "done"}
  /\ i \in Nat /\ limit \in Nat \ {0} /\ sent \in Nat
  /\ last \in {"none", "ok", "failed"}
  /\ retries \in 0..MaxRetries /\ nudges \in 0..MaxNudges /\ nudged \in BOOLEAN
  /\ n \in Nat
  /\ withCalls \subseteq 1..n /\ tasked \subseteq withCalls
  /\ summary \in [DOMAIN summary -> SUBSET (0..n)] /\ DOMAIN summary \subseteq 0..n
  /\ results \subseteq 1..n /\ ran \subseteq 1..n /\ reran \subseteq 1..n /\ fresh \subseteq 1..n
  /\ kind \in {"main", "again", "inline", "sum", "plain"}
  /\ late \in BOOLEAN /\ asked \in BOOLEAN /\ applied \in BOOLEAN /\ fgFailed \in BOOLEAN
  /\ size \in Sizes
  /\ bg \in {"Idle", "InProgress", "Completed", "Failed"}
  /\ pass \in [step : {"none", "summarize", "tools", "rendered"}, n : 0..n,
               results : SUBSET (1..n), target : 0..n, told : SUBSET (0..n)]
  /\ cancelled \in BOOLEAN /\ yield \in BOOLEAN

(* Whoever stores a summary and whenever, a prompt tells the model of      *)
(* every round and every turn before: a round that is not shown is one the *)
(* summary shown instead was made from (getProps, applySummaryToRound,     *)
(* _applySummaryToRounds, addSummaryToHistory).                            *)
NothingForgotten == Told(n) = All(n)

(* "Tool calls happen during prompt building": however often the prompt is *)
(* rendered again, because it exceeds the budget or a summary cannot be    *)
(* made, and however often a request is retried, no tool call runs twice.  *)
(* Where a pass runs in the background this does not hold.                 *)
ToolsRunOnce == mode # "background" => reran = {}

(* A request is sent only with the result of every tool call it shows,     *)
(* also of the calls of a request that failed and is retried, and of       *)
(* prompts that were rendered several times.                               *)
ResultsBeforeRequest == pc = "fetch" => Visible(n) \cap withCalls \subseteq results

(* However a round ends and however often autopilot extends the limit, the *)
(* loop sends at most one request more than the limit, as the first is not *)
(* counted, and the limit is the one set or not above that of autopilot.   *)
RequestsBounded == sent <= limit + 1 /\ limit \in Limits \cup 1..Cap

(* Every request ends, in autopilot too, whatever the model, the tools and *)
(* the stop hooks do: the retries, the nudges and the extended limit are   *)
(* bounded together, and no wait for a background pass lasts for ever.     *)
LoopEnds == <>(pc = "done")
------------------------------------------------------------------------------
(***************************************************************************)
(* Why it ends.  No step of the loop or of the pass can be taken for ever: *)
(* each lowers a natural number, which a signal does not change.  It       *)
(* counts the requests that are left, then the way to the next one, then   *)
(* the way of the pass.                                                    *)
(***************************************************************************)
Most == (IF limit > Cap THEN limit ELSE Cap) + 1

\* The way through the renders of a prompt.  After the checks there is at most
\* one more series of them.
Rendering == {"tools", "rendered", "budgetWait", "summarize"}
RenderRank ==
  (IF late THEN 0 ELSE 12)
  + (IF pc = "budgetWait" THEN 10 ELSE IF pc = "summarize" THEN 7
     ELSE (IF pc = "tools" THEN 1 ELSE 0)
          + (IF kind = "main" THEN 11 ELSE IF kind \in {"again", "inline"} THEN 8
             ELSE IF kind = "sum" THEN 5 ELSE 3))
PlaceRank ==
  [done |-> 0, send |-> 1, built |-> 2, postWait |-> 13, post |-> 14, preWait |-> 25,
   prepare |-> 26, top |-> 27, retry |-> 28, stopHook |-> 28, fetch |-> 29]
WayToRequest == IF pc \in Rendering THEN RenderRank ELSE PlaceRank[pc]
PassRank == [none |-> 0, rendered |-> 1, tools |-> 2, summarize |-> 3][pass.step]
LoopRank == 4 * (30 * (Most - sent) + WayToRequest) + PassRank

LoopAdvances ==
  [][/\ LoopStep \/ PassStep => LoopRank' < LoopRank
     /\ LoopRank' <= LoopRank /\ LoopRank' \in Nat]_vars

(* A loop that waits for a pass waits for one that goes on or has settled: *)
(* no pass is forgotten while it is waited for, nor waited for before it   *)
(* is started (backgroundSummarizer.ts, waitForCompletion).                *)
WaitsArePassing ==
  pc \in {"preWait", "budgetWait", "postWait"} => PassSettled \/ pass.step # "none"
==============================================================================

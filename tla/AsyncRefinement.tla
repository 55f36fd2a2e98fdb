---------------------------- MODULE AsyncRefinement ----------------------------
(***************************************************************************)
(* AsyncCompletionManager implements CompletionCalls: table, streams and   *)
(* cancellations are hidden; the finally() of a call is a stutter.         *)
(***************************************************************************)
EXTENDS AsyncCompletions

Asked == [c \in Calls |-> IF status[c] = "none" THEN NoText ELSE ctx[c[1]]]
Settled == {c \in Calls : status[c] \in {"resolved", "disposed"}}
Known == {final[r] : r \in {q \in Ids : phase[q] = "completed"}}

Promise == INSTANCE CompletionCalls WITH
  Callers <- Calls,
  Continues <- {p \in Ext : p[1] # p[2]},
  asked <- Asked, answered <- Settled, answer <- outcome, known <- Known

\* Whatever is evicted, cancelled, cleared or late, the callers of the manager see
\* what CompletionCalls promises them: one answer each, that continues what they
\* asked for and is never taken back (asyncCompletions.ts:211-276).
PromiseKept == Promise!CallsSpec
==============================================================================

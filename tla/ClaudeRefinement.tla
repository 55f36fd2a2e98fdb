--------------------------- MODULE ClaudeRefinement ----------------------------
(***************************************************************************)
(* A Claude session implements PromptQueue: the way of a call to the       *)
(* queue, and everything about queries, is hidden.                         *)
(***************************************************************************)
EXTENDS ClaudeSession

Stage == [i \in Requests |->
            IF pc[i] \in {"checking", "switching", "modes", "starting"} THEN "made"
            ELSE IF pc[i] = "queued" THEN "waiting" ELSE pc[i]]

Line == INSTANCE PromptQueue WITH Callers <- Requests, stage <- Stage, line <- queue

(* Whatever ends a session (a failure, an interrupt, a restart, dispose),  *)
(* queued messages are completed in the order in which they were queued or *)
(* all fail together, and each is settled once ("They are processed        *)
(* sequentially", CLAUDE_SESSION_USER_GUIDE.md).                           *)
SettledInTurn == Line!LineSpec
===============================================================================

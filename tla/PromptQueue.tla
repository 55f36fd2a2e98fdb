----------------------------- MODULE PromptQueue ------------------------------
(***************************************************************************)
(* What a Claude session promises to the callers of invoke, without        *)
(* queries, abort controllers and restarts: whoever has joined the line is *)
(* served in turn, or the whole line is sent away at once; nobody is       *)
(* served who has not joined, nobody is overtaken, and who has been served *)
(* or sent away stays so.                                                  *)
(***************************************************************************)
EXTENDS Sequences

CONSTANT Callers

VARIABLES
  stage, \* of each call
  line   \* the calls that wait, in the order in which they joined

lineVars == <<stage, line>>

LineInit ==
  /\ stage = [c \in Callers |-> "idle"]
  /\ line = <<>>

\* a call is made, or refused at once
Call(c) ==
  /\ stage[c] = "idle"
  /\ \E s \in {"made", "failed"} : stage' = [stage EXCEPT ![c] = s]
  /\ UNCHANGED line

Join(c) ==
  /\ stage[c] = "made"
  /\ stage' = [stage EXCEPT ![c] = "waiting"]
  /\ line' = Append(line, c)

Serve ==
  /\ line # <<>>
  /\ stage' = [stage EXCEPT ![Head(line)] = "completed"]
  /\ line' = Tail(line)

\* calls F fail before they have joined
Made == {c \in Callers : stage[c] = "made"}
Fails(F) == [c \in Callers |-> IF c \in F THEN "failed" ELSE stage[c]]
TurnAway(F) == F \in SUBSET Made /\ stage' = Fails(F) /\ UNCHANGED line

\* everybody in the line fails, and calls F with them
InLine == {line[k] : k \in DOMAIN line}
SendAway(F) == F \in SUBSET Made /\ stage' = Fails(F \cup InLine) /\ line' = <<>>

LineNext ==
  \/ \E c \in Callers : Call(c) \/ Join(c)
  \/ Serve
  \/ \E F \in SUBSET Made : TurnAway(F) \/ SendAway(F)

LineSpec == LineInit /\ [][LineNext]_lineVars
===============================================================================

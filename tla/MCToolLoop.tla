------------------------------ MODULE MCToolLoop ------------------------------
(***************************************************************************)
(* One request with a limit of one, which autopilot extends to two.  The   *)
(* loop reads the two signals at three places each; a signal that comes    *)
(* between them is the same as one that comes just before the next.        *)
(***************************************************************************)
EXTENDS ToolLoop

SignalsWhereRead ==
  /\ cancelled' # cancelled => pc \in {"send", "fetch", "retry"}
  /\ yield' # yield => pc \in {"top", "send"}
==============================================================================

----------------------------- MODULE MCCliSessions -----------------------------
(***************************************************************************)
(* Instances of CliSessions for TLC.  Requests are numbers and come in     *)
(* their order, which loses nothing: nothing else tells them apart.  Two   *)
(* requests may be cancelled and have their session deleted, or yield;     *)
(* more than two run undisturbed.                                          *)
(***************************************************************************)
EXTENDS CliSessions

Undisturbed == cancelled' = {} /\ deletion' = "no"
Came == {r \in Requests : pc'[r] # "idle"}

MCCliNext ==
  /\ CliNext
  /\ \A r \in Came : 1..r \subseteq Came
  /\ \/ Undisturbed /\ yielded' = {}
     \/ (Undisturbed \/ yielded' = {}) /\ Cardinality(Came) <= 2

MCCliSpec ==
  /\ CliInit /\ [][MCCliNext]_cliVars
  /\ CliFairness
==============================================================================

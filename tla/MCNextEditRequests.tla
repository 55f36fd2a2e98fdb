-------------------------- MODULE MCNextEditRequests --------------------------
(***************************************************************************)
(* Instances of NextEditRequests: two or three calls, up to two speculative *)
(* requests and two or three document contents, with the configurations    *)
(* the code distinguishes.  For liveness, where symmetry is not sound, the *)
(* calls are numbered in their order and the first content is fixed, which *)
(* loses nothing: nothing else tells them apart.                           *)
(***************************************************************************)
EXTENDS NextEditRequests, TLC

Symmetry == Permutations(Calls) \cup Permutations(Docs)

MCInit == Init /\ doc = CHOOSE d \in Docs : TRUE
MCSpec == MCInit /\ [][Next]_vars /\ Fairness

InOrder == \A c, d \in Calls : c < d /\ pc'[d] # "idle" => pc'[c] # "idle"
==============================================================================

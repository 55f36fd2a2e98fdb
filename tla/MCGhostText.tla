----------------------------- MODULE MCGhostText ------------------------------
(***************************************************************************)
(* Calls at "a" and "ab"; completions lead to "ab" or "abc", and "abd" is  *)
(* a further choice.  Any two of two calls of the user, which are numbered *)
(* in their order, and of a speculative one.  Nothing else tells the calls *)
(* of the user apart.  Where both calls are the user's, the stream of a    *)
(* completion stops only at "ab" before its end, and calls at the same     *)
(* place get "ab" only.                                                    *)
(***************************************************************************)
EXTENDS GhostText

MCTexts == {"a", "ab", "abc", "abd"}
MCTyped == {"a", "ab"}
MCExt == {<<t, t>> : t \in MCTexts}
         \cup {<<"a", "ab">>, <<"a", "abc">>, <<"ab", "abc">>, <<"a", "abd">>, <<"ab", "abd">>}

\* all choices are kept; "abc" is dropped at "ab", where it repeats the next
\* line; "abc" is cut at "a" to "ab", which is dropped when it is seen again
AllKept == [p \in MCTexts \X MCTexts |-> p[2]]
MCPostProcessing ==
  {AllKept,
   [AllKept EXCEPT ![<<"ab", "abc">>] = NoText],
   [AllKept EXCEPT ![<<"a", "abc">>] = "ab", ![<<"a", "ab">>] = NoText]}

AtMostTwoCalls == Cardinality({i \in Ids : pc[i] # "idle"}) <= 2
InOrder == \A i, j \in Users : i < j /\ pc[j] # "idle" => pc[i] # "idle"
BothUsers == \A i \in Users : pc[i] # "idle"
FewTexts ==
  /\ \A i \in Ids : partial[i] # "abd" /\ final[i] # "abd"
  /\ BothUsers =>
       /\ \A i \in Ids : partial[i] \in {NoText, "ab"}
       /\ (\A i \in Users : pos[i] = "a") => \A i \in Ids : final[i] # "abc"
\* the further choice comes to "a", after the first one, before the second call
NewlyCached == cache' \ cache
MoreChoices ==
  NewlyCached # {} /\ phase' = phase =>
    /\ NewlyCached = {<<"a", "abd">>}
    /\ \E r \in Ids : phase[r] = "completed" /\ pc[r] = "success"
    /\ Cardinality({i \in Ids : pc[i] # "idle"}) = 1
\* what it matters to is the next call of the user
FurtherSeen == (\E e \in cache : e[2] = "abd") => \A s \in Speculative : pc[s] = "idle"
\* where choices may be dropped the calls do not overlap: what matters is the
\* ghost text and the cache that the first has left
OneAfterAnother ==
  post # AllKept => Cardinality({i \in Ids : pc[i] \notin Ended \cup {"idle"}}) <= 1
TwoCalls == (AtMostTwoCalls /\ InOrder /\ FewTexts /\ FurtherSeen /\ OneAfterAnother)' /\ MoreChoices
==============================================================================

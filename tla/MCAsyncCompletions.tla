-------------------------- MODULE MCAsyncCompletions --------------------------
(***************************************************************************)
(* Texts form the chain "a", "ab", "abc": a stream that has reached only   *)
(* "a" does not match a user who has typed "ab", and a request issued at   *)
(* "ab" does not match a user who went back to "a".  The Typist types on   *)
(* and peeks; the request of the Streamer streams and fails; the others    *)
(* succeed or fail.  Together they overflow a table of two, and let a call *)
(* wait for two requests.                                                  *)
(***************************************************************************)
EXTENDS AsyncRefinement

CONSTANTS Typist, Streamer

MCTexts == {"a", "ab", "abc"}
MCTyped == {"a", "ab"}
MCExt == {<<t, t>> : t \in MCTexts}
         \cup {<<"a", "ab">>, <<"a", "abc">>, <<"ab", "abc">>}

MCNext ==
  /\ Next
  /\ \A i \in Ids \ {Typist} : ctx'[i] # "ab" /\ status'[<<i, "peek">>] = "none"
  /\ \A i \in Ids \ {Streamer} : partial'[i] = NoText
  /\ phase'[Streamer] # "completed"
MCSpec == Init /\ [][MCNext]_vars /\ Fairness
==============================================================================

---------------------------- MODULE CompletionCalls ----------------------------
(***************************************************************************)
(* What AsyncCompletionManager promises to those who call                  *)
(* getFirstMatchingRequest, without its table, subscriptions and           *)
(* cancellations: a call asks for a completion of a text; it is answered   *)
(* once, with a completed text that continues what it asked for, or with   *)
(* nothing; a completion that arrives may answer many calls at once; and   *)
(* no call waits for ever.                                                 *)
(***************************************************************************)
CONSTANTS
  Callers,
  Texts,
  Continues,  \* pairs <<s, t>>: t continues s by at least one character
  NoText

VARIABLES
  asked,    \* the text of each call, NoText before it is made
  answered, \* the calls that are settled
  answer,   \* what they were answered with, NoText for nothing
  known     \* the texts of the completions that have arrived

callsVars == <<asked, answered, answer, known>>

CallsInit ==
  /\ asked = [c \in Callers |-> NoText]
  /\ answered = {}
  /\ answer = [c \in Callers |-> NoText]
  /\ known = {}

Waiting == {c \in Callers : asked[c] # NoText /\ c \notin answered}

\* a call finds a completion that it can use, or waits
Ask(c, t) ==
  /\ asked[c] = NoText
  /\ asked' = [asked EXCEPT ![c] = t]
  /\ \/ UNCHANGED <<answered, answer>>
     \/ \E k \in known :
          /\ <<t, k>> \in Continues
          /\ answered' = answered \cup {c}
          /\ answer' = [answer EXCEPT ![c] = k]
  /\ UNCHANGED known

\* of the calls that waited for this completion too, some get it, and some of the
\* others have nothing else to wait for
Arrives(t) ==
  \E C \in SUBSET {c \in Waiting : <<asked[c], t>> \in Continues},
     D \in SUBSET {c \in Waiting : <<asked[c], t>> \notin Continues} :
    /\ answered' = answered \cup C \cup D
    /\ answer' = [c \in Callers |-> IF c \in C THEN t ELSE answer[c]]
    /\ known' = known \cup {t}
    /\ UNCHANGED asked

\* calls have nothing left to wait for
GiveUp ==
  /\ \E D \in SUBSET Waiting : answered' = answered \cup D
  /\ UNCHANGED <<asked, answer, known>>

CallsNext ==
  \/ \E c \in Callers, t \in Texts : Ask(c, t)
  \/ \E t \in Texts : Arrives(t)
  \/ GiveUp

Settle(c) == c \in Waiting /\ (GiveUp \/ \E t \in Texts : Arrives(t)) /\ c \in answered'

CallsSafety == CallsInit /\ [][CallsNext]_callsVars
CallsSpec == CallsSafety /\ \A c \in Callers : WF_callsVars(Settle(c))
==============================================================================

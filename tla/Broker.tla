------------------------------- MODULE Broker -------------------------------
(***************************************************************************)
(* What hosts may expect of the daemon's request loop, however its threads *)
(* interleave: it takes one request at a time; it answers a request at     *)
(* most once, after it was handled, and in the order the requests came in, *)
(* so that a request is never answered over the head of an earlier one;    *)
(* and once it has closed, after a stop or a transport failure, it takes   *)
(* and answers nothing more.                                               *)
(***************************************************************************)
EXTENDS Naturals

VARIABLES accepted,   \* how many requests were taken; they are numbered from 1
          busy,       \* the last of them is not handled yet
          answered,   \* the requests whose response was written
          open

vars == <<accepted, busy, answered, open>>

Init == accepted = 0 /\ busy = FALSE /\ answered = {} /\ open = TRUE

InOrder(S) == \A t \in S : 1..t \subseteq S
Handled == IF busy THEN 1..(accepted - 1) ELSE 1..accepted

Accept ==
  /\ open /\ ~busy
  /\ accepted' = accepted + 1 /\ busy' = TRUE
  /\ UNCHANGED <<answered, open>>

Handle == busy /\ busy' = FALSE /\ UNCHANGED <<accepted, answered, open>>

(* A batch of responses is written, or cut short by the end of the loop.   *)
Write ==
  /\ open
  /\ answered \subseteq answered' /\ answered' \subseteq Handled /\ InOrder(answered')
  /\ UNCHANGED <<accepted, busy>>

Answer == Write /\ UNCHANGED open
Close  == Write /\ open' = FALSE

Next == Accept \/ Handle \/ Answer \/ Close

Spec == Init /\ [][Next]_vars
=============================================================================

--------------------------- MODULE FetchContract ---------------------------
(***************************************************************************)
(* What the hiscores_fetches queue promises the Site, with the database,   *)
(* the workers and their failures left out: a request that was submitted   *)
(* is answered, once, and the first answer is the one the Site will ever   *)
(* see.                                                                    *)
(***************************************************************************)
CONSTANTS Row,      (* the requests that may ever be submitted             *)
          Outcome   (* the answers a request may get                       *)

VARIABLES submitted,  (* the requests the Site has inserted                *)
          answer      (* the answer of each request, NoAnswer before it    *)

vars == <<submitted, answer>>

NoAnswer == "none"

Init == /\ submitted = {}
        /\ answer = [r \in Row |-> NoAnswer]

Submit(r) == /\ r \notin submitted
             /\ submitted' = submitted \cup {r}
             /\ UNCHANGED answer

Answer(r) == /\ r \in submitted
             /\ answer[r] = NoAnswer
             /\ \E o \in Outcome \ {NoAnswer} : answer' = [answer EXCEPT ![r] = o]
             /\ UNCHANGED submitted

Next == \E r \in Row : Submit(r) \/ Answer(r)

Spec == Init /\ [][Next]_vars

(* An answer is owed to every request that was submitted.                  *)
FairSpec == Spec /\ \A r \in Row : WF_vars(Answer(r))
=============================================================================

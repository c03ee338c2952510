-------------------------- MODULE DeliveryContract --------------------------
(***************************************************************************)
(* What the delivery queue promises the Site, with the table, the worker   *)
(* and their failures left out: a message that was asked for is posted a   *)
(* bounded number of times and never again once Discord has accepted it;   *)
(* its verdict is final, and tells whether Discord did.  That a verdict    *)
(* comes is not promised: see EveryMessageSettles of Delivery.             *)
(***************************************************************************)
EXTENDS Naturals

CONSTANTS Msg, MaxAttempts

VARIABLES asked,      (* the messages the Site has enqueued                *)
          posts,      (* how often each was posted                         *)
          confirmed,  (* those Discord has accepted                        *)
          verdict     (* NoVerdict before there is one                     *)

vars == <<asked, posts, confirmed, verdict>>

NoVerdict == "none"

Init == /\ asked = {}
        /\ posts = [m \in Msg |-> 0]
        /\ confirmed = {}
        /\ verdict = [m \in Msg |-> NoVerdict]

Ask(m) == /\ m \notin asked
          /\ asked' = asked \cup {m}
          /\ UNCHANGED <<posts, confirmed, verdict>>

Post(m) == /\ m \in asked \ confirmed
           /\ verdict[m] = NoVerdict
           /\ posts[m] < MaxAttempts
           /\ posts' = [posts EXCEPT ![m] = @ + 1]
           /\ confirmed' \in {confirmed, confirmed \cup {m}}
           /\ UNCHANGED <<asked, verdict>>

Settle(m) == /\ m \in asked
             /\ verdict[m] = NoVerdict
             /\ posts[m] > 0
             /\ \E v \in {"delivered", "failed", "dead"} :
                  /\ v = "delivered" <=> m \in confirmed
                  /\ verdict' = [verdict EXCEPT ![m] = v]
             /\ UNCHANGED <<asked, posts, confirmed>>

Next == \E m \in Msg : Ask(m) \/ Post(m) \/ Settle(m)

Spec == Init /\ [][Next]_vars
=============================================================================

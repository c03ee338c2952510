----------------------------- MODULE MCDelivery -----------------------------
(***************************************************************************)
(* Small instances of Delivery: two messages of different priority, two    *)
(* overlapping processes of one goroutine each, or one process of one or   *)
(* two.                                                                    *)
(***************************************************************************)
EXTENDS Delivery, TLC

CONSTANTS old, new, w1, w2, urgent, routine

Priorities == urgent :> 1 @@ routine :> 0

OneEach == w1 :> old @@ w2 :> new
BothOld == w1 :> old @@ w2 :> old
OneOld == w1 :> old
=============================================================================

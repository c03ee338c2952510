------------------------------ MODULE MCPaced ------------------------------
(***************************************************************************)
(* Small instances of PacedDelivery: messages of one busy clan.            *)
(***************************************************************************)
EXTENDS PacedDelivery, TLC

CONSTANTS b1, b2, busy

Buckets == [m \in Msg |-> busy]
Routine == [m \in Msg |-> 0]
OneTwo == <<1, 2>>
Workers == Permutations(Caller)
=============================================================================

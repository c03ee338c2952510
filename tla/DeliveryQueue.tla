--------------------------- MODULE DeliveryQueue ---------------------------
(***************************************************************************)
(* The forge_discord_deliveries table and the statements internal/discord  *)
(* runs on it, each of them atomic.  A message is named by its dedupe key. *)
(*                                                                         *)
(* next_attempt_at is seen as "now" (it has passed), "later" or "never"    *)
(* ('infinity').                                                           *)
(***************************************************************************)
EXTENDS Integers, FiniteSets

CONSTANTS Msg,          (* messages, by dedupe key                         *)
          Priority,     (* the priority the Site gives each                *)
          MaxAttempts,  (* sends before a message is abandoned             *)
          LateReplay    (* may the Site replay an event whose message has  *)
                        (* been pruned?                                    *)

ASSUME PriorityAssumption == Priority \in [Msg -> Int]
ASSUME AttemptsAssumption == MaxAttempts \in Nat \ {0}
ASSUME ReplayAssumption == LateReplay \in BOOLEAN

VARIABLES status,    (* "absent" when there is no row                      *)
          attempts,  (* claims so far                                      *)
          due,       (* next_attempt_at                                    *)
          pruned     (* history: messages whose row was pruned             *)

qvars == <<status, attempts, due, pruned>>

Status == {"absent", "pending", "delivering", "delivered", "failed", "dead"}
DueTime == {"now", "later", "never"}
Verdict == {"delivered", "retry", "dead", "drop"}

QueueInit == /\ status = [m \in Msg |-> "absent"]
             /\ attempts = [m \in Msg |-> 0]
             /\ due = [m \in Msg |-> "now"]
             /\ pruned = {}

-----------------------------------------------------------------------------
(* The Site consumes an event, for the first time or once more; the key of *)
(* a row that exists is left alone.                                        *)
Enqueue(m) ==
    /\ m \in pruned => LateReplay
    /\ status' = IF status[m] = "absent"
                   THEN [status EXCEPT ![m] = "pending"] ELSE status
    /\ UNCHANGED <<attempts, due, pruned>>

(* Mutant of Claimable: a lapsed 'delivering' row is claimed again.        *)
ClaimableReclaims ==
    {m \in Msg : status[m] \in {"pending", "failed", "delivering"} /\ due[m] = "now"}

(* The WHERE clause of Claim.                                              *)
Claimable == {m \in Msg : status[m] \in {"pending", "failed"} /\ due[m] = "now"}

(* What ORDER BY priority DESC, next_attempt_at LIMIT limit may select: due*)
(* times decide among equals, so any of them may come first.               *)
Selections(limit) ==
    {S \in SUBSET Claimable :
        /\ Cardinality(S) <= limit
        /\ Claimable \ S # {} => Cardinality(S) = limit
        /\ \A m \in S : \A n \in Claimable \ S : Priority[m] >= Priority[n]}

(* The UPDATE of Claim: the lease is written into next_attempt_at.         *)
Lease(S) ==
    /\ status' = [m \in Msg |-> IF m \in S THEN "delivering" ELSE status[m]]
    /\ attempts' = [m \in Msg |-> IF m \in S THEN attempts[m] + 1 ELSE attempts[m]]
    /\ due' = [m \in Msg |-> IF m \in S THEN "later" ELSE due[m]]
    /\ UNCHANGED pruned

(* The retries are used up.  d.Attempts is the count the claim returned.   *)
Exhausted(m) == attempts[m] >= MaxAttempts

(* Mutant of StatusAfter: a retry that only reschedules.                   *)
StatusAfterNoReset(m, v) ==
    IF v = "retry" /\ ~Exhausted(m) THEN status[m]
    ELSE IF v \in {"retry", "drop"} THEN "failed" ELSE v

(* Where Complete leaves a message.                                        *)
StatusAfter(m, v) == CASE v = "delivered" -> "delivered"
                       [] v = "dead" -> "dead"
                       [] v = "drop" -> "failed"
                       [] v = "retry" -> IF Exhausted(m) THEN "failed" ELSE "pending"

(* Mutants of DueAfter: a drop that leaves the lease behind; 'infinity'    *)
(* for every failure.                                                      *)
DueAfterDropKeepsLease(m, v) ==
    IF v = "retry" THEN IF Exhausted(m) THEN "never" ELSE "later" ELSE due[m]
DueAfterAlwaysNever(m, v) ==
    IF v \in {"retry", "drop"} THEN "never" ELSE due[m]

DueAfter(m, v) == CASE v \in {"delivered", "dead"} -> due[m]
                    [] v = "drop" -> "never"
                    [] v = "retry" -> IF Exhausted(m) THEN "never" ELSE "later"

(* The UPDATE of Complete, which names the row by its id only.             *)
WriteVerdict(m, v) ==
    /\ status' = [status EXCEPT ![m] = StatusAfter(m, v)]
    /\ due' = [due EXCEPT ![m] = DueAfter(m, v)]
    /\ UNCHANGED <<attempts, pruned>>

(* next_attempt_at passes for the messages of S.                           *)
ComeDue(S) ==
    /\ \A m \in S : due[m] = "later"
    /\ due' = [m \in Msg |-> IF m \in S THEN "now" ELSE due[m]]
    /\ UNCHANGED <<status, attempts, pruned>>

(* Mutant of PruneRow: everything that is over is deleted.                 *)
PruneRowOver(m) ==
    /\ status[m] \in {"delivered", "failed"}
    /\ status' = [status EXCEPT ![m] = "absent"]
    /\ attempts' = [attempts EXCEPT ![m] = 0]
    /\ due' = [due EXCEPT ![m] = "now"]
    /\ pruned' = pruned \cup {m}

(* Prune deletes delivered rows once they are old enough.                  *)
PruneRow(m) ==
    /\ status[m] = "delivered"
    /\ status' = [status EXCEPT ![m] = "absent"]
    /\ attempts' = [attempts EXCEPT ![m] = 0]
    /\ due' = [due EXCEPT ![m] = "now"]
    /\ pruned' = pruned \cup {m}

QueueTypeOK == /\ status \in [Msg -> Status]
               /\ attempts \in [Msg -> Nat]
               /\ due \in [Msg -> DueTime]
               /\ pruned \subseteq Msg
=============================================================================

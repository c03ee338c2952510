----------------------------- MODULE FetchQueue -----------------------------
(***************************************************************************)
(* The hiscores_fetches table and the statements internal/store runs on    *)
(* it.  Every operator here is one SQL statement: it is atomic, and        *)
(* FOR UPDATE SKIP LOCKED makes two concurrent claims choose disjoint      *)
(* rows.                                                                   *)
(*                                                                         *)
(* Rows are numbers in the order of requested_at.  Time is abstracted to   *)
(* the one question the statements ask of it, whether claimed_at is NULL,  *)
(* younger or older than the lease: lease[r] is "free", "leased" or        *)
(* "lapsed", and Lapse is the passage of time.                             *)
(***************************************************************************)
EXTENDS Integers, FiniteSets

CONSTANTS Row,     (* the requests that may be inserted                    *)
          Lanes,   (* priorities the rows may have; lower goes first       *)
          DryRun   (* FORGE_DRY_RUN: results are computed, not written     *)

ASSUME RowAssumption == Row \subseteq Nat \ {0}
ASSUME LaneAssumption == Lanes # {} /\ Lanes \subseteq [Row -> Int]
ASSUME DryRunAssumption == DryRun \in BOOLEAN

VARIABLES rows,    (* the rows that exist                                  *)
          lane,    (* priority                                             *)
          lease,   (* claimed_at, seen through the lease                   *)
          result   (* outcome; "none" while fetched_at IS NULL             *)

qvars == <<rows, lane, lease, result>>

Outcome == {"ok", "unranked", "transient"}
LeaseState == {"free", "leased", "lapsed"}

QueueInit == /\ rows = {}
             /\ lane \in Lanes
             /\ lease = [r \in Row |-> "free"]
             /\ result = [r \in Row |-> "none"]

-----------------------------------------------------------------------------
(* Mutants of JumpShare: no bound on the share; a share that may be zero.  *)
JumpShareUnbounded(limit) == limit
JumpShareRoundedDown(limit) == IF limit <= 0 THEN 0 ELSE limit \div 5

(* store.JumpShare: the late joiners one claim of `limit` may take.        *)
JumpShare(limit) == IF limit <= 0 THEN 0
                    ELSE IF limit \div 5 < 1 THEN 1 ELSE limit \div 5

(* ORDER BY priority, requested_at.                                        *)
Before(r, s) == \/ lane[r] < lane[s]
                \/ lane[r] = lane[s] /\ r < s

(* ORDER BY ... LIMIT k over the set S.                                    *)
First(S, k) == {r \in S : Cardinality({s \in S : Before(s, r)}) < k}

(* Mutants of Pending: the lease is not looked at; a lapsed lease is kept. *)
PendingIgnoresLease == {r \in rows : result[r] = "none"}
PendingNeverReclaims == {r \in rows : result[r] = "none" /\ lease[r] = "free"}

(* fetched_at IS NULL AND (claimed_at IS NULL OR claimed_at < now - lease) *)
Pending == {r \in rows : result[r] = "none" /\ lease[r] # "leased"}

Late(S) == {r \in S : lane[r] < 0}

(* The CTEs of store.Claim.  Rows that another claim has locked while it   *)
(* runs are skipped.                                                       *)
Jump(limit, locked) == First(Late(Pending \ locked), JumpShare(limit))
Rest(limit, locked) == LET open == Pending \ locked
                       IN  First(open \ Late(open), limit)
Picked(limit, locked) == Jump(limit, locked) \cup Rest(limit, locked)

(* The rows one claim of `limit` takes.                                    *)
Due(limit, locked) == First(Picked(limit, locked), limit)

-----------------------------------------------------------------------------
(* The Site asks for a fetch; which lane it asks in is its own choice.     *)
Enqueue(r) == /\ r \notin rows
              /\ rows' = rows \cup {r}
              /\ UNCHANGED <<lane, lease, result>>

(* Time passes until the lease of row r is older than the claim lease.  No *)
(* statement looks at the lease of a row that has a result, so that one is *)
(* left as it is.                                                          *)
Lapse(r) == /\ lease[r] = "leased"
            /\ result[r] = "none"
            /\ lease' = [lease EXCEPT ![r] = "lapsed"]
            /\ UNCHANGED <<rows, lane, result>>

(* The UPDATE of store.Claim: claimed_at = now() on the rows it takes.     *)
Lease(S) == /\ lease' = [r \in Row |-> IF r \in S THEN "leased" ELSE lease[r]]
            /\ UNCHANGED <<rows, lane, result>>

(* Mutant of WriteResult: without AND fetched_at IS NULL.                  *)
WriteResultBlind(r, o) ==
    /\ result' = IF DryRun THEN result ELSE [result EXCEPT ![r] = o]
    /\ UNCHANGED <<rows, lane, lease>>

(* store.Complete, committed: a dry run writes nothing, and a row that has *)
(* a result keeps it.                                                      *)
WriteResult(r, o) ==
    /\ result' = IF DryRun \/ result[r] # "none"
                   THEN result
                   ELSE [result EXCEPT ![r] = o]
    /\ UNCHANGED <<rows, lane, lease>>

QueueTypeOK == /\ rows \subseteq Row
               /\ lane \in Lanes
               /\ lease \in [Row -> LeaseState]
               /\ result \in [Row -> Outcome \cup {"none"}]
=============================================================================

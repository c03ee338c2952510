--------------------------- MODULE DeliveryProofs ---------------------------
(***************************************************************************)
(* Theorems about Delivery, for every number of processes, goroutines and  *)
(* messages, every retry budget and every sequence of faults.              *)
(***************************************************************************)
EXTENDS Delivery, FiniteSetTheorems, TLAPS

(* The table has finitely many rows, and so has a claim.                   *)
Finite == IsFiniteSet({m \in Msg : status[m] # "absent"})

(* What drain has in its hands: the batch only while it feeds, goroutines  *)
(* only until wg.Wait has returned.                                        *)
DrainShape ==
    /\ \A i \in Inst : pc[i] # "feed" => batch[i] = {}
    /\ \A w \in Worker : wpc[w] # "idle" => pc[Home[w]] \in {"feed", "wait", "abort"}
    /\ \A w \in Worker : Busy(w) => wmsg[w] \in Msg
    /\ \A w \in Worker : wpc[w] = "complete" => wverdict[w] \in Verdict

TypeInv == TypeOK /\ Finite /\ DrainShape

(* Message m is in somebody's hands and has not been posted yet.           *)
Unsent(m) == \/ \E i \in Inst : m \in batch[i]
             \/ \E w \in Worker : wpc[w] \in {"limit", "send"} /\ wmsg[w] = m

(* A message that waits has a send left, a failed one is never due, and a  *)
(* claim pays for one send.                                                *)
Budget ==
    \A m \in Msg :
        /\ status[m] = "failed" => due[m] = "never"
        /\ status[m] = "pending" => attempts[m] < MaxAttempts
        /\ status[m] = "absent" => attempts[m] = 0
        /\ attempts[m] <= MaxAttempts
        /\ LateReplay \/ (m \in pruned => status[m] = "absent" /\ sends[m] <= MaxAttempts)
        /\ LateReplay \/ (m \notin pruned => sends[m] <= attempts[m])
        /\ LateReplay \/ (Unsent(m) => sends[m] < attempts[m])

(* What Discord has confirmed waits for nothing but its verdict.           *)
Confirmed ==
    \A m \in confirmed :
        /\ ~Unsent(m)
        /\ status[m] \in {"delivering", "delivered", "absent"}
        /\ status[m] = "absent" => m \in pruned
        /\ \A w \in Worker : wpc[w] = "complete" /\ wmsg[w] = m => wverdict[w] = "delivered"

-----------------------------------------------------------------------------
(* A claim is a finite set of messages that are due.                       *)
LEMMA SelectionsAreFinite ==
    ASSUME TypeInv, NEW limit, NEW S \in Selections(limit)
    PROVE  /\ S \subseteq Claimable
           /\ Cardinality(S) \in Nat
<1>1. S \in SUBSET {m \in Msg : status[m] # "absent"}
  BY DEF Selections, Claimable
<1>2. IsFiniteSet(S)
  BY <1>1, FS_Subset DEF TypeInv, Finite
<1> QED BY <1>2, FS_CardinalityType DEF Selections

(* A step that makes at most one message appear keeps the table finite.    *)
LEMMA StaysFinite ==
    ASSUME Finite,
           \E m : {n \in Msg : status'[n] # "absent"}
                     \subseteq {n \in Msg : status[n] # "absent"} \cup {m}
    PROVE  Finite'
<1> DEFINE T == {n \in Msg : status[n] # "absent"}
<1>1. PICK m : {n \in Msg : status'[n] # "absent"} \in SUBSET (T \cup {m})
  OBVIOUS
<1>2. IsFiniteSet(T \cup {m})
  BY FS_AddElement DEF Finite
<1> HIDE DEF T
<1> QED BY <1>1, <1>2, FS_Subset DEF Finite

LEMMA InitTypeInv == Init => TypeInv
<1> SUFFICES ASSUME Init PROVE TypeInv
  OBVIOUS
<1>1. {m \in Msg : status[m] # "absent"} = {}
  BY DEF Init, QueueInit
<1>2. Finite
  BY <1>1, FS_EmptySet DEF Finite
<1> QED BY <1>2, HomeAssumption
     DEF Init, QueueInit, TypeInv, TypeOK, QueueTypeOK, DrainShape, Busy, PC, WPC,
         Status, DueTime

(* Every step of the loop keeps the types and the shape of a drain.        *)
LEMMA RunTypeInv ==
    ASSUME TypeInv, NEW i \in Inst, Run(i)
    PROVE  TypeInv'
<1> USE HomeAssumption, BoundAssumption, NoMsgAssumption
    DEF TypeInv, TypeOK, QueueTypeOK, DrainShape, Busy, PC, WPC, Status, DueTime,
        Verdict, rvars, wvars, hvars, bvars, qvars
<1>1. ASSUME NEW S \in Selections(ClaimBatch), Lease(S)
      PROVE  QueueTypeOK' /\ Finite' /\ S \subseteq Msg /\ Cardinality(S) \in Nat
  <2>1. S \subseteq Claimable /\ Cardinality(S) \in Nat
    BY SelectionsAreFinite
  <2>2. QueueTypeOK'
    BY <1>1 DEF Lease
  <2>3. {m \in Msg : status'[m] # "absent"} = {m \in Msg : status[m] # "absent"}
    BY <1>1, <2>1 DEF Lease, Claimable
  <2>4. Finite'
    BY <2>3 DEF Finite
  <2> QED BY <2>1, <2>2, <2>4 DEF Claimable
<1>2. CASE ClaimRows(i)
  <2>1. PICK S \in Selections(ClaimBatch) :
            /\ Lease(S)
            /\ batch' = [batch EXCEPT ![i] = S]
            /\ claimed' = [claimed EXCEPT ![i] = Cardinality(S)]
    BY <1>2 DEF ClaimRows
  <2>2. QueueTypeOK' /\ Finite' /\ S \subseteq Msg /\ Cardinality(S) \in Nat
    BY <1>1, <2>1
  <2> QED BY <1>2, <2>1, <2>2 DEF ClaimRows
<1>3. CASE ClaimLost(i)
  <2>1. PICK S \in Selections(ClaimBatch) : Lease(S)
    BY <1>3 DEF ClaimLost
  <2>2. QueueTypeOK' /\ Finite'
    BY <1>1, <2>1
  <2> QED BY <1>3, <2>2 DEF ClaimLost, Fault
<1>4. UNCHANGED qvars => Finite'
  BY DEF Finite
<1>5. ASSUME NEW w \in Worker, Feed(i, w) PROVE TypeInv'
  BY <1>4, <1>5 DEF Feed
<1>6. CASE ClaimNothing(i) \/ Tick(i) \/ Return(i) \/ ClaimCancelled(i)
  BY <1>4, <1>6 DEF ClaimNothing, Tick, Return, ClaimCancelled
<1>7. CASE ClaimFails(i)
  BY <1>4, <1>7 DEF ClaimFails, Fault
<1>8. CASE FeedDone(i) \/ FeedAbort(i)
  BY <1>4, <1>8 DEF FeedDone, FeedAbort
<1>9. CASE Drained(i) \/ Aborted(i)
  BY <1>4, <1>9 DEF Drained, Aborted, CrewGone, Crew
<1> QED BY <1>2, <1>3, <1>5, <1>6, <1>7, <1>8, <1>9 DEF Run

(* So does every step of a goroutine.                                      *)
LEMMA WorkTypeInv ==
    ASSUME TypeInv, NEW w \in Worker, Work(w)
    PROVE  TypeInv'
<1> USE HomeAssumption, BoundAssumption, NoMsgAssumption
    DEF TypeInv, TypeOK, QueueTypeOK, DrainShape, Busy, PC, WPC, Status, DueTime,
        Verdict, rvars, wvars, hvars, bvars, qvars
<1>1. UNCHANGED qvars => Finite'
  BY DEF Finite
<1>2. CASE RangeEnds(w)
  BY <1>1, <1>2 DEF RangeEnds
<1>3. CASE LimiterGrants(w) \/ LimiterRefuses(w)
  BY <1>1, <1>3 DEF LimiterGrants, LimiterRefuses
<1>4. CASE Send(w)
  BY <1>1, <1>4 DEF Send, PossibleVerdicts
<1>5. CASE Complete(w)
  <2>1. {m \in Msg : status'[m] # "absent"}
          \subseteq {m \in Msg : status[m] # "absent"} \cup {wmsg[w]}
    BY <1>5 DEF Complete, WriteVerdict
  <2>2. Finite'
    BY <2>1, StaysFinite
  <2> QED BY <1>5, <2>2 DEF Complete, WriteVerdict, StatusAfter, DueAfter, NextDelivery
<1>6. CASE CompleteFails(w)
  BY <1>1, <1>6 DEF CompleteFails, NextDelivery, Fault
<1> QED BY <1>2, <1>3, <1>4, <1>5, <1>6 DEF Work

(* So does whatever happens to a process or to the queue from outside.     *)
LEMMA OutsideTypeInv ==
    ASSUME TypeInv
    PROVE  /\ \A i \in Inst : Cancel(i) \/ Crash(i) \/ Restart(i) => TypeInv'
           /\ \A m \in Msg : SiteAsks(m) \/ TimePasses(m) \/ Prune(m) => TypeInv'
<1> USE HomeAssumption, BoundAssumption, NoMsgAssumption
    DEF TypeInv, TypeOK, QueueTypeOK, DrainShape, Busy, PC, WPC, Status, DueTime,
        Verdict, rvars, wvars, hvars, bvars, qvars
<1>1. UNCHANGED qvars => Finite'
  BY DEF Finite
<1>2. ASSUME NEW i \in Inst, Cancel(i) \/ Crash(i) \/ Restart(i) PROVE TypeInv'
  <2>1. CASE Cancel(i)
    BY <1>1, <2>1 DEF Cancel
  <2>2. CASE Crash(i)
    BY <1>1, <2>2 DEF Crash
  <2>3. CASE Restart(i)
    BY <1>1, <2>3 DEF Restart
  <2> QED BY <1>2, <2>1, <2>2, <2>3
<1>3. ASSUME NEW m \in Msg, SiteAsks(m) \/ TimePasses(m) \/ Prune(m) PROVE TypeInv'
  <2>1. {n \in Msg : status'[n] # "absent"}
          \subseteq {n \in Msg : status[n] # "absent"} \cup {m}
    BY <1>3 DEF SiteAsks, Enqueue, TimePasses, ComeDue, Prune, PruneRow
  <2>2. Finite'
    BY <2>1, StaysFinite
  <2> QED BY <1>3, <2>2 DEF SiteAsks, Enqueue, TimePasses, ComeDue, Prune, PruneRow
<1> QED BY <1>2, <1>3

LEMMA NextTypeInv == TypeInv /\ [Next]_vars => TypeInv'
<1> SUFFICES ASSUME TypeInv, [Next]_vars PROVE TypeInv'
  OBVIOUS
<1>1. CASE Next
  BY <1>1, RunTypeInv, WorkTypeInv, OutsideTypeInv DEF Next
<1>2. CASE UNCHANGED vars
  BY <1>2 DEF vars, rvars, wvars, hvars, bvars, qvars, TypeInv, TypeOK, QueueTypeOK,
              Finite, DrainShape, Busy
<1> QED BY <1>1, <1>2

(* The type invariant holds in every behaviour.                            *)
THEOREM TypeCorrect == Spec => []TypeOK
<1>1. TypeInv => TypeOK
  BY DEF TypeInv
<1> QED BY <1>1, InitTypeInv, NextTypeInv, PTL DEF Spec

-----------------------------------------------------------------------------
(* A message is in one pair of hands at most.                              *)

(* A claim takes messages that are not 'delivering', hence in no hands.    *)
LEMMA ClaimKeepsExclusive ==
    ASSUME TypeInv, ExclusiveHolder, NEW i \in Inst, ClaimRows(i)
    PROVE  ExclusiveHolder'
<1>1. PICK S \in Selections(ClaimBatch) :
          /\ Lease(S)
          /\ batch' = [batch EXCEPT ![i] = S]
  BY DEF ClaimRows
<1>2. /\ pc[i] = "claim"
      /\ S \subseteq Msg /\ \A m \in S : status[m] # "delivering"
      /\ status' = [m \in Msg |-> IF m \in S THEN "delivering" ELSE status[m]]
      /\ wpc' = [w \in Worker |-> IF Home[w] = i THEN "recv" ELSE wpc[w]]
      /\ wmsg' = wmsg
  BY <1>1, SelectionsAreFinite DEF ClaimRows, Lease, Claimable
<1>3. \A w \in Worker : Busy(w)' => Busy(w) /\ Home[w] # i
  BY <1>2 DEF Busy, TypeInv, TypeOK
<1>4. \A w \in Worker : Busy(w)' => wmsg[w] \in Msg /\ wmsg[w] \notin S
  BY <1>2, <1>3 DEF ExclusiveHolder, TypeInv, DrainShape
<1>5. \A j \in Inst \ {i} : batch'[j] = batch[j] /\ batch[j] \cap S = {}
  BY <1>1, <1>2 DEF ExclusiveHolder, TypeInv, TypeOK
<1>6. batch'[i] = S
  BY <1>1 DEF TypeInv, TypeOK
<1>7. \A j \in Inst : \A m \in batch'[j] : status'[m] = "delivering"
  BY <1>2, <1>5, <1>6 DEF ExclusiveHolder, TypeInv, TypeOK
<1>8. \A w \in Worker : Busy(w)' => status'[wmsg'[w]] = "delivering"
  BY <1>2, <1>3, <1>4 DEF ExclusiveHolder
<1>9. \A j, k \in Inst : j # k => batch'[j] \cap batch'[k] = {}
  BY <1>5, <1>6 DEF ExclusiveHolder
<1>10. \A j \in Inst : \A w \in Worker : Busy(w)' => wmsg'[w] \notin batch'[j]
  BY <1>2, <1>3, <1>4, <1>5, <1>6 DEF ExclusiveHolder
<1>11. \A v, w \in Worker : v # w /\ Busy(v)' /\ Busy(w)' => wmsg'[v] # wmsg'[w]
  BY <1>2, <1>3 DEF ExclusiveHolder
<1> QED BY <1>7, <1>8, <1>9, <1>10, <1>11 DEF ExclusiveHolder

(* Handing a message to a goroutine takes it out of the batch.             *)
LEMMA FeedKeepsExclusive ==
    ASSUME TypeInv, ExclusiveHolder, NEW i \in Inst, NEW w \in Worker, Feed(i, w)
    PROVE  ExclusiveHolder'
<1> DEFINE m == wmsg'[w]
<1>1. /\ m \in batch[i] /\ batch' = [batch EXCEPT ![i] = @ \ {m}]
      /\ wmsg' = [wmsg EXCEPT ![w] = m]
      /\ wpc' = [wpc EXCEPT ![w] = "limit"]
      /\ status' = status
  BY DEF Feed, qvars, TypeInv, TypeOK
<1> HIDE DEF m
<1>2. /\ \A v \in Worker \ {w} : Busy(v)' => Busy(v) /\ wmsg'[v] = wmsg[v]
      /\ \A j \in Inst : batch'[j] \subseteq batch[j] /\ m \notin batch'[j]
      /\ wmsg'[w] = m
  BY <1>1 DEF Busy, TypeInv, TypeOK, ExclusiveHolder
<1>3. \A j \in Inst : \A v \in Worker : Busy(v)' => wmsg'[v] \notin batch'[j]
  BY <1>2 DEF ExclusiveHolder
<1>4. \A u, v \in Worker : u # v /\ Busy(u)' /\ Busy(v)' => wmsg'[u] # wmsg'[v]
  BY <1>1, <1>2 DEF ExclusiveHolder
<1>5. \A v \in Worker : Busy(v)' => status'[wmsg'[v]] = "delivering"
  BY <1>1, <1>2 DEF ExclusiveHolder
<1>6. /\ \A j \in Inst : \A n \in batch'[j] : status'[n] = "delivering"
      /\ \A j, k \in Inst : j # k => batch'[j] \cap batch'[k] = {}
  BY <1>1, <1>2 DEF ExclusiveHolder
<1> QED BY <1>3, <1>4, <1>5, <1>6 DEF ExclusiveHolder

(* Nobody has anything in hand that nobody had before, and what is in hand *)
(* keeps its status.                                                       *)
NothingTaken ==
    /\ \A i \in Inst : batch'[i] \subseteq batch[i]
    /\ \A w \in Worker : Busy(w)' => Busy(w) /\ wmsg'[w] = wmsg[w]
    /\ \A i \in Inst : \A m \in batch'[i] : status'[m] = status[m]
    /\ \A w \in Worker : Busy(w)' => status'[wmsg[w]] = status[wmsg[w]]

LEMMA NothingTakenKeepsExclusive ==
    ASSUME ExclusiveHolder, NothingTaken
    PROVE  ExclusiveHolder'
<1> USE DEF ExclusiveHolder, NothingTaken
<1>1. /\ \A i \in Inst : \A m \in batch'[i] : status'[m] = "delivering"
      /\ \A w \in Worker : Busy(w)' => status'[wmsg'[w]] = "delivering"
      /\ \A i, j \in Inst : i # j => batch'[i] \cap batch'[j] = {}
  OBVIOUS
<1>2. \A i \in Inst : \A w \in Worker : Busy(w)' => wmsg'[w] \notin batch'[i]
  OBVIOUS
<1>3. \A v, w \in Worker : v # w /\ Busy(v)' /\ Busy(w)' => wmsg'[v] # wmsg'[w]
  OBVIOUS
<1> QED BY <1>1, <1>2, <1>3

LEMMA OthersTakeNothing ==
    ASSUME TypeInv, ExclusiveHolder, [Next]_vars,
           ~ \E i \in Inst : ClaimRows(i),
           ~ \E i \in Inst, w \in Worker : Feed(i, w)
    PROVE  NothingTaken
<1> USE DEF NothingTaken, Busy, TypeInv, TypeOK, QueueTypeOK, rvars, wvars, hvars, bvars, qvars
<1>1. ASSUME NEW i \in Inst, Run(i) PROVE NothingTaken
  <2>1. CASE \/ ClaimNothing(i) \/ ClaimFails(i) \/ ClaimCancelled(i)
             \/ FeedDone(i) \/ Drained(i) \/ Aborted(i) \/ Tick(i) \/ Return(i)
    BY <2>1 DEF ClaimNothing, ClaimFails, ClaimCancelled, FeedDone, Drained, Aborted, Tick,
                Return
  <2>2. CASE ClaimLost(i)
    <3>1. PICK S \in Selections(ClaimBatch) : Lease(S)
      BY <2>2 DEF ClaimLost
    <3>2. \A m \in Msg : status[m] = "delivering" => status'[m] = status[m]
      BY <3>1, SelectionsAreFinite DEF Lease, Claimable
    <3> QED BY <2>2, <3>2 DEF ClaimLost, ExclusiveHolder, DrainShape
  <2>3. CASE FeedAbort(i)
    BY <2>3 DEF FeedAbort
  <2> QED BY <1>1, <2>1, <2>2, <2>3 DEF Run
<1>2. ASSUME NEW w \in Worker, Work(w) PROVE NothingTaken
  <2>1. CASE RangeEnds(w) \/ LimiterGrants(w) \/ LimiterRefuses(w) \/ Send(w)
    BY <2>1 DEF RangeEnds, LimiterGrants, LimiterRefuses, Send
  <2>2. CASE Complete(w)
    BY <2>2 DEF Complete, WriteVerdict, NextDelivery, ExclusiveHolder, DrainShape
  <2>3. CASE CompleteFails(w)
    BY <2>3 DEF CompleteFails, NextDelivery
  <2> QED BY <1>2, <2>1, <2>2, <2>3 DEF Work
<1>3. ASSUME NEW i \in Inst, Cancel(i) \/ Restart(i) PROVE NothingTaken
  BY <1>3 DEF Cancel, Restart
<1>4. ASSUME NEW i \in Inst, Crash(i) PROVE NothingTaken
  BY <1>4 DEF Crash
<1>5. ASSUME NEW m \in Msg, SiteAsks(m) \/ TimePasses(m) \/ Prune(m) PROVE NothingTaken
  BY <1>5 DEF SiteAsks, Enqueue, TimePasses, ComeDue, Prune, PruneRow, ExclusiveHolder,
              DrainShape
<1>6. CASE UNCHANGED vars
  BY <1>6 DEF vars
<1> QED BY <1>1, <1>2, <1>3, <1>4, <1>5, <1>6 DEF Next

LEMMA InitExclusive == Init => ExclusiveHolder
  BY DEF Init, QueueInit, ExclusiveHolder, Busy

LEMMA NextExclusive == TypeInv /\ ExclusiveHolder /\ [Next]_vars => ExclusiveHolder'
  BY ClaimKeepsExclusive, FeedKeepsExclusive, OthersTakeNothing, NothingTakenKeepsExclusive

(* A message is in one pair of hands at most, and its row says so.         *)
THEOREM HolderIsExclusive == Spec => []ExclusiveHolder
  BY InitTypeInv, NextTypeInv, InitExclusive, NextExclusive, PTL DEF Spec

-----------------------------------------------------------------------------
(* The budget of sends.                                                    *)
SafeInv == TypeInv /\ ExclusiveHolder

(* What a claim takes may be sent once more.                               *)
LEMMA ClaimKeepsBudget ==
    ASSUME SafeInv, Budget, NEW i \in Inst, ClaimRows(i) \/ ClaimLost(i)
    PROVE  Budget'
<1>1. PICK S \in Selections(ClaimBatch) :
          /\ Lease(S)
          /\ \A m \in Msg : Unsent(m)' => Unsent(m) \/ m \in S
  <2>1. CASE ClaimRows(i)
    BY <2>1 DEF ClaimRows, Unsent, SafeInv, TypeInv, TypeOK
  <2>2. CASE ClaimLost(i)
    BY <2>2 DEF ClaimLost, Unsent, wvars
  <2> QED BY <2>1, <2>2
<1>2. S \subseteq Claimable
  BY <1>1, SelectionsAreFinite DEF SafeInv
<1>3. UNCHANGED <<sends, pruned>>
  BY <1>1 DEF ClaimRows, ClaimLost, hvars, Lease
<1>4. \A m \in S : attempts[m] < MaxAttempts
  BY <1>2 DEF Claimable, Budget
<1> QED BY <1>1, <1>2, <1>3, <1>4, AttemptsAssumption
        DEF Budget, Lease, Claimable, SafeInv, TypeInv, TypeOK, QueueTypeOK

(* Sending spends what the claim has paid for, and nobody else holds it.   *)
LEMMA SendKeepsBudget ==
    ASSUME SafeInv, Budget, NEW w \in Worker, Send(w)
    PROVE  Budget'
<1>1. PICK m \in Msg : m = wmsg[w]
  BY DEF Send, SafeInv, TypeInv, DrainShape, Busy
<1>2. /\ Unsent(m) /\ sends' = [sends EXCEPT ![m] = @ + 1]
      /\ UNCHANGED <<status, attempts, due, pruned>>
  BY <1>1 DEF Send, qvars, Unsent
<1>3. ~Unsent(m)' /\ \A n \in Msg : Unsent(n)' => Unsent(n)
  BY <1>1 DEF Send, rvars, Unsent, Busy, SafeInv, ExclusiveHolder, TypeInv, TypeOK
<1>4. status[m] = "delivering"
  BY <1>1 DEF Send, Busy, SafeInv, ExclusiveHolder
<1> QED BY <1>2, <1>3, <1>4, AttemptsAssumption
        DEF Budget, SafeInv, TypeInv, TypeOK, QueueTypeOK

(* A retry with no send left does not wait again.                          *)
LEMMA CompleteKeepsBudget ==
    ASSUME SafeInv, Budget, NEW w \in Worker, Complete(w)
    PROVE  Budget'
<1> DEFINE m == wmsg[w]
           v == wverdict[w]
<1>1. /\ m \in Msg /\ v \in Verdict /\ status[m] = "delivering"
      /\ status' = [status EXCEPT ![m] = StatusAfter(m, v)]
      /\ due' = [due EXCEPT ![m] = DueAfter(m, v)]
      /\ UNCHANGED <<attempts, pruned, sends>>
  BY DEF Complete, WriteVerdict, hvars, SafeInv, TypeInv, DrainShape, Busy, ExclusiveHolder
<1>2. \A n \in Msg : Unsent(n)' => Unsent(n)
  BY DEF Complete, NextDelivery, rvars, Unsent, SafeInv, TypeInv, TypeOK
<1> HIDE DEF m, v
<1>3. /\ StatusAfter(m, v) = "failed" => DueAfter(m, v) = "never"
      /\ StatusAfter(m, v) = "pending" => attempts[m] < MaxAttempts
      /\ StatusAfter(m, v) # "absent"
  BY <1>1, AttemptsAssumption
     DEF StatusAfter, DueAfter, Verdict, Exhausted, SafeInv, TypeInv, TypeOK, QueueTypeOK
<1> QED BY <1>1, <1>2, <1>3 DEF Budget, SafeInv, TypeInv, TypeOK, QueueTypeOK

(* The Site's inserts, the clock and the pruning keep the budget.          *)
LEMMA TableKeepsBudget ==
    ASSUME SafeInv, Budget, NEW m \in Msg, SiteAsks(m) \/ TimePasses(m) \/ Prune(m)
    PROVE  Budget'
<1> USE AttemptsAssumption, ReplayAssumption
        DEF Budget, Unsent, SafeInv, TypeInv, TypeOK, QueueTypeOK, rvars, wvars, hvars
<1>1. \A n \in Msg : Unsent(n)' <=> Unsent(n)
  BY DEF SiteAsks, TimePasses, Prune
<1> USE <1>1 DEF SiteAsks, TimePasses, Prune
<1> HIDE DEF Unsent
<1>2. CASE SiteAsks(m)
  BY <1>2 DEF Enqueue
<1>3. CASE TimePasses(m)
  BY <1>3 DEF ComeDue
<1>4. CASE Prune(m)
  <2>1. \A n \in Msg : Unsent(n) => status[n] = "delivering"
    BY DEF Unsent, ExclusiveHolder, Busy
  <2> QED BY <1>4, <2>1 DEF PruneRow
<1> QED BY <1>2, <1>3, <1>4

(* The other steps hand over what is in hand, or let go of it.             *)
LEMMA OthersKeepBudget ==
    ASSUME SafeInv, Budget, UNCHANGED <<qvars, sends>>,
           \A m \in Msg : Unsent(m)' => Unsent(m)
    PROVE  Budget'
  BY DEF Budget, qvars

(* What every step but claims, posts, verdicts and the Site's does.        *)
QuietStep ==
    /\ UNCHANGED <<qvars, sends, confirmed>>
    /\ \A m \in Msg : Unsent(m)' => Unsent(m)
    /\ \A w \in Worker : wpc'[w] = "complete" =>
          wpc[w] = "complete" /\ wmsg'[w] = wmsg[w] /\ wverdict'[w] = wverdict[w]

LEMMA QuietSteps ==
    ASSUME SafeInv, [Next]_vars,
           ~ \E i \in Inst : ClaimRows(i) \/ ClaimLost(i),
           ~ \E w \in Worker : Send(w) \/ Complete(w),
           ~ \E m \in Msg : SiteAsks(m) \/ TimePasses(m) \/ Prune(m)
    PROVE  QuietStep
<1> USE DEF QuietStep, Unsent, SafeInv, TypeInv, TypeOK, rvars, wvars, hvars
<1>1. ASSUME NEW i \in Inst, Run(i) PROVE QuietStep
  <2>1. CASE \/ ClaimNothing(i) \/ ClaimFails(i) \/ ClaimCancelled(i)
             \/ FeedDone(i) \/ Drained(i) \/ Aborted(i) \/ Tick(i) \/ Return(i)
    BY <2>1 DEF ClaimNothing, ClaimFails, ClaimCancelled, FeedDone, Drained, Aborted, Tick,
                Return
  <2>2. CASE FeedAbort(i)
    BY <2>2 DEF FeedAbort
  <2>3. ASSUME NEW w \in Worker, Feed(i, w) PROVE QuietStep
    BY <2>3 DEF Feed
  <2> QED BY <1>1, <2>1, <2>2, <2>3 DEF Run
<1>2. ASSUME NEW w \in Worker, Work(w) PROVE QuietStep
  <2>1. CASE RangeEnds(w) \/ LimiterGrants(w) \/ LimiterRefuses(w)
    BY <2>1 DEF RangeEnds, LimiterGrants, LimiterRefuses
  <2>2. CASE CompleteFails(w)
    BY <2>2 DEF CompleteFails, NextDelivery
  <2> QED BY <1>2, <2>1, <2>2 DEF Work
<1>3. ASSUME NEW i \in Inst, Cancel(i) \/ Restart(i) PROVE QuietStep
  BY <1>3 DEF Cancel, Restart
<1>4. ASSUME NEW i \in Inst, Crash(i) PROVE QuietStep
  BY <1>4 DEF Crash
<1>5. CASE UNCHANGED vars
  BY <1>5 DEF vars
<1> QED BY <1>1, <1>2, <1>3, <1>4, <1>5 DEF Next

LEMMA NextBudget == SafeInv /\ Budget /\ [Next]_vars => Budget'
  BY ClaimKeepsBudget, SendKeepsBudget, CompleteKeepsBudget, TableKeepsBudget,
     OthersKeepBudget, QuietSteps DEF QuietStep

LEMMA InitBudget == Init => Budget
  BY AttemptsAssumption DEF Init, QueueInit, Budget, Unsent

(* No message is posted more than MaxAttempts times, nor claimed more      *)
(* often, unless the Site replays what has been pruned.                    *)
THEOREM AttemptBudgetHolds == Spec => []AttemptBudget
<1>1. TypeInv /\ Budget => AttemptBudget
  BY AttemptsAssumption DEF TypeInv, TypeOK, QueueTypeOK, Budget, AttemptBudget
<1> QED BY <1>1, InitTypeInv, NextTypeInv, InitExclusive, NextExclusive, InitBudget,
           NextBudget, PTL DEF Spec, SafeInv

-----------------------------------------------------------------------------
(* Verdicts.                                                               *)

(* A claim or a verdict never meets a message that has its verdict.        *)
LEMMA FinalIsFinal ==
    ASSUME SafeInv, Budget, [Next]_vars, NEW m \in Msg, status[m] \in Final
    PROVE  status'[m] = status[m] \/ (status[m] = "delivered" /\ status'[m] = "absent")
<1> USE DEF Final
<1>1. ASSUME NEW i \in Inst, ClaimRows(i) \/ ClaimLost(i) PROVE status'[m] = status[m]
  <2>1. PICK S \in Selections(ClaimBatch) : Lease(S)
    BY <1>1 DEF ClaimRows, ClaimLost
  <2>2. m \notin S
    BY <2>1, SelectionsAreFinite DEF Claimable, Budget, SafeInv
  <2> QED BY <2>1, <2>2 DEF Lease
<1>2. ASSUME NEW w \in Worker, Send(w) PROVE status'[m] = status[m]
  BY <1>2 DEF Send, qvars
<1>3. ASSUME NEW w \in Worker, Complete(w) PROVE status'[m] = status[m]
  <2>1. wmsg[w] # m
    BY <1>3 DEF Complete, SafeInv, ExclusiveHolder, Busy
  <2> QED BY <1>3, <2>1 DEF Complete, WriteVerdict, SafeInv, TypeInv, TypeOK, QueueTypeOK
<1>4. ASSUME NEW n \in Msg, SiteAsks(n) \/ TimePasses(n) PROVE status'[m] = status[m]
  BY <1>4 DEF SiteAsks, Enqueue, TimePasses, ComeDue, SafeInv, TypeInv, TypeOK, QueueTypeOK
<1>5. ASSUME NEW n \in Msg, Prune(n)
      PROVE  status'[m] = status[m] \/ (status[m] = "delivered" /\ status'[m] = "absent")
  BY <1>5 DEF Prune, PruneRow, SafeInv, TypeInv, TypeOK, QueueTypeOK
<1>6. CASE QuietStep
  BY <1>6 DEF QuietStep, qvars
<1> QED BY <1>1, <1>2, <1>3, <1>4, <1>5, <1>6, QuietSteps

(* A verdict is final, and only pruning ends a delivered message.          *)
THEOREM VerdictsStay == Spec => VerdictsAreFinal
<1>1. SafeInv /\ Budget /\ [Next]_vars =>
        [\A m \in Msg : status[m] \in Final =>
            status'[m] = status[m] \/ (status[m] = "delivered" /\ status'[m] = "absent")]_vars
  BY FinalIsFinal
<1> QED BY <1>1, InitTypeInv, NextTypeInv, InitExclusive, NextExclusive, InitBudget,
           NextBudget, PTL DEF Spec, SafeInv, VerdictsAreFinal

-----------------------------------------------------------------------------
(* What Discord has confirmed is not posted again.                         *)
LEMMA InitConfirmed == Init => Confirmed
  BY DEF Init, Confirmed

LEMMA NextConfirmed ==
    ASSUME ~LateReplay, SafeInv, Confirmed, [Next]_vars
    PROVE  Confirmed'
<1> USE DEF Confirmed, SafeInv, TypeInv, TypeOK, QueueTypeOK
<1>1. ASSUME NEW i \in Inst, ClaimRows(i) \/ ClaimLost(i) PROVE Confirmed'
  <2>1. PICK S \in Selections(ClaimBatch) :
            /\ Lease(S)
            /\ \A m \in Msg : Unsent(m)' => Unsent(m) \/ m \in S
    <3>1. CASE ClaimRows(i)
      BY <3>1 DEF ClaimRows, Unsent
    <3>2. CASE ClaimLost(i)
      BY <3>2 DEF ClaimLost, Unsent, wvars
    <3> QED BY <1>1, <3>1, <3>2
  <2>2. \A m \in confirmed : m \notin S
    BY SelectionsAreFinite DEF Claimable
  <2>3. /\ UNCHANGED <<confirmed, wmsg, wverdict, pruned>>
        /\ \A w \in Worker : wpc'[w] = "complete" => wpc[w] = "complete"
    BY <1>1, <2>1 DEF ClaimRows, ClaimLost, hvars, wvars, Lease
  <2> QED BY <2>1, <2>2, <2>3 DEF Lease
<1>2. ASSUME NEW w \in Worker, Send(w) PROVE Confirmed'
  <2>1. PICK m \in Msg : m = wmsg[w]
    BY <1>2 DEF Send, DrainShape, Busy
  <2>2. PICK v \in Verdict :
            /\ wverdict' = [wverdict EXCEPT ![w] = v]
            /\ confirmed' = IF v = "delivered" THEN confirmed \cup {m} ELSE confirmed
    BY <1>2, <2>1 DEF Send, PossibleVerdicts, Verdict
  <2>3. /\ Unsent(m) /\ ~Unsent(m)' /\ \A n \in Msg : Unsent(n)' => Unsent(n)
        /\ status[m] = "delivering"
        /\ wpc' = [wpc EXCEPT ![w] = "complete"]
        /\ UNCHANGED <<status, wmsg, pruned>>
    BY <1>2, <2>1 DEF Send, rvars, qvars, Unsent, Busy, ExclusiveHolder
  <2>4. \A u \in Worker \ {w} : wpc[u] = "complete" => wmsg[u] # m
    BY <1>2, <2>1 DEF Send, Busy, ExclusiveHolder
  <2> QED BY <2>1, <2>2, <2>3, <2>4
<1>3. ASSUME NEW w \in Worker, Complete(w) PROVE Confirmed'
  <2>1. PICK m \in Msg : m = wmsg[w]
    BY <1>3 DEF Complete, DrainShape, Busy
  <2>2. /\ status' = [status EXCEPT ![m] = StatusAfter(m, wverdict[w])]
        /\ UNCHANGED <<confirmed, pruned>>
        /\ \A n \in Msg : Unsent(n)' => Unsent(n)
        /\ \A u \in Worker : wpc'[u] = "complete" =>
              wpc[u] = "complete" /\ wmsg'[u] = wmsg[u] /\ wverdict'[u] = wverdict[u]
    BY <1>3, <2>1 DEF Complete, WriteVerdict, NextDelivery, Unsent, rvars, hvars
  <2>3. m \in confirmed => StatusAfter(m, wverdict[w]) = "delivered"
    BY <1>3, <2>1 DEF Complete, StatusAfter
  <2> QED BY <2>1, <2>2, <2>3
<1>4. ASSUME NEW m \in Msg, SiteAsks(m) \/ TimePasses(m) \/ Prune(m) PROVE Confirmed'
  <2>1. /\ UNCHANGED <<wpc, wmsg, wverdict, confirmed>>
        /\ \A n \in Msg : Unsent(n)' <=> Unsent(n)
    BY <1>4 DEF SiteAsks, TimePasses, Prune, Unsent, rvars, wvars, hvars
  <2> QED BY <1>4, <2>1 DEF SiteAsks, Enqueue, TimePasses, ComeDue, Prune, PruneRow
<1>5. CASE QuietStep
  BY <1>5 DEF QuietStep, qvars
<1> QED BY <1>1, <1>2, <1>3, <1>4, <1>5, QuietSteps

(* Only Send posts, and not what is confirmed.                             *)
LEMMA ConfirmedIsNotSent ==
    ASSUME SafeInv, Confirmed, [Next]_vars, NEW m \in confirmed
    PROVE  sends'[m] = sends[m]
<1>1. ASSUME NEW w \in Worker, Send(w) PROVE sends'[m] = sends[m]
  <2>1. wmsg[w] # m
    BY <1>1 DEF Send, Confirmed, Unsent
  <2> QED BY <1>1, <2>1 DEF Send, SafeInv, TypeInv, TypeOK
<1>2. ASSUME ~ \E w \in Worker : Send(w) PROVE sends' = sends
  BY <1>2, QuietSteps
     DEF QuietStep, ClaimRows, ClaimLost, Complete, SiteAsks, TimePasses, Prune, hvars
<1> QED BY <1>1, <1>2

(* As long as the Site does not replay the events of pruned messages, what *)
(* Discord has confirmed is never posted again.                            *)
THEOREM ConfirmedStaysSent == ~LateReplay => (Spec => ConfirmedNotResent)
<1> SUFFICES ASSUME ~LateReplay PROVE Spec => ConfirmedNotResent
  OBVIOUS
<1>1. SafeInv /\ Confirmed /\ [Next]_vars => Confirmed'
  BY NextConfirmed
<1>2. SafeInv /\ Confirmed /\ [Next]_vars =>
        [\A m \in Msg : m \in confirmed => sends'[m] = sends[m]]_vars
  BY ConfirmedIsNotSent
<1> QED BY <1>1, <1>2, InitTypeInv, NextTypeInv, InitExclusive, NextExclusive,
           InitConfirmed, PTL DEF Spec, SafeInv, ConfirmedNotResent

-----------------------------------------------------------------------------
(* Refinement of DeliveryContract.                                         *)

(* A verdict is about to be written for a message that was posted, and it  *)
(* is "delivered" only for one that Discord has confirmed.                 *)
Posted ==
    /\ \A w \in Worker : wpc[w] = "complete" =>
          /\ sends[wmsg[w]] > 0
          /\ wverdict[w] = "delivered" => wmsg[w] \in confirmed

LEMMA InitPosted == Init => Posted
  BY DEF Init, Posted

LEMMA NextPosted ==
    ASSUME SafeInv, Posted, [Next]_vars
    PROVE  Posted'
<1> USE DEF Posted, SafeInv, TypeInv, TypeOK
<1>1. ASSUME NEW w \in Worker, Send(w) PROVE Posted'
  <2>1. PICK m \in Msg : m = wmsg[w]
    BY <1>1 DEF Send, DrainShape, Busy
  <2>2. /\ wpc' = [wpc EXCEPT ![w] = "complete"]
        /\ sends' = [sends EXCEPT ![m] = @ + 1]
        /\ wmsg' = wmsg
        /\ wverdict'[w] = "delivered" => m \in confirmed'
        /\ \A u \in Worker \ {w} : wverdict'[u] = wverdict[u]
        /\ confirmed \subseteq confirmed'
    BY <1>1, <2>1 DEF Send
  <2>3. \A n \in Msg : sends'[n] >= sends[n] /\ sends'[m] > 0
    BY <2>2
  <2>4. \A u \in Worker : wpc[u] = "complete" => wmsg[u] \in Msg
    BY DEF DrainShape, Busy
  <2> QED BY <2>1, <2>2, <2>3, <2>4
<1>2. ASSUME ~ \E w \in Worker : Send(w) PROVE Posted'
  <2>1. /\ UNCHANGED <<sends, confirmed>>
        /\ \A w \in Worker : wpc'[w] = "complete" =>
              wpc[w] = "complete" /\ wmsg'[w] = wmsg[w] /\ wverdict'[w] = wverdict[w]
    <3>1. ASSUME NEW i \in Inst, ClaimRows(i) \/ ClaimLost(i) PROVE <2>1!2
      BY <3>1 DEF ClaimRows, ClaimLost, wvars
    <3>2. ASSUME NEW w \in Worker, Complete(w) PROVE <2>1!2
      BY <3>2 DEF Complete, NextDelivery
    <3>3. ASSUME NEW m \in Msg, SiteAsks(m) \/ TimePasses(m) \/ Prune(m) PROVE <2>1!2
      BY <3>3 DEF SiteAsks, TimePasses, Prune, wvars
    <3> QED BY <1>2, <3>1, <3>2, <3>3, QuietSteps
            DEF QuietStep, ClaimRows, ClaimLost, Complete, SiteAsks, TimePasses, Prune, hvars
  <2> QED BY <2>1
<1> QED BY <1>1, <1>2

(* A step that keeps who asked, the posts and every verdict is a stutter.  *)
LEMMA ContractStutters ==
    ASSUME UNCHANGED <<Asked, sends, confirmed>>,
           \A m \in Msg : VerdictOf(m)' = VerdictOf(m)
    PROVE  UNCHANGED Contract!vars
<1>1. [m \in Msg |-> VerdictOf(m)'] = [m \in Msg |-> VerdictOf(m)]
  OBVIOUS
<1> QED BY <1>1 DEF Contract!vars

(* A claim meets no verdict and leaves none.                               *)
LEMMA ClaimStutters ==
    ASSUME ~LateReplay, SafeInv, Budget, NEW i \in Inst, ClaimRows(i) \/ ClaimLost(i)
    PROVE  UNCHANGED Contract!vars
<1>1. PICK S \in Selections(ClaimBatch) : Lease(S)
  BY DEF ClaimRows, ClaimLost
<1>2. S \subseteq Claimable
  BY <1>1, SelectionsAreFinite DEF SafeInv
<1>3. \A m \in S : status[m] = "pending"
  BY <1>2 DEF Claimable, Budget
<1>4. \A m \in Msg : /\ m \in S => status[m] = "pending" /\ status'[m] = "delivering"
                     /\ m \notin S => status'[m] = status[m]
  BY <1>1, <1>3 DEF Lease
<1>5. pruned' = pruned /\ UNCHANGED <<sends, confirmed>>
  BY <1>1 DEF Lease, ClaimRows, ClaimLost, hvars
<1>6. Asked' = Asked
  <2>1. \A m \in Msg : status'[m] = "absent" <=> status[m] = "absent"
    BY <1>4
  <2> QED BY <1>5, <2>1 DEF Asked
<1>7. \A m \in Msg : VerdictOf(m)' = VerdictOf(m)
  BY <1>4, <1>5 DEF VerdictOf, Final
<1> QED BY <1>5, <1>6, <1>7, ContractStutters

(* A post is one of those the contract allows.                             *)
LEMMA SendPosts ==
    ASSUME ~LateReplay, SafeInv, Budget, Confirmed, NEW w \in Worker, Send(w)
    PROVE  \E m \in Msg : Contract!Post(m)
<1>1. PICK m \in Msg : m = wmsg[w]
  BY DEF Send, SafeInv, TypeInv, DrainShape, Busy
<1>2. /\ Unsent(m) /\ status[m] = "delivering"
      /\ sends' = [sends EXCEPT ![m] = @ + 1]
      /\ confirmed' \in {confirmed, confirmed \cup {m}}
      /\ status' = status /\ pruned' = pruned
  BY <1>1 DEF Send, qvars, Unsent, Busy, SafeInv, ExclusiveHolder
<1>3. m \notin confirmed /\ m \notin pruned
  BY <1>2 DEF Confirmed, Budget
<1>4. sends[m] < MaxAttempts
  BY <1>2, AttemptsAssumption DEF Budget, SafeInv, TypeInv, TypeOK, QueueTypeOK
<1>5. m \in Asked /\ VerdictOf(m) = "none"
  BY <1>2, <1>3 DEF Asked, VerdictOf, Final
<1>6. Asked' = Asked /\ \A n \in Msg : VerdictOf(n)' = VerdictOf(n)
  BY <1>2 DEF Asked, VerdictOf
<1>7. [n \in Msg |-> VerdictOf(n)'] = [n \in Msg |-> VerdictOf(n)]
  BY <1>6
<1>8. Contract!Post(m)
  BY <1>2, <1>3, <1>4, <1>5, <1>6, <1>7 DEF Contract!Post, Contract!NoVerdict
<1> QED BY <1>8

(* Complete settles a message that was posted, or lets it wait again.      *)
LEMMA CompleteSettles ==
    ASSUME ~LateReplay, SafeInv, Budget, Confirmed, Posted, NEW w \in Worker, Complete(w)
    PROVE  (\E m \in Msg : Contract!Settle(m)) \/ UNCHANGED Contract!vars
<1> DEFINE v == wverdict[w]
<1>1. PICK m \in Msg : m = wmsg[w]
  BY DEF Complete, SafeInv, TypeInv, DrainShape, Busy
<1> DEFINE s == StatusAfter(m, v)
<1>2. /\ status[m] = "delivering" /\ v \in Verdict
      /\ status' = [status EXCEPT ![m] = s]
      /\ UNCHANGED <<pruned, sends, confirmed>>
  BY <1>1 DEF Complete, WriteVerdict, hvars, SafeInv, TypeInv, DrainShape, Busy,
              ExclusiveHolder
<1>3. /\ m \in Asked /\ m \notin pruned /\ VerdictOf(m) = "none" /\ sends[m] > 0
      /\ v = "delivered" <=> m \in confirmed
  BY <1>1, <1>2 DEF Complete, Asked, Budget, VerdictOf, Final, Posted, Confirmed
<1>4. /\ s \in {"delivered", "failed", "dead", "pending"}
      /\ s = "delivered" <=> v = "delivered"
  BY <1>2 DEF StatusAfter, Verdict
<1>5. Asked' = Asked
  BY <1>2, <1>4 DEF Asked, SafeInv, TypeInv, TypeOK, QueueTypeOK
<1>6. \A n \in Msg : /\ n # m => VerdictOf(n)' = VerdictOf(n)
                     /\ n = m => VerdictOf(n)' = IF s = "pending" THEN "none" ELSE s
  BY <1>2, <1>3, <1>4 DEF VerdictOf, Final, SafeInv, TypeInv, TypeOK, QueueTypeOK
<1> HIDE DEF s, v
<1>7. CASE s = "pending"
  <2>1. \A n \in Msg : VerdictOf(n)' = VerdictOf(n)
    BY <1>3, <1>6, <1>7
  <2> QED BY <1>2, <1>5, <2>1, ContractStutters
<1>8. CASE s # "pending"
  <2>1. [n \in Msg |-> VerdictOf(n)'] = [[n \in Msg |-> VerdictOf(n)] EXCEPT ![m] = s]
    <3>1. \A n \in Msg : VerdictOf(n)' = IF n = m THEN s ELSE VerdictOf(n)
      BY <1>6, <1>8
    <3> QED BY <3>1
  <2>2. Contract!Settle(m)
    BY <1>2, <1>3, <1>4, <1>5, <1>8, <2>1 DEF Contract!Settle, Contract!NoVerdict
  <2> QED BY <2>2
<1> QED BY <1>7, <1>8

(* The Site asks once; the clock and the pruning change nothing it sees.   *)
LEMMA TableRefines ==
    ASSUME ~LateReplay, SafeInv, Budget, NEW m \in Msg,
           SiteAsks(m) \/ TimePasses(m) \/ Prune(m)
    PROVE  Contract!Ask(m) \/ UNCHANGED Contract!vars
<1> USE DEF SafeInv, TypeInv, TypeOK, QueueTypeOK
<1>1. UNCHANGED <<sends, confirmed>>
  BY DEF SiteAsks, TimePasses, Prune, hvars
<1>2. CASE TimePasses(m) \/ (SiteAsks(m) /\ status[m] # "absent")
  <2>1. status' = status /\ pruned' = pruned
    BY <1>2 DEF TimePasses, ComeDue, SiteAsks, Enqueue
  <2> QED BY <1>1, <2>1, ContractStutters DEF Asked, VerdictOf
<1>3. CASE Prune(m)
  <2>1. /\ status[m] = "delivered" /\ m \notin pruned
        /\ status' = [status EXCEPT ![m] = "absent"] /\ pruned' = pruned \cup {m}
    BY <1>3 DEF Prune, PruneRow, Budget
  <2>2. Asked' = Asked
    BY <2>1 DEF Asked
  <2>3. \A n \in Msg : VerdictOf(n)' = VerdictOf(n)
    BY <2>1 DEF VerdictOf, Final
  <2> QED BY <1>1, <2>2, <2>3, ContractStutters
<1>4. CASE SiteAsks(m) /\ status[m] = "absent"
  <2>1. /\ m \notin pruned /\ pruned' = pruned
        /\ status' = [status EXCEPT ![m] = "pending"]
    BY <1>4 DEF SiteAsks, Enqueue
  <2>2. m \notin Asked /\ Asked' = Asked \cup {m}
    BY <1>4, <2>1 DEF Asked
  <2>3. \A n \in Msg : VerdictOf(n)' = VerdictOf(n)
    BY <1>4, <2>1 DEF VerdictOf, Final
  <2>4. [n \in Msg |-> VerdictOf(n)'] = [n \in Msg |-> VerdictOf(n)]
    BY <2>3
  <2> QED BY <1>1, <2>2, <2>4 DEF Contract!Ask
<1> QED BY <1>2, <1>3, <1>4

LEMMA StepsKeepContract ==
    ASSUME ~LateReplay, SafeInv, Budget, Confirmed, Posted, [Next]_vars
    PROVE  [Contract!Next]_(Contract!vars)
<1>1. CASE QuietStep
  BY <1>1, ContractStutters DEF QuietStep, qvars, Asked, VerdictOf
<1> QED BY <1>1, QuietSteps, ClaimStutters, SendPosts, CompleteSettles, TableRefines
        DEF Contract!Next

(* The worker, its crashes and the pruning included, keeps the contract:   *)
(* bounded posts, none after a confirmation, and one verdict that tells    *)
(* whether Discord confirmed, unless the Site replays what was pruned.     *)
THEOREM DeliveryKeepsContract == ~LateReplay => (Spec => DeliveryContractKept)
<1> SUFFICES ASSUME ~LateReplay PROVE Spec => DeliveryContractKept
  OBVIOUS
<1>1. Init => Contract!Init
  BY DEF Init, QueueInit, Contract!Init, Contract!NoVerdict, Asked, VerdictOf, Final
<1>2. SafeInv /\ Confirmed /\ [Next]_vars => Confirmed'
  BY NextConfirmed
<1>3. SafeInv /\ Posted /\ [Next]_vars => Posted'
  BY NextPosted
<1>4. SafeInv /\ Budget /\ Confirmed /\ Posted /\ [Next]_vars
        => [Contract!Next]_(Contract!vars)
  BY StepsKeepContract
<1> QED BY <1>1, <1>2, <1>3, <1>4, InitTypeInv, NextTypeInv, InitExclusive, NextExclusive,
           InitBudget, NextBudget, InitConfirmed, InitPosted, PTL
        DEF Spec, SafeInv, DeliveryContractKept, Contract!Spec
=============================================================================

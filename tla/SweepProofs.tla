---------------------------- MODULE SweepProofs ----------------------------
(***************************************************************************)
(* Theorems about Sweep, for every number of processes, workers and        *)
(* requests, every claim batch and every sequence of faults.               *)
(***************************************************************************)
EXTENDS Sweep, FiniteSetTheorems, WellFoundedInduction, TLAPS

(* The rows are finitely many at any time, and a claim takes some of them. *)
Finite == IsFiniteSet(rows)

(* What Tick has in its hands: the batch only while it feeds, goroutines   *)
(* only until wg.Wait has returned, and only rows of the table.            *)
TickShape ==
    /\ \A i \in Inst : pc[i] # "feed" => batch[i] = {}
    /\ \A w \in Worker : wpc[w] # "idle" => pc[Home[w]] \in {"feed", "drain", "abort"}
    /\ \A i \in Inst : batch[i] \subseteq rows
    /\ \A w \in Worker : Busy(w) => wrow[w] \in rows
    /\ \A w \in Worker : wpc[w] = "complete" => wout[w] \in Outcome

(* As long as its lease has not lapsed, a request in somebody's hands is   *)
(* leased, so that no claim takes it.                                      *)
HeldIsLeased ==
    \A i \in Inst, r \in Row : Holds(i, r) /\ r \notin expired => lease[r] = "leased"

TypeInv == TypeOK /\ Finite /\ TickShape

(* What keeps two goroutines from one request: inside a process the batch  *)
(* is handed out once, between processes the lease is respected.           *)
Apart == HeldIsLeased /\ SingleFlight /\ DoubleFetchOnlyAfterLapse

-----------------------------------------------------------------------------
(* A claim takes rows of the table that are pending and not leased.        *)
LEMMA DueIsPending ==
    ASSUME NEW limit, NEW locked
    PROVE  /\ Due(limit, locked) \subseteq rows
           /\ \A r \in Due(limit, locked) : lease[r] # "leased"
  BY DEF Due, Picked, Jump, Rest, Late, First, Pending

(* ... and finitely many.                                                  *)
LEMMA DueIsFinite ==
    ASSUME Finite, NEW limit, NEW locked
    PROVE  Cardinality(Due(limit, locked)) \in Nat
  BY DueIsPending, FS_Subset, FS_CardinalityType DEF Finite

LEMMA InitTypeInv == Init => TypeInv
  BY FS_EmptySet, HomeAssumption
     DEF Init, QueueInit, TypeInv, TypeOK, QueueTypeOK, Finite, TickShape, Busy,
         NoTally, PC, WPC, LeaseState, NoRow

-----------------------------------------------------------------------------
(* Every step of the runner keeps the types and the shape of a tick.       *)
LEMMA RunnerTypeInv ==
    ASSUME TypeInv, NEW i \in Inst, Runner(i)
    PROVE  TypeInv'
<1> USE HomeAssumption, BoundAssumption
    DEF TypeInv, TypeOK, QueueTypeOK, Finite, TickShape, Busy, PC, WPC, LeaseState,
        rvars, wvars, bvars, qvars
<1>1. CASE ClaimRows(i)
  BY <1>1, DueIsPending, DueIsFinite DEF ClaimRows, Lease, Spawn
<1>2. CASE ClaimNothing(i)
  BY <1>2 DEF ClaimNothing
<1>3. CASE ClaimFails(i)
  BY <1>3 DEF ClaimFails, Fault
<1>4. CASE ClaimLost(i)
  BY <1>4 DEF ClaimLost, Lease, Fault
<1>5. CASE FeedDone(i)
  BY <1>5 DEF FeedDone
<1>6. CASE FeedAbort(i)
  BY <1>6 DEF FeedAbort
<1>7. CASE RecordRun(i)
  BY <1>7 DEF RecordRun, WgWait, CrewGone, Crew, EndTick, NoTally
<1>8. CASE RecordRunFails(i)
  BY <1>8 DEF RecordRunFails, WgWait, CrewGone, Crew, EndTick, NoTally, Fault
<1>9. CASE AbortDone(i)
  BY <1>9 DEF AbortDone, WgWait, CrewGone, Crew, EndTick, NoTally
<1>10. CASE NextTick(i)
  BY <1>10 DEF NextTick
<1>11. CASE Return(i)
  BY <1>11 DEF Return
<1>12. ASSUME NEW w \in Worker, Feed(i, w) PROVE TypeInv'
  BY <1>12 DEF Feed, First
<1> QED BY <1>1, <1>2, <1>3, <1>4, <1>5, <1>6, <1>7, <1>8, <1>9, <1>10, <1>11, <1>12
        DEF Runner

(* So does every step of a worker.                                         *)
LEMMA WorkerTypeInv ==
    ASSUME TypeInv, NEW w \in Worker, Work(w)
    PROVE  TypeInv'
<1> USE HomeAssumption, BoundAssumption
    DEF TypeInv, TypeOK, QueueTypeOK, Finite, TickShape, Busy, PC, WPC, LeaseState,
        rvars, wvars, bvars, qvars
<1>1. CASE RangeEnds(w)
  BY <1>1 DEF RangeEnds
<1>2. CASE LimiterGrants(w)
  BY <1>2 DEF LimiterGrants
<1>3. CASE LimiterRefuses(w)
  BY <1>3 DEF LimiterRefuses, Quit
<1>4. CASE FetchReturns(w)
  BY <1>4 DEF FetchReturns
<1>5. CASE FetchCancelled(w)
  BY <1>5 DEF FetchCancelled, Quit
<1>6. CASE Complete(w)
  BY <1>6 DEF Complete, WriteResult, NextRequest
<1>7. CASE CompleteFails(w)
  BY <1>7 DEF CompleteFails, NextRequest, Fault
<1> QED BY <1>1, <1>2, <1>3, <1>4, <1>5, <1>6, <1>7 DEF Work

(* So does whatever happens to a process or to the queue from outside.     *)
LEMMA OutsideTypeInv ==
    ASSUME TypeInv
    PROVE  /\ \A i \in Inst : Cancel(i) \/ Crash(i) \/ Restart(i) => TypeInv'
           /\ \A r \in Row : SiteAsks(r) \/ LeaseLapses(r) => TypeInv'
<1> USE HomeAssumption, BoundAssumption
    DEF TypeInv, TypeOK, QueueTypeOK, Finite, TickShape, Busy, PC, WPC, LeaseState,
        rvars, wvars, bvars, qvars
<1>1. ASSUME NEW i \in Inst, Cancel(i) PROVE TypeInv'
  BY <1>1 DEF Cancel
<1>2. ASSUME NEW i \in Inst, Crash(i) PROVE TypeInv'
  BY <1>2 DEF Crash, EndTick, NoTally
<1>3. ASSUME NEW i \in Inst, Restart(i) PROVE TypeInv'
  BY <1>3 DEF Restart
<1>4. ASSUME NEW r \in Row, SiteAsks(r) PROVE TypeInv'
  BY <1>4, FS_AddElement DEF SiteAsks, Enqueue
<1>5. ASSUME NEW r \in Row, LeaseLapses(r) PROVE TypeInv'
  BY <1>5 DEF LeaseLapses, Lapse
<1> QED BY <1>1, <1>2, <1>3, <1>4, <1>5

LEMMA NextTypeInv == TypeInv /\ [Next]_vars => TypeInv'
<1> SUFFICES ASSUME TypeInv, [Next]_vars PROVE TypeInv'
  OBVIOUS
<1>1. CASE Next
  BY <1>1, RunnerTypeInv, WorkerTypeInv, OutsideTypeInv DEF Next
<1>2. CASE UNCHANGED vars
  BY <1>2 DEF vars, rvars, wvars, bvars, qvars, TypeInv, TypeOK, QueueTypeOK, Finite,
              TickShape, Busy
<1> QED BY <1>1, <1>2

(* The type invariant holds in every behaviour.                            *)
THEOREM TypeCorrect == Spec => []TypeOK
<1>1. TypeInv => TypeOK
  BY DEF TypeInv
<1> QED BY <1>1, InitTypeInv, NextTypeInv, PTL DEF Spec

(* So does the strengthening it is proved from.                            *)
THEOREM TickDiscipline == Spec => []TypeInv
  BY InitTypeInv, NextTypeInv, PTL DEF Spec

-----------------------------------------------------------------------------
(* Nobody has anything in hand that nobody had before, and every lease     *)
(* that is gone is known to have lapsed.                                   *)
NothingTaken ==
    /\ \A i \in Inst : batch'[i] \subseteq batch[i]
    /\ \A w \in Worker : Busy(w)' => Busy(w) /\ wrow'[w] = wrow[w]
    /\ \A r \in Row : lease[r] = "leased" => lease'[r] = "leased" \/ r \in expired'
    /\ expired \subseteq expired'

LEMMA NothingTakenKeepsApart ==
    ASSUME TypeInv, Apart, NothingTaken
    PROVE  Apart'
<1> USE DEF NothingTaken, Apart
<1>1. \A i \in Inst, r \in Row : Holds(i, r)' => Holds(i, r)
  BY DEF Holds, Crew
<1>2. HeldIsLeased'
  BY <1>1 DEF HeldIsLeased
<1>3. SingleFlight'
  BY HomeAssumption DEF SingleFlight
<1>4. DoubleFetchOnlyAfterLapse'
  BY <1>1 DEF DoubleFetchOnlyAfterLapse
<1> QED BY <1>2, <1>3, <1>4

(* A claim takes what nobody holds, or what lapsed, when its own process   *)
(* has nothing in hand.                                                    *)
LEMMA ClaimKeepsApart ==
    ASSUME TypeInv, Apart, NEW i \in Inst, ClaimRows(i)
    PROVE  Apart'
<1> DEFINE S == batch'[i]
<1>1. /\ pc[i] = "tick"
      /\ S \subseteq rows /\ \A r \in S : lease[r] # "leased"
      /\ batch' = [batch EXCEPT ![i] = S]
      /\ lease' = [r \in Row |-> IF r \in S THEN "leased" ELSE lease[r]]
      /\ wpc' = [w \in Worker |->
                    IF Home[w] = i /\ wpc[w] = "idle" THEN "recv" ELSE wpc[w]]
      /\ UNCHANGED <<wrow, expired>>
  BY DueIsPending DEF ClaimRows, Lease, Spawn, TypeInv, TypeOK
<1> HIDE DEF S
<1>2. \A w \in Worker : Busy(w) => Home[w] # i
  BY <1>1 DEF Busy, TypeInv, TickShape
<1>3. \A w \in Worker : Busy(w)' => Busy(w) /\ Home[w] # i
  BY <1>1, <1>2 DEF Busy, TypeInv, TypeOK
<1>4. \A j \in Inst, r \in Row : Holds(j, r)' => Holds(j, r) \/ (j = i /\ r \in S)
  BY <1>1, <1>3 DEF Holds, Crew, TypeInv, TypeOK
<1>5. \A j \in Inst, r \in Row : Holds(j, r) /\ r \in S => r \in expired
  BY <1>1 DEF Apart, HeldIsLeased
<1>6. HeldIsLeased'
  BY <1>1, <1>4 DEF Apart, HeldIsLeased
<1>7. SingleFlight'
  BY <1>1, <1>3, HomeAssumption DEF Apart, SingleFlight, TypeInv, TypeOK
<1>8. DoubleFetchOnlyAfterLapse'
  BY <1>1, <1>4, <1>5 DEF Apart, DoubleFetchOnlyAfterLapse
<1> QED BY <1>6, <1>7, <1>8 DEF Apart

(* Handing a request to a worker takes it out of the batch.                *)
LEMMA FeedKeepsApart ==
    ASSUME TypeInv, Apart, NEW i \in Inst, NEW w \in Worker, Feed(i, w)
    PROVE  Apart'
<1> DEFINE r == wrow'[w]
<1>1. /\ Home[w] = i /\ wpc[w] = "recv"
      /\ r \in batch[i] /\ batch' = [batch EXCEPT ![i] = @ \ {r}]
      /\ wrow' = [wrow EXCEPT ![w] = r]
      /\ wpc' = [wpc EXCEPT ![w] = "limit"]
      /\ UNCHANGED <<lease, expired>>
  BY DEF Feed, First, qvars, TypeInv, TypeOK
<1> HIDE DEF r
<1>2. /\ \A v \in Worker \ {w} : Busy(v)' => Busy(v) /\ wrow'[v] = wrow[v]
      /\ \A j \in Inst : batch'[j] \subseteq batch[j]
      /\ r \notin batch'[i] /\ wrow'[w] = r
  BY <1>1 DEF Busy, TypeInv, TypeOK
<1>3. \A j \in Inst, q \in Row : Holds(j, q)' => Holds(j, q)
  BY <1>1, <1>2 DEF Holds, Crew
<1>4. HeldIsLeased'
  BY <1>1, <1>3 DEF Apart, HeldIsLeased
<1>5. SingleFlight'
  BY <1>1, <1>2, HomeAssumption DEF Apart, SingleFlight
<1>6. DoubleFetchOnlyAfterLapse'
  BY <1>1, <1>3 DEF Apart, DoubleFetchOnlyAfterLapse
<1> QED BY <1>4, <1>5, <1>6 DEF Apart

(* No other step takes anything into its hands.                            *)
LEMMA OthersTakeNothing ==
    ASSUME TypeInv, [Next]_vars,
           ~ \E i \in Inst : ClaimRows(i),
           ~ \E i \in Inst, w \in Worker : Feed(i, w)
    PROVE  NothingTaken
<1> USE DEF NothingTaken, Busy, TypeInv, TypeOK, QueueTypeOK, WPC, LeaseState,
            rvars, wvars, bvars, qvars
<1>1. ASSUME NEW i \in Inst, Runner(i) PROVE NothingTaken
  <2>1. CASE ClaimNothing(i) \/ FeedDone(i) \/ NextTick(i) \/ Return(i)
    BY <2>1 DEF ClaimNothing, FeedDone, NextTick, Return
  <2>2. CASE ClaimFails(i)
    BY <2>2 DEF ClaimFails
  <2>3. CASE ClaimLost(i)
    BY <2>3 DEF ClaimLost, Lease
  <2>4. CASE FeedAbort(i)
    BY <2>4 DEF FeedAbort
  <2>5. CASE RecordRun(i) \/ RecordRunFails(i) \/ AbortDone(i)
    BY <2>5 DEF RecordRun, RecordRunFails, AbortDone
  <2> QED BY <1>1, <2>1, <2>2, <2>3, <2>4, <2>5 DEF Runner
<1>2. ASSUME NEW w \in Worker, Work(w) PROVE NothingTaken
  <2>1. CASE RangeEnds(w) \/ LimiterGrants(w) \/ FetchReturns(w)
    BY <2>1 DEF RangeEnds, LimiterGrants, FetchReturns
  <2>2. CASE LimiterRefuses(w) \/ FetchCancelled(w)
    BY <2>2 DEF LimiterRefuses, FetchCancelled, Quit
  <2>3. CASE Complete(w) \/ CompleteFails(w)
    BY <2>3 DEF Complete, CompleteFails, WriteResult, NextRequest
  <2> QED BY <1>2, <2>1, <2>2, <2>3 DEF Work
<1>3. ASSUME NEW i \in Inst, Cancel(i) \/ Restart(i) PROVE NothingTaken
  BY <1>3 DEF Cancel, Restart
<1>4. ASSUME NEW i \in Inst, Crash(i) PROVE NothingTaken
  BY <1>4 DEF Crash
<1>5. ASSUME NEW r \in Row, SiteAsks(r) PROVE NothingTaken
  BY <1>5 DEF SiteAsks, Enqueue
<1>6. ASSUME NEW r \in Row, LeaseLapses(r) PROVE NothingTaken
  BY <1>6 DEF LeaseLapses, Lapse
<1>7. CASE UNCHANGED vars
  BY <1>7 DEF vars
<1> QED BY <1>1, <1>2, <1>3, <1>4, <1>5, <1>6, <1>7 DEF Next

LEMMA InitApart == Init => Apart
  BY DEF Init, QueueInit, Apart, HeldIsLeased, SingleFlight, DoubleFetchOnlyAfterLapse,
         Holds, Busy, Crew

LEMMA NextApart == TypeInv /\ Apart /\ [Next]_vars => Apart'
  BY ClaimKeepsApart, FeedKeepsApart, OthersTakeNothing, NothingTakenKeepsApart

(* Inside a process no request is ever in flight twice.                    *)
THEOREM SingleFlightHolds == Spec => []SingleFlight
<1>1. Apart => SingleFlight
  BY DEF Apart
<1> QED BY <1>1, InitTypeInv, NextTypeInv, InitApart, NextApart, PTL DEF Spec

(* Two processes work on one request only after its lease has lapsed.      *)
THEOREM LeaseKeepsProcessesApart == Spec => []DoubleFetchOnlyAfterLapse
<1>1. Apart => DoubleFetchOnlyAfterLapse
  BY DEF Apart
<1> QED BY <1>1, InitTypeInv, NextTypeInv, InitApart, NextApart, PTL DEF Spec

-----------------------------------------------------------------------------
(* Refinement of FetchContract.                                            *)

(* A committed Complete answers a request of the Site, or answers nothing. *)
LEMMA CompleteAnswers ==
    ASSUME TypeInv, NEW w \in Worker, Complete(w)
    PROVE  (\E r \in Row : Contract!Answer(r)) \/ UNCHANGED Contract!vars
<1> DEFINE r == wrow[w]
           o == wout[w]
<1>1. r \in rows /\ r \in Row /\ o \in Outcome \ {"none"}
  BY DEF Complete, TypeInv, TypeOK, QueueTypeOK, TickShape, Busy, Outcome
<1>2. /\ rows' = rows
      /\ result' = IF DryRun \/ result[r] # "none" THEN result
                                                   ELSE [result EXCEPT ![r] = o]
  BY DEF Complete, WriteResult
<1>3. CASE DryRun \/ result[r] # "none"
  BY <1>2, <1>3 DEF Contract!vars
<1>4. CASE ~DryRun /\ result[r] = "none"
  BY <1>1, <1>2, <1>4 DEF Contract!Answer, Contract!NoAnswer
<1> QED BY <1>3, <1>4

(* Every other step but SiteAsks leaves both the rows and results alone.   *)
LEMMA StepsRefine ==
    ASSUME TypeInv, [Next]_vars
    PROVE  [Contract!Next]_(Contract!vars)
<1> USE DEF Contract!vars, qvars
<1>1. ASSUME NEW i \in Inst, Runner(i) PROVE UNCHANGED Contract!vars
  BY <1>1 DEF Runner, ClaimRows, ClaimNothing, ClaimFails, ClaimLost, Lease, Feed, FeedDone,
              FeedAbort, RecordRun, RecordRunFails, AbortDone, NextTick, Return
<1>2. ASSUME NEW w \in Worker, Work(w), ~Complete(w) PROVE UNCHANGED Contract!vars
  BY <1>2 DEF Work, RangeEnds, LimiterGrants, LimiterRefuses, FetchReturns, FetchCancelled,
              Quit, CompleteFails
<1>3. ASSUME NEW w \in Worker, Complete(w) PROVE [Contract!Next]_(Contract!vars)
  BY <1>3, CompleteAnswers DEF Contract!Next
<1>4. ASSUME NEW i \in Inst, Cancel(i) \/ Crash(i) \/ Restart(i)
      PROVE  UNCHANGED Contract!vars
  BY <1>4 DEF Cancel, Crash, Restart
<1>5. ASSUME NEW r \in Row, SiteAsks(r) PROVE Contract!Submit(r)
  BY <1>5 DEF SiteAsks, Enqueue, Contract!Submit
<1>6. ASSUME NEW r \in Row, LeaseLapses(r) PROVE UNCHANGED Contract!vars
  BY <1>6 DEF LeaseLapses, Lapse
<1>7. CASE UNCHANGED vars
  BY <1>7 DEF vars
<1> QED BY <1>1, <1>2, <1>3, <1>4, <1>5, <1>6, <1>7 DEF Next, Contract!Next

(* Every behaviour of the processes and the table is one of the contract:  *)
(* what was answered was asked, and its first answer stays.                *)
THEOREM SweepKeepsContract == Spec => ContractKept
<1>1. Init => Contract!Init
  BY DEF Init, QueueInit, Contract!Init, Contract!NoAnswer
<1>2. TypeInv /\ [Next]_vars => [Contract!Next]_(Contract!vars)
  BY StepsRefine
<1> QED BY <1>1, <1>2, InitTypeInv, NextTypeInv, PTL DEF Spec, ContractKept, Contract!Spec

-----------------------------------------------------------------------------
(* The order of a claim.  What ORDER BY puts ahead of a row decides whether*)
(* LIMIT lets it through; numbers of rows ahead stand in for positions.    *)
Ahead(S, r) == {s \in S : Before(s, r)}

LEMMA LeastNumber ==
    ASSUME NEW T \in SUBSET Nat, T # {}
    PROVE  \E n \in T : \A m \in T : n <= m
<1>1. PICK n \in T : \A m \in T : <<m, n>> \notin OpToRel(<, Nat)
  BY NatLessThanWellFounded, WFMin
<1>2. ASSUME NEW m \in T, m < n PROVE <<m, n>> \in OpToRel(<, Nat)
  BY <1>2 DEF OpToRel
<1>3. ASSUME NEW m \in T, m < n PROVE FALSE
  BY <1>1, <1>2, <1>3
<1> QED BY <1>3

(* ORDER BY priority, requested_at is a strict total order of the rows.    *)
LEMMA BeforeOrders ==
    ASSUME TypeInv, NEW r \in Row, NEW s \in Row, NEW t \in Row
    PROVE  /\ ~Before(r, r)
           /\ Before(r, s) /\ Before(s, t) => Before(r, t)
           /\ r # s => Before(r, s) \/ Before(s, r)
<1>1. lane[r] \in Int /\ lane[s] \in Int /\ lane[t] \in Int
  BY LaneAssumption DEF TypeInv, TypeOK, QueueTypeOK
<1>2. r \in Nat /\ s \in Nat /\ t \in Nat
  BY RowAssumption
<1> QED BY <1>1, <1>2 DEF Before

(* Of two rows, the one that comes first has fewer ahead of it.            *)
LEMMA FewerAhead ==
    ASSUME TypeInv, NEW S \in SUBSET rows, NEW r \in S, NEW t \in S
    PROVE  /\ Cardinality(Ahead(S, r)) \in Nat
           /\ Before(r, t) => Cardinality(Ahead(S, r)) < Cardinality(Ahead(S, t))
<1>1. IsFiniteSet(S) /\ S \subseteq Row
  BY FS_Subset DEF TypeInv, TypeOK, QueueTypeOK, Finite
<1>2. /\ IsFiniteSet(Ahead(S, r)) /\ IsFiniteSet(Ahead(S, t))
      /\ Cardinality(Ahead(S, r)) \in Nat /\ Cardinality(Ahead(S, t)) \in Nat
  BY <1>1, FS_Subset, FS_CardinalityType DEF Ahead
<1>3. ASSUME Before(r, t)
      PROVE  Cardinality(Ahead(S, r)) < Cardinality(Ahead(S, t))
  <2>1. r \notin Ahead(S, r) /\ Ahead(S, r) \cup {r} \subseteq Ahead(S, t)
    BY <1>1, <1>3, BeforeOrders DEF Ahead
  <2>2. Cardinality(Ahead(S, r) \cup {r}) = Cardinality(Ahead(S, r)) + 1
    BY <1>2, <2>1, FS_AddElement
  <2>3. Cardinality(Ahead(S, r) \cup {r}) <= Cardinality(Ahead(S, t))
    BY <1>2, <2>1, FS_Subset
  <2> QED BY <1>2, <2>2, <2>3
<1> QED BY <1>2, <1>3

(* One of them has none ahead ...                                          *)
LEMMA SomeRowIsFirst ==
    ASSUME TypeInv, NEW S \in SUBSET rows, S # {}
    PROVE  \E e \in S : Ahead(S, e) = {}
<1> DEFINE T == {Cardinality(Ahead(S, r)) : r \in S}
<1>1. T \subseteq Nat /\ T # {}
  BY FewerAhead
<1>2. PICK n \in T : \A m \in T : n <= m
  <2> HIDE DEF T
  <2> QED BY <1>1, LeastNumber
<1>3. PICK e \in S : n = Cardinality(Ahead(S, e))
  OBVIOUS
<1>4. ASSUME NEW s \in S, Before(s, e) PROVE FALSE
  BY <1>1, <1>2, <1>3, <1>4, FewerAhead
<1> QED BY <1>4 DEF Ahead

(* ... and among those that LIMIT k lets through, one has all the others   *)
(* ahead of it.                                                            *)
LEMMA SomeRowIsLast ==
    ASSUME TypeInv, NEW S \in SUBSET rows, NEW k \in Nat, First(S, k) # {}
    PROVE  \E e \in First(S, k) : First(S, k) \ {e} \subseteq Ahead(S, e)
<1> DEFINE F == First(S, k)
           T == {k - Cardinality(Ahead(S, r)) : r \in F}
<1>1. /\ F \subseteq S /\ F \subseteq Row
      /\ \A r \in F : Cardinality(Ahead(S, r)) < k
  BY DEF First, Ahead, TypeInv, TypeOK, QueueTypeOK
<1>2. \A r \in F : Cardinality(Ahead(S, r)) \in Nat /\ k - Cardinality(Ahead(S, r)) \in Nat
  BY <1>1, FewerAhead
<1>3. T \subseteq Nat /\ T # {}
  BY <1>2
<1>4. PICK n \in T : \A m \in T : n <= m
  <2> HIDE DEF T
  <2> QED BY <1>3, LeastNumber
<1>5. PICK e \in F : n = k - Cardinality(Ahead(S, e))
  OBVIOUS
<1>6. ASSUME NEW s \in F, s # e PROVE Before(s, e)
  <2>1. k - Cardinality(Ahead(S, e)) <= k - Cardinality(Ahead(S, s))
    BY <1>4, <1>5
  <2>2. ~(Cardinality(Ahead(S, e)) < Cardinality(Ahead(S, s)))
    <3> HIDE DEF F, T
    <3> QED BY <1>2, <2>1
  <2> HIDE DEF F, T
  <2>3. ~Before(e, s)
    BY <1>1, <2>2, FewerAhead
  <2> QED BY <1>1, <1>6, <2>3, BeforeOrders
<1> QED BY <1>1, <1>6 DEF Ahead

(* ORDER BY ... LIMIT k takes k rows, or all there are.                    *)
LEMMA LimitTakes ==
    ASSUME TypeInv, NEW S \in SUBSET rows, NEW k \in Nat
    PROVE  /\ First(S, k) \subseteq S
           /\ IsFiniteSet(First(S, k)) /\ Cardinality(First(S, k)) \in Nat
           /\ Cardinality(First(S, k)) <= k
           /\ First(S, k) = S \/ Cardinality(First(S, k)) = k
<1> DEFINE F == First(S, k)
<1>1. F \subseteq S /\ F \subseteq rows
  BY DEF First
<1>2. IsFiniteSet(S) /\ IsFiniteSet(F) /\ Cardinality(F) \in Nat
  BY <1>1, FS_Subset, FS_CardinalityType DEF TypeInv, Finite
<1>3. Cardinality(F) <= k
  <2>1. CASE F = {}
    BY <2>1, FS_EmptySet
  <2>2. CASE F # {}
    <3>1. PICK e \in F : F \ {e} \subseteq Ahead(S, e)
      BY <2>2, SomeRowIsLast
    <3>2. Cardinality(Ahead(S, e)) < k
      BY DEF First, Ahead
    <3> HIDE DEF F
    <3>3. Cardinality(F \ {e}) = Cardinality(F) - 1
      BY <1>2, FS_RemoveElement
    <3>4. Cardinality(F \ {e}) <= Cardinality(Ahead(S, e)) /\ Cardinality(Ahead(S, e)) \in Nat
      BY <1>2, <3>1, FS_Subset, FS_CardinalityType DEF Ahead
    <3> QED BY <1>2, <3>2, <3>3, <3>4
  <2> QED BY <2>1, <2>2
<1>4. ASSUME F # S, Cardinality(F) < k PROVE FALSE
  <2>1. S \ F # {} /\ S \ F \in SUBSET rows
    BY <1>1, <1>4
  <2>2. PICK e \in S \ F : Ahead(S \ F, e) = {}
    <3> HIDE DEF F
    <3> QED BY <2>1, SomeRowIsFirst
  <2>3. Ahead(S, e) \subseteq F
    BY <2>2 DEF Ahead
  <2>4. Cardinality(Ahead(S, e)) <= Cardinality(F) /\ Cardinality(Ahead(S, e)) \in Nat
    <3> HIDE DEF F
    <3> QED BY <1>2, <2>3, FS_Subset, FS_CardinalityType
  <2>5. Cardinality(Ahead(S, e)) < k
    <3> HIDE DEF F
    <3> QED BY <1>2, <1>4, <2>4
  <2> QED BY <2>2, <2>5 DEF First, Ahead
<1> HIDE DEF F
<1>5. F = S \/ Cardinality(F) = k
  BY <1>2, <1>3, <1>4
<1> QED BY <1>1, <1>2, <1>3, <1>5 DEF F

-----------------------------------------------------------------------------
(* The lanes.  LIMIT over the two CTEs together, for rows that no other    *)
(* claim has locked.                                                       *)

(* Of a claim of two or more, the late joiners get less than all.          *)
LEMMA ShareIsBounded ==
    ASSUME NEW limit \in Nat
    PROVE  /\ JumpShare(limit) \in Nat
           /\ limit >= 2 => JumpShare(limit) < limit
           /\ limit >= 1 => JumpShare(limit) >= 1
  BY DEF JumpShare

LEMMA PickedArePending ==
    ASSUME NEW limit, NEW locked
    PROVE  /\ Jump(limit, locked) \subseteq Late(Pending \ locked)
           /\ Rest(limit, locked) \subseteq (Pending \ locked) \ Late(Pending \ locked)
           /\ Picked(limit, locked) \subseteq Pending \ locked
           /\ Pending \subseteq rows
           /\ Late(Pending \ locked) \subseteq Pending \ locked
  BY DEF Picked, Jump, Rest, Late, First, Pending

LEMMA LanesAreNumbers ==
    ASSUME TypeInv
    PROVE  \A r \in rows : lane[r] \in Int /\ r \in Nat /\ r \in Row
  BY LaneAssumption, RowAssumption DEF TypeInv, TypeOK, QueueTypeOK

(* The oldest competition row that is open is among the rows taken: only   *)
(* late joiners are ahead of it, and their share leaves it a place.        *)
LEMMA OldestCompetitionTaken ==
    ASSUME TypeInv, NEW limit \in Nat, limit >= 2, NEW locked, Competition \ locked # {}
    PROVE  Due(limit, locked) \cap Competition # {}
<1> DEFINE open == Pending \ locked
           J == Jump(limit, locked)
           R == Rest(limit, locked)
           P == Picked(limit, locked)
<1>1. Competition \ locked \in SUBSET rows
  BY DEF Competition, Pending
<1>2. PICK c \in Competition \ locked : Ahead(Competition \ locked, c) = {}
  BY <1>1, SomeRowIsFirst
<1>3. c \in open /\ c \in rows /\ lane[c] = 0 /\ c \notin Late(open)
  BY DEF Competition, Pending, Late
<1>4. \A s \in open \ Late(open) : ~Before(s, c)
  BY <1>2, <1>3, LanesAreNumbers DEF Before, Late, Ahead, Competition, Pending
<1>5. c \in R
  <2>1. {s \in open \ Late(open) : Before(s, c)} = {}
    BY <1>4
  <2>2. Cardinality({s \in open \ Late(open) : Before(s, c)}) < limit
    BY <2>1, FS_EmptySet
  <2> QED BY <1>3, <2>2 DEF Rest, First
<1>6. Ahead(P, c) \subseteq J
  BY <1>4, PickedArePending DEF Ahead, Picked
<1>7. IsFiniteSet(J) /\ Cardinality(J) \in Nat /\ Cardinality(J) < limit
  <2>1. Late(open) \in SUBSET rows
    BY DEF Late, Pending
  <2>2. JumpShare(limit) \in Nat /\ JumpShare(limit) < limit
    BY ShareIsBounded
  <2>3. J = First(Late(open), JumpShare(limit))
    BY DEF Jump
  <2> HIDE DEF J, open
  <2>4. IsFiniteSet(J) /\ Cardinality(J) \in Nat /\ Cardinality(J) <= JumpShare(limit)
    BY <2>1, <2>2, <2>3, LimitTakes
  <2> QED BY <2>2, <2>4
<1>8. Cardinality(Ahead(P, c)) < limit
  <2> HIDE DEF J, P
  <2>1. Cardinality(Ahead(P, c)) <= Cardinality(J) /\ Cardinality(Ahead(P, c)) \in Nat
    BY <1>6, <1>7, FS_Subset, FS_CardinalityType
  <2> QED BY <1>7, <2>1
<1>9. c \in P
  BY <1>5 DEF Picked
<1>10. c \in Due(limit, locked)
  BY <1>8, <1>9 DEF Due, First, Ahead
<1> QED BY <1>10

(* The first late joiner that is open is taken before anything else.       *)
LEMMA FirstLateJoinerTaken ==
    ASSUME TypeInv, NEW limit \in Nat, limit >= 1, NEW locked, Late(Pending \ locked) # {}
    PROVE  Late(Due(limit, locked)) # {}
<1> DEFINE open == Pending \ locked
           P == Picked(limit, locked)
<1>1. Late(open) \in SUBSET rows
  BY DEF Late, Pending
<1>2. PICK e \in Late(open) : Ahead(Late(open), e) = {}
  BY <1>1, SomeRowIsFirst
<1>3. JumpShare(limit) \in Nat /\ JumpShare(limit) >= 1
  BY ShareIsBounded
<1>4. e \in Jump(limit, locked)
  <2>1. {s \in Late(open) : Before(s, e)} = {}
    BY <1>2 DEF Ahead
  <2>2. Cardinality({s \in Late(open) : Before(s, e)}) < JumpShare(limit)
    BY <1>3, <2>1, FS_EmptySet
  <2> QED BY <2>2 DEF Jump, First
<1>5. \A s \in open : ~Before(s, e)
  BY <1>2, LanesAreNumbers DEF Before, Late, Ahead, Pending
<1>6. e \in P /\ {s \in P : Before(s, e)} = {}
  BY <1>4, <1>5, PickedArePending DEF Picked
<1>7. Cardinality({s \in P : Before(s, e)}) < limit
  BY <1>6, FS_EmptySet
<1>8. e \in Due(limit, locked)
  BY <1>6, <1>7 DEF Due, First
<1> QED BY <1>2, <1>8 DEF Late

(* With no late joiner open, a claim takes the first limit rows.           *)
LEMMA NoLateJoinerFullClaim ==
    ASSUME TypeInv, NEW limit \in Nat, NEW locked, Late(Pending \ locked) = {}
    PROVE  Cardinality(Due(limit, locked)) =
               IF Cardinality(Pending \ locked) < limit
                 THEN Cardinality(Pending \ locked) ELSE limit
<1> DEFINE open == Pending \ locked
           F == First(open, limit)
<1>1. open \in SUBSET rows
  BY DEF Pending
<1>2. Due(limit, locked) = First(F, limit)
  BY DEF Due, Picked, Jump, Rest, First
<1>3. IsFiniteSet(open) /\ Cardinality(open) \in Nat
  BY <1>1, FS_Subset, FS_CardinalityType DEF TypeInv, Finite
<1> HIDE DEF open
<1>4. /\ F \subseteq open /\ Cardinality(F) \in Nat /\ Cardinality(F) <= limit
      /\ F = open \/ Cardinality(F) = limit
      /\ Cardinality(F) <= Cardinality(open)
  BY <1>1, <1>3, LimitTakes, FS_Subset
<1> HIDE DEF F
<1>5. /\ Cardinality(First(F, limit)) \in Nat /\ Cardinality(First(F, limit)) <= limit
      /\ First(F, limit) = F \/ Cardinality(First(F, limit)) = limit
      /\ Cardinality(First(F, limit)) <= Cardinality(F)
  <2>1. F \in SUBSET rows /\ IsFiniteSet(F)
    BY <1>1, <1>3, <1>4, FS_Subset
  <2> QED BY <2>1, LimitTakes, FS_Subset
<1>6. Cardinality(First(F, limit)) =
         IF Cardinality(open) < limit THEN Cardinality(open) ELSE limit
  BY <1>3, <1>4, <1>5
<1> QED BY <1>2, <1>6 DEF open

(* Nothing but a claim that finds rows takes a runner to its feed loop.    *)
LEMMA OnlyClaimsFeed ==
    ASSUME TypeInv, [Next]_vars, NEW i \in Inst, Claims(i)
    PROVE  ClaimRows(i)
<1> USE DEF Claims, rvars
<1>1. pc \in [Inst -> PC]
  BY DEF TypeInv, TypeOK
<1>2. ASSUME NEW j \in Inst, Runner(j) PROVE ClaimRows(i)
  BY <1>1, <1>2 DEF Runner, ClaimRows, ClaimNothing, ClaimFails, ClaimLost, Feed, FeedDone,
         FeedAbort, RecordRun, RecordRunFails, AbortDone, NextTick, Return
<1>3. ASSUME NEW j \in Inst, Cancel(j) \/ Crash(j) \/ Restart(j) PROVE FALSE
  BY <1>1, <1>3 DEF Cancel, Crash, Restart
<1>4. ASSUME NEW w \in Worker, Work(w) PROVE FALSE
  BY <1>4 DEF Work, RangeEnds, LimiterGrants, LimiterRefuses, FetchReturns, FetchCancelled,
              Quit, Complete, CompleteFails
<1>5. ASSUME NEW r \in Row, SiteAsks(r) \/ LeaseLapses(r) PROVE FALSE
  BY <1>5 DEF SiteAsks, LeaseLapses
<1>6. CASE UNCHANGED vars
  BY <1>6 DEF vars
<1> QED BY <1>2, <1>3, <1>4, <1>5, <1>6 DEF Next

(* One process at a time: no other claim has rows locked.                  *)
Alone == \A i, j \in Inst : i = j

LEMMA AloneClaim ==
    ASSUME TypeInv, [Next]_vars, Alone, NEW i \in Inst, Claims(i)
    PROVE  /\ batch'[i] = Due(ClaimBatch, {})
           /\ claimed'[i] = Cardinality(Due(ClaimBatch, {}))
           /\ ClaimBatch >= 1
<1>1. ClaimRows(i)
  BY OnlyClaimsFeed
<1>2. LockedElsewhere(i) = {{}}
  BY DEF Alone, LockedElsewhere
<1>3. /\ batch' = [batch EXCEPT ![i] = Due(ClaimBatch, {})]
      /\ claimed' = [claimed EXCEPT ![i] = Cardinality(Due(ClaimBatch, {}))]
      /\ Due(ClaimBatch, {}) # {}
  BY <1>1, <1>2 DEF ClaimRows
<1>4. batch'[i] = Due(ClaimBatch, {}) /\ claimed'[i] = Cardinality(Due(ClaimBatch, {}))
  BY <1>3 DEF TypeInv, TypeOK
<1>5. ClaimBatch >= 1
  <2>1. Picked(ClaimBatch, {}) \in SUBSET rows
    BY DEF Picked, Jump, Rest, Late, First, Pending
  <2>2. Cardinality(Due(ClaimBatch, {})) <= ClaimBatch /\ IsFiniteSet(Due(ClaimBatch, {}))
    BY <2>1, LimitTakes, BatchAssumption DEF Due
  <2>3. Cardinality(Due(ClaimBatch, {})) # 0 /\ Cardinality(Due(ClaimBatch, {})) \in Nat
    BY <1>3, <2>2, FS_EmptySet, FS_CardinalityType
  <2> QED BY <2>2, <2>3, BatchAssumption
<1> QED BY <1>4, <1>5

(* With one process and claims of at least two rows, no burst of late adds *)
(* stops the competition lane.  (A claim of one row is all late joiner.)   *)
THEOREM CompetitionKeepsMoving ==
    Alone /\ ClaimBatch >= 2 => (Spec => CompetitionNeverStopped)
<1> SUFFICES ASSUME Alone, ClaimBatch >= 2 PROVE Spec => CompetitionNeverStopped
  OBVIOUS
<1>1. ASSUME TypeInv, [Next]_vars, NEW i \in Inst, Claims(i), Competition # {}
      PROVE  batch'[i] \cap Competition # {}
  <2>1. Competition \ {} # {}
    BY <1>1
  <2>2. Due(ClaimBatch, {}) \cap Competition # {}
    BY <1>1, <2>1, BatchAssumption, OldestCompetitionTaken
  <2> QED BY <1>1, <2>2, AloneClaim
<1>2. TypeInv /\ [Next]_vars =>
        [\A i \in Inst :
            Claims(i) /\ Competition # {} => batch'[i] \cap Competition # {}]_vars
  BY <1>1
<1> QED BY <1>2, InitTypeInv, NextTypeInv, PTL DEF Spec, CompetitionNeverStopped

(* With one process, a late joiner that is waiting is served by the next   *)
(* claim, and a claim without late joiners is as full as it can be.        *)
THEOREM LateJoinersAreServed == Alone => (Spec => LateJoinersServed)
<1> SUFFICES ASSUME Alone PROVE Spec => LateJoinersServed
  OBVIOUS
<1> DEFINE Served(i) ==
             /\ Late(Pending) # {} => Late(batch'[i]) # {}
             /\ Late(Pending) = {} =>
                  claimed'[i] = IF Cardinality(Pending) < ClaimBatch
                                  THEN Cardinality(Pending) ELSE ClaimBatch
<1>1. ASSUME TypeInv, [Next]_vars, NEW i \in Inst, Claims(i) PROVE Served(i)
  <2>1. /\ batch'[i] = Due(ClaimBatch, {})
        /\ claimed'[i] = Cardinality(Due(ClaimBatch, {}))
        /\ ClaimBatch \in Nat /\ ClaimBatch >= 1
    BY <1>1, AloneClaim, BatchAssumption
  <2>2. Pending \ {} = Pending
    OBVIOUS
  <2>3. Late(Pending) # {} => Late(Due(ClaimBatch, {})) # {}
    BY <1>1, <2>1, <2>2, FirstLateJoinerTaken
  <2>4. Late(Pending) = {} =>
          Cardinality(Due(ClaimBatch, {})) =
              IF Cardinality(Pending) < ClaimBatch THEN Cardinality(Pending) ELSE ClaimBatch
    BY <1>1, <2>1, <2>2, NoLateJoinerFullClaim
  <2> QED BY <2>1, <2>3, <2>4
<1>2. TypeInv /\ [Next]_vars => [\A i \in Inst : Claims(i) => Served(i)]_vars
  BY <1>1
<1> QED BY <1>2, InitTypeInv, NextTypeInv, PTL DEF Spec, LateJoinersServed

-----------------------------------------------------------------------------
(* The run log.  While a tick runs undisturbed, every request of its claim *)
(* is in exactly one place: in the batch, with a worker that has no        *)
(* outcome yet, or in the tally.                                           *)
Unanswered(i) == {w \in Crew(i) : wpc[w] \in {"limit", "fetch"}}
Counted(i) == tally[i]["ok"] + tally[i]["unranked"] + tally[i]["transient"]
Balanced(i) ==
    claimed[i] = Cardinality(batch[i]) + Cardinality(Unanswered(i)) + Counted(i)

Book(i) == /\ IsFiniteSet(Unanswered(i))
           /\ pc[i] \in {"tick", "pause", "stopped"} => tally[i] = NoTally
           /\ pc[i] = "abort" => cancelled[i]
           /\ ~cancelled[i] /\ pc[i] \in {"feed", "drain"} => Balanced(i)
Books == \A i \in Inst : Book(i)

(* What leaves the tick of process i alone.                                *)
SameBook(i) ==
    /\ pc'[i] = pc[i] /\ cancelled'[i] = cancelled[i] /\ batch'[i] = batch[i]
    /\ claimed'[i] = claimed[i] /\ tally'[i] = tally[i]
    /\ Unanswered(i)' = Unanswered(i)

LEMMA SameBookKept ==
    ASSUME NEW i \in Inst, Book(i), SameBook(i)
    PROVE  Book(i)'
  BY DEF Book, SameBook, Balanced, Counted

LEMMA BookTypes ==
    ASSUME TypeInv, NEW i \in Inst
    PROVE  /\ tally[i] \in [Outcome -> Nat] /\ Counted(i) \in Nat
           /\ IsFiniteSet(batch[i]) /\ Cardinality(batch[i]) \in Nat
<1>1. tally[i] \in [Outcome -> Nat]
  BY DEF TypeInv, TypeOK
<1>2. Counted(i) \in Nat
  BY <1>1 DEF Counted, Outcome
<1>3. batch[i] \subseteq rows /\ IsFiniteSet(rows)
  BY DEF TypeInv, TickShape, Finite
<1> QED BY <1>1, <1>2, <1>3, FS_Subset, FS_CardinalityType

(* A process between two ticks has no goroutine at work.                   *)
LEMMA NoneUnanswered ==
    ASSUME TypeInv, NEW i \in Inst, pc[i] \in {"tick", "pause", "stopped"}
    PROVE  Unanswered(i) = {}
  BY DEF TypeInv, TickShape, Unanswered, Crew

LEMMA InitBooks == Init => Books
<1> SUFFICES ASSUME Init, NEW i \in Inst PROVE Book(i)
  BY DEF Books
<1>1. Unanswered(i) = {}
  BY DEF Init, Unanswered, Crew
<1>2. pc[i] = "tick" /\ tally[i] = NoTally
  BY DEF Init
<1> QED BY <1>1, <1>2, FS_EmptySet DEF Book

(* The claim opens the book, with all of it in the batch.                  *)
LEMMA ClaimOpensBook ==
    ASSUME TypeInv, Books, NEW i \in Inst, ClaimRows(i)
    PROVE  Book(i)'
<1>1. PICK S : /\ S \subseteq rows
               /\ batch' = [batch EXCEPT ![i] = S]
               /\ claimed' = [claimed EXCEPT ![i] = Cardinality(S)]
  BY DueIsPending DEF ClaimRows
<1>2. /\ pc[i] = "tick" /\ pc' = [pc EXCEPT ![i] = "feed"]
      /\ tally' = tally /\ Spawn(i)
  BY DEF ClaimRows
<1>3. batch'[i] = S /\ claimed'[i] = Cardinality(S) /\ pc'[i] = "feed"
  BY <1>1, <1>2 DEF TypeInv, TypeOK
<1>4. Unanswered(i) = {}
  BY <1>2, NoneUnanswered
<1>5. Unanswered(i)' = {}
  BY <1>2, <1>4 DEF Unanswered, Crew, Spawn
<1>6. tally'[i] = NoTally
  BY <1>2 DEF Books, Book
<1>7. Counted(i)' = 0
  BY <1>6 DEF Counted, NoTally, Outcome
<1>8. Cardinality(S) \in Nat
  BY <1>1, FS_Subset, FS_CardinalityType DEF TypeInv, Finite
<1>9. claimed'[i] = Cardinality(batch'[i]) + Cardinality(Unanswered(i)') + Counted(i)'
  BY <1>3, <1>5, <1>7, <1>8, FS_EmptySet
<1> QED BY <1>3, <1>5, <1>9, FS_EmptySet DEF Book, Balanced

(* Handing out moves a request from the batch to a worker.                 *)
LEMMA FeedKeepsBook ==
    ASSUME TypeInv, Books, NEW i \in Inst, NEW w \in Worker, Feed(i, w)
    PROVE  Book(i)'
<1>1. PICK r \in batch[i] : batch' = [batch EXCEPT ![i] = @ \ {r}]
  BY DEF Feed, First
<1>2. /\ pc[i] = "feed" /\ Home[w] = i /\ wpc[w] = "recv"
      /\ wpc' = [wpc EXCEPT ![w] = "limit"]
      /\ UNCHANGED <<pc, cancelled, claimed, tally>>
  BY DEF Feed
<1>3. batch'[i] = batch[i] \ {r}
  BY <1>1 DEF TypeInv, TypeOK
<1>4. w \notin Unanswered(i) /\ Unanswered(i)' = Unanswered(i) \cup {w}
  BY <1>2 DEF Unanswered, Crew, TypeInv, TypeOK
<1>5. Book(i) /\ IsFiniteSet(Unanswered(i))
  BY DEF Books, Book
<1>6. /\ IsFiniteSet(Unanswered(i)') /\ Cardinality(Unanswered(i)) \in Nat
      /\ Cardinality(Unanswered(i)') = Cardinality(Unanswered(i)) + 1
  BY <1>4, <1>5, FS_AddElement, FS_CardinalityType
<1>7. /\ Cardinality(batch'[i]) = Cardinality(batch[i]) - 1 /\ Cardinality(batch[i]) \in Nat
  BY <1>3, BookTypes, FS_RemoveElement
<1>8. Counted(i)' = Counted(i) /\ Counted(i) \in Nat
  BY <1>2, BookTypes DEF Counted
<1>9. Balanced(i) => Balanced(i)'
  BY <1>2, <1>6, <1>7, <1>8 DEF Balanced
<1> QED BY <1>2, <1>5, <1>6, <1>9 DEF Book

(* An outcome moves it from the worker to the tally.                       *)
LEMMA FetchKeepsBook ==
    ASSUME TypeInv, Books, NEW w \in Worker, FetchReturns(w)
    PROVE  Book(Home[w])'
<1> DEFINE i == Home[w]
<1>0. i \in Inst
  BY HomeAssumption
<1>1. PICK o \in Outcome : tally' = [tally EXCEPT ![i][o] = @ + 1]
  BY DEF FetchReturns
<1>2. /\ wpc[w] = "fetch" /\ wpc' = [wpc EXCEPT ![w] = "complete"]
      /\ UNCHANGED <<pc, cancelled, claimed, batch>>
  BY DEF FetchReturns
<1>3. w \in Unanswered(i) /\ Unanswered(i)' = Unanswered(i) \ {w}
  BY <1>2 DEF Unanswered, Crew, TypeInv, TypeOK
<1>4. pc[i] \in {"feed", "drain", "abort"}
  BY <1>2 DEF TypeInv, TickShape
<1> HIDE DEF i
<1>5. Book(i) /\ IsFiniteSet(Unanswered(i))
  BY <1>0 DEF Books, Book
<1>6. /\ IsFiniteSet(Unanswered(i)') /\ Cardinality(Unanswered(i)) \in Nat
      /\ Cardinality(Unanswered(i)') = Cardinality(Unanswered(i)) - 1
  BY <1>3, <1>5, FS_RemoveElement, FS_CardinalityType
<1>7. /\ tally[i] \in [Outcome -> Nat] /\ tally'[i] = [tally[i] EXCEPT ![o] = @ + 1]
  BY <1>0, <1>1, BookTypes DEF TypeInv, TypeOK
<1>8. Counted(i)' = Counted(i) + 1 /\ Counted(i) \in Nat
  BY <1>7 DEF Counted, Outcome
<1>9. Cardinality(batch[i]) \in Nat
  BY <1>0, BookTypes
<1>10. Balanced(i) => Balanced(i)'
  BY <1>2, <1>6, <1>8, <1>9 DEF Balanced
<1>11. Book(i)'
  BY <1>2, <1>4, <1>5, <1>6, <1>10 DEF Book
<1> QED BY <1>11 DEF i

(* A runner leaves the books of the other processes alone ...              *)
LEMMA RunnerMindsOwnBook ==
    ASSUME TypeInv, NEW i \in Inst, Runner(i), NEW j \in Inst, j # i
    PROVE  SameBook(j)
<1> USE DEF SameBook, Unanswered, Crew, TypeInv, TypeOK, wvars
<1>1. CASE ClaimRows(i)
  BY <1>1 DEF ClaimRows, Spawn
<1>2. CASE ClaimNothing(i) \/ ClaimFails(i) \/ ClaimLost(i)
  BY <1>2 DEF ClaimNothing, ClaimFails, ClaimLost
<1>3. ASSUME NEW w \in Worker, Feed(i, w) PROVE SameBook(j)
  BY <1>3 DEF Feed
<1>4. CASE FeedDone(i) \/ FeedAbort(i) \/ NextTick(i) \/ Return(i)
  BY <1>4 DEF FeedDone, FeedAbort, NextTick, Return
<1>5. CASE RecordRun(i) \/ RecordRunFails(i) \/ AbortDone(i)
  BY <1>5 DEF RecordRun, RecordRunFails, AbortDone, EndTick
<1> QED BY <1>1, <1>2, <1>3, <1>4, <1>5 DEF Runner

(* ... and keeps its own.                                                  *)
LEMMA RunnerKeepsBook ==
    ASSUME TypeInv, Books, NEW i \in Inst, Runner(i)
    PROVE  Book(i)'
<1>1. Book(i)
  BY DEF Books
<1>2. ASSUME UNCHANGED wvars PROVE Unanswered(i)' = Unanswered(i)
  BY <1>2 DEF Unanswered, Crew, wvars
<1>3. CASE ClaimNothing(i) \/ ClaimFails(i) \/ ClaimLost(i) \/ NextTick(i) \/ Return(i)
  <2>1. /\ UNCHANGED wvars /\ tally' = tally
        /\ pc[i] \in {"tick", "pause"} /\ pc'[i] \in {"tick", "pause", "stopped"}
    BY <1>3 DEF ClaimNothing, ClaimFails, ClaimLost, NextTick, Return, TypeInv, TypeOK
  <2> QED BY <1>1, <1>2, <2>1 DEF Book
<1>4. CASE RecordRun(i) \/ RecordRunFails(i) \/ AbortDone(i)
  <2>1. UNCHANGED wvars /\ tally'[i] = NoTally /\ pc'[i] \in {"tick", "pause"}
    BY <1>4 DEF RecordRun, RecordRunFails, AbortDone, EndTick, TypeInv, TypeOK
  <2> QED BY <1>1, <1>2, <2>1 DEF Book
<1>5. CASE FeedDone(i)
  <2>1. /\ UNCHANGED <<wvars, tally, claimed, batch, cancelled>>
        /\ pc[i] = "feed" /\ pc'[i] = "drain"
    BY <1>5 DEF FeedDone, TypeInv, TypeOK
  <2>2. Unanswered(i)' = Unanswered(i)
    BY <1>2, <2>1
  <2>3. Balanced(i)' = Balanced(i)
    BY <2>1, <2>2 DEF Balanced, Counted
  <2> QED BY <1>1, <2>1, <2>2, <2>3 DEF Book
<1>6. CASE FeedAbort(i)
  <2>1. UNCHANGED <<wvars, cancelled>> /\ cancelled[i] /\ pc'[i] = "abort"
    BY <1>6 DEF FeedAbort, TypeInv, TypeOK
  <2> QED BY <1>1, <1>2, <2>1 DEF Book
<1> QED BY <1>3, <1>4, <1>5, <1>6, ClaimOpensBook, FeedKeepsBook DEF Runner

(* A worker whose limiter never refuses it in vain keeps the books.        *)
LEMMA WorkerKeepsBooks ==
    ASSUME TypeInv, Books, Burst >= 1, NEW w \in Worker, Work(w)
    PROVE  Books'
<1> DEFINE i == Home[w]
<1>0. i \in Inst /\ Book(i)
  BY HomeAssumption DEF Books
<1>1. ASSUME NEW j \in Inst, j # i PROVE Book(j)'
  <2>1. SameBook(j)
    <3> USE <1>1 DEF SameBook, Unanswered, Crew, TypeInv, TypeOK, rvars
    <3>1. CASE RangeEnds(w) \/ LimiterGrants(w)
      BY <3>1 DEF RangeEnds, LimiterGrants
    <3>2. CASE LimiterRefuses(w) \/ FetchCancelled(w)
      BY <3>2 DEF LimiterRefuses, FetchCancelled, Quit
    <3>3. CASE FetchReturns(w)
      BY <3>3, HomeAssumption DEF FetchReturns
    <3>4. CASE Complete(w) \/ CompleteFails(w)
      BY <3>4 DEF Complete, CompleteFails, NextRequest
    <3> QED BY <3>1, <3>2, <3>3, <3>4 DEF Work
  <2> QED BY <2>1, SameBookKept DEF Books
<1>2. Book(i)'
  <2>1. CASE RangeEnds(w) \/ LimiterGrants(w) \/ Complete(w) \/ CompleteFails(w)
    <3>1. /\ UNCHANGED rvars /\ wpc' \in [Worker -> WPC]
          /\ wpc[w] \in {"limit", "fetch"} <=> wpc'[w] \in {"limit", "fetch"}
          /\ \A v \in Worker \ {w} : wpc'[v] = wpc[v]
      BY <2>1 DEF RangeEnds, LimiterGrants, Complete, CompleteFails, NextRequest, TypeInv,
                  TypeOK, WPC
    <3>2. SameBook(i)
      BY <3>1 DEF SameBook, Unanswered, Crew, rvars
    <3> HIDE DEF i
    <3> QED BY <1>0, <3>2, SameBookKept
  <2>2. CASE LimiterRefuses(w) \/ FetchCancelled(w)
    <3>1. /\ cancelled[i] /\ UNCHANGED rvars /\ wpc[w] \in {"limit", "fetch"}
          /\ wpc' = [wpc EXCEPT ![w] = "idle"]
      BY <2>2, BatchAssumption DEF LimiterRefuses, LimiterErrs, FetchCancelled, Quit
    <3>2. Unanswered(i)' \subseteq Unanswered(i)
      BY <3>1 DEF Unanswered, Crew, TypeInv, TypeOK
    <3> HIDE DEF i
    <3>3. IsFiniteSet(Unanswered(i)')
      BY <1>0, <3>2, FS_Subset DEF Book
    <3> QED BY <1>0, <3>1, <3>3 DEF Book, rvars
  <2>3. CASE FetchReturns(w)
    BY <2>3, FetchKeepsBook
  <2> QED BY <2>1, <2>2, <2>3 DEF Work
<1> QED BY <1>1, <1>2 DEF Books

(* So does what happens to a process or the queue from outside.            *)
LEMMA OutsideKeepsBooks ==
    ASSUME TypeInv, Books
    PROVE  /\ \A i \in Inst : Cancel(i) \/ Crash(i) \/ Restart(i) => Books'
           /\ \A r \in Row : SiteAsks(r) \/ LeaseLapses(r) => Books'
<1>1. ASSUME NEW i \in Inst, Cancel(i) \/ Crash(i) \/ Restart(i),
             NEW j \in Inst, j # i
      PROVE  Book(j)'
  <2>1. SameBook(j)
    BY <1>1 DEF Cancel, Crash, Restart, EndTick, SameBook, Unanswered, Crew, TypeInv, TypeOK,
                wvars
  <2> QED BY <2>1, SameBookKept DEF Books
<1>2. ASSUME NEW i \in Inst, Cancel(i) PROVE Book(i)'
  <2>1. cancelled'[i] = TRUE /\ UNCHANGED <<pc, tally, wpc>>
    BY <1>2 DEF Cancel, TypeInv, TypeOK, wvars
  <2>2. Unanswered(i)' = Unanswered(i)
    BY <2>1 DEF Unanswered, Crew
  <2> QED BY <2>1, <2>2 DEF Books, Book
<1>3. ASSUME NEW i \in Inst, Crash(i) PROVE Book(i)'
  <2>1. pc'[i] = "stopped" /\ tally'[i] = NoTally
    BY <1>3 DEF Crash, EndTick, TypeInv, TypeOK
  <2>2. Unanswered(i)' = {}
    BY <1>3 DEF Crash, Unanswered, Crew
  <2> QED BY <2>1, <2>2, FS_EmptySet DEF Book
<1>4. ASSUME NEW i \in Inst, Restart(i) PROVE Book(i)'
  <2>1. pc[i] = "stopped" /\ pc'[i] = "tick" /\ UNCHANGED <<tally, wpc>>
    BY <1>4 DEF Restart, TypeInv, TypeOK, wvars
  <2>2. Unanswered(i)' = Unanswered(i)
    BY <2>1 DEF Unanswered, Crew
  <2> QED BY <2>1, <2>2 DEF Books, Book
<1>5. ASSUME NEW r \in Row, SiteAsks(r) \/ LeaseLapses(r), NEW j \in Inst PROVE Book(j)'
  <2>1. SameBook(j)
    BY <1>5 DEF SiteAsks, LeaseLapses, SameBook, Unanswered, Crew, rvars, wvars
  <2> QED BY <2>1, SameBookKept DEF Books
<1> QED BY <1>1, <1>2, <1>3, <1>4, <1>5 DEF Books

LEMMA NextBooks == Burst >= 1 /\ TypeInv /\ Books /\ [Next]_vars => Books'
<1> SUFFICES ASSUME Burst >= 1, TypeInv, Books, [Next]_vars PROVE Books'
  OBVIOUS
<1>1. ASSUME NEW i \in Inst, Runner(i) PROVE Books'
  BY <1>1, RunnerKeepsBook, RunnerMindsOwnBook, SameBookKept DEF Books
<1>2. CASE UNCHANGED vars
  <2>1. ASSUME NEW j \in Inst PROVE SameBook(j)
    BY <1>2 DEF vars, rvars, wvars, SameBook, Unanswered, Crew
  <2> QED BY <2>1, SameBookKept DEF Books
<1> QED BY <1>1, <1>2, WorkerKeepsBooks, OutsideKeepsBooks DEF Next

(* With a burst of at least one, every recorded run accounts for all of    *)
(* its claim.  (With none, the limiter turns every worker away, and a run  *)
(* of few requests is recorded without their outcomes.)                    *)
THEOREM RunLogsAddUp == Burst >= 1 => (Spec => RunLogAddsUp)
<1> SUFFICES ASSUME Burst >= 1 PROVE Spec => RunLogAddsUp
  OBVIOUS
<1> DEFINE AddsUp(i) ==
             claimed[i] = tally[i]["ok"] + tally[i]["unranked"] + tally[i]["transient"]
<1>1. ASSUME TypeInv, Books, NEW i \in Inst, RecordRun(i) PROVE AddsUp(i)
  <2>1. pc[i] = "drain" /\ ~cancelled[i] /\ Unanswered(i) = {}
    BY <1>1 DEF RecordRun, WgWait, CrewGone, Unanswered
  <2>2. batch[i] = {} /\ Balanced(i)
    BY <1>1, <2>1 DEF TypeInv, TickShape, Books, Book
  <2>3. Counted(i) \in Nat
    BY <1>1, BookTypes
  <2>4. claimed[i] = Counted(i)
    BY <2>1, <2>2, <2>3, FS_EmptySet DEF Balanced
  <2> QED BY <2>4 DEF Counted
<1>2. TypeInv /\ Books => [\A i \in Inst : RecordRun(i) => AddsUp(i)]_vars
  BY <1>1
<1>3. Init => Books
  BY InitBooks
<1>4. TypeInv /\ Books /\ [Next]_vars => Books'
  BY NextBooks
<1> QED BY <1>2, <1>3, <1>4, InitTypeInv, NextTypeInv, PTL DEF Spec, RunLogAddsUp
=============================================================================

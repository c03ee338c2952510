------------------------------- MODULE Sweep -------------------------------
(***************************************************************************)
(* internal/sweep: the runner of each Forge process claims a batch of the  *)
(* fetch queue, hands it row by row over an unbuffered channel to its      *)
(* workers, waits for all of them, records the run and starts again.       *)
(*                                                                         *)
(* A process may be told to stop (its context is cancelled), may die, and  *)
(* is restarted by its supervisor; the queue is the only state that        *)
(* survives.  Two processes overlap while a deploy replaces one by another.*)
(***************************************************************************)
EXTENDS FetchQueue

CONSTANTS Inst,        (* Forge processes                                  *)
          Worker,      (* worker goroutines, all processes together        *)
          Home,        (* the process each worker belongs to               *)
          ClaimBatch,  (* FORGE_CLAIM_BATCH                                *)
          Burst,       (* FORGE_HISCORES_BURST, the limiter's bucket size  *)
          MaxStops,    (* bound: cancellations and crashes in a behaviour  *)
          MaxFaults    (* bound: failed statements in a behaviour          *)

ASSUME HomeAssumption == Home \in [Worker -> Inst]
ASSUME BatchAssumption == ClaimBatch \in Nat /\ Burst \in Nat
ASSUME BoundAssumption == MaxStops \in Nat /\ MaxFaults \in Nat

NoRow == 0

VARIABLES
  pc,         (* where the runner of each process is                       *)
  cancelled,  (* the process's context is done                             *)
  batch,      (* the rows of the claim that are not handed out yet         *)
  claimed,    (* len(claims)                                               *)
  tally,      (* fetched, unranked and errs of the current tick            *)
  wpc,        (* where each worker goroutine is; "idle" when there is none *)
  wrow,       (* the request it works on                                   *)
  wout,       (* the outcome of its fetch                                  *)
  expired,    (* history: rows whose lease lapsed at least once            *)
  stops,      (* bounded by MaxStops                                       *)
  faults      (* bounded by MaxFaults                                      *)

rvars == <<pc, cancelled, batch, claimed, tally>>
wvars == <<wpc, wrow, wout>>
bvars == <<stops, faults>>
vars == <<qvars, rvars, wvars, expired, bvars>>

Crew(i) == {w \in Worker : Home[w] = i}
CrewGone(i) == \A w \in Crew(i) : wpc[w] = "idle"
NoTally == [o \in Outcome |-> 0]

Init == /\ QueueInit
        /\ pc = [i \in Inst |-> "tick"]
        /\ cancelled = [i \in Inst |-> FALSE]
        /\ batch = [i \in Inst |-> {}]
        /\ claimed = [i \in Inst |-> 0]
        /\ tally = [i \in Inst |-> NoTally]
        /\ wpc = [w \in Worker |-> "idle"]
        /\ wrow = [w \in Worker |-> NoRow]
        /\ wout = [w \in Worker |-> "none"]
        /\ expired = {}
        /\ stops = 0
        /\ faults = 0

Fault == faults < MaxFaults /\ faults' = faults + 1

-----------------------------------------------------------------------------
(* Tick: the claim.                                                        *)

(* What a claim of another process, running at the same time, may hold     *)
(* locked: every row its two CTEs picked, those it will not take included. *)
LockedElsewhere(i) ==
    {{}} \cup (IF \E j \in Inst \ {i} : pc[j] = "tick"
                 THEN {Picked(ClaimBatch, {})} ELSE {})

(* Tick starts its workers once the claim has returned rows.               *)
Spawn(i) ==
    wpc' = [w \in Worker |-> IF Home[w] = i /\ wpc[w] = "idle" THEN "recv" ELSE wpc[w]]

ClaimRows(i) ==
    /\ pc[i] = "tick" /\ ~cancelled[i]
    /\ \E locked \in LockedElsewhere(i) :
         /\ Due(ClaimBatch, locked) # {}
         /\ Lease(Due(ClaimBatch, locked))
         /\ batch' = [batch EXCEPT ![i] = Due(ClaimBatch, locked)]
         /\ claimed' = [claimed EXCEPT ![i] = Cardinality(Due(ClaimBatch, locked))]
    /\ pc' = [pc EXCEPT ![i] = "feed"]
    /\ Spawn(i)
    /\ UNCHANGED <<cancelled, tally, wrow, wout, expired, bvars>>

(* An empty claim: Run waits for the ticker.                               *)
ClaimNothing(i) ==
    /\ pc[i] = "tick" /\ ~cancelled[i]
    /\ \E locked \in LockedElsewhere(i) : Due(ClaimBatch, locked) = {}
    /\ pc' = [pc EXCEPT ![i] = "pause"]
    /\ UNCHANGED <<qvars, cancelled, batch, claimed, tally, wvars, expired, bvars>>

(* The claim fails: always when the context is done, otherwise by a fault. *)
(* Nothing reached the table.                                              *)
ClaimFails(i) ==
    /\ pc[i] = "tick"
    /\ pc' = [pc EXCEPT ![i] = "pause"]
    /\ IF cancelled[i] THEN UNCHANGED faults ELSE Fault
    /\ UNCHANGED <<qvars, cancelled, batch, claimed, tally, wvars, expired, stops>>

(* The claim commits but its answer does not arrive: the rows are leased,  *)
(* and nobody works on them.                                               *)
ClaimLost(i) ==
    /\ pc[i] = "tick" /\ ~cancelled[i]
    /\ Fault
    /\ \E locked \in LockedElsewhere(i) : Lease(Due(ClaimBatch, locked))
    /\ pc' = [pc EXCEPT ![i] = "pause"]
    /\ UNCHANGED <<cancelled, batch, claimed, tally, wvars, expired, stops>>

-----------------------------------------------------------------------------
(* Tick: the feed loop.  A send succeeds only when a worker receives; with *)
(* the context done as well, select may choose either case.                *)

Feed(i, w) ==
    /\ pc[i] = "feed"
    /\ Home[w] = i /\ wpc[w] = "recv"
    /\ \E r \in First(batch[i], 1) :
         /\ batch' = [batch EXCEPT ![i] = @ \ {r}]
         /\ wrow' = [wrow EXCEPT ![w] = r]
    /\ wpc' = [wpc EXCEPT ![w] = "limit"]
    /\ UNCHANGED <<qvars, pc, cancelled, claimed, tally, wout, expired, bvars>>

FeedDone(i) ==
    /\ pc[i] = "feed" /\ batch[i] = {}
    /\ pc' = [pc EXCEPT ![i] = "drain"]
    /\ UNCHANGED <<qvars, cancelled, batch, claimed, tally, wvars, expired, bvars>>

(* Mutant of FeedAbort: the send does not watch the context.               *)
FeedAbortNever(i) == FALSE

(* case <-ctx.Done(): the rest of the batch is given up, still leased.     *)
FeedAbort(i) ==
    /\ pc[i] = "feed" /\ cancelled[i] /\ batch[i] # {}
    /\ batch' = [batch EXCEPT ![i] = {}]
    /\ pc' = [pc EXCEPT ![i] = "abort"]
    /\ UNCHANGED <<qvars, cancelled, claimed, tally, wvars, expired, bvars>>

-----------------------------------------------------------------------------
(* Tick: after wg.Wait.                                                    *)

(* Mutant of WgWait: Tick goes on without its workers.                     *)
WgWaitSkipped(i) == TRUE

WgWait(i) == CrewGone(i)

(* Tick's local variables go out of scope.                                 *)
EndTick(i) == /\ claimed' = [claimed EXCEPT ![i] = 0]
              /\ tally' = [tally EXCEPT ![i] = NoTally]

(* The run is written to forge_sweep_runs, and Run ticks again at once.    *)
RecordRun(i) ==
    /\ pc[i] = "drain" /\ WgWait(i) /\ ~cancelled[i]
    /\ pc' = [pc EXCEPT ![i] = "tick"]
    /\ EndTick(i)
    /\ UNCHANGED <<qvars, cancelled, batch, wvars, expired, bvars>>

(* Writing it fails, which is only logged.                                 *)
RecordRunFails(i) ==
    /\ pc[i] = "drain" /\ WgWait(i)
    /\ IF cancelled[i] THEN UNCHANGED faults ELSE Fault
    /\ pc' = [pc EXCEPT ![i] = "tick"]
    /\ EndTick(i)
    /\ UNCHANGED <<qvars, cancelled, batch, wvars, expired, stops>>

(* The cancelled tick returns ctx.Err(), so Run goes to its select.        *)
AbortDone(i) ==
    /\ pc[i] = "abort" /\ WgWait(i)
    /\ pc' = [pc EXCEPT ![i] = "pause"]
    /\ EndTick(i)
    /\ UNCHANGED <<qvars, cancelled, batch, wvars, expired, bvars>>

-----------------------------------------------------------------------------
(* Run's select.                                                           *)

NextTick(i) ==
    /\ pc[i] = "pause" /\ ~cancelled[i]
    /\ pc' = [pc EXCEPT ![i] = "tick"]
    /\ UNCHANGED <<qvars, cancelled, batch, claimed, tally, wvars, expired, bvars>>

Return(i) ==
    /\ pc[i] = "pause" /\ cancelled[i]
    /\ pc' = [pc EXCEPT ![i] = "stopped"]
    /\ UNCHANGED <<qvars, cancelled, batch, claimed, tally, wvars, expired, bvars>>

Runner(i) == \/ ClaimRows(i) \/ ClaimNothing(i) \/ ClaimFails(i) \/ ClaimLost(i)
             \/ \E w \in Worker : Feed(i, w)
             \/ FeedDone(i) \/ FeedAbort(i)
             \/ RecordRun(i) \/ RecordRunFails(i) \/ AbortDone(i)
             \/ NextTick(i) \/ Return(i)
-----------------------------------------------------------------------------
(* One worker goroutine: for req := range queue.                           *)

(* The channel is closed and nothing is left to receive.                   *)
RangeEnds(w) ==
    /\ wpc[w] = "recv" /\ pc[Home[w]] \in {"drain", "abort"}
    /\ wpc' = [wpc EXCEPT ![w] = "idle"]
    /\ UNCHANGED <<qvars, rvars, wrow, wout, expired, bvars>>

(* The goroutine returns in the middle of its request.                     *)
Quit(w) ==
    /\ wpc' = [wpc EXCEPT ![w] = "idle"]
    /\ wrow' = [wrow EXCEPT ![w] = NoRow]
    /\ wout' = [wout EXCEPT ![w] = "none"]
    /\ UNCHANGED <<qvars, rvars, expired, bvars>>

(* Limiter.Wait returns an error when the context is done, and also, at    *)
(* once, when one token is more than the bucket can ever hold.             *)
LimiterErrs(w) == cancelled[Home[w]] \/ Burst < 1

LimiterGrants(w) ==
    /\ wpc[w] = "limit" /\ ~LimiterErrs(w)
    /\ wpc' = [wpc EXCEPT ![w] = "fetch"]
    /\ UNCHANGED <<qvars, rvars, wrow, wout, expired, bvars>>

LimiterRefuses(w) == wpc[w] = "limit" /\ LimiterErrs(w) /\ Quit(w)

(* Fetch returns its outcome, which is counted.                            *)
FetchReturns(w) ==
    /\ wpc[w] = "fetch" /\ ~cancelled[Home[w]]
    /\ \E o \in Outcome :
         /\ wout' = [wout EXCEPT ![w] = o]
         /\ tally' = [tally EXCEPT ![Home[w]][o] = @ + 1]
    /\ wpc' = [wpc EXCEPT ![w] = "complete"]
    /\ UNCHANGED <<qvars, pc, cancelled, batch, claimed, wrow, expired, bvars>>

(* A cancelled fetch is not a result.                                      *)
FetchCancelled(w) == wpc[w] = "fetch" /\ cancelled[Home[w]] /\ Quit(w)

(* The worker has finished with its request and receives again.            *)
NextRequest(w) ==
    /\ wpc' = [wpc EXCEPT ![w] = "recv"]
    /\ wrow' = [wrow EXCEPT ![w] = NoRow]
    /\ wout' = [wout EXCEPT ![w] = "none"]

(* Complete commits.  The answer of the statement makes no difference: an  *)
(* error is only logged.  A statement under way when the context is done   *)
(* may still commit.                                                       *)
Complete(w) ==
    /\ wpc[w] = "complete"
    /\ WriteResult(wrow[w], wout[w])
    /\ NextRequest(w)
    /\ UNCHANGED <<rvars, expired, bvars>>

(* Complete does not reach the table.                                      *)
CompleteFails(w) ==
    /\ wpc[w] = "complete"
    /\ IF cancelled[Home[w]] THEN UNCHANGED faults ELSE Fault
    /\ NextRequest(w)
    /\ UNCHANGED <<qvars, rvars, expired, stops>>

Work(w) == \/ RangeEnds(w) \/ LimiterGrants(w) \/ LimiterRefuses(w)
           \/ FetchReturns(w) \/ FetchCancelled(w)
           \/ Complete(w) \/ CompleteFails(w)

-----------------------------------------------------------------------------
(* What happens to a process, and to the queue, from outside.              *)

(* SIGTERM: the context of the process is done.                            *)
Cancel(i) ==
    /\ pc[i] # "stopped" /\ ~cancelled[i]
    /\ stops < MaxStops /\ stops' = stops + 1
    /\ cancelled' = [cancelled EXCEPT ![i] = TRUE]
    /\ UNCHANGED <<qvars, pc, batch, claimed, tally, wvars, expired, faults>>

(* The process dies: its goroutines are gone, the table stays as it is.    *)
Crash(i) ==
    /\ pc[i] # "stopped"
    /\ stops < MaxStops /\ stops' = stops + 1
    /\ pc' = [pc EXCEPT ![i] = "stopped"]
    /\ batch' = [batch EXCEPT ![i] = {}]
    /\ wpc' = [w \in Worker |-> IF Home[w] = i THEN "idle" ELSE wpc[w]]
    /\ wrow' = [w \in Worker |-> IF Home[w] = i THEN NoRow ELSE wrow[w]]
    /\ wout' = [w \in Worker |-> IF Home[w] = i THEN "none" ELSE wout[w]]
    /\ EndTick(i)
    /\ UNCHANGED <<qvars, cancelled, expired, faults>>

(* restart: unless-stopped.                                                *)
Restart(i) ==
    /\ pc[i] = "stopped"
    /\ pc' = [pc EXCEPT ![i] = "tick"]
    /\ cancelled' = [cancelled EXCEPT ![i] = FALSE]
    /\ UNCHANGED <<qvars, batch, claimed, tally, wvars, expired, bvars>>

SiteAsks(r) == Enqueue(r) /\ UNCHANGED <<rvars, wvars, expired, bvars>>

LeaseLapses(r) == /\ Lapse(r)
                  /\ expired' = expired \cup {r}
                  /\ UNCHANGED <<rvars, wvars, bvars>>

Next == \/ \E i \in Inst : Runner(i) \/ Cancel(i) \/ Crash(i) \/ Restart(i)
        \/ \E w \in Worker : Work(w)
        \/ \E r \in Row : SiteAsks(r) \/ LeaseLapses(r)

Spec == Init /\ [][Next]_vars

(* Every goroutine keeps running, every statement and every fetch returns  *)
(* (they have timeouts), time passes, and a stopped process is restarted.  *)
(* The Site need not ask, and nothing has to fail.                         *)
Fairness == /\ \A i \in Inst : WF_vars(Runner(i)) /\ WF_vars(Restart(i))
            /\ \A w \in Worker : WF_vars(Work(w))
            /\ \A r \in Row : WF_vars(LeaseLapses(r))

FairSpec == Spec /\ Fairness
-----------------------------------------------------------------------------
(* Properties.                                                             *)

PC == {"tick", "feed", "drain", "abort", "pause", "stopped"}
WPC == {"idle", "recv", "limit", "fetch", "complete"}

(* The type invariant of the table, the runners and the workers.           *)
TypeOK ==
    /\ QueueTypeOK
    /\ pc \in [Inst -> PC]
    /\ cancelled \in [Inst -> BOOLEAN]
    /\ batch \in [Inst -> SUBSET Row]
    /\ claimed \in [Inst -> Nat]
    /\ tally \in [Inst -> [Outcome -> Nat]]
    /\ wpc \in [Worker -> WPC]
    /\ wrow \in [Worker -> Row \cup {NoRow}]
    /\ wout \in [Worker -> Outcome \cup {"none"}]
    /\ expired \subseteq Row
    /\ stops \in Nat /\ faults \in Nat

(* A goroutine has a request exactly while it is between receiving it and  *)
(* completing it.                                                          *)
Busy(w) == wpc[w] \in {"limit", "fetch", "complete"}

(* Inside one process no request is in flight twice, not even after its    *)
(* lease has lapsed: Tick waits for its workers before it claims again.    *)
SingleFlight ==
    /\ \A w \in Worker : Busy(w) => wrow[w] \notin batch[Home[w]]
    /\ \A v, w \in Worker :
         v # w /\ Home[v] = Home[w] /\ Busy(v) /\ Busy(w) => wrow[v] # wrow[w]

(* Request r is in the hands of process i: claimed by it and not finished. *)
Holds(i, r) == r \in batch[i] \/ \E w \in Crew(i) : Busy(w) /\ wrow[w] = r

(* Two processes work on one request only if its lease lapsed: SKIP LOCKED *)
(* and the lease are the only things that keep overlapping processes apart.*)
DoubleFetchOnlyAfterLapse ==
    \A i, j \in Inst : \A r \in Row :
        i # j /\ Holds(i, r) /\ Holds(j, r) => r \in expired

(* A row of forge_sweep_runs accounts for every request of its claim: no   *)
(* worker's tally is lost or counted twice however the workers interleave. *)
RunLogAddsUp ==
    [][\A i \in Inst : RecordRun(i) =>
          claimed[i] = tally[i]["ok"] + tally[i]["unranked"] + tally[i]["transient"]]_vars

(* A claim that finds competition rows waiting takes at least one of them, *)
(* whatever the late-joiner lane holds: "a burst of late adds can slow the *)
(* competition lane, never stop it".                                       *)
Competition == {r \in Pending : lane[r] = 0}
Claims(i) == pc[i] = "tick" /\ pc'[i] = "feed"
CompetitionNeverStopped ==
    [][\A i \in Inst :
          Claims(i) /\ Competition # {} => batch'[i] \cap Competition # {}]_vars

(* A late joiner waits for no other lane: while any is pending, a claim    *)
(* takes one, and the claim is no smaller than what is waiting allows.     *)
LateJoinersServed ==
    [][\A i \in Inst : Claims(i) =>
          /\ Late(Pending) # {} => Late(batch'[i]) # {}
          /\ Late(Pending) = {} =>
               claimed'[i] = IF Cardinality(Pending) < ClaimBatch
                               THEN Cardinality(Pending) ELSE ClaimBatch]_vars

(* The queue does what FetchContract promises: an answer goes to a request *)
(* the Site made, and the first answer is final, though a second process   *)
(* may still be fetching the same row.                                     *)
Contract == INSTANCE FetchContract WITH submitted <- rows, answer <- result
ContractKept == Contract!Spec

(* ... and every request is answered, through crashes, cancellations and   *)
(* failed statements, by nothing but the lapse of leases.                  *)
ContractHonoured == Contract!FairSpec

(* Nobody waits for ever on a process that was told to stop: the feeder    *)
(* and all its workers notice.                                             *)
ShutdownCompletes ==
    \A i \in Inst : cancelled[i] ~> pc[i] = "stopped"
=============================================================================

----------------------------- MODULE Delivery -----------------------------
(***************************************************************************)
(* internal/discord: the delivery worker of each Forge process claims a    *)
(* batch, hands it over an unbuffered channel to its goroutines, which     *)
(* wait for the webhook's budget, post to Discord and write the verdict    *)
(* back.  When a webhook's budget lets a post through is left open here.   *)
(***************************************************************************)
EXTENDS DeliveryQueue

CONSTANTS Inst,        (* Forge processes                                  *)
          Worker,      (* delivery goroutines, all processes together      *)
          Home,        (* the process each goroutine belongs to            *)
          NoMsg,       (* what a goroutine without a message holds         *)
          ClaimBatch,  (* FORGE_DISCORD_CLAIM_BATCH                        *)
          MaxStops,    (* bound: cancellations and crashes in a behaviour  *)
          MaxFaults    (* bound: failed statements in a behaviour          *)

ASSUME HomeAssumption == Home \in [Worker -> Inst]
ASSUME NoMsgAssumption == NoMsg \notin Msg
ASSUME BatchAssumption == ClaimBatch \in Nat
ASSUME BoundAssumption == MaxStops \in Nat /\ MaxFaults \in Nat

VARIABLES
  pc,         (* where the loop of each process is                         *)
  cancelled,  (* the process's context is done                             *)
  batch,      (* claimed messages not handed out yet                       *)
  claimed,    (* len(claims)                                               *)
  wpc,        (* where each goroutine is; "idle" when there is none        *)
  wmsg,       (* the message it holds                                      *)
  wverdict,   (* what Send made of it                                      *)
  sends,      (* history: calls of Send with each message                  *)
  confirmed,  (* history: messages Discord has accepted with a 2xx         *)
  stops,      (* bounded by MaxStops                                       *)
  faults      (* bounded by MaxFaults                                      *)

rvars == <<pc, cancelled, batch, claimed>>
wvars == <<wpc, wmsg, wverdict>>
hvars == <<sends, confirmed>>
bvars == <<stops, faults>>
vars == <<qvars, rvars, wvars, hvars, bvars>>

Crew(i) == {w \in Worker : Home[w] = i}
CrewGone(i) == \A w \in Crew(i) : wpc[w] = "idle"

Init == /\ QueueInit
        /\ pc = [i \in Inst |-> "claim"]
        /\ cancelled = [i \in Inst |-> FALSE]
        /\ batch = [i \in Inst |-> {}]
        /\ claimed = [i \in Inst |-> 0]
        /\ wpc = [w \in Worker |-> "idle"]
        /\ wmsg = [w \in Worker |-> NoMsg]
        /\ wverdict = [w \in Worker |-> "none"]
        /\ sends = [m \in Msg |-> 0]
        /\ confirmed = {}
        /\ stops = 0
        /\ faults = 0

Fault == faults < MaxFaults /\ faults' = faults + 1

-----------------------------------------------------------------------------
(* drain: the claim.                                                       *)

ClaimRows(i) ==
    /\ pc[i] = "claim" /\ ~cancelled[i]
    /\ \E S \in Selections(ClaimBatch) \ {{}} :
         /\ Lease(S)
         /\ batch' = [batch EXCEPT ![i] = S]
         /\ claimed' = [claimed EXCEPT ![i] = Cardinality(S)]
    /\ wpc' = [w \in Worker |-> IF Home[w] = i THEN "recv" ELSE wpc[w]]
    /\ pc' = [pc EXCEPT ![i] = "feed"]
    /\ UNCHANGED <<cancelled, wmsg, wverdict, hvars, bvars>>

(* An empty claim; with a claim batch of zero Run does not even idle.      *)
ClaimNothing(i) ==
    /\ pc[i] = "claim" /\ ~cancelled[i]
    /\ {} \in Selections(ClaimBatch)
    /\ pc' = [pc EXCEPT ![i] = IF 0 < ClaimBatch THEN "idle" ELSE "claim"]
    /\ UNCHANGED <<qvars, cancelled, batch, claimed, wvars, hvars, bvars>>

(* The claim fails before it changes a row, and Run waits for the ticker.  *)
ClaimFails(i) ==
    /\ pc[i] = "claim" /\ ~cancelled[i] /\ Fault
    /\ pc' = [pc EXCEPT ![i] = "idle"]
    /\ UNCHANGED <<qvars, cancelled, batch, claimed, wvars, hvars, stops>>

(* The claim commits, and its answer is lost.                              *)
ClaimLost(i) ==
    /\ pc[i] = "claim" /\ ~cancelled[i] /\ Fault
    /\ \E S \in Selections(ClaimBatch) : Lease(S)
    /\ pc' = [pc EXCEPT ![i] = "idle"]
    /\ UNCHANGED <<cancelled, batch, claimed, wvars, hvars, stops>>

(* With the context done the claim errs, and Run returns.                  *)
ClaimCancelled(i) ==
    /\ pc[i] = "claim" /\ cancelled[i]
    /\ pc' = [pc EXCEPT ![i] = "stopped"]
    /\ UNCHANGED <<qvars, cancelled, batch, claimed, wvars, hvars, bvars>>

-----------------------------------------------------------------------------
(* drain: the feed loop.  UPDATE ... RETURNING does not order its rows, so *)
(* the batch is handed out in any order.                                   *)

Feed(i, w) ==
    /\ pc[i] = "feed"
    /\ Home[w] = i /\ wpc[w] = "recv"
    /\ \E m \in batch[i] :
         /\ batch' = [batch EXCEPT ![i] = @ \ {m}]
         /\ wmsg' = [wmsg EXCEPT ![w] = m]
    /\ wpc' = [wpc EXCEPT ![w] = "limit"]
    /\ UNCHANGED <<qvars, pc, cancelled, claimed, wverdict, hvars, bvars>>

FeedDone(i) ==
    /\ pc[i] = "feed" /\ batch[i] = {}
    /\ pc' = [pc EXCEPT ![i] = "wait"]
    /\ UNCHANGED <<qvars, cancelled, batch, claimed, wvars, hvars, bvars>>

(* Mutant of FeedAbort: the send does not watch the context.               *)
FeedAbortNever(i) == FALSE

(* case <-ctx.Done(): what is left of the batch is given up as it is.      *)
FeedAbort(i) ==
    /\ pc[i] = "feed" /\ cancelled[i] /\ batch[i] # {}
    /\ batch' = [batch EXCEPT ![i] = {}]
    /\ pc' = [pc EXCEPT ![i] = "abort"]
    /\ UNCHANGED <<qvars, cancelled, claimed, wvars, hvars, bvars>>

(* wg.Wait returns.  A full claim means there may be more.                 *)
Drained(i) ==
    /\ pc[i] = "wait" /\ CrewGone(i)
    /\ pc' = [pc EXCEPT ![i] = IF claimed[i] < ClaimBatch THEN "idle" ELSE "claim"]
    /\ claimed' = [claimed EXCEPT ![i] = 0]
    /\ UNCHANGED <<qvars, cancelled, batch, wvars, hvars, bvars>>

(* The aborted drain returns ctx.Err(), and so does Run.                   *)
Aborted(i) ==
    /\ pc[i] = "abort" /\ CrewGone(i)
    /\ pc' = [pc EXCEPT ![i] = "stopped"]
    /\ claimed' = [claimed EXCEPT ![i] = 0]
    /\ UNCHANGED <<qvars, cancelled, batch, wvars, hvars, bvars>>

(* Run's select.                                                           *)
Tick(i) ==
    /\ pc[i] = "idle" /\ ~cancelled[i]
    /\ pc' = [pc EXCEPT ![i] = "claim"]
    /\ UNCHANGED <<qvars, cancelled, batch, claimed, wvars, hvars, bvars>>

Return(i) ==
    /\ pc[i] = "idle" /\ cancelled[i]
    /\ pc' = [pc EXCEPT ![i] = "stopped"]
    /\ UNCHANGED <<qvars, cancelled, batch, claimed, wvars, hvars, bvars>>

Run(i) == \/ ClaimRows(i) \/ ClaimNothing(i) \/ ClaimFails(i) \/ ClaimLost(i)
          \/ ClaimCancelled(i)
          \/ \E w \in Worker : Feed(i, w)
          \/ FeedDone(i) \/ FeedAbort(i) \/ Drained(i) \/ Aborted(i)
          \/ Tick(i) \/ Return(i)
-----------------------------------------------------------------------------
(* One goroutine: for d := range queue.                                    *)

RangeEnds(w) ==
    /\ wpc[w] = "recv" /\ pc[Home[w]] \in {"wait", "abort"}
    /\ wpc' = [wpc EXCEPT ![w] = "idle"]
    /\ UNCHANGED <<qvars, rvars, wmsg, wverdict, hvars, bvars>>

(* The webhook's budget lets the post through.                             *)
LimiterGrants(w) ==
    /\ wpc[w] = "limit" /\ ~cancelled[Home[w]]
    /\ wpc' = [wpc EXCEPT ![w] = "send"]
    /\ UNCHANGED <<qvars, rvars, wmsg, wverdict, hvars, bvars>>

(* The context is done: the goroutine returns with its message in hand.    *)
LimiterRefuses(w) ==
    /\ wpc[w] = "limit" /\ cancelled[Home[w]]
    /\ wpc' = [wpc EXCEPT ![w] = "idle"]
    /\ wmsg' = [wmsg EXCEPT ![w] = NoMsg]
    /\ UNCHANGED <<qvars, rvars, wverdict, hvars, bvars>>

(* What Send can make of a post.  "retry" stands for 429, for 5xx and for  *)
(* a broken connection, after which Discord may well have posted it; a     *)
(* malformed URL is "dead" without a request, whatever the context says.   *)
PossibleVerdicts(i) == IF cancelled[i] THEN {"retry", "dead"} ELSE Verdict

Send(w) ==
    /\ wpc[w] = "send"
    /\ \E v \in PossibleVerdicts(Home[w]) :
         /\ wverdict' = [wverdict EXCEPT ![w] = v]
         /\ confirmed' = IF v = "delivered" THEN confirmed \cup {wmsg[w]}
                                            ELSE confirmed
    /\ sends' = [sends EXCEPT ![wmsg[w]] = @ + 1]
    /\ wpc' = [wpc EXCEPT ![w] = "complete"]
    /\ UNCHANGED <<qvars, rvars, wmsg, bvars>>

NextDelivery(w) ==
    /\ wpc' = [wpc EXCEPT ![w] = "recv"]
    /\ wmsg' = [wmsg EXCEPT ![w] = NoMsg]
    /\ wverdict' = [wverdict EXCEPT ![w] = "none"]

(* Complete commits; whether it also reports an error makes no difference. *)
Complete(w) ==
    /\ wpc[w] = "complete"
    /\ WriteVerdict(wmsg[w], wverdict[w])
    /\ NextDelivery(w)
    /\ UNCHANGED <<rvars, hvars, bvars>>

(* Complete does not reach the table: always possible once the context is  *)
(* done, by a fault otherwise.  The error is logged.                       *)
CompleteFails(w) ==
    /\ wpc[w] = "complete"
    /\ IF cancelled[Home[w]] THEN UNCHANGED faults ELSE Fault
    /\ NextDelivery(w)
    /\ UNCHANGED <<qvars, rvars, hvars, stops>>

Work(w) == \/ RangeEnds(w) \/ LimiterGrants(w) \/ LimiterRefuses(w)
           \/ Send(w) \/ Complete(w) \/ CompleteFails(w)

-----------------------------------------------------------------------------
(* What happens to a process, and to the queue, from outside.              *)

Cancel(i) ==
    /\ pc[i] # "stopped" /\ ~cancelled[i]
    /\ stops < MaxStops /\ stops' = stops + 1
    /\ cancelled' = [cancelled EXCEPT ![i] = TRUE]
    /\ UNCHANGED <<qvars, pc, batch, claimed, wvars, hvars, faults>>

(* The process dies: its goroutines are gone, the table stays as it is.    *)
Crash(i) ==
    /\ pc[i] # "stopped"
    /\ stops < MaxStops /\ stops' = stops + 1
    /\ pc' = [pc EXCEPT ![i] = "stopped"]
    /\ batch' = [batch EXCEPT ![i] = {}]
    /\ claimed' = [claimed EXCEPT ![i] = 0]
    /\ wpc' = [w \in Worker |-> IF Home[w] = i THEN "idle" ELSE wpc[w]]
    /\ wmsg' = [w \in Worker |-> IF Home[w] = i THEN NoMsg ELSE wmsg[w]]
    /\ wverdict' = [w \in Worker |-> IF Home[w] = i THEN "none" ELSE wverdict[w]]
    /\ UNCHANGED <<qvars, cancelled, hvars, faults>>

(* restart: unless-stopped.                                                *)
Restart(i) ==
    /\ pc[i] = "stopped"
    /\ pc' = [pc EXCEPT ![i] = "claim"]
    /\ cancelled' = [cancelled EXCEPT ![i] = FALSE]
    /\ UNCHANGED <<qvars, batch, claimed, wvars, hvars, bvars>>

SiteAsks(m) == Enqueue(m) /\ UNCHANGED <<rvars, wvars, hvars, bvars>>

(* The time of m passes, perhaps together with that of others.             *)
TimePasses(m) == \E S \in SUBSET Msg :
                    m \in S /\ ComeDue(S) /\ UNCHANGED <<rvars, wvars, hvars, bvars>>

(* housekeep, in a process that is still there.                            *)
Prune(m) == /\ \E i \in Inst : pc[i] # "stopped"
            /\ PruneRow(m)
            /\ UNCHANGED <<rvars, wvars, hvars, bvars>>

Next == \/ \E i \in Inst : Run(i) \/ Cancel(i) \/ Crash(i) \/ Restart(i)
        \/ \E w \in Worker : Work(w)
        \/ \E m \in Msg : SiteAsks(m) \/ TimePasses(m) \/ Prune(m)

Spec == Init /\ [][Next]_vars

(* Goroutines run, statements and posts return, the limiter grants in the  *)
(* end, time passes, a stopped process is restarted.                       *)
Fairness == /\ \A i \in Inst : WF_vars(Run(i)) /\ WF_vars(Restart(i))
            /\ \A w \in Worker : WF_vars(Work(w))
            /\ \A m \in Msg : WF_vars(TimePasses(m))

FairSpec == Spec /\ Fairness

-----------------------------------------------------------------------------
(* Properties.                                                             *)

PC == {"claim", "feed", "wait", "abort", "idle", "stopped"}
WPC == {"idle", "recv", "limit", "send", "complete"}

(* The type invariant of the table, the loops and the goroutines.          *)
TypeOK ==
    /\ QueueTypeOK
    /\ pc \in [Inst -> PC]
    /\ cancelled \in [Inst -> BOOLEAN]
    /\ batch \in [Inst -> SUBSET Msg]
    /\ claimed \in [Inst -> Nat]
    /\ wpc \in [Worker -> WPC]
    /\ wmsg \in [Worker -> Msg \cup {NoMsg}]
    /\ wverdict \in [Worker -> Verdict \cup {"none"}]
    /\ sends \in [Msg -> Nat]
    /\ confirmed \subseteq Msg
    /\ stops \in Nat /\ faults \in Nat

(* A goroutine has a message between receiving it and completing it.       *)
Busy(w) == wpc[w] \in {"limit", "send", "complete"}

(* Complete overwrites the row whatever its status, and so is correct only *)
(* because a message in anybody's hands is marked 'delivering' and is in   *)
(* nobody else's, in this process or another.                              *)
ExclusiveHolder ==
    /\ \A i \in Inst : \A m \in batch[i] : status[m] = "delivering"
    /\ \A w \in Worker : Busy(w) => status[wmsg[w]] = "delivering"
    /\ \A i, j \in Inst : i # j => batch[i] \cap batch[j] = {}
    /\ \A i \in Inst : \A w \in Worker : Busy(w) => wmsg[w] \notin batch[i]
    /\ \A v, w \in Worker : v # w /\ Busy(v) /\ Busy(w) => wmsg[v] # wmsg[w]

(* However claims, failures and restarts interleave, no message is posted  *)
(* more than MaxAttempts times, nor claimed more often than that.          *)
AttemptBudget ==
    LateReplay \/ \A m \in Msg : sends[m] <= MaxAttempts /\ attempts[m] <= MaxAttempts

(* What Discord has confirmed is not posted again: not when the verdict    *)
(* could not be written, not after a crash, not when the Site replays its  *)
(* event ("re-processing an outbox event cannot double-post").             *)
ConfirmedNotResent ==
    [][\A m \in Msg : m \in confirmed => sends'[m] = sends[m]]_vars

(* A verdict is final: a failed message stays failed although Claim looks  *)
(* at failed rows, and only pruning ends a delivered one.                  *)
Final == {"delivered", "failed", "dead"}
VerdictsAreFinal ==
    [][\A m \in Msg : status[m] \in Final =>
          status'[m] = status[m] \/ (status[m] = "delivered" /\ status'[m] = "absent")]_vars

(* What the Site may rely on, through stops and failures: bounded posts,   *)
(* none after a confirmation, and a final verdict that says "delivered" if *)
(* and only if Discord has confirmed.  A pruned row was delivered.         *)
Asked == {m \in Msg : status[m] # "absent" \/ m \in pruned}
VerdictOf(m) == CASE m \in pruned -> "delivered"
                  [] m \notin pruned /\ status[m] \in Final -> status[m]
                  [] m \notin pruned /\ status[m] \notin Final -> "none"
Contract == INSTANCE DeliveryContract WITH
              asked <- Asked, posts <- sends, verdict <- [m \in Msg |-> VerdictOf(m)]
DeliveryContractKept == Contract!Spec

(* Every message reaches a verdict, and none is left 'delivering': what    *)
(* Claim's comment promises even of "a crashed worker's messages".         *)
EveryMessageSettles ==
    \A m \in Msg : status[m] \in {"pending", "delivering"} ~> status[m] \in Final

(* As long as no process stops and no statement fails, every message       *)
(* reaches a verdict, whatever Discord answers.                            *)
SettlesUndisturbed ==
    \A m \in Msg : status[m] \in {"pending", "delivering"} ~>
                      status[m] \in Final \/ stops > 0 \/ faults > 0

(* A message that waits is not forgotten, stops and failures or not: only  *)
(* one that was claimed can be lost.                                       *)
WaitingGetsClaimed ==
    \A m \in Msg : status[m] = "pending" ~> status[m] # "pending"

(* Run returns after the context is done, wherever it and its goroutines   *)
(* are.                                                                    *)
ShutdownCompletes ==
    \A i \in Inst : cancelled[i] ~> pc[i] = "stopped"
=============================================================================

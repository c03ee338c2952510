--------------------------- MODULE PacedDelivery ---------------------------
(***************************************************************************)
(* internal/discord and internal/ratelimit together, with a clock: the     *)
(* goroutines of Delivery call the limiter of KeyedLimiter, a 429 holds    *)
(* its webhook, and next_attempt_at is a time.  One process that nobody    *)
(* stops and whose statements do not fail; retention is longer than the    *)
(* horizon.  Delivery, which leaves all timing open, is implemented.       *)
(***************************************************************************)
EXTENDS KeyedLimiter, Sequences

(* The callers of the limiter are the goroutines; a 429 says one of Hold.  *)
CONSTANTS Msg, Priority, NoMsg, MaxAttempts, ClaimBatch,  (* as in Delivery *)
          Bucket,      (* the webhook bucket of each message               *)
          Delays,      (* the retry schedule, in ticks                     *)
          ClaimLease   (* FORGE_DISCORD_CLAIM_LEASE, in ticks              *)

ASSUME PriorityAssumption == Priority \in [Msg -> Int]
ASSUME NoMsgAssumption == NoMsg \notin Msg
ASSUME BatchAssumption == ClaimBatch \in Nat
ASSUME BucketAssumption == Bucket \in [Msg -> Key]
ASSUME DelaysAssumption == Delays \in Seq(Nat \ {0}) \ {<<>>}
ASSUME LeaseAssumption == ClaimLease \in Nat \ {0}

VARIABLES
  status, attempts,
  nextAt,     (* next_attempt_at, or Never                                 *)
  pc, batch, claimed, wpc, wmsg, wverdict, sends, confirmed,
  wretry,     (* res.RetryAfter; 0 when no 429 came                        *)
  firstSend,  (* history: when each message was first posted               *)
  limited,    (* history: messages that were answered by a 429             *)
  intoHold    (* history: posts to each webhook since its hold was last    *)
              (* extended and before it ends                               *)

qvars == <<status, attempts, nextAt>>
rvars == <<pc, batch, claimed>>
wvars == <<wpc, wmsg, wverdict, wretry>>
hvars == <<sends, confirmed, firstSend, limited, intoHold>>
pvars == <<vars, qvars, rvars, wvars, hvars>>

Never == -1

PacedInit ==
    /\ Init /\ ckey = [w \in Caller |-> CHOOSE k \in Key : TRUE]
    /\ status = [m \in Msg |-> "absent"]
    /\ attempts = [m \in Msg |-> 0]
    /\ nextAt = [m \in Msg |-> 0]
    /\ pc = "claim"
    /\ batch = {}
    /\ claimed = 0
    /\ wpc = [w \in Caller |-> "idle"]
    /\ wmsg = [w \in Caller |-> NoMsg]
    /\ wverdict = [w \in Caller |-> "none"]
    /\ wretry = [w \in Caller |-> 0]
    /\ sends = [m \in Msg |-> 0]
    /\ confirmed = {}
    /\ firstSend = [m \in Msg |-> Never]
    /\ limited = {}
    /\ intoHold = [k \in Key |-> 0]

-----------------------------------------------------------------------------
(* Enqueue: next_attempt_at defaults to now().                             *)
SiteAsks(m) ==
    /\ status[m] = "absent"
    /\ status' = [status EXCEPT ![m] = "pending"]
    /\ nextAt' = [nextAt EXCEPT ![m] = now]
    /\ UNCHANGED <<vars, attempts, rvars, wvars, hvars>>

Claimable == {m \in Msg : /\ status[m] \in {"pending", "failed"}
                          /\ nextAt[m] # Never /\ nextAt[m] <= now}

(* ORDER BY priority DESC, next_attempt_at.                                *)
NoLater(m, n) == \/ Priority[m] > Priority[n]
                 \/ Priority[m] = Priority[n] /\ nextAt[m] <= nextAt[n]
Selections == {S \in SUBSET Claimable :
                  /\ Cardinality(S) <= ClaimBatch
                  /\ Claimable \ S # {} => Cardinality(S) = ClaimBatch
                  /\ \A m \in S : \A n \in Claimable \ S : NoLater(m, n)}

ClaimRows ==
    /\ pc = "claim"
    /\ \E S \in Selections \ {{}} :
         /\ status' = [m \in Msg |-> IF m \in S THEN "delivering" ELSE status[m]]
         /\ attempts' = [m \in Msg |-> IF m \in S THEN attempts[m] + 1 ELSE attempts[m]]
         /\ nextAt' = [m \in Msg |-> IF m \in S THEN now + ClaimLease ELSE nextAt[m]]
         /\ batch' = S
         /\ claimed' = Cardinality(S)
    /\ wpc' = [w \in Caller |-> "recv"]
    /\ pc' = "feed"
    /\ UNCHANGED <<vars, wmsg, wverdict, wretry, hvars>>

ClaimNothing ==
    /\ pc = "claim" /\ {} \in Selections
    /\ pc' = IF 0 < ClaimBatch THEN "idle" ELSE "claim"
    /\ UNCHANGED <<vars, qvars, batch, claimed, wvars, hvars>>

Feed(w) ==
    /\ pc = "feed" /\ wpc[w] = "recv"
    /\ \E m \in batch : batch' = batch \ {m} /\ wmsg' = [wmsg EXCEPT ![w] = m]
    /\ wpc' = [wpc EXCEPT ![w] = "limit"]
    /\ UNCHANGED <<vars, qvars, pc, claimed, wverdict, wretry, hvars>>

FeedDone ==
    /\ pc = "feed" /\ batch = {}
    /\ pc' = "wait"
    /\ UNCHANGED <<vars, qvars, batch, claimed, wvars, hvars>>

Drained ==
    /\ pc = "wait" /\ \A w \in Caller : wpc[w] = "idle"
    /\ pc' = IF claimed < ClaimBatch THEN "idle" ELSE "claim"
    /\ claimed' = 0
    /\ UNCHANGED <<vars, qvars, batch, wvars, hvars>>

Tick ==
    /\ pc = "idle"
    /\ pc' = "claim"
    /\ UNCHANGED <<vars, qvars, batch, claimed, wvars, hvars>>

RangeEnds(w) ==
    /\ wpc[w] = "recv" /\ pc = "wait"
    /\ wpc' = [wpc EXCEPT ![w] = "idle"]
    /\ UNCHANGED <<vars, qvars, rvars, wmsg, wverdict, wretry, hvars>>

-----------------------------------------------------------------------------
(* w.Limiter.Wait(ctx, d.Bucket), in the steps of the limiter.             *)
Wait(w) ==
    /\ wpc[w] = "limit"
    /\ \/ /\ Call(w, Bucket[wmsg[w]]) \/ Reserve(w)
          /\ UNCHANGED wpc
       \/ /\ Return(w)
          /\ wpc' = [wpc EXCEPT ![w] = "send"]
    /\ UNCHANGED <<qvars, rvars, wmsg, wverdict, wretry, hvars>>

(* A 429 is a retry with an instruction: parseRetryAfter takes a positive  *)
(* one from the body or the header, and a second if there is none.         *)
Send(w) ==
    LET m == wmsg[w]
        k == Bucket[m]
    IN  /\ wpc[w] = "send"
        /\ \E v \in {"delivered", "retry", "dead", "drop"}, d \in Hold \cup {0} :
             /\ d > 0 => v = "retry"
             /\ wverdict' = [wverdict EXCEPT ![w] = v]
             /\ wretry' = [wretry EXCEPT ![w] = d]
             /\ confirmed' = IF v = "delivered" THEN confirmed \cup {m} ELSE confirmed
             /\ limited' = IF d > 0 THEN limited \cup {m} ELSE limited
             /\ wpc' = [wpc EXCEPT ![w] = IF d > 0 THEN "hold" ELSE "complete"]
        /\ sends' = [sends EXCEPT ![m] = @ + 1]
        /\ firstSend' = [firstSend EXCEPT ![m] = IF @ = Never THEN now ELSE @]
        /\ intoHold' = [intoHold EXCEPT ![k] = IF now < hold[k] THEN @ + 1 ELSE @]
        /\ UNCHANGED <<vars, qvars, rvars, wmsg>>

(* w.Limiter.ReserveFor(d.Bucket, res.RetryAfter).                         *)
HoldOff(w) ==
    LET k == Bucket[wmsg[w]]
    IN  /\ wpc[w] = "hold"
        /\ ReserveFor(k, wretry[w])
        /\ wpc' = [wpc EXCEPT ![w] = "complete"]
        /\ intoHold' = [intoHold EXCEPT ![k] = IF hold'[k] > hold[k] THEN 0 ELSE @]
        /\ UNCHANGED <<qvars, rvars, wmsg, wverdict, wretry, sends, confirmed,
                       firstSend, limited>>

(* The switch of Backoff: an entry per attempt, the last for all others.   *)
Backoff(n) == Delays[IF n <= 1 THEN 1 ELSE IF n < Len(Delays) THEN n ELSE Len(Delays)]

(* Mutants of Delay: no fallback; always the same.                         *)
DelayAsTold(m, d) == d
DelayFlat(m, d) == 1

(* "Discord's own instruction beats our guess whenever we have one."       *)
Delay(m, d) == IF d > 0 THEN d ELSE Backoff(attempts[m])

Exhausted(m) == attempts[m] >= MaxAttempts
StatusAfter(m, v) == CASE v \in {"delivered", "dead"} -> v
                       [] v = "drop" -> "failed"
                       [] v = "retry" -> IF Exhausted(m) THEN "failed" ELSE "pending"
NextAtAfter(m, v, d) == CASE v \in {"delivered", "dead"} -> nextAt[m]
                          [] v = "drop" -> Never
                          [] v = "retry" -> IF Exhausted(m) THEN Never
                                            ELSE now + Delay(m, d)

Complete(w) ==
    LET m == wmsg[w]
    IN  /\ wpc[w] = "complete"
        /\ status' = [status EXCEPT ![m] = StatusAfter(m, wverdict[w])]
        /\ nextAt' = [nextAt EXCEPT ![m] = NextAtAfter(m, wverdict[w], wretry[w])]
        /\ wpc' = [wpc EXCEPT ![w] = "recv"]
        /\ wmsg' = [wmsg EXCEPT ![w] = NoMsg]
        /\ wverdict' = [wverdict EXCEPT ![w] = "none"]
        /\ wretry' = [wretry EXCEPT ![w] = 0]
        /\ UNCHANGED <<vars, attempts, rvars, hvars>>

-----------------------------------------------------------------------------
(* housekeep evicts idle buckets; the clock, as KeyedLimiter has it.       *)
Housekeep == Sweep /\ UNCHANGED <<qvars, rvars, wvars, hvars>>
Passes == Advance /\ UNCHANGED <<qvars, rvars, wvars, hvars>>

PacedNext ==
    \/ \E m \in Msg : SiteAsks(m)
    \/ ClaimRows \/ ClaimNothing \/ FeedDone \/ Drained \/ Tick
    \/ \E w \in Caller : \/ Feed(w) \/ RangeEnds(w) \/ Wait(w)
                         \/ Send(w) \/ HoldOff(w) \/ Complete(w)
    \/ Housekeep \/ Passes

PacedSpec == PacedInit /\ [][PacedNext]_pvars
-----------------------------------------------------------------------------
(* Properties.                                                             *)

(* The state of Delivery that a state here stands for.                     *)
p1 == "the process"
DueAt(m) == IF nextAt[m] = Never THEN "never"
            ELSE IF nextAt[m] <= now THEN "now" ELSE "later"

D == INSTANCE Delivery WITH
       Inst <- {p1}, Worker <- Caller,
       Home <- [w \in Caller |-> p1],
       LateReplay <- FALSE, MaxStops <- 0, MaxFaults <- 0,
       due <- [m \in Msg |-> DueAt(m)],
       pruned <- {},
       pc <- [i \in {p1} |-> pc],
       cancelled <- [i \in {p1} |-> FALSE],
       batch <- [i \in {p1} |-> batch],
       claimed <- [i \in {p1} |-> claimed],
       wpc <- [w \in Caller |-> IF wpc[w] = "hold" THEN "complete" ELSE wpc[w]],
       stops <- 0, faults <- 0

(* With real times for leases and retries, and the limiter in between, the *)
(* worker does nothing that Delivery does not allow: what is shown there   *)
(* whatever the timing holds for this timing.                              *)
ImplementsDelivery == D!Spec

(* "It only helps if the NEXT message to the same webhook also waits": the *)
(* goroutines that were already past the hold may each post once more, and *)
(* the one that saw the 429 not even that.                                 *)
FewPostsIntoHold == \A k \in Key : intoHold[k] < Cardinality(Caller)

(* The n-th post of a message that met no 429 is at least the first n-1    *)
(* delays of the schedule after its first.                                 *)
Schedule(n) == SumFunction([i \in 1..(n - 1) |-> Backoff(i)])
KeepsSchedule ==
    [][\A w \in Caller : Send(w) /\ sends[wmsg[w]] > 0 /\ wmsg[w] \notin limited =>
          now - firstSend[wmsg[w]] >= Schedule(attempts[wmsg[w]])]_pvars
=============================================================================

--------------------------- MODULE HiscoresClient ---------------------------
(***************************************************************************)
(* internal/hiscores under the sweep's limiter: what the workers of one    *)
(* process send to Jagex, and when.  A worker takes one token of the       *)
(* process-wide bucket for each Fetch; Fetch makes up to Retries attempts. *)
(*                                                                         *)
(* Time is counted in ticks of one token (1/FORGE_HISCORES_RPS).           *)
(***************************************************************************)
EXTENDS Rsn, Integers, FiniteSets, Functions

CONSTANTS Worker,      (* the sweep's workers                              *)
          Asked,       (* what the queue asks for: names, each with        *)
                       (* whether there is a table for its mode            *)
          Burst,       (* FORGE_HISCORES_BURST                             *)
          Retries,     (* Client.Retries: attempts per fetch               *)
          RetryDelay,  (* the pause between two attempts                   *)
          Timeout,     (* an attempt fails after this long                 *)
          MaxTime      (* bound: the clock stops here                      *)

ASSUME WorkerAssumption == IsFiniteSet(Worker)
ASSUME BudgetAssumption == Burst \in Nat \ {0} /\ RetryDelay \in Nat /\ Timeout \in Nat
ASSUME AskedAssumption == Asked \subseteq Names \X BOOLEAN
ASSUME RetriesAssumption == Retries \in Int
ASSUME MaxTimeAssumption == MaxTime \in Nat

VARIABLES now,
          promised,   (* the bucket: the tick after the last token given   *)
          cancelled,  (* the process's context is done                     *)
          wpc,        (* where each worker is                              *)
          wake,       (* when its timer fires                              *)
          attempt,    (* the attempt its Fetch is at                       *)
          outcome,    (* what its last Fetch returned                      *)
          sent        (* history: requests sent, per tick                  *)

vars == <<now, promised, cancelled, wpc, wake, attempt, outcome, sent>>

Time == 0..MaxTime
Later(a, b) == IF a < b THEN b ELSE a

Init == /\ now = 0
        /\ promised = 0
        /\ cancelled = FALSE
        /\ wpc = [w \in Worker |-> "free"]
        /\ wake = [w \in Worker |-> 0]
        /\ attempt = [w \in Worker |-> 0]
        /\ outcome = [w \in Worker |-> "none"]
        /\ sent = [t \in Time |-> 0]

-----------------------------------------------------------------------------
(* Mutant of Token: every worker has a bucket of its own.                  *)
TokenForAll == now

(* Limiter.Wait: of Burst tokens in the bucket one comes back per tick.    *)
Token == Later(now, Later(promised, now) + 1 - Burst)

TakeToken(w) ==
    /\ wpc[w] = "free" /\ ~cancelled
    /\ promised' = Later(promised, now) + 1
    /\ wake' = [wake EXCEPT ![w] = Token]
    /\ wpc' = [wpc EXCEPT ![w] = "limit"]
    /\ outcome' = [outcome EXCEPT ![w] = "none"]
    /\ UNCHANGED <<now, cancelled, attempt, sent>>

(* Fetch returns o.                                                        *)
Done(w, o) ==
    /\ outcome' = [outcome EXCEPT ![w] = o]
    /\ wpc' = [wpc EXCEPT ![w] = "free"]
    /\ wake' = [wake EXCEPT ![w] = 0]
    /\ attempt' = [attempt EXCEPT ![w] = 0]
    /\ UNCHANGED <<now, promised, cancelled>>

(* An attempt: one request leaves.                                         *)
Attempt(w) ==
    /\ sent' = [sent EXCEPT ![now] = @ + 1]
    /\ attempt' = [attempt EXCEPT ![w] = @ + 1]
    /\ wpc' = [wpc EXCEPT ![w] = "request"]
    /\ wake' = [wake EXCEPT ![w] = now + Timeout]
    /\ UNCHANGED <<now, promised, cancelled, outcome>>

FirstAttempt(w, rsn, table) ==
    /\ wpc[w] = "limit" /\ now >= wake[w] /\ ~cancelled
    /\ Lookup(rsn) # <<>> /\ table
    /\ Attempt(w)

(* The name is no name, or its mode has no table: no request at all.       *)
NotLookedUp(w, rsn, table) ==
    /\ wpc[w] = "limit" /\ now >= wake[w] /\ ~cancelled
    /\ Lookup(rsn) = <<>> \/ ~table
    /\ Done(w, "unranked")
    /\ UNCHANGED sent

(* A stats body.                                                           *)
Answered(w) == wpc[w] = "request" /\ Done(w, "ok") /\ UNCHANGED sent

(* A 404 is not asked again.                                               *)
NotFound(w) ==
    /\ wpc[w] = "request"
    /\ Done(w, "unranked")
    /\ UNCHANGED sent

(* attempts: one at least.                                                 *)
Attempts == Later(1, Retries)

(* Mutant of AttemptsLeft: the loop has no end.                            *)
AttemptsLeftAlways(w) == TRUE

AttemptsLeft(w) == attempt[w] < Attempts

(* Anything else: a status from 400 up, a broken connection or a timeout,  *)
(* a body that is no stats body.                                           *)
FailsAndWaits(w) ==
    /\ wpc[w] = "request" /\ AttemptsLeft(w) /\ ~cancelled
    /\ wpc' = [wpc EXCEPT ![w] = "delay"]
    /\ wake' = [wake EXCEPT ![w] = now + RetryDelay]
    /\ UNCHANGED <<now, promised, cancelled, attempt, outcome, sent>>

FailsForGood(w) ==
    /\ wpc[w] = "request" /\ ~AttemptsLeft(w)
    /\ Done(w, "transient")
    /\ UNCHANGED sent

Retry(w) == wpc[w] = "delay" /\ now >= wake[w] /\ ~cancelled /\ Attempt(w)

(* The context is done: Wait returns an error, Fetch a transient outcome.  *)
Interrupted(w) ==
    /\ cancelled
    /\ \/ wpc[w] = "limit" /\ Done(w, "none")
       \/ wpc[w] \in {"request", "delay"} /\ Done(w, "transient")
    /\ UNCHANGED sent

Cancel == /\ ~cancelled
          /\ cancelled' = TRUE
          /\ UNCHANGED <<now, promised, wpc, wake, attempt, outcome, sent>>

(* Timers fire on time: the clock does not pass a worker's waking.         *)
Advance == /\ now < MaxTime
           /\ \A w \in Worker : wpc[w] # "free" => now < wake[w]
           /\ now' = now + 1
           /\ UNCHANGED <<promised, cancelled, wpc, wake, attempt, outcome, sent>>

Fetch(w) == \/ \E p \in Asked : FirstAttempt(w, p[1], p[2]) \/ NotLookedUp(w, p[1], p[2])
            \/ Answered(w) \/ NotFound(w)
            \/ FailsAndWaits(w) \/ FailsForGood(w) \/ Retry(w) \/ Interrupted(w)

Next == \/ \E w \in Worker : TakeToken(w) \/ Fetch(w)
        \/ Cancel \/ Advance

Spec == Init /\ [][Next]_vars
-----------------------------------------------------------------------------
(* Properties.                                                             *)

(* The type invariant of the bucket, the workers and the log.              *)
TypeOK == /\ now \in Time
          /\ promised \in Nat
          /\ cancelled \in BOOLEAN
          /\ wpc \in [Worker -> {"free", "limit", "request", "delay"}]
          /\ wake \in [Worker -> Nat]
          /\ attempt \in [Worker -> 0..Attempts]
          /\ outcome \in [Worker -> {"none", "ok", "unranked", "transient"}]
          /\ sent \in [Time -> Nat]

Requests(a, b) == SumFunctionOnSet(sent, a..b)

(* What the code does bound: in any period, as many requests as a fetch    *)
(* makes attempts for each token, and the retries still owed from before   *)
(* by each worker.                                                         *)
RateTimesRetries ==
    \A a, b \in Time :
        a <= b => Requests(a, b) <= Attempts * (Burst + (b - a))
                                      + (Attempts - 1) * Cardinality(Worker)

(* A request that is out is for the player the Site meant, whatever name   *)
(* that was given by: the words in its URL are those of the name, and all  *)
(* spellings of these words have one identity key.                         *)
NamesAgree == (\E w \in Worker : wpc[w] = "request") => WordsKept /\ OneKey
=============================================================================

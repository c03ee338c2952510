---------------------------- MODULE KeyedLimiter ----------------------------
(***************************************************************************)
(* internal/ratelimit: one token bucket per webhook, a hold on top of it   *)
(* for Discord's Retry-After, and the eviction of idle buckets.            *)
(*                                                                         *)
(* Time is counted in ticks of one token (1/rate).  A bucket is named by   *)
(* its key and the time it was made: a goroutine that waits on an evicted  *)
(* bucket's limiter goes on waiting on that limiter.  That a context ends  *)
(* is left out: all contexts are that of the process, which ends with it.  *)
(***************************************************************************)
EXTENDS Integers, FiniteSets, Functions

CONSTANTS Key,      (* webhook buckets                                     *)
          Caller,   (* goroutines that call Wait                           *)
          Burst,    (* tokens a bucket holds                               *)
          TTL,      (* a bucket unused for longer is evicted               *)
          Hold,     (* the durations ReserveFor may be given               *)
          MaxTime   (* bound: the clock stops here                         *)

ASSUME CallerAssumption == IsFiniteSet(Caller)
ASSUME BurstAssumption == Burst \in Nat \ {0}
ASSUME TTLAssumption == TTL \in Nat \ {0}
ASSUME HoldAssumption == Hold \subseteq Nat
ASSUME MaxTimeAssumption == MaxTime \in Nat

VARIABLES now,
          live,       (* keys of k.buckets                                 *)
          born,       (* when each key's bucket was made                   *)
          lastUsed,
          notBefore,
          slot,       (* tokens each limiter has promised, as the tick     *)
                      (* after the last of them                            *)
          cpc,        (* where each goroutine is in Wait                   *)
          ckey,       (* the key it waits for                              *)
          climiter,   (* the limiter it got                                *)
          wake,       (* when its timer fires                              *)
          hold,       (* history: the latest deadline given for each key   *)
          owed,       (* history: that deadline when the call began        *)
          granted     (* history: the tokens of each key, per tick         *)

bvars == <<live, born, lastUsed, notBefore>>
cvars == <<cpc, ckey, climiter, wake>>
vars == <<now, bvars, slot, cvars, hold, owed, granted>>

Time == 0..MaxTime
Horizon == 0..(MaxTime + Cardinality(Caller))
Later(a, b) == IF a < b THEN b ELSE a

Init == /\ now = 0
        /\ live = {}
        /\ born = [k \in Key |-> 0]
        /\ lastUsed = [k \in Key |-> 0]
        /\ notBefore = [k \in Key |-> 0]
        /\ slot = [k \in Key |-> [t \in Time |-> 0]]
        /\ cpc = [c \in Caller |-> "free"]
        /\ ckey \in [Caller -> Key]
        /\ climiter = [c \in Caller |-> 0]
        /\ wake = [c \in Caller |-> 0]
        /\ hold = [k \in Key |-> 0]
        /\ owed = [c \in Caller |-> 0]
        /\ granted = [k \in Key |-> [t \in Horizon |-> 0]]

-----------------------------------------------------------------------------
(* ensureLocked: the key's bucket, a fresh one without a hold if it has    *)
(* none, is used now.                                                      *)
Born(k) == IF k \in live THEN born[k] ELSE now
EnsureBucket(k) == /\ live' = live \cup {k}
                   /\ born' = [born EXCEPT ![k] = Born(k)]
                   /\ lastUsed' = [lastUsed EXCEPT ![k] = now]

(* Mutant of Call: the hold is not looked at.                              *)
CallIgnoresHold(c, k) ==
    /\ cpc[c] = "free"
    /\ EnsureBucket(k)
    /\ cpc' = [cpc EXCEPT ![c] = "pausing"]
    /\ ckey' = [ckey EXCEPT ![c] = k]
    /\ climiter' = [climiter EXCEPT ![c] = Born(k)]
    /\ wake' = [wake EXCEPT ![c] = now]
    /\ owed' = [owed EXCEPT ![c] = hold[k]]
    /\ UNCHANGED <<now, notBefore, slot, hold, granted>>

(* Wait begins: get reads the limiter and the hold, once.                  *)
Call(c, k) ==
    /\ cpc[c] = "free"
    /\ EnsureBucket(k)
    /\ cpc' = [cpc EXCEPT ![c] = "pausing"]
    /\ ckey' = [ckey EXCEPT ![c] = k]
    /\ climiter' = [climiter EXCEPT ![c] = Born(k)]
    /\ wake' = [wake EXCEPT ![c] = Later(now, notBefore[k])]
    /\ owed' = [owed EXCEPT ![c] = hold[k]]
    /\ UNCHANGED <<now, notBefore, slot, hold, granted>>

(* The hold is served; rate.Limiter.Wait reserves a token.  Of Burst       *)
(* tokens in the bucket one comes back per tick.                           *)
Promised(k, b) == Later(slot[k][b], now) + 1
TokenAt(k, b) == Later(now, Promised(k, b) - Burst)

Reserve(c) ==
    LET k == ckey[c]
        b == climiter[c]
    IN  /\ cpc[c] = "pausing" /\ now >= wake[c]
        /\ slot' = [slot EXCEPT ![k][b] = Promised(k, b)]
        /\ wake' = [wake EXCEPT ![c] = TokenAt(k, b)]
        /\ granted' = [granted EXCEPT ![k][TokenAt(k, b)] = @ + 1]
        /\ cpc' = [cpc EXCEPT ![c] = "queued"]
        /\ UNCHANGED <<now, bvars, ckey, climiter, hold, owed>>

(* The token is there, and Wait returns.                                   *)
Return(c) ==
    /\ cpc[c] = "queued" /\ now >= wake[c]
    /\ cpc' = [cpc EXCEPT ![c] = "free"]
    /\ climiter' = [climiter EXCEPT ![c] = 0]
    /\ wake' = [wake EXCEPT ![c] = 0]
    /\ owed' = [owed EXCEPT ![c] = 0]
    /\ UNCHANGED <<now, bvars, slot, ckey, hold, granted>>

(* Mutant of ReserveFor: the last hold wins.                               *)
ReserveForShortens(k, d) ==
    /\ d > 0
    /\ EnsureBucket(k)
    /\ notBefore' = [notBefore EXCEPT ![k] = now + d]
    /\ hold' = [hold EXCEPT ![k] = Later(@, now + d)]
    /\ UNCHANGED <<now, slot, cvars, owed, granted>>

(* ReserveFor: a hold is extended, never shortened.                        *)
ReserveFor(k, d) ==
    /\ d > 0
    /\ EnsureBucket(k)
    /\ notBefore' = [notBefore EXCEPT ![k] = Later(notBefore[k], now + d)]
    /\ hold' = [hold EXCEPT ![k] = Later(@, now + d)]
    /\ UNCHANGED <<now, slot, cvars, owed, granted>>

(* Mutant of Idle: the cutoff is the TTL ahead of now.                     *)
IdleAhead == {k \in live : lastUsed[k] < now + TTL}

(* Sweep: evict what has not been used for longer than TTL.                *)
Idle == {k \in live : lastUsed[k] < now - TTL}
Sweep == /\ Idle # {}
         /\ live' = live \ Idle
         /\ born' = [k \in Key |-> IF k \in Idle THEN 0 ELSE born[k]]
         /\ lastUsed' = [k \in Key |-> IF k \in Idle THEN 0 ELSE lastUsed[k]]
         /\ notBefore' = [k \in Key |-> IF k \in Idle THEN 0 ELSE notBefore[k]]
         /\ UNCHANGED <<now, slot, cvars, hold, owed, granted>>

(* Timers fire on time: the clock does not pass a goroutine's waking.      *)
Advance == /\ now < MaxTime
           /\ \A c \in Caller : cpc[c] # "free" => now < wake[c]
           /\ now' = now + 1
           /\ UNCHANGED <<bvars, slot, cvars, hold, owed, granted>>

Next == \/ \E c \in Caller, k \in Key : Call(c, k)
        \/ \E c \in Caller : Reserve(c) \/ Return(c)
        \/ \E k \in Key, d \in Hold : ReserveFor(k, d)
        \/ Sweep \/ Advance

Spec == Init /\ [][Next]_vars
-----------------------------------------------------------------------------
(* Properties.                                                             *)

(* The type invariant of the buckets, the limiters and the callers.        *)
TypeOK == /\ now \in Time
          /\ live \subseteq Key
          /\ born \in [Key -> Time]
          /\ lastUsed \in [Key -> Time]
          /\ notBefore \in [Key -> Nat]
          /\ slot \in [Key -> [Time -> Nat]]
          /\ cpc \in [Caller -> {"free", "pausing", "queued"}]
          /\ ckey \in [Caller -> Key]
          /\ climiter \in [Caller -> Time]
          /\ wake \in [Caller -> Nat]
          /\ hold \in [Key -> Nat]
          /\ owed \in [Caller -> Nat]
          /\ granted \in [Key -> [Horizon -> Nat]]

(* A call of Wait that began after a ReserveFor returns no earlier than    *)
(* the latest deadline given so far, although longer and shorter holds     *)
(* race and the bucket may be evicted and made again in between.           *)
NewCallsHonourHold == [][\A c \in Caller : Return(c) => now >= owed[c]]_vars

(* No webhook is sent more than its bucket's burst plus one post per tick  *)
(* in any period, evictions and fresh buckets included.                    *)
RateRespected ==
    \A k \in Key : \A a, b \in Horizon :
        a <= b => SumFunctionOnSet(granted[k], a..b) <= Burst + (b - a)
=============================================================================

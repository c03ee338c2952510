--------------------------- MODULE LimiterProofs ---------------------------
(***************************************************************************)
(* Theorems about KeyedLimiter, for every number of webhooks and callers,  *)
(* every burst and every length of the behaviour; and about PacedDelivery, *)
(* its caller, for every number of messages, webhooks and goroutines,      *)
(* every schedule of retries and every Retry-After.                        *)
(***************************************************************************)
EXTENDS PacedDelivery, Sums, TLAPS

(* No hold is longer than a bucket is kept, or Sweep could forget one.  In *)
(* the code the TTL is 15 minutes and Retry-After is Discord's to choose.  *)
HoldsFitTTL == \A d \in Hold : d <= TTL

(* A deadline that has not passed is the live bucket's own, and the bucket *)
(* outlives it.                                                            *)
HoldKnown ==
    \A k \in Key :
        /\ lastUsed[k] <= now
        /\ hold[k] <= now \/ (k \in live /\ hold[k] <= notBefore[k] /\ hold[k] <= lastUsed[k] + TTL)

(* A caller serves what it owed when it began, before it takes a token.    *)
CallersServe ==
    \A c \in Caller : /\ cpc[c] = "pausing" => owed[c] <= wake[c]
                      /\ cpc[c] = "queued" => owed[c] <= now

-----------------------------------------------------------------------------
LEMMA Ticks == 0 \in Time /\ Time \subseteq Nat
  BY MaxTimeAssumption DEF Time

LEMMA InitTypeOK == Init => TypeOK
  BY Ticks DEF Init, TypeOK

(* A limiter's next token lies in the future, or is there now.             *)
LEMMA TokenIsNat ==
    ASSUME TypeOK, NEW k \in Key, NEW b \in Time
    PROVE  Promised(k, b) \in Nat /\ TokenAt(k, b) \in Nat
<1>1. slot[k][b] \in Nat /\ now \in Nat
  BY Ticks DEF TypeOK
<1> QED BY <1>1, BurstAssumption DEF Promised, TokenAt, Later

(* A bucket that is used now was made now or before.                       *)
LEMMA EnsureBucketTypes ==
    ASSUME TypeOK, NEW k \in Key, EnsureBucket(k)
    PROVE  /\ Born(k) \in Time
           /\ live' \subseteq Key
           /\ born' \in [Key -> Time] /\ lastUsed' \in [Key -> Time]
  BY DEF EnsureBucket, Born, TypeOK

LEMMA LaterIsNat == \A a, b \in Nat : Later(a, b) \in Nat
  BY DEF Later

LEMMA LaterIsLater == \A a, b, h \in Nat : h <= a \/ h <= b => h <= Later(a, b)
  BY DEF Later

LEMMA NextTypeOK == TypeOK /\ [Next]_vars => TypeOK'
<1> SUFFICES ASSUME TypeOK, [Next]_vars PROVE TypeOK'
  OBVIOUS
<1> USE Ticks DEF bvars, cvars
<1>1. ASSUME NEW c \in Caller, NEW k \in Key, Call(c, k) PROVE TypeOK'
  <2>1. Born(k) \in Time /\ live' \subseteq Key
        /\ born' \in [Key -> Time] /\ lastUsed' \in [Key -> Time]
    BY <1>1, EnsureBucketTypes DEF Call
  <2>2. Later(now, notBefore[k]) \in Nat
    BY LaterIsNat DEF TypeOK
  <2> QED BY <1>1, <2>1, <2>2 DEF Call, TypeOK
<1>2. ASSUME NEW c \in Caller, Reserve(c) PROVE TypeOK'
  <2> DEFINE k == ckey[c]
             b == climiter[c]
  <2>1. /\ k \in Key /\ b \in Time
        /\ Promised(k, b) \in Nat /\ TokenAt(k, b) \in Nat
    BY TokenIsNat DEF TypeOK
  <2>2. /\ slot' = [slot EXCEPT ![k][b] = Promised(k, b)]
        /\ granted' = [granted EXCEPT ![k][TokenAt(k, b)] = @ + 1]
        /\ wake' = [wake EXCEPT ![c] = TokenAt(k, b)]
        /\ cpc' = [cpc EXCEPT ![c] = "queued"]
        /\ UNCHANGED <<now, bvars, ckey, climiter, hold, owed>>
    BY <1>2 DEF Reserve
  <2> HIDE DEF k, b
  <2>3. slot' \in [Key -> [Time -> Nat]]
    BY <2>1, <2>2 DEF TypeOK
  <2>4. granted' \in [Key -> [Horizon -> Nat]]
    <3>1. granted \in [Key -> [Horizon -> Nat]]
      BY DEF TypeOK
    <3>2. granted[k] \in [Horizon -> Nat]
      BY <2>1, <3>1
    <3>3. ASSUME NEW f \in [Horizon -> Nat], NEW t
          PROVE  [f EXCEPT ![t] = f[t] + 1] \in [Horizon -> Nat]
      <4>1. \A n \in Nat : n + 1 \in Nat
        OBVIOUS
      <4> QED BY <4>1
    <3>4. [granted[k] EXCEPT ![TokenAt(k, b)] = granted[k][TokenAt(k, b)] + 1]
            \in [Horizon -> Nat]
      BY <3>2, <3>3
    <3>5. granted' = [granted EXCEPT ![k] =
              [granted[k] EXCEPT ![TokenAt(k, b)] = granted[k][TokenAt(k, b)] + 1]]
      BY <2>1, <2>2, <3>1
    <3> QED BY <2>1, <3>1, <3>4, <3>5
  <2> QED BY <2>1, <2>2, <2>3, <2>4 DEF TypeOK
<1>3. ASSUME NEW c \in Caller, Return(c) PROVE TypeOK'
  BY <1>3 DEF Return, TypeOK
<1>4. ASSUME NEW k \in Key, NEW d \in Hold, ReserveFor(k, d) PROVE TypeOK'
  <2>1. live' \subseteq Key /\ born' \in [Key -> Time] /\ lastUsed' \in [Key -> Time]
    BY <1>4, EnsureBucketTypes DEF ReserveFor
  <2>2. notBefore[k] \in Nat /\ hold[k] \in Nat /\ now + d \in Nat
    BY HoldAssumption DEF TypeOK
  <2>3. Later(notBefore[k], now + d) \in Nat /\ Later(hold[k], now + d) \in Nat
    BY <2>2, LaterIsNat
  <2> QED BY <1>4, <2>1, <2>3 DEF ReserveFor, TypeOK
<1>5. CASE Sweep
  BY <1>5 DEF Sweep, TypeOK
<1>6. CASE Advance
  BY <1>6, MaxTimeAssumption DEF Advance, TypeOK, Time
<1>7. CASE UNCHANGED vars
  BY <1>7 DEF vars, TypeOK
<1> QED BY <1>1, <1>2, <1>3, <1>4, <1>5, <1>6, <1>7 DEF Next

(* The type invariant holds in every behaviour.                            *)
THEOREM TypeCorrect == Spec => []TypeOK
  BY InitTypeOK, NextTypeOK, PTL DEF Spec

-----------------------------------------------------------------------------
LEMMA InitServe == Init => HoldKnown /\ CallersServe
  BY DEF Init, HoldKnown, CallersServe

(* Extending a deadline h, kept in a bucket used at u until b, by d.        *)
LEMMA ExtendedHoldFits ==
    ASSUME NEW h \in Nat, NEW b \in Nat, NEW n \in Nat, NEW d \in Nat,
           NEW t \in Nat, NEW u \in Nat,
           d <= t, u <= n, h <= n \/ (h <= b /\ h <= u + t)
    PROVE  Later(h, n + d) <= Later(b, n + d) /\ Later(h, n + d) <= n + t
  BY DEF Later

LEMMA ReserveForHoldKnown ==
    ASSUME HoldsFitTTL, TypeOK, HoldKnown,
           NEW k \in Key, NEW d \in Hold, ReserveFor(k, d)
    PROVE  HoldKnown'
<1> DEFINE h == Later(hold[k], now + d)
           b == Later(notBefore[k], now + d)
<1>1. /\ now \in Nat /\ d \in Nat /\ d <= TTL /\ TTL \in Nat
      /\ hold[k] \in Nat /\ notBefore[k] \in Nat /\ lastUsed[k] \in Nat
  BY Ticks, TTLAssumption, HoldAssumption DEF HoldsFitTTL, TypeOK
<1>2. /\ lastUsed[k] <= now
      /\ hold[k] <= now \/ (hold[k] <= notBefore[k] /\ hold[k] <= lastUsed[k] + TTL)
  BY DEF HoldKnown
<1>3. h <= b /\ h <= now + TTL
  BY <1>1, <1>2, ExtendedHoldFits
<1>4. /\ lastUsed' = [lastUsed EXCEPT ![k] = now] /\ now' = now
      /\ live' = live \cup {k}
      /\ hold' = [hold EXCEPT ![k] = h] /\ notBefore' = [notBefore EXCEPT ![k] = b]
  BY DEF ReserveFor, EnsureBucket
<1>5. /\ hold \in [Key -> Nat] /\ notBefore \in [Key -> Nat]
      /\ lastUsed \in [Key -> Time]
  BY DEF TypeOK
<1> HIDE DEF h, b
<1>6. lastUsed'[k] <= now' /\ k \in live' /\ hold'[k] <= notBefore'[k]
      /\ hold'[k] <= lastUsed'[k] + TTL
  BY <1>1, <1>3, <1>4, <1>5
<1>7. ASSUME NEW l \in Key, l # k
      PROVE  /\ lastUsed'[l] = lastUsed[l] /\ hold'[l] = hold[l]
             /\ notBefore'[l] = notBefore[l] /\ (l \in live => l \in live')
  BY <1>4, <1>5, <1>7
<1>8. now' = now
  BY <1>4
<1> QED BY <1>6, <1>7, <1>8 DEF HoldKnown

(* Holds are extended by ReserveFor, kept by Wait and outlived by buckets. *)
LEMMA NextHoldKnown ==
    ASSUME HoldsFitTTL, TypeOK, HoldKnown, [Next]_vars
    PROVE  HoldKnown'
<1>1. /\ now \in Nat /\ TTL \in Nat
      /\ \A l \in Key : hold[l] \in Nat /\ notBefore[l] \in Nat /\ lastUsed[l] \in Nat
  BY Ticks, TTLAssumption DEF TypeOK
<1>2. ASSUME now' = now, UNCHANGED <<bvars, hold>> PROVE HoldKnown'
  BY <1>2 DEF HoldKnown, bvars
<1>3. ASSUME NEW c \in Caller, NEW k \in Key, Call(c, k) PROVE HoldKnown'
  <2>1. /\ now' = now /\ live' = live \cup {k} /\ hold' = hold /\ notBefore' = notBefore
        /\ lastUsed' = [lastUsed EXCEPT ![k] = now]
    BY <1>3 DEF Call, EnsureBucket
  <2>2. lastUsed'[k] = now /\ k \in live' /\ \A l \in Key \ {k} : lastUsed'[l] = lastUsed[l]
    BY <2>1 DEF TypeOK
  <2>3. lastUsed[k] <= now /\ (hold[k] <= now \/ (hold[k] <= notBefore[k]
                                                  /\ hold[k] <= lastUsed[k] + TTL))
    BY DEF HoldKnown
  <2>4. lastUsed'[k] <= now' /\ (hold'[k] <= now' \/ (k \in live' /\ hold'[k] <= notBefore'[k]
                                                      /\ hold'[k] <= lastUsed'[k] + TTL))
    <3>1. hold[k] <= lastUsed[k] + TTL => hold[k] <= now + TTL
      BY <1>1, <2>3
    <3> QED BY <1>1, <2>1, <2>2, <2>3, <3>1
  <2>5. ASSUME NEW l \in Key \ {k}
        PROVE  lastUsed'[l] <= now' /\ (hold'[l] <= now' \/ (l \in live' /\ hold'[l] <= notBefore'[l]
                                                      /\ hold'[l] <= lastUsed'[l] + TTL))
    BY <2>1, <2>2 DEF HoldKnown
  <2> QED BY <2>4, <2>5 DEF HoldKnown
<1>4. ASSUME NEW c \in Caller, Reserve(c) \/ Return(c) PROVE HoldKnown'
  BY <1>2, <1>4 DEF Reserve, Return
<1>5. ASSUME NEW k \in Key, NEW d \in Hold, ReserveFor(k, d) PROVE HoldKnown'
  BY <1>5, ReserveForHoldKnown
<1>6. CASE Sweep
  <2>1. now' = now /\ live' = live \ Idle /\ hold' = hold
    BY <1>6 DEF Sweep
  <2>2. ASSUME NEW l \in Key \ Idle
        PROVE  lastUsed'[l] = lastUsed[l] /\ notBefore'[l] = notBefore[l]
    BY <1>6 DEF Sweep
  <2>3. ASSUME NEW l \in Key \cap Idle PROVE lastUsed'[l] <= now' /\ hold'[l] <= now'
    <3>1. lastUsed'[l] = 0
      BY <1>6 DEF Sweep
    <3>2. lastUsed[l] + TTL <= now
      BY <1>1 DEF Idle
    <3>3. hold[l] <= now \/ hold[l] <= lastUsed[l] + TTL
      BY DEF HoldKnown
    <3> QED BY <1>1, <2>1, <3>1, <3>2, <3>3
  <2> QED BY <2>1, <2>2, <2>3 DEF HoldKnown
<1>7. CASE Advance
  <2>1. now' = now + 1 /\ UNCHANGED <<bvars, hold>>
    BY <1>7 DEF Advance
  <2>2. \A n \in Nat : n <= now => n <= now + 1
    BY <1>1
  <2> QED BY <1>1, <2>1, <2>2 DEF HoldKnown, bvars
<1>8. CASE UNCHANGED vars
  BY <1>2, <1>8 DEF vars
<1> QED BY <1>3, <1>4, <1>5, <1>6, <1>7, <1>8 DEF Next

(* A caller sleeps until the deadline it has read in the bucket.           *)
LEMMA NextCallersServe ==
    ASSUME TypeOK, HoldKnown, CallersServe, [Next]_vars
    PROVE  CallersServe'
<1> USE MaxTimeAssumption DEF TypeOK, Time, CallersServe, bvars, cvars
<1>1. ASSUME NEW c \in Caller, NEW k \in Key, Call(c, k) PROVE CallersServe'
  <2>1. /\ now \in Nat /\ notBefore[k] \in Nat /\ hold[k] \in Nat
        /\ hold[k] <= now \/ hold[k] <= notBefore[k]
    BY DEF HoldKnown
  <2>2. hold[k] <= Later(now, notBefore[k])
    BY <2>1, LaterIsLater
  <2>3. /\ cpc'[c] = "pausing" /\ owed'[c] = hold[k]
        /\ wake'[c] = Later(now, notBefore[k])
    BY <1>1 DEF Call
  <2>4. ASSUME NEW e \in Caller, e # c
        PROVE  cpc'[e] = cpc[e] /\ owed'[e] = owed[e] /\ wake'[e] = wake[e]
    BY <1>1, <2>4 DEF Call
  <2>5. now' = now
    BY <1>1 DEF Call
  <2>6. owed'[c] <= wake'[c] /\ cpc'[c] # "queued"
    BY <2>2, <2>3
  <2> HIDE DEF TypeOK, Time
  <2> QED BY <2>4, <2>5, <2>6
<1>2. ASSUME NEW c \in Caller, Reserve(c) PROVE CallersServe'
  BY <1>2 DEF Reserve
<1>3. ASSUME NEW c \in Caller, Return(c) PROVE CallersServe'
  BY <1>3 DEF Return
<1>4. ASSUME NEW k \in Key, NEW d \in Hold, ReserveFor(k, d) PROVE CallersServe'
  BY <1>4 DEF ReserveFor
<1>5. CASE Sweep
  BY <1>5 DEF Sweep
<1>6. CASE Advance
  BY <1>6 DEF Advance
<1>7. CASE UNCHANGED vars
  BY <1>7 DEF vars
<1> QED BY <1>1, <1>2, <1>3, <1>4, <1>5, <1>6, <1>7 DEF Next

(* If no hold is longer than a bucket is kept, a Wait that began after a   *)
(* ReserveFor does not return before the deadline, evictions or not.       *)
THEOREM HoldsAreHonoured == HoldsFitTTL => (Spec => NewCallsHonourHold)
<1> SUFFICES ASSUME HoldsFitTTL PROVE Spec => NewCallsHonourHold
  OBVIOUS
<1>1. TypeOK /\ HoldKnown /\ [Next]_vars => HoldKnown'
  BY NextHoldKnown
<1>2. TypeOK /\ HoldKnown /\ CallersServe /\ [Next]_vars => CallersServe'
  BY NextCallersServe
<1>3. CallersServe => [\A c \in Caller : Return(c) => now >= owed[c]]_vars
  BY DEF CallersServe, Return
<1> QED BY <1>1, <1>2, <1>3, InitTypeOK, NextTypeOK, InitServe, PTL
        DEF Spec, NewCallsHonourHold

-----------------------------------------------------------------------------
(* The rate.  A bucket is kept until its longest hold and then all tokens  *)
(* that its callers may have promised to them are over; otherwise a fresh  *)
(* bucket would hand out a burst that the old one has handed out already.  *)
(* In the code the TTL is 15 minutes, which is 1800 ticks; the burst is 4. *)
Crowd == Burst + Cardinality(Caller)
BucketsOutlast == \A d \in Hold \cup {0} : d + Crowd <= TTL + 1

(* Only the limiter of the live bucket has promised future tokens.         *)
OneLimiter == \A k \in Key, b \in Time : slot[k][b] <= now \/ (k \in live /\ b = born[k])

(* For each token that is to come there is a caller that waits for it, so  *)
(* that they are no more than the callers.                                 *)
Covered ==
    \A k \in Key, b \in Time : \A t \in Nat :
        now < t /\ t <= slot[k][b] - Burst => \E c \in Caller : cpc[c] = "queued" /\ wake[c] = t

(* Holds, the callers that serve them and the tokens promised after that   *)
(* are over before the bucket is idle.                                     *)
HoldsFit ==
    \A k \in Key :
        /\ lastUsed[k] <= now
        /\ notBefore[k] <= now \/ notBefore[k] + Crowd <= lastUsed[k] + TTL + 1
PauseFits(c) == /\ ckey[c] \in live /\ climiter[c] = born[ckey[c]]
                /\ now <= wake[c] /\ wake[c] + Crowd <= lastUsed[ckey[c]] + TTL + 1
PausesFit == \A c \in Caller : cpc[c] = "pausing" => PauseFits(c)
SlotsFit == \A k \in live : slot[k][born[k]] <= lastUsed[k] + TTL + 1

(* What has been granted from a on was promised between a and Front.       *)
Front(k) == IF k \in live THEN Later(slot[k][born[k]], now) ELSE now
Spent(k, a, b) == SumFunctionOnSet(granted[k], a..b)
Budget == \A k \in Key : \A a, b \in Horizon :
             Spent(k, a, b) = 0 \/ Spent(k, a, b) <= Front(k) - a

BucketInv == OneLimiter /\ Covered /\ HoldsFit /\ PausesFit /\ SlotsFit
RateInv == TypeOK /\ BucketInv /\ Budget /\ RateRespected

LEMMA CrowdIsNat == Cardinality(Caller) \in Nat /\ Crowd \in Nat /\ Burst < Crowd + 1
  BY CallerAssumption, FS_CardinalityType, BurstAssumption DEF Crowd

LEMMA HorizonIsNat ==
    /\ Horizon \subseteq Nat
    /\ \A a, b \in Horizon : IsFiniteSet(a..b) /\ a..b \subseteq Horizon
<1>1. Horizon \subseteq Nat
  BY CrowdIsNat, MaxTimeAssumption DEF Horizon
<1>2. ASSUME NEW a \in Horizon, NEW b \in Horizon PROVE IsFiniteSet(a..b) /\ a..b \subseteq Horizon
  <2>1. a \in Int /\ b \in Int
    BY <1>1
  <2>2. a..b \subseteq Horizon
    BY <2>1, CrowdIsNat, MaxTimeAssumption DEF Horizon
  <2> QED BY <2>1, <2>2, FS_Interval
<1> QED BY <1>1, <1>2

(* If each tick after n up to top wakes a caller, there are few of them.   *)
LEMMA WakingsAreFew ==
    ASSUME NEW n \in Nat, NEW top \in Int, NEW w \in [Caller -> Nat],
           \A t \in Nat : n < t /\ t <= top => \E c \in Caller : w[c] = t
    PROVE  top <= n + Cardinality(Caller)
<1> DEFINE W == {w[c] : c \in Caller}
           I == (n + 1)..top
<1>1. I \subseteq W
  OBVIOUS
<1>2. w \in Surjection(Caller, W)
  BY DEF Surjection
<1>3. IsFiniteSet(W) /\ Cardinality(W) <= Cardinality(Caller)
  <2> HIDE DEF W
  <2> QED BY <1>2, FS_Surjection, CallerAssumption
<1>4. Cardinality(I) <= Cardinality(W)
  <2> HIDE DEF W, I
  <2> QED BY <1>1, <1>3, FS_Subset
<1>5. n + 1 \in Int /\ top \in Int
  OBVIOUS
<1>6. Cardinality(I) = IF n + 1 > top THEN 0 ELSE top - (n + 1) + 1
  BY <1>5, FS_Interval
<1>7. Cardinality(W) \in Nat /\ Cardinality(Caller) \in Nat
  BY <1>3, CallerAssumption, FS_CardinalityType
<1> HIDE DEF W, I
<1> QED BY <1>3, <1>4, <1>6, <1>7

-----------------------------------------------------------------------------
LEMMA InitRateInv == Init => RateInv
<1> SUFFICES ASSUME Init PROVE RateInv
  OBVIOUS
<1>1. TypeOK
  BY InitTypeOK
<1>2. BucketInv
  BY Ticks, CrowdIsNat, BurstAssumption, TTLAssumption
     DEF Init, BucketInv, OneLimiter, Covered, HoldsFit, PausesFit, SlotsFit
<1>3. ASSUME NEW k \in Key, NEW a \in Horizon, NEW b \in Horizon PROVE Spent(k, a, b) = 0
  <2>1. IsFiniteSet(a..b) /\ \A x \in a..b : granted[k][x] = 0
    BY HorizonIsNat DEF Init
  <2> QED BY <2>1, SumOfZeros DEF Spent
<1>4. Budget /\ RateRespected
  <2>1. \A a, b \in Horizon : a <= b => 0 <= Burst + (b - a)
    BY HorizonIsNat, BurstAssumption
  <2> QED BY <1>3, <2>1 DEF Budget, RateRespected, Spent
<1> QED BY <1>1, <1>2, <1>4 DEF RateInv

-----------------------------------------------------------------------------
(* The types that the arithmetic below needs.                              *)
LEMMA Numbers ==
    ASSUME TypeOK
    PROVE  /\ now \in Nat /\ TTL \in Nat /\ Burst \in Nat /\ Crowd \in Nat
           /\ \A k \in Key : /\ born[k] \in Time /\ lastUsed[k] \in Nat /\ notBefore[k] \in Nat
                             /\ Front(k) \in Nat
           /\ \A k \in Key, b \in Time : slot[k][b] \in Nat
           /\ \A c \in Caller : ckey[c] \in Key /\ climiter[c] \in Time /\ wake[c] \in Nat
<1>1. /\ now \in Nat /\ TTL \in Nat /\ Burst \in Nat /\ Crowd \in Nat
  BY Ticks, CrowdIsNat, TTLAssumption, BurstAssumption DEF TypeOK
<1>2. \A k \in Key : born[k] \in Time /\ lastUsed[k] \in Nat /\ notBefore[k] \in Nat
  BY Ticks DEF TypeOK
<1>3. \A k \in Key, b \in Time : slot[k][b] \in Nat
  BY DEF TypeOK
<1>4. \A k \in Key : Front(k) \in Nat
  BY <1>1, <1>2, <1>3 DEF Front, Later
<1>5. \A c \in Caller : ckey[c] \in Key /\ climiter[c] \in Time /\ wake[c] \in Nat
  BY DEF TypeOK
<1> QED BY <1>1, <1>2, <1>3, <1>4, <1>5

LEMMA SpentIsNat ==
    ASSUME TypeOK, NEW k \in Key, NEW a \in Horizon, NEW b \in Horizon
    PROVE  Spent(k, a, b) \in Nat
<1>1. IsFiniteSet(a..b) /\ \A x \in a..b : granted[k][x] \in Nat
  BY HorizonIsNat DEF TypeOK
<1> QED BY <1>1, SumIsNat DEF Spent

(* A step without a grant keeps the budget as long as no Front falls back. *)
LEMMA NoGrantKeepsBudget ==
    ASSUME TypeOK, TypeOK', Budget, RateRespected, granted' = granted,
           \A k \in Key : Front(k) <= Front(k)'
    PROVE  Budget' /\ RateRespected'
<1>1. RateRespected'
  BY DEF RateRespected
<1>2. ASSUME NEW k \in Key, NEW a \in Horizon, NEW b \in Horizon
      PROVE  Spent(k, a, b)' = 0 \/ Spent(k, a, b)' <= Front(k)' - a
  <2>1. Spent(k, a, b)' = Spent(k, a, b)
    BY DEF Spent
  <2>2. Spent(k, a, b) \in Nat /\ a \in Nat
    BY SpentIsNat, HorizonIsNat
  <2>3. Front(k) \in Nat /\ Front(k)' \in Nat
    <3>1. Front(k) \in Nat
      BY Numbers
    <3>2. now' \in Nat /\ slot'[k] \in [Time -> Nat] /\ born'[k] \in Time
      BY Ticks DEF TypeOK
    <3> QED BY <3>1, <3>2 DEF Front, Later
  <2>4. Spent(k, a, b) = 0 \/ Spent(k, a, b) <= Front(k) - a
    BY DEF Budget
  <2>5. Front(k) <= Front(k)'
    OBVIOUS
  <2> QED BY <2>1, <2>2, <2>3, <2>4, <2>5
<1> QED BY <1>1, <1>2 DEF Budget

(* A bucket that is used now, a fresh one included.                        *)
LEMMA EnsureBucketKeeps ==
    ASSUME TypeOK, BucketInv, NEW k \in Key, EnsureBucket(k), UNCHANGED <<now, slot>>
    PROVE  /\ OneLimiter' /\ SlotsFit'
           /\ \A l \in Key : Front(l) <= Front(l)' /\ lastUsed[l] <= lastUsed'[l]
           /\ \A l \in Key : lastUsed'[l] <= now
           /\ \A l \in live : l \in live' /\ born'[l] = born[l]
           /\ k \in live' /\ born'[k] = Born(k) /\ lastUsed'[k] = now
           /\ \A l \in Key \ {k} : lastUsed'[l] = lastUsed[l] /\ (l \in live' <=> l \in live)
<1>1. /\ now \in Nat /\ TTL \in Nat
      /\ \A l \in Key : born[l] \in Time /\ lastUsed[l] \in Nat /\ Front(l) \in Nat
      /\ \A l \in Key, b \in Time : slot[l][b] \in Nat
  BY Numbers
<1>2. /\ live' = live \cup {k}
      /\ born' = [born EXCEPT ![k] = Born(k)] /\ lastUsed' = [lastUsed EXCEPT ![k] = now]
  BY DEF EnsureBucket
<1>3. /\ born'[k] = Born(k) /\ lastUsed'[k] = now
      /\ \A l \in Key \ {k} : born'[l] = born[l] /\ lastUsed'[l] = lastUsed[l]
  BY <1>2 DEF TypeOK
<1>4. k \in live => Born(k) = born[k]
  BY DEF Born
<1>5. k \notin live => Born(k) = now /\ now \in Time /\ \A b \in Time : slot[k][b] <= now
  BY DEF Born, TypeOK, BucketInv, OneLimiter
<1>6. \A l \in Key : lastUsed[l] <= now
  BY DEF BucketInv, HoldsFit
<1>7. OneLimiter'
  BY <1>2, <1>3, <1>4, <1>5 DEF BucketInv, OneLimiter
<1>8. ASSUME NEW l \in live' PROVE slot'[l][born'[l]] <= lastUsed'[l] + TTL + 1
  <2>1. CASE l # k
    BY <1>2, <1>3, <2>1 DEF BucketInv, SlotsFit, TypeOK
  <2>2. CASE l = k /\ k \in live
    <3>1. slot[k][born[k]] <= lastUsed[k] + TTL + 1 /\ slot[k][born[k]] \in Nat
          /\ lastUsed[k] \in Nat /\ lastUsed[k] <= now
      BY <1>1, <1>6, <2>2 DEF BucketInv, SlotsFit
    <3>2. slot[k][born[k]] <= now + TTL + 1
      BY <1>1, <3>1
    <3> QED BY <1>3, <1>4, <2>2, <3>2
  <2>3. CASE l = k /\ k \notin live
    <3>1. slot[k][now] \in Nat /\ slot[k][now] <= now
      BY <1>1, <1>5, <2>3
    <3>2. slot[k][now] <= now + TTL + 1
      BY <1>1, <3>1
    <3> QED BY <1>3, <1>5, <2>3, <3>2
  <2> QED BY <2>1, <2>2, <2>3
<1>9. ASSUME NEW l \in Key PROVE Front(l) <= Front(l)'
  <2>1. CASE l \in live
    <3>1. l \in live' /\ born'[l] = born[l]
      BY <1>2, <1>3, <1>4, <2>1
    <3>2. Front(l)' = Front(l)
      BY <2>1, <3>1 DEF Front
    <3> QED BY <1>1, <3>2
  <2>2. CASE l \notin live /\ l # k
    <3>1. Front(l)' = Front(l)
      BY <1>2, <2>2 DEF Front
    <3> QED BY <1>1, <3>1
  <2>3. CASE l \notin live /\ l = k
    <3>1. Front(l) = now /\ Front(l)' = Later(slot[k][now], now)
      BY <1>2, <1>3, <1>5, <2>3 DEF Front
    <3>2. slot[k][now] \in Nat
      BY <1>1, <1>5, <2>3
    <3> QED BY <1>1, <3>1, <3>2 DEF Later
  <2> QED BY <2>1, <2>2, <2>3
<1>10. \A l \in Key : lastUsed[l] <= lastUsed'[l] /\ lastUsed'[l] <= now
  BY <1>1, <1>3, <1>6
<1> QED BY <1>2, <1>3, <1>4, <1>7, <1>8, <1>9, <1>10 DEF SlotsFit

LEMMA CallKeepsBuckets ==
    ASSUME BucketsOutlast, TypeOK, BucketInv, NEW c \in Caller, NEW k \in Key, Call(c, k)
    PROVE  BucketInv' /\ granted' = granted /\ \A l \in Key : Front(l) <= Front(l)'
<1>1. /\ now \in Nat /\ TTL \in Nat /\ Crowd \in Nat
      /\ \A l \in Key : lastUsed[l] \in Nat /\ notBefore[l] \in Nat
      /\ \A e \in Caller : ckey[e] \in Key /\ wake[e] \in Nat
  BY Numbers
<1>2. /\ cpc[c] = "free" /\ EnsureBucket(k) /\ UNCHANGED <<now, slot>>
      /\ notBefore' = notBefore /\ granted' = granted
  BY DEF Call
<1>3. /\ OneLimiter' /\ SlotsFit'
      /\ \A l \in Key : Front(l) <= Front(l)' /\ lastUsed[l] <= lastUsed'[l]
      /\ \A l \in Key : lastUsed'[l] <= now
      /\ \A l \in live : l \in live' /\ born'[l] = born[l]
      /\ k \in live' /\ born'[k] = Born(k) /\ lastUsed'[k] = now
  BY <1>2, EnsureBucketKeeps
<1>4. \A l \in Key : lastUsed'[l] \in Nat
  <2>1. lastUsed' \in [Key -> Time]
    BY <1>2, EnsureBucketTypes
  <2> QED BY <2>1, Ticks
<1>5. /\ cpc'[c] = "pausing" /\ ckey'[c] = k /\ climiter'[c] = Born(k)
      /\ wake'[c] = Later(now, notBefore[k])
  BY DEF Call, TypeOK
<1>6. \A e \in Caller \ {c} : /\ cpc'[e] = cpc[e] /\ ckey'[e] = ckey[e]
                             /\ climiter'[e] = climiter[e] /\ wake'[e] = wake[e]
  BY DEF Call, TypeOK
<1>7. Covered'
  <2>1. ASSUME NEW l \in Key, NEW b \in Time, NEW t \in Nat, now < t, t <= slot[l][b] - Burst
        PROVE  \E e \in Caller : cpc'[e] = "queued" /\ wake'[e] = t
    <3>1. PICK e \in Caller : cpc[e] = "queued" /\ wake[e] = t
      BY <2>1 DEF BucketInv, Covered
    <3>2. e # c
      BY <1>2, <3>1
    <3> QED BY <1>6, <3>1, <3>2
  <2> QED BY <1>2, <2>1 DEF Covered
<1>8. HoldsFit'
  <2>1. ASSUME NEW l \in Key
        PROVE  notBefore[l] <= now \/ notBefore[l] + Crowd <= lastUsed'[l] + TTL + 1
    <3>1. notBefore[l] <= now \/ notBefore[l] + Crowd <= lastUsed[l] + TTL + 1
      BY DEF BucketInv, HoldsFit
    <3>2. lastUsed[l] <= lastUsed'[l] /\ lastUsed[l] \in Nat /\ lastUsed'[l] \in Nat
      BY <1>1, <1>3, <1>4
    <3> QED BY <1>1, <3>1, <3>2
  <2> QED BY <1>2, <1>3, <2>1 DEF HoldsFit
<1>9. PausesFit'
  <2>1. PauseFits(c)'
    <3>1. now <= wake'[c] /\ wake'[c] + Crowd <= now + TTL + 1
      <4>1. Crowd <= TTL + 1
        <5>1. 0 + Crowd <= TTL + 1
          BY Zenon DEF BucketsOutlast
        <5> QED BY <1>1, <5>1
      <4>2. /\ notBefore[k] <= now \/ notBefore[k] + Crowd <= lastUsed[k] + TTL + 1
            /\ lastUsed[k] <= now
        BY DEF BucketInv, HoldsFit
      <4> QED BY <1>1, <1>5, <4>1, <4>2 DEF Later
    <3> QED BY <1>2, <1>3, <1>5, <3>1 DEF PauseFits
  <2>2. ASSUME NEW e \in Caller \ {c}, cpc'[e] = "pausing" PROVE PauseFits(e)'
    <3>1. /\ ckey[e] \in live /\ climiter[e] = born[ckey[e]]
          /\ now <= wake[e] /\ wake[e] + Crowd <= lastUsed[ckey[e]] + TTL + 1
      BY <1>6, <2>2 DEF BucketInv, PausesFit, PauseFits
    <3>2. lastUsed[ckey[e]] <= lastUsed'[ckey[e]] /\ lastUsed'[ckey[e]] \in Nat
      BY <1>1, <1>3, <1>4
    <3>3. wake[e] + Crowd <= lastUsed'[ckey[e]] + TTL + 1
      BY <1>1, <3>1, <3>2
    <3> QED BY <1>2, <1>3, <1>6, <3>1, <3>3 DEF PauseFits
  <2> QED BY <2>1, <2>2 DEF PausesFit
<1> QED BY <1>2, <1>3, <1>7, <1>8, <1>9 DEF BucketInv

LEMMA ReserveForKeepsBuckets ==
    ASSUME BucketsOutlast, TypeOK, BucketInv, NEW k \in Key, NEW d \in Hold, ReserveFor(k, d)
    PROVE  BucketInv' /\ granted' = granted /\ \A l \in Key : Front(l) <= Front(l)'
<1>1. /\ now \in Nat /\ TTL \in Nat /\ Crowd \in Nat /\ d \in Nat
      /\ \A l \in Key : lastUsed[l] \in Nat /\ notBefore[l] \in Nat
      /\ \A e \in Caller : ckey[e] \in Key /\ wake[e] \in Nat
  BY Numbers, HoldAssumption
<1>2. /\ EnsureBucket(k) /\ UNCHANGED <<now, slot, cpc, ckey, climiter, wake>>
      /\ notBefore' = [notBefore EXCEPT ![k] = Later(notBefore[k], now + d)]
      /\ granted' = granted
  BY DEF ReserveFor, cvars
<1>3. /\ OneLimiter' /\ SlotsFit'
      /\ \A l \in Key : Front(l) <= Front(l)' /\ lastUsed[l] <= lastUsed'[l]
      /\ \A l \in Key : lastUsed'[l] <= now
      /\ \A l \in live : l \in live' /\ born'[l] = born[l]
      /\ k \in live' /\ born'[k] = Born(k) /\ lastUsed'[k] = now
      /\ \A l \in Key \ {k} : lastUsed'[l] = lastUsed[l] /\ (l \in live' <=> l \in live)
  BY <1>2, EnsureBucketKeeps
<1>4. \A l \in Key : lastUsed'[l] \in Nat
  <2>1. lastUsed' \in [Key -> Time]
    BY <1>2, EnsureBucketTypes
  <2> QED BY <2>1, Ticks
<1>5. Covered'
  BY <1>2 DEF BucketInv, Covered
<1>6. HoldsFit'
  <2>1. notBefore'[k] <= now \/ notBefore'[k] + Crowd <= lastUsed'[k] + TTL + 1
    <3>1. d + Crowd <= TTL + 1
      BY DEF BucketsOutlast
    <3>2. /\ notBefore[k] <= now \/ notBefore[k] + Crowd <= lastUsed[k] + TTL + 1
          /\ lastUsed[k] <= now
      BY DEF BucketInv, HoldsFit
    <3>3. notBefore'[k] = Later(notBefore[k], now + d)
      BY <1>2 DEF TypeOK
    <3> QED BY <1>1, <1>3, <3>1, <3>2, <3>3 DEF Later
  <2>2. ASSUME NEW l \in Key \ {k}
        PROVE  notBefore'[l] <= now \/ notBefore'[l] + Crowd <= lastUsed'[l] + TTL + 1
    <3>1. notBefore'[l] = notBefore[l]
      BY <1>2 DEF TypeOK
    <3> QED BY <1>3, <3>1 DEF BucketInv, HoldsFit
  <2> QED BY <1>2, <1>3, <2>1, <2>2 DEF HoldsFit
<1>7. ASSUME NEW e \in Caller, cpc'[e] = "pausing" PROVE PauseFits(e)'
  <2>1. /\ ckey[e] \in live /\ climiter[e] = born[ckey[e]]
        /\ now <= wake[e] /\ wake[e] + Crowd <= lastUsed[ckey[e]] + TTL + 1
    BY <1>2, <1>7 DEF BucketInv, PausesFit, PauseFits
  <2>2. lastUsed[ckey[e]] <= lastUsed'[ckey[e]] /\ lastUsed'[ckey[e]] \in Nat
    BY <1>1, <1>3, <1>4
  <2>3. wake[e] + Crowd <= lastUsed'[ckey[e]] + TTL + 1
    BY <1>1, <2>1, <2>2
  <2> QED BY <1>2, <1>3, <2>1, <2>3 DEF PauseFits
<1> QED BY <1>2, <1>3, <1>5, <1>6, <1>7 DEF BucketInv, PausesFit

LEMMA SweepKeepsBuckets ==
    ASSUME BucketsOutlast, TypeOK, BucketInv, Sweep
    PROVE  BucketInv' /\ granted' = granted /\ \A l \in Key : Front(l) <= Front(l)'
<1>1. /\ now \in Nat /\ TTL \in Nat /\ Crowd \in Nat /\ Burst < Crowd + 1
      /\ \A l \in Key : /\ lastUsed[l] \in Nat /\ notBefore[l] \in Nat /\ born[l] \in Time
                        /\ Front(l) \in Nat
      /\ \A l \in Key, b \in Time : slot[l][b] \in Nat
      /\ \A e \in Caller : ckey[e] \in Key /\ wake[e] \in Nat
  BY Numbers, CrowdIsNat
<1>2. /\ live' = live \ Idle
      /\ UNCHANGED <<now, slot, cpc, ckey, climiter, wake, granted>>
      /\ \A l \in Key : /\ l \in Idle => lastUsed'[l] = 0 /\ notBefore'[l] = 0
                        /\ l \notin Idle => /\ born'[l] = born[l] /\ lastUsed'[l] = lastUsed[l]
                                            /\ notBefore'[l] = notBefore[l]
  BY DEF Sweep, cvars
<1>3. live \subseteq Key /\ Idle \subseteq live /\ \A l \in Idle : lastUsed[l] + TTL + 1 <= now
  <2>1. live \subseteq Key
    BY DEF TypeOK
  <2> QED BY <1>1, <2>1 DEF Idle
<1>4. ASSUME NEW l \in Idle PROVE slot[l][born[l]] <= now
  <2>1. slot[l][born[l]] <= lastUsed[l] + TTL + 1
    BY <1>3 DEF BucketInv, SlotsFit
  <2>2. slot[l][born[l]] \in Nat /\ lastUsed[l] \in Nat /\ lastUsed[l] + TTL + 1 <= now
    BY <1>1, <1>3
  <2> QED BY <1>1, <2>1, <2>2
<1>5. OneLimiter'
  <2>1. ASSUME NEW l \in Key, NEW b \in Time
        PROVE  slot[l][b] <= now \/ (l \in live' /\ b = born'[l])
    <3>1. slot[l][b] <= now \/ (l \in live /\ b = born[l])
      BY DEF BucketInv, OneLimiter
    <3> QED BY <1>2, <1>4, <3>1
  <2> QED BY <1>2, <2>1 DEF OneLimiter
<1>6. Covered'
  BY <1>2 DEF BucketInv, Covered
<1>7. HoldsFit'
  <2>1. ASSUME NEW l \in Key
        PROVE  /\ lastUsed'[l] <= now
               /\ notBefore'[l] <= now \/ notBefore'[l] + Crowd <= lastUsed'[l] + TTL + 1
    <3>1. CASE l \in Idle
      BY <1>1, <1>2, <3>1
    <3>2. CASE l \notin Idle
      BY <1>2, <3>2 DEF BucketInv, HoldsFit
    <3> QED BY <3>1, <3>2
  <2> QED BY <1>2, <2>1 DEF HoldsFit
<1>8. ASSUME NEW e \in Caller, cpc'[e] = "pausing" PROVE PauseFits(e)'
  <2>1. /\ ckey[e] \in live /\ climiter[e] = born[ckey[e]]
        /\ now <= wake[e] /\ wake[e] + Crowd <= lastUsed[ckey[e]] + TTL + 1
    BY <1>2, <1>8 DEF BucketInv, PausesFit, PauseFits
  <2>2. ckey[e] \notin Idle
    <3>1. ASSUME ckey[e] \in Idle PROVE FALSE
      <4>1. lastUsed[ckey[e]] + TTL + 1 <= now /\ lastUsed[ckey[e]] \in Nat /\ wake[e] \in Nat
        BY <1>1, <1>3, <3>1
      <4>2. Crowd > 0
        BY <1>1, BurstAssumption
      <4> QED BY <1>1, <2>1, <4>1, <4>2
    <3> QED BY <3>1
  <2> QED BY <1>1, <1>2, <2>1, <2>2 DEF PauseFits
<1>9. SlotsFit'
  <2>1. ASSUME NEW l \in live' PROVE slot[l][born'[l]] <= lastUsed'[l] + TTL + 1
    <3>1. l \in Key /\ l \in live /\ l \notin Idle
      BY <1>2, <1>3
    <3> QED BY <1>2, <3>1 DEF BucketInv, SlotsFit
  <2> QED BY <1>2, <2>1 DEF SlotsFit
<1>10. ASSUME NEW l \in Key PROVE Front(l) <= Front(l)'
  <2>1. CASE l \in Idle
    <3>1. Front(l) = now
      <4>1. slot[l][born[l]] <= now /\ slot[l][born[l]] \in Nat
        BY <1>1, <1>4, <2>1
      <4> QED BY <1>1, <1>3, <2>1, <4>1 DEF Front, Later
    <3>2. Front(l)' = now
      BY <1>2, <2>1 DEF Front
    <3> QED BY <1>1, <3>1, <3>2
  <2>2. CASE l \notin Idle
    <3>1. Front(l)' = Front(l)
      BY <1>2, <2>2 DEF Front
    <3> QED BY <1>1, <3>1
  <2> QED BY <2>1, <2>2
<1> QED BY <1>2, <1>5, <1>6, <1>7, <1>8, <1>9, <1>10 DEF BucketInv, PausesFit

LEMMA AdvanceKeepsBuckets ==
    ASSUME TypeOK, BucketInv, Advance
    PROVE  BucketInv' /\ granted' = granted /\ \A l \in Key : Front(l) <= Front(l)'
<1>1. /\ now \in Nat
      /\ \A l \in Key : lastUsed[l] \in Nat /\ notBefore[l] \in Nat /\ born[l] \in Time
      /\ \A l \in Key, b \in Time : slot[l][b] \in Nat
      /\ \A e \in Caller : wake[e] \in Nat
  BY Numbers
<1>2. /\ now' = now + 1
      /\ UNCHANGED <<live, born, lastUsed, notBefore, slot, cpc, ckey, climiter, wake, granted>>
      /\ \A e \in Caller : cpc[e] # "free" => now < wake[e]
  BY DEF Advance, bvars, cvars
<1>3. \A n \in Nat : n <= now => n <= now + 1
  BY <1>1
<1>4. OneLimiter'
  BY <1>1, <1>2, <1>3 DEF BucketInv, OneLimiter
<1>5. Covered'
  <2>1. \A t \in Nat : now + 1 < t => now < t
    BY <1>1
  <2> QED BY <1>2, <2>1 DEF BucketInv, Covered
<1>6. HoldsFit'
  BY <1>1, <1>2, <1>3 DEF BucketInv, HoldsFit
<1>7. PausesFit'
  <2>1. \A e \in Caller : now < wake[e] => now + 1 <= wake[e]
    BY <1>1
  <2> QED BY <1>2, <2>1 DEF BucketInv, PausesFit, PauseFits
<1>8. SlotsFit'
  BY <1>2 DEF BucketInv, SlotsFit
<1>9. ASSUME NEW l \in Key PROVE Front(l) <= Front(l)'
  <2>1. slot[l][born[l]] \in Nat
    BY <1>1
  <2> QED BY <1>1, <1>2, <2>1 DEF Front, Later
<1> QED BY <1>2, <1>4, <1>5, <1>6, <1>7, <1>8, <1>9 DEF BucketInv

LEMMA ReturnKeepsBuckets ==
    ASSUME TypeOK, BucketInv, NEW c \in Caller, Return(c)
    PROVE  BucketInv' /\ granted' = granted /\ \A l \in Key : Front(l) <= Front(l)'
<1>1. now \in Nat /\ wake[c] \in Nat /\ \A l \in Key : Front(l) \in Nat
  BY Numbers
<1>2. /\ cpc[c] = "queued" /\ now >= wake[c] /\ cpc'[c] = "free"
      /\ UNCHANGED <<now, live, born, lastUsed, notBefore, slot, ckey, granted>>
  BY DEF Return, bvars, TypeOK
<1>3. \A e \in Caller \ {c} : cpc'[e] = cpc[e] /\ climiter'[e] = climiter[e] /\ wake'[e] = wake[e]
  BY DEF Return, TypeOK
<1>4. OneLimiter' /\ HoldsFit' /\ SlotsFit'
  BY <1>2 DEF BucketInv, OneLimiter, HoldsFit, SlotsFit
<1>5. Covered'
  <2>1. ASSUME NEW l \in Key, NEW b \in Time, NEW t \in Nat, now < t, t <= slot[l][b] - Burst
        PROVE  \E e \in Caller : cpc'[e] = "queued" /\ wake'[e] = t
    <3>1. PICK e \in Caller : cpc[e] = "queued" /\ wake[e] = t
      BY <2>1 DEF BucketInv, Covered
    <3>2. e # c
      BY <1>1, <1>2, <2>1, <3>1
    <3> QED BY <1>3, <3>1, <3>2
  <2> QED BY <1>2, <2>1 DEF Covered
<1>6. ASSUME NEW e \in Caller, cpc'[e] = "pausing" PROVE PauseFits(e)'
  <2>1. e # c /\ cpc[e] = "pausing"
    BY <1>2, <1>3, <1>6
  <2> QED BY <1>2, <1>3, <2>1 DEF BucketInv, PausesFit, PauseFits
<1>7. \A l \in Key : Front(l) <= Front(l)'
  BY <1>1, <1>2 DEF Front
<1> QED BY <1>2, <1>4, <1>5, <1>6, <1>7 DEF BucketInv, PausesFit

-----------------------------------------------------------------------------
(* Reserve: the limiter's promise, and the token that is granted.          *)
LEMMA ReserveFacts ==
    ASSUME TypeOK, NEW c \in Caller, Reserve(c),
           NEW k, k = ckey[c], NEW b, b = climiter[c], NEW T, T = TokenAt(k, b)
    PROVE  /\ k \in Key /\ b \in Time /\ T \in Nat
           /\ cpc[c] = "pausing" /\ now >= wake[c] /\ cpc'[c] = "queued" /\ wake'[c] = T
           /\ UNCHANGED <<now, live, born, lastUsed, notBefore, ckey, climiter>>
           /\ wake' \in [Caller -> Nat]
           /\ \A e \in Caller \ {c} : cpc'[e] = cpc[e] /\ wake'[e] = wake[e]
           /\ slot'[k][b] = Promised(k, b)
           /\ \A l \in Key, x \in Time : l # k \/ x # b => slot'[l][x] = slot[l][x]
           /\ \A l \in Key \ {k} : granted'[l] = granted[l]
           /\ \A x \in Horizon \ {T} : granted'[k][x] = granted[k][x]
           /\ T \in Horizon => granted'[k][T] = granted[k][T] + 1
<1>1. k \in Key /\ b \in Time /\ T \in Nat /\ Promised(k, b) \in Nat
  BY TokenIsNat DEF TypeOK
<1>2. /\ cpc[c] = "pausing" /\ now >= wake[c]
      /\ slot' = [slot EXCEPT ![k][b] = Promised(k, b)]
      /\ wake' = [wake EXCEPT ![c] = T]
      /\ granted' = [granted EXCEPT ![k][T] = @ + 1]
      /\ cpc' = [cpc EXCEPT ![c] = "queued"]
      /\ UNCHANGED <<now, live, born, lastUsed, notBefore, ckey, climiter>>
  BY DEF Reserve, bvars
<1>3. /\ cpc'[c] = "queued" /\ wake'[c] = T /\ wake' \in [Caller -> Nat]
      /\ \A e \in Caller \ {c} : cpc'[e] = cpc[e] /\ wake'[e] = wake[e]
  BY <1>1, <1>2 DEF TypeOK
<1>4. /\ slot'[k][b] = Promised(k, b)
      /\ \A l \in Key, x \in Time : l # k \/ x # b => slot'[l][x] = slot[l][x]
  BY <1>1, <1>2 DEF TypeOK
<1>5. granted \in [Key -> [Horizon -> Nat]]
  BY DEF TypeOK
<1>6. /\ \A l \in Key \ {k} : granted'[l] = granted[l]
      /\ \A x \in Horizon \ {T} : granted'[k][x] = granted[k][x]
      /\ T \in Horizon => granted'[k][T] = granted[k][T] + 1
  BY <1>1, <1>2, <1>5
<1> QED BY <1>1, <1>2, <1>3, <1>4, <1>6

(* The token comes before Front, and after it has moved on by one.         *)
LEMMA TokenWithinFront ==
    ASSUME TypeOK, BucketInv, NEW c \in Caller, Reserve(c),
           NEW k, k = ckey[c], NEW b, b = climiter[c], NEW T, T = TokenAt(k, b)
    PROVE  /\ k \in live /\ b = born[k] /\ now <= wake[c]
           /\ Front(k) \in Nat /\ Promised(k, b) = Front(k) + 1 /\ Front(k)' = Front(k) + 1
           /\ now <= T /\ T <= Front(k) /\ Front(k) + 1 - Burst <= T
           /\ T = now \/ T = Promised(k, b) - Burst
<1>1. /\ k \in Key /\ b \in Time /\ T \in Nat
      /\ cpc[c] = "pausing" /\ slot'[k][b] = Promised(k, b)
      /\ UNCHANGED <<now, live, born>>
  BY ReserveFacts
<1>2. k \in live /\ b = born[k] /\ now <= wake[c]
  BY <1>1 DEF BucketInv, PausesFit, PauseFits
<1>3. now \in Nat /\ Burst \in Nat \ {0} /\ slot[k][b] \in Nat
  BY <1>1, Numbers, BurstAssumption
<1>4. Front(k) = Later(slot[k][b], now) /\ Promised(k, b) = Front(k) + 1
  BY <1>2 DEF Front, Promised
<1>5. Front(k) \in Nat /\ now <= Front(k)
  BY <1>3, <1>4 DEF Later
<1>6. Front(k)' = Front(k) + 1
  <2>1. Front(k)' = Later(Front(k) + 1, now)
    BY <1>1, <1>2, <1>4 DEF Front
  <2> QED BY <1>3, <1>5, <2>1 DEF Later
<1>7. T = Later(now, Promised(k, b) - Burst)
  BY DEF TokenAt
<1>8. /\ now <= T /\ T <= Front(k) /\ Front(k) + 1 - Burst <= T
      /\ T = now \/ T = Promised(k, b) - Burst
  BY <1>3, <1>4, <1>5, <1>7 DEF Later
<1> QED BY <1>2, <1>4, <1>5, <1>6, <1>8

LEMMA ReserveKeepsBuckets ==
    ASSUME TypeOK, BucketInv, NEW c \in Caller, Reserve(c)
    PROVE  BucketInv'
<1>0. PICK k, b, T : k = ckey[c] /\ b = climiter[c] /\ T = TokenAt(k, b)
  OBVIOUS
<1>1. /\ k \in Key /\ b \in Time /\ T \in Nat
      /\ cpc[c] = "pausing" /\ now >= wake[c] /\ cpc'[c] = "queued" /\ wake'[c] = T
      /\ UNCHANGED <<now, live, born, lastUsed, notBefore, ckey, climiter>>
      /\ wake' \in [Caller -> Nat]
      /\ \A e \in Caller \ {c} : cpc'[e] = cpc[e] /\ wake'[e] = wake[e]
      /\ slot'[k][b] = Promised(k, b)
      /\ \A l \in Key, x \in Time : l # k \/ x # b => slot'[l][x] = slot[l][x]
  BY <1>0, ReserveFacts
<1>2. /\ k \in live /\ b = born[k] /\ now <= wake[c]
      /\ Front(k) \in Nat /\ Promised(k, b) = Front(k) + 1
      /\ T = now \/ T = Promised(k, b) - Burst
  BY <1>0, TokenWithinFront
<1>3. /\ now \in Nat /\ TTL \in Nat /\ Burst \in Nat /\ Crowd \in Nat
      /\ Cardinality(Caller) \in Nat /\ wake[c] \in Nat /\ lastUsed[k] \in Nat
      /\ slot[k][b] \in Nat
  BY <1>1, Numbers, CrowdIsNat
<1>4. Front(k) = Later(slot[k][b], now)
  BY <1>2 DEF Front
<1>5. live \subseteq Key
  BY DEF TypeOK
<1>6. wake[c] + Crowd <= lastUsed[k] + TTL + 1
  BY <1>0, <1>1 DEF BucketInv, PausesFit, PauseFits
<1>7. OneLimiter'
  BY <1>1, <1>2 DEF BucketInv, OneLimiter
<1>8. Covered'
  <2>1. ASSUME NEW l \in Key, NEW x \in Time, NEW t \in Nat, now < t, t <= slot'[l][x] - Burst
        PROVE  \E e \in Caller : cpc'[e] = "queued" /\ wake'[e] = t
    <3>1. CASE t <= slot[l][x] - Burst
      <4>1. PICK e \in Caller : cpc[e] = "queued" /\ wake[e] = t
        BY <2>1, <3>1 DEF BucketInv, Covered
      <4>2. e # c
        BY <1>1, <4>1
      <4> QED BY <1>1, <4>1, <4>2
    <3>2. CASE ~(t <= slot[l][x] - Burst)
      <4>1. l = k /\ x = b
        BY <1>1, <2>1, <3>2
      <4>2. t = T
        <5>1. t <= Front(k) + 1 - Burst /\ ~(t <= slot[k][b] - Burst)
          BY <1>1, <1>2, <1>3, <2>1, <3>2, <4>1
        <5>2. Burst > 0
          BY BurstAssumption
        <5>3. T = now \/ T = Front(k) + 1 - Burst
          BY <1>2, <1>3
        <5>4. Front(k) = slot[k][b]
          BY <1>3, <1>4, <2>1, <5>1, <5>2 DEF Later
        <5>5. Front(k) + 1 - Burst <= T
          BY <1>0, TokenWithinFront
        <5> QED BY <1>1, <1>2, <1>3, <2>1, <5>1, <5>3, <5>4, <5>5
      <4> QED BY <1>1, <4>2
    <3> QED BY <3>1, <3>2
  <2> QED BY <1>1, <2>1 DEF Covered
<1>9. HoldsFit'
  BY <1>1 DEF BucketInv, HoldsFit
<1>10. PausesFit'
  <2>1. ASSUME NEW e \in Caller, cpc'[e] = "pausing" PROVE PauseFits(e)'
    <3>1. e # c /\ cpc[e] = "pausing"
      BY <1>1, <2>1
    <3> QED BY <1>1, <3>1 DEF BucketInv, PausesFit, PauseFits
  <2> QED BY <2>1 DEF PausesFit
<1>11. SlotsFit'
  <2>1. slot'[k][b] - Burst <= now + Cardinality(Caller)
    <3> DEFINE top == slot'[k][b] - Burst
    <3>1. top \in Int
      BY <1>1, <1>2, <1>3
    <3>2. \A t \in Nat : now < t /\ t <= top => \E e \in Caller : wake'[e] = t
      BY <1>1, <1>8 DEF Covered
    <3> HIDE DEF top
    <3>3. top <= now + Cardinality(Caller)
      BY <1>1, <1>3, <3>1, <3>2, WakingsAreFew
    <3> QED BY <3>3 DEF top
  <2>2. slot'[k][b] <= lastUsed[k] + TTL + 1
    <3>1. now = wake[c]
      BY <1>1, <1>2, <1>3
    <3>2. slot'[k][b] \in Nat
      BY <1>1, <1>2
    <3>3. Crowd = Burst + Cardinality(Caller)
      BY DEF Crowd
    <3> QED BY <1>3, <1>6, <2>1, <3>1, <3>2, <3>3
  <2>3. ASSUME NEW l \in live, l # k PROVE slot'[l][born[l]] <= lastUsed[l] + TTL + 1
    <3>1. l \in Key /\ born[l] \in Time
      BY <1>5, Numbers
    <3> QED BY <1>1, <2>3, <3>1 DEF BucketInv, SlotsFit
  <2> QED BY <1>1, <1>2, <2>2, <2>3 DEF SlotsFit
<1> QED BY <1>7, <1>8, <1>9, <1>10, <1>11 DEF BucketInv

LEMMA ReserveKeepsBudget ==
    ASSUME TypeOK, BucketInv, Budget, RateRespected, NEW c \in Caller, Reserve(c)
    PROVE  Budget' /\ RateRespected'
<1>0. PICK k, T : k = ckey[c] /\ T = TokenAt(k, climiter[c])
  OBVIOUS
<1>1. /\ k \in Key /\ T \in Nat
      /\ UNCHANGED <<now, live, born>>
      /\ \A l \in Key, x \in Time : l # k => slot'[l][x] = slot[l][x]
      /\ \A l \in Key \ {k} : granted'[l] = granted[l]
      /\ \A x \in Horizon \ {T} : granted'[k][x] = granted[k][x]
      /\ T \in Horizon => granted'[k][T] = granted[k][T] + 1
  BY <1>0, ReserveFacts
<1>2. /\ Front(k) \in Nat /\ Front(k)' = Front(k) + 1
      /\ T <= Front(k) /\ Front(k) + 1 - Burst <= T
  BY <1>0, TokenWithinFront
<1>3. Burst \in Nat
  BY BurstAssumption
<1>4. ASSUME NEW a \in Horizon, NEW b \in Horizon
      PROVE  /\ Spent(k, a, b)' = 0 \/ Spent(k, a, b)' <= Front(k)' - a
             /\ a <= b => Spent(k, a, b)' <= Burst + (b - a)
  <2>1. /\ Spent(k, a, b) \in Nat
        /\ Spent(k, a, b)' = Spent(k, a, b) + (IF T \in a..b THEN 1 ELSE 0)
    <3>1. IsFiniteSet(a..b) /\ a..b \subseteq Horizon
      BY HorizonIsNat
    <3>2. /\ \A x \in a..b : granted[k][x] \in Nat
          /\ \A x \in (a..b) \ {T} : granted'[k][x] = granted[k][x]
          /\ T \in a..b => granted'[k][T] = granted[k][T] + 1
      BY <1>1, <3>1 DEF TypeOK
    <3>3. 1 \in Int
      OBVIOUS
    <3> QED BY <3>1, <3>2, <3>3, SumChanges DEF Spent
  <2>2. a \in Nat /\ b \in Nat
    BY HorizonIsNat
  <2>3. Spent(k, a, b) = 0 \/ Spent(k, a, b) <= Front(k) - a
    BY <1>1 DEF Budget
  <2>4. a <= b => Spent(k, a, b) <= Burst + (b - a)
    BY <1>1 DEF RateRespected, Spent
  <2>5. CASE T \in a..b
    <3>1. a <= T /\ T <= b
      BY <2>5
    <3>2. Spent(k, a, b)' = Spent(k, a, b) + 1
      BY <2>1, <2>5
    <3>3. Spent(k, a, b)' <= Front(k) + 1 - a
      BY <1>1, <1>2, <2>1, <2>2, <2>3, <3>1, <3>2
    <3> QED BY <1>1, <1>2, <1>3, <2>1, <2>2, <3>1, <3>2, <3>3
  <2>6. CASE T \notin a..b
    <3>1. Spent(k, a, b)' = Spent(k, a, b)
      BY <2>1, <2>6
    <3> QED BY <1>2, <2>1, <2>2, <2>3, <2>4, <3>1
  <2> QED BY <2>5, <2>6
<1>5. ASSUME NEW l \in Key \ {k}, NEW a \in Horizon, NEW b \in Horizon
      PROVE  /\ Spent(l, a, b)' = 0 \/ Spent(l, a, b)' <= Front(l)' - a
             /\ a <= b => Spent(l, a, b)' <= Burst + (b - a)
  <2>1. Spent(l, a, b)' = Spent(l, a, b)
    BY <1>1 DEF Spent
  <2>2. born[l] \in Time
    BY Numbers
  <2>3. Front(l)' = Front(l)
    BY <1>1, <2>2 DEF Front
  <2>4. Spent(l, a, b) = 0 \/ Spent(l, a, b) <= Front(l) - a
    BY DEF Budget
  <2>5. a <= b => Spent(l, a, b) <= Burst + (b - a)
    BY DEF RateRespected, Spent
  <2> QED BY <2>1, <2>3, <2>4, <2>5
<1>6. Budget'
  BY <1>4, <1>5 DEF Budget
<1>7. RateRespected'
  BY <1>4, <1>5 DEF RateRespected, Spent
<1> QED BY <1>6, <1>7

-----------------------------------------------------------------------------
LEMMA NextRateInv == BucketsOutlast /\ RateInv /\ [Next]_vars => RateInv'
<1> SUFFICES ASSUME BucketsOutlast, RateInv, [Next]_vars PROVE RateInv'
  OBVIOUS
<1>1. TypeOK /\ BucketInv /\ Budget /\ RateRespected
  BY DEF RateInv
<1>2. TypeOK'
  BY <1>1, NextTypeOK
<1>3. ASSUME BucketInv', granted' = granted, \A l \in Key : Front(l) <= Front(l)'
      PROVE  RateInv'
  BY <1>1, <1>2, <1>3, NoGrantKeepsBudget DEF RateInv
<1>4. ASSUME NEW c \in Caller, NEW k \in Key, Call(c, k) PROVE RateInv'
  BY <1>1, <1>3, <1>4, CallKeepsBuckets
<1>5. ASSUME NEW c \in Caller, Reserve(c) PROVE RateInv'
  BY <1>1, <1>2, <1>5, ReserveKeepsBuckets, ReserveKeepsBudget DEF RateInv
<1>6. ASSUME NEW c \in Caller, Return(c) PROVE RateInv'
  BY <1>1, <1>3, <1>6, ReturnKeepsBuckets
<1>7. ASSUME NEW k \in Key, NEW d \in Hold, ReserveFor(k, d) PROVE RateInv'
  BY <1>1, <1>3, <1>7, ReserveForKeepsBuckets
<1>8. CASE Sweep
  BY <1>1, <1>3, <1>8, SweepKeepsBuckets
<1>9. CASE Advance
  BY <1>1, <1>3, <1>9, AdvanceKeepsBuckets
<1>10. CASE UNCHANGED vars
  <2>1. BucketInv'
    BY <1>1, <1>10 DEF vars, bvars, cvars, BucketInv, OneLimiter, Covered, HoldsFit, PausesFit,
                       PauseFits, SlotsFit
  <2>2. granted' = granted /\ \A l \in Key : Front(l)' = Front(l) /\ Front(l) \in Nat
    BY <1>1, <1>10, Numbers DEF vars, bvars, Front
  <2>3. \A l \in Key : Front(l) <= Front(l)'
    BY <2>2
  <2> QED BY <1>3, <2>1, <2>2, <2>3
<1> QED BY <1>4, <1>5, <1>6, <1>7, <1>8, <1>9, <1>10 DEF Next

(* If buckets outlast their holds and promises, no webhook is sent more    *)
(* than the burst plus one post per tick in any period, however calls,     *)
(* holds and evictions interleave.                                         *)
THEOREM RateIsRespected == BucketsOutlast => (Spec => []RateRespected)
<1> SUFFICES ASSUME BucketsOutlast PROVE Spec => []RateRespected
  OBVIOUS
<1>1. RateInv /\ [Next]_vars => RateInv'
  BY NextRateInv
<1>2. RateInv => RateRespected
  BY DEF RateInv
<1> QED BY <1>1, <1>2, InitRateInv, PTL DEF Spec

-----------------------------------------------------------------------------
(* PacedDelivery.                                                          *)
PacedTypes ==
    /\ status \in [Msg -> D!Status]
    /\ attempts \in [Msg -> Nat]
    /\ nextAt \in [Msg -> Nat \cup {Never}]
    /\ pc \in {"claim", "feed", "wait", "idle"}
    /\ batch \subseteq Msg
    /\ wpc \in [Caller -> {"idle", "recv", "limit", "send", "hold", "complete"}]
    /\ wmsg \in [Caller -> Msg \cup {NoMsg}]
    /\ wverdict \in [Caller -> D!Verdict \cup {"none"}]
    /\ wretry \in [Caller -> Hold \cup {0}]
    /\ sends \in [Msg -> Nat]
    /\ confirmed \subseteq Msg
    /\ firstSend \in [Msg -> Nat \cup {Never}]
    /\ limited \subseteq Msg
    /\ intoHold \in [Key -> Nat]

(* A goroutine that has a message knows what it does with it, and is in    *)
(* Wait for the webhook of that message or not at all.                     *)
InHand(w) ==
    /\ wpc[w] \in {"limit", "send", "hold", "complete"} => wmsg[w] \in Msg
    /\ wpc[w] \in {"hold", "complete"} => wverdict[w] \in D!Verdict
    /\ wpc[w] = "hold" => wretry[w] \in Hold
    /\ cpc[w] # "free" => wpc[w] = "limit" /\ ckey[w] = Bucket[wmsg[w]]

(* Between two batches there are no goroutines.                            *)
CrewIdle == pc \in {"claim", "idle"} => \A w \in Caller : wpc[w] = "idle"

NotAskedYet == \A m \in Msg : status[m] = "absent" => nextAt[m] = 0

PacedInv == /\ TypeOK /\ PacedTypes /\ (\A w \in Caller : InHand(w))
            /\ CrewIdle /\ NotAskedYet

-----------------------------------------------------------------------------
LEMMA DelayFacts ==
    ASSUME PacedTypes
    PROVE  /\ \A n \in Nat : Backoff(n) \in Nat \ {0}
           /\ \A m \in Msg, d \in Hold \cup {0} : Delay(m, d) \in Nat \ {0}
<1>1. Len(Delays) \in Nat \ {0} /\ \A i \in 1..Len(Delays) : Delays[i] \in Nat \ {0}
  BY DelaysAssumption
<1>2. \A n \in Nat : Backoff(n) \in Nat \ {0}
  BY <1>1 DEF Backoff
<1> QED BY <1>2, HoldAssumption DEF PacedTypes, Delay

LEMMA InitPacedInv == PacedInit => PacedInv
<1> SUFFICES ASSUME PacedInit PROVE PacedInv
  OBVIOUS
<1>1. TypeOK
  BY InitTypeOK DEF PacedInit
<1>2. PacedTypes
  BY DEF PacedInit, PacedTypes, D!Status, D!Verdict
<1>3. \A w \in Caller : InHand(w)
  BY DEF PacedInit, Init, InHand
<1>4. CrewIdle /\ NotAskedYet
  BY DEF PacedInit, CrewIdle, NotAskedYet
<1> QED BY <1>1, <1>2, <1>3, <1>4 DEF PacedInv

(* The worker uses the limiter as KeyedLimiter has it.                     *)
LEMMA StepIsLimiterStep ==
    ASSUME PacedInv, [PacedNext]_pvars
    PROVE  [Next]_vars
<1>1. CASE vars' = vars
  BY <1>1
<1>2. ASSUME NEW w \in Caller, Wait(w) PROVE Next
  <2>1. Bucket[wmsg[w]] \in Key
    BY <1>2, BucketAssumption DEF Wait, PacedInv, InHand
  <2> QED BY <1>2, <2>1 DEF Wait, Next
<1>3. ASSUME NEW w \in Caller, HoldOff(w) PROVE Next
  <2>1. Bucket[wmsg[w]] \in Key /\ wretry[w] \in Hold
    BY <1>3, BucketAssumption DEF HoldOff, PacedInv, InHand
  <2> QED BY <1>3, <2>1 DEF HoldOff, Next
<1>4. CASE Housekeep \/ Passes
  BY <1>4 DEF Housekeep, Passes, Next
<1>5. ASSUME \/ \E m \in Msg : SiteAsks(m)
             \/ ClaimRows \/ ClaimNothing \/ FeedDone \/ Drained \/ Tick
             \/ \E w \in Caller : Feed(w) \/ RangeEnds(w) \/ Send(w) \/ Complete(w)
             \/ pvars' = pvars
      PROVE  vars' = vars
  BY <1>5 DEF SiteAsks, ClaimRows, ClaimNothing, FeedDone, Drained, Tick, Feed, RangeEnds,
              Send, Complete, pvars
<1> QED BY <1>1, <1>2, <1>3, <1>4, <1>5 DEF PacedNext

-----------------------------------------------------------------------------
(* The rows and the loop: no goroutine moves, but all begin.               *)
LEMMA LoopKeepsInv ==
    ASSUME PacedInv, TypeOK',
           \/ \E m \in Msg : SiteAsks(m)
           \/ ClaimRows \/ ClaimNothing \/ FeedDone \/ Drained \/ Tick
    PROVE  PacedInv'
<1> USE DEF PacedInv
<1>1. ASSUME NEW m \in Msg, SiteAsks(m) PROVE PacedInv'
  <2>1. now \in Nat
    BY Ticks DEF TypeOK
  <2>2. PacedTypes'
    BY <1>1, <2>1 DEF SiteAsks, PacedTypes, rvars, wvars, hvars, D!Status
  <2>3. (\A w \in Caller : InHand(w))' /\ CrewIdle'
    BY <1>1 DEF SiteAsks, InHand, CrewIdle, rvars, wvars, vars, cvars
  <2>4. NotAskedYet'
    BY <1>1 DEF SiteAsks, NotAskedYet, PacedTypes
  <2> QED BY <2>2, <2>3, <2>4
<1>2. CASE ClaimRows
  <2>1. \A w \in Caller : wpc[w] = "idle" /\ cpc[w] = "free"
    BY <1>2 DEF ClaimRows, CrewIdle, InHand
  <2>2. PICK S \in Selections \ {{}} :
          /\ status' = [m \in Msg |-> IF m \in S THEN "delivering" ELSE status[m]]
          /\ attempts' = [m \in Msg |-> IF m \in S THEN attempts[m] + 1 ELSE attempts[m]]
          /\ nextAt' = [m \in Msg |-> IF m \in S THEN now + ClaimLease ELSE nextAt[m]]
          /\ batch' = S
    BY <1>2 DEF ClaimRows
  <2>3. now + ClaimLease \in Nat /\ S \subseteq Msg
    BY Ticks, LeaseAssumption DEF TypeOK, Selections, Claimable
  <2>4. /\ wpc' = [w \in Caller |-> "recv"] /\ pc' = "feed"
        /\ UNCHANGED <<vars, wmsg, wverdict, wretry, hvars>>
    BY <1>2 DEF ClaimRows
  <2>5. PacedTypes'
    BY <2>2, <2>3, <2>4 DEF PacedTypes, hvars, D!Status
  <2>6. (\A w \in Caller : InHand(w))' /\ CrewIdle'
    BY <2>1, <2>4 DEF InHand, CrewIdle, vars, cvars
  <2>7. NotAskedYet'
    BY <2>2 DEF NotAskedYet
  <2> QED BY <2>5, <2>6, <2>7
<1>3. CASE ClaimNothing \/ FeedDone \/ Drained \/ Tick
  <2>1. /\ UNCHANGED <<vars, qvars, batch, wvars, hvars>>
        /\ pc' \in {"claim", "idle", "wait"}
        /\ pc' = "wait" \/ \A w \in Caller : wpc[w] = "idle"
    BY <1>3 DEF ClaimNothing, FeedDone, Drained, Tick, CrewIdle
  <2>2. PacedTypes'
    BY <2>1 DEF PacedTypes, qvars, wvars, hvars
  <2>3. (\A w \in Caller : InHand(w))'
    BY <2>1 DEF InHand, wvars, vars, cvars
  <2>4. CrewIdle' /\ NotAskedYet'
    BY <2>1 DEF CrewIdle, NotAskedYet, qvars, wvars
  <2> QED BY <2>2, <2>3, <2>4
<1> QED BY <1>1, <1>2, <1>3

(* What a goroutine does with its message touches no other goroutine.      *)
Others(w) == \A v \in Caller \ {w} :
                /\ wpc'[v] = wpc[v] /\ wmsg'[v] = wmsg[v] /\ wverdict'[v] = wverdict[v]
                /\ wretry'[v] = wretry[v] /\ cpc'[v] = cpc[v] /\ ckey'[v] = ckey[v]

LEMMA WorkKeepsInv ==
    ASSUME PacedInv, TypeOK', NEW w \in Caller,
           \/ Feed(w) \/ RangeEnds(w) \/ Wait(w) \/ Send(w) \/ HoldOff(w) \/ Complete(w)
    PROVE  PacedInv'
<1> USE DEF PacedInv
<1>1. ASSUME PacedTypes', Others(w), InHand(w)', CrewIdle', NotAskedYet' PROVE PacedInv'
  BY <1>1 DEF Others, InHand
<1>2. pc \in {"feed", "wait"} \/ \A v \in Caller : wpc[v] = "idle"
  BY DEF CrewIdle, PacedTypes
<1>3. CASE Feed(w)
  <2>1. PICK m \in batch : batch' = batch \ {m} /\ wmsg' = [wmsg EXCEPT ![w] = m]
    BY <1>3 DEF Feed
  <2>2. /\ pc = "feed" /\ wpc[w] = "recv" /\ wpc' = [wpc EXCEPT ![w] = "limit"]
        /\ UNCHANGED <<vars, qvars, pc, claimed, wverdict, wretry, hvars>>
    BY <1>3 DEF Feed
  <2>3. m \in Msg
    BY DEF PacedTypes
  <2>4. PacedTypes'
    BY <2>1, <2>2, <2>3 DEF PacedTypes, qvars, hvars
  <2>5. Others(w)
    BY <2>1, <2>2 DEF Others, PacedTypes, vars, cvars
  <2>6. InHand(w)'
    BY <2>1, <2>2, <2>3 DEF InHand, PacedTypes, vars, cvars
  <2>7. CrewIdle' /\ NotAskedYet'
    BY <2>2 DEF CrewIdle, NotAskedYet, qvars
  <2> QED BY <1>1, <2>4, <2>5, <2>6, <2>7
<1>4. CASE RangeEnds(w)
  <2>1. /\ pc = "wait" /\ wpc[w] = "recv" /\ wpc' = [wpc EXCEPT ![w] = "idle"]
        /\ UNCHANGED <<vars, qvars, rvars, wmsg, wverdict, wretry, hvars>>
    BY <1>4 DEF RangeEnds
  <2>2. PacedTypes'
    BY <2>1 DEF PacedTypes, qvars, rvars, hvars
  <2>3. Others(w)
    BY <2>1 DEF Others, PacedTypes, vars, cvars
  <2>4. InHand(w)'
    BY <2>1 DEF InHand, PacedTypes, vars, cvars
  <2>5. CrewIdle' /\ NotAskedYet'
    BY <2>1 DEF CrewIdle, NotAskedYet, qvars, rvars
  <2> QED BY <1>1, <2>2, <2>3, <2>4, <2>5
<1>5. CASE Wait(w)
  <2>1. /\ wpc[w] = "limit"
        /\ \/ (Call(w, Bucket[wmsg[w]]) \/ Reserve(w)) /\ wpc' = wpc
           \/ Return(w) /\ wpc' = [wpc EXCEPT ![w] = "send"]
        /\ UNCHANGED <<qvars, rvars, wmsg, wverdict, wretry, hvars>>
    BY <1>5 DEF Wait
  <2>2. PacedTypes'
    BY <2>1 DEF PacedTypes, qvars, rvars, hvars
  <2>3. \A v \in Caller \ {w} : cpc'[v] = cpc[v] /\ ckey'[v] = ckey[v]
    BY <2>1 DEF Call, Reserve, Return, TypeOK
  <2>4. \A v \in Caller \ {w} : wpc'[v] = wpc[v]
    BY <2>1 DEF PacedTypes
  <2>5. Others(w)
    BY <2>1, <2>3, <2>4 DEF Others
  <2>6. wpc'[w] \in {"limit", "send"} /\ (cpc'[w] # "free" => wpc'[w] = "limit")
    BY <2>1 DEF Return, PacedTypes, TypeOK
  <2>7. cpc'[w] # "free" => ckey'[w] = Bucket[wmsg[w]]
    BY <2>1 DEF Call, Reserve, Return, InHand, TypeOK
  <2>8. InHand(w)'
    BY <2>1, <2>6, <2>7 DEF InHand
  <2>9. CrewIdle' /\ NotAskedYet'
    BY <1>2, <2>1 DEF CrewIdle, NotAskedYet, qvars, rvars
  <2> QED BY <1>1, <2>2, <2>5, <2>8, <2>9
<1>6. CASE Send(w)
  <2> DEFINE m == wmsg[w]
             k == Bucket[m]
  <2>1. PICK v \in D!Verdict, d \in Hold \cup {0} :
          /\ d > 0 => v = "retry"
          /\ wverdict' = [wverdict EXCEPT ![w] = v]
          /\ wretry' = [wretry EXCEPT ![w] = d]
          /\ confirmed' = IF v = "delivered" THEN confirmed \cup {m} ELSE confirmed
          /\ limited' = IF d > 0 THEN limited \cup {m} ELSE limited
          /\ wpc' = [wpc EXCEPT ![w] = IF d > 0 THEN "hold" ELSE "complete"]
    BY <1>6 DEF Send, D!Verdict
  <2>2. /\ wpc[w] = "send"
        /\ sends' = [sends EXCEPT ![m] = @ + 1]
        /\ firstSend' = [firstSend EXCEPT ![m] = IF @ = Never THEN now ELSE @]
        /\ intoHold' = [intoHold EXCEPT ![k] = IF now < hold[k] THEN @ + 1 ELSE @]
        /\ UNCHANGED <<vars, qvars, rvars, wmsg>>
    BY <1>6 DEF Send
  <2>3. m \in Msg /\ k \in Key /\ now \in Nat
    BY <2>2, BucketAssumption, Ticks DEF InHand, TypeOK
  <2> HIDE DEF m, k
  <2>4. PacedTypes'
    <3>1. sends' \in [Msg -> Nat] /\ intoHold' \in [Key -> Nat]
      BY <2>2, <2>3 DEF PacedTypes
    <3>2. firstSend' \in [Msg -> Nat \cup {Never}]
      BY <2>2, <2>3 DEF PacedTypes
    <3>3. wpc' \in [Caller -> {"idle", "recv", "limit", "send", "hold", "complete"}]
      BY <2>1 DEF PacedTypes
    <3> QED BY <2>1, <2>2, <2>3, <3>1, <3>2, <3>3 DEF PacedTypes, qvars, rvars
  <2>5. Others(w)
    BY <2>1, <2>2 DEF Others, PacedTypes, vars, cvars
  <2>6. /\ wpc'[w] = IF d > 0 THEN "hold" ELSE "complete"
        /\ wverdict'[w] = v /\ wretry'[w] = d /\ wmsg'[w] = m
        /\ cpc'[w] = "free"
    BY <2>1, <2>2 DEF m, InHand, PacedTypes, vars, cvars
  <2>7. InHand(w)'
    BY <2>1, <2>3, <2>6 DEF InHand
  <2>8. CrewIdle' /\ NotAskedYet'
    BY <1>2, <2>2 DEF CrewIdle, NotAskedYet, qvars, rvars
  <2> QED BY <1>1, <2>4, <2>5, <2>7, <2>8
<1>7. CASE HoldOff(w)
  <2> DEFINE k == Bucket[wmsg[w]]
  <2>1. /\ wpc[w] = "hold" /\ wpc' = [wpc EXCEPT ![w] = "complete"]
        /\ intoHold' = [intoHold EXCEPT ![k] = IF hold'[k] > hold[k] THEN 0 ELSE @]
        /\ UNCHANGED <<cvars, qvars, rvars, wmsg, wverdict, wretry, sends, confirmed,
                       firstSend, limited>>
    BY <1>7 DEF HoldOff, ReserveFor
  <2>2. PacedTypes'
    BY <2>1 DEF PacedTypes, qvars, rvars
  <2>3. Others(w)
    BY <2>1 DEF Others, PacedTypes, cvars
  <2>4. wpc'[w] = "complete"
    BY <2>1 DEF PacedTypes
  <2>5. InHand(w)'
    BY <2>1, <2>4 DEF InHand, cvars
  <2>6. CrewIdle' /\ NotAskedYet'
    BY <1>2, <2>1 DEF CrewIdle, NotAskedYet, qvars, rvars
  <2> QED BY <1>1, <2>2, <2>3, <2>5, <2>6
<1>8. CASE Complete(w)
  <2> DEFINE m == wmsg[w]
  <2>1. /\ wpc[w] = "complete"
        /\ status' = [status EXCEPT ![m] = StatusAfter(m, wverdict[w])]
        /\ nextAt' = [nextAt EXCEPT ![m] = NextAtAfter(m, wverdict[w], wretry[w])]
        /\ wpc' = [wpc EXCEPT ![w] = "recv"]
        /\ wmsg' = [wmsg EXCEPT ![w] = NoMsg]
        /\ wverdict' = [wverdict EXCEPT ![w] = "none"]
        /\ wretry' = [wretry EXCEPT ![w] = 0]
        /\ UNCHANGED <<vars, attempts, rvars, hvars>>
    BY <1>8 DEF Complete
  <2>2. /\ m \in Msg /\ wverdict[w] \in D!Verdict /\ wretry[w] \in Hold \cup {0}
        /\ now \in Nat /\ nextAt[m] \in Nat \cup {Never}
    BY <2>1, Ticks DEF InHand, TypeOK, PacedTypes
  <2>3. Delay(m, wretry[w]) \in Nat
    BY <2>2, DelayFacts
  <2>4. StatusAfter(m, wverdict[w]) \in D!Status \ {"absent"}
    BY <2>2 DEF StatusAfter, D!Status, D!Verdict
  <2>5. NextAtAfter(m, wverdict[w], wretry[w]) \in Nat \cup {Never}
    BY <2>2, <2>3 DEF NextAtAfter, D!Verdict
  <2> HIDE DEF m
  <2>6. PacedTypes'
    BY <2>1, <2>2, <2>4, <2>5 DEF PacedTypes, rvars, hvars
  <2>7. Others(w)
    BY <2>1 DEF Others, PacedTypes, vars, cvars
  <2>8. wpc'[w] = "recv" /\ cpc'[w] = "free"
    BY <2>1 DEF PacedTypes, InHand, vars, cvars
  <2>9. InHand(w)'
    BY <2>8 DEF InHand
  <2>10. NotAskedYet'
    BY <2>1, <2>2, <2>4 DEF NotAskedYet, PacedTypes
  <2>11. CrewIdle'
    BY <1>2, <2>1 DEF CrewIdle, rvars
  <2> QED BY <1>1, <2>6, <2>7, <2>9, <2>10, <2>11
<1> QED BY <1>3, <1>4, <1>5, <1>6, <1>7, <1>8

LEMMA NextPacedInv ==
    ASSUME PacedInv, [PacedNext]_pvars
    PROVE  PacedInv'
<1>1. TypeOK'
  BY StepIsLimiterStep, NextTypeOK DEF PacedInv
<1>2. CASE Housekeep \/ Passes \/ pvars' = pvars
  <2>1. UNCHANGED <<cvars, qvars, rvars, wvars, hvars>>
    BY <1>2 DEF Housekeep, Passes, Sweep, Advance, pvars, vars
  <2> QED BY <1>1, <2>1 DEF PacedInv, PacedTypes, InHand, CrewIdle, NotAskedYet,
                            cvars, qvars, rvars, wvars, hvars
<1> QED BY <1>1, <1>2, LoopKeepsInv, WorkKeepsInv DEF PacedNext

LEMMA PacedInvariance == PacedSpec => []PacedInv
<1>1. PacedInv /\ [PacedNext]_pvars => PacedInv'
  BY NextPacedInv
<1> QED BY <1>1, InitPacedInv, PTL DEF PacedSpec

(* The delivery worker waits for and holds its webhooks' budgets as        *)
(* KeyedLimiter has it: what is shown there holds for it.                  *)
THEOREM LimiterUsedAsSpecified == PacedSpec => Spec
<1>1. PacedInit => Init
  BY DEF PacedInit
<1>2. PacedInv /\ [PacedNext]_pvars => [Next]_vars
  BY StepIsLimiterStep
<1> QED BY <1>1, <1>2, PacedInvariance, PTL DEF PacedSpec, Spec

(* So no webhook is posted to faster than its burst and its rate by the    *)
(* goroutines of the delivery worker,                                      *)
THEOREM PostsKeepRate == BucketsOutlast => (PacedSpec => []RateRespected)
  BY LimiterUsedAsSpecified, RateIsRespected

(* and a goroutine whose Wait begins in a hold posts after it.             *)
THEOREM PostsHonourHold == HoldsFitTTL => (PacedSpec => NewCallsHonourHold)
  BY LimiterUsedAsSpecified, HoldsAreHonoured

-----------------------------------------------------------------------------
(* PacedDelivery implements Delivery, step by step.                        *)

LEMMA InitImplements == PacedInit => D!Init
<1> SUFFICES ASSUME PacedInit PROVE D!Init
  OBVIOUS
<1>1. now = 0 /\ \A m \in Msg : nextAt[m] = 0
  BY DEF PacedInit, Init
<1>2. \A m \in Msg : DueAt(m) = "now"
  BY <1>1 DEF DueAt, Never
<1>3. [m \in Msg |-> DueAt(m)] = [m \in Msg |-> "now"]
  BY <1>2
<1>4. [w \in Caller |-> IF wpc[w] = "hold" THEN "complete" ELSE wpc[w]]
        = [w \in Caller |-> "idle"]
  BY DEF PacedInit
<1> QED BY <1>3, <1>4 DEF PacedInit, D!Init, D!QueueInit

LEMMA SameCardinality == \A S : D!Cardinality(S) = Cardinality(S)
  BY DEF D!Cardinality, Cardinality

LEMMA SiteAsksImplements ==
    ASSUME PacedInv, NEW m \in Msg, SiteAsks(m)
    PROVE  D!Next
<1>1. now \in Nat /\ now' = now
  BY Ticks DEF PacedInv, TypeOK, SiteAsks, vars
<1>2. nextAt[m] = 0 /\ nextAt' = [nextAt EXCEPT ![m] = now]
  BY DEF PacedInv, NotAskedYet, SiteAsks
<1>3. \A n \in Msg : DueAt(n)' = DueAt(n)
  BY <1>1, <1>2 DEF PacedInv, PacedTypes, DueAt, Never
<1>4. [n \in Msg |-> DueAt(n)]' = [n \in Msg |-> DueAt(n)]
  BY <1>3
<1>5. D!Enqueue(m)
  BY <1>4 DEF SiteAsks, D!Enqueue
<1>6. D!SiteAsks(m)
  BY <1>5 DEF SiteAsks, D!SiteAsks, D!rvars, D!wvars, D!hvars, D!bvars, rvars, wvars, hvars
<1> QED BY <1>6 DEF D!Next

(* The same rows may be claimed.                                           *)
LEMMA SelectionsImplement ==
    ASSUME PacedInv
    PROVE  D!Claimable = Claimable /\ Selections \subseteq D!Selections(ClaimBatch)
<1>1. D!Claimable = Claimable
  BY Ticks DEF D!Claimable, Claimable, DueAt, Never, PacedInv, PacedTypes, TypeOK
<1>2. ASSUME NEW S \in Selections, NEW m \in S, NEW n \in Claimable \ S
      PROVE  Priority[m] >= Priority[n]
  <2>1. NoLater(m, n) /\ m \in Msg /\ n \in Msg
    BY DEF Selections, Claimable
  <2> QED BY <2>1, PriorityAssumption DEF NoLater
<1> QED BY <1>1, <1>2, SameCardinality DEF D!Selections, Selections

LEMMA ClaimRowsImplements ==
    ASSUME PacedInv, ClaimRows
    PROVE  D!Next
<1>1. PICK S \in Selections \ {{}} :
        /\ status' = [m \in Msg |-> IF m \in S THEN "delivering" ELSE status[m]]
        /\ attempts' = [m \in Msg |-> IF m \in S THEN attempts[m] + 1 ELSE attempts[m]]
        /\ nextAt' = [m \in Msg |-> IF m \in S THEN now + ClaimLease ELSE nextAt[m]]
        /\ batch' = S /\ claimed' = Cardinality(S)
  BY DEF ClaimRows
<1>2. /\ pc = "claim" /\ pc' = "feed" /\ wpc' = [w \in Caller |-> "recv"]
      /\ UNCHANGED <<vars, wmsg, wverdict, wretry, hvars>>
  BY DEF ClaimRows
<1>3. now \in Nat /\ now' = now /\ ~(now + ClaimLease <= now) /\ now + ClaimLease # Never
  BY <1>2, Ticks, LeaseAssumption DEF PacedInv, TypeOK, vars, Never
<1>4. \A m \in Msg : DueAt(m)' = IF m \in S THEN "later" ELSE DueAt(m)
  BY <1>1, <1>3 DEF DueAt, Never
<1>5. D!Lease(S)
  <2>1. [m \in Msg |-> DueAt(m)]' = [m \in Msg |-> IF m \in S THEN "later"
                                                   ELSE [n \in Msg |-> DueAt(n)][m]]
    BY <1>4
  <2> QED BY <1>1, <2>1 DEF D!Lease
<1>6. S \in D!Selections(ClaimBatch) \ {{}}
  BY <1>1, SelectionsImplement
<1>7. D!ClaimRows(p1)
  <2>1. [w \in Caller |-> IF wpc[w] = "hold" THEN "complete" ELSE wpc[w]]'
          = [w \in Caller |-> IF [v \in Caller |-> p1][w] = p1 THEN "recv"
                ELSE [v \in Caller |-> IF wpc[v] = "hold" THEN "complete" ELSE wpc[v]][w]]
    BY <1>2
  <2>2. [i \in {p1} |-> claimed]' = [[i \in {p1} |-> claimed] EXCEPT ![p1] = D!Cardinality(S)]
    BY <1>1, SameCardinality
  <2>3. [i \in {p1} |-> batch]' = [[i \in {p1} |-> batch] EXCEPT ![p1] = S]
    BY <1>1
  <2>4. [i \in {p1} |-> pc]' = [[i \in {p1} |-> pc] EXCEPT ![p1] = "feed"]
    BY <1>2
  <2> QED BY <1>2, <1>5, <1>6, <2>1, <2>2, <2>3, <2>4
          DEF D!ClaimRows, D!hvars, D!bvars, hvars
<1> QED BY <1>7 DEF D!Next, D!Run

(* The loop's other steps leave the rows and the clock alone.              *)
SameDue == [n \in Msg |-> DueAt(n)]' = [n \in Msg |-> DueAt(n)]
LEMMA DueStays == ASSUME UNCHANGED <<now, nextAt>> PROVE SameDue
<1>1. \A n \in Msg : DueAt(n)' = DueAt(n)
  BY DEF DueAt, Never
<1> QED BY <1>1 DEF SameDue

LEMMA LoopImplements ==
    ASSUME PacedInv, ClaimNothing \/ FeedDone \/ Drained \/ Tick
    PROVE  D!Next
<1>1. SameDue
  BY DueStays DEF ClaimNothing, FeedDone, Drained, Tick, qvars, vars
<1> USE DEF SameDue, D!qvars, D!wvars, D!hvars, D!bvars, qvars, wvars, hvars
<1>2. CASE ClaimNothing
  <2>1. {} \in D!Selections(ClaimBatch)
    BY <1>2, SelectionsImplement DEF ClaimNothing
  <2>2. D!ClaimNothing(p1)
    BY <1>1, <1>2, <2>1 DEF ClaimNothing, D!ClaimNothing
  <2> QED BY <2>2 DEF D!Next, D!Run
<1>3. CASE FeedDone
  <2>1. D!FeedDone(p1)
    BY <1>1, <1>3 DEF FeedDone, D!FeedDone
  <2> QED BY <2>1 DEF D!Next, D!Run
<1>4. CASE Drained
  <2>1. D!CrewGone(p1)
    BY <1>4 DEF Drained, D!CrewGone, D!Crew
  <2>2. D!Drained(p1)
    BY <1>1, <1>4, <2>1 DEF Drained, D!Drained
  <2> QED BY <2>2 DEF D!Next, D!Run
<1>5. CASE Tick
  <2>1. D!Tick(p1)
    BY <1>1, <1>5 DEF Tick, D!Tick
  <2> QED BY <2>1 DEF D!Next, D!Run
<1> QED BY <1>2, <1>3, <1>4, <1>5

(* Where Delivery has a goroutine that is at x here.                       *)
Seen(x) == IF x = "hold" THEN "complete" ELSE x
DWpc == [w \in Caller |-> IF wpc[w] = "hold" THEN "complete" ELSE wpc[w]]

LEMMA GoroutineMoves ==
    ASSUME PacedInv, NEW w \in Caller, NEW x, wpc' = [wpc EXCEPT ![w] = x]
    PROVE  DWpc' = [DWpc EXCEPT ![w] = Seen(x)]
<1>1. DOMAIN wpc = Caller
  BY DEF PacedInv, PacedTypes
<1> QED BY <1>1 DEF DWpc, Seen

LEMMA WorkImplements ==
    ASSUME PacedInv, NEW w \in Caller, Feed(w) \/ RangeEnds(w) \/ Wait(w) \/ Send(w) \/ HoldOff(w)
    PROVE  D!Next \/ UNCHANGED D!vars
<1>1. SameDue
  <2>1. now' = now /\ nextAt' = nextAt
    BY DEF Feed, RangeEnds, Wait, Send, HoldOff, Call, Reserve, Return, ReserveFor, qvars, vars
  <2> QED BY <2>1, DueStays
<1> USE DEF SameDue, D!vars, D!qvars, D!rvars, D!wvars, D!hvars, D!bvars, qvars, rvars, hvars
<1>2. CASE Feed(w)
  <2>1. PICK m \in batch : batch' = batch \ {m} /\ wmsg' = [wmsg EXCEPT ![w] = m]
    BY <1>2 DEF Feed
  <2>2. DWpc' = [DWpc EXCEPT ![w] = "limit"]
    BY <1>2, GoroutineMoves DEF Feed, Seen
  <2>3. D!Feed(p1, w)
    BY <1>1, <1>2, <2>1, <2>2 DEF Feed, D!Feed, DWpc
  <2> QED BY <2>3 DEF D!Next, D!Run
<1>3. CASE RangeEnds(w)
  <2>1. DWpc' = [DWpc EXCEPT ![w] = "idle"]
    BY <1>3, GoroutineMoves DEF RangeEnds, Seen
  <2>2. D!RangeEnds(w)
    BY <1>1, <1>3, <2>1 DEF RangeEnds, D!RangeEnds, DWpc
  <2> QED BY <2>2 DEF D!Next, D!Work
<1>4. CASE Wait(w)
  <2>1. CASE wpc' = wpc
    BY <1>1, <1>4, <2>1 DEF Wait
  <2>2. CASE wpc' = [wpc EXCEPT ![w] = "send"]
    <3>1. DWpc' = [DWpc EXCEPT ![w] = "send"]
      BY <2>2, GoroutineMoves DEF Seen
    <3>2. D!LimiterGrants(w)
      BY <1>1, <1>4, <3>1 DEF Wait, D!LimiterGrants, DWpc
    <3> QED BY <3>2 DEF D!Next, D!Work
  <2> QED BY <1>4, <2>1, <2>2 DEF Wait
<1>5. CASE Send(w)
  <2>1. PICK v \in D!Verdict, d \in Hold \cup {0} :
          /\ wverdict' = [wverdict EXCEPT ![w] = v]
          /\ confirmed' = IF v = "delivered" THEN confirmed \cup {wmsg[w]} ELSE confirmed
          /\ wpc' = [wpc EXCEPT ![w] = IF d > 0 THEN "hold" ELSE "complete"]
    BY <1>5 DEF Send, D!Verdict
  <2>2. DWpc' = [DWpc EXCEPT ![w] = "complete"]
    <3>1. PICK x \in {"hold", "complete"} : wpc' = [wpc EXCEPT ![w] = x]
      BY <2>1
    <3> QED BY <3>1, GoroutineMoves DEF Seen
  <2>3. v \in D!PossibleVerdicts([u \in Caller |-> p1][w])
    BY DEF D!PossibleVerdicts
  <2>4. D!Send(w)
    BY <1>1, <1>5, <2>1, <2>2, <2>3 DEF Send, D!Send, DWpc
  <2> QED BY <2>4 DEF D!Next, D!Work
<1>6. CASE HoldOff(w)
  <2>1. wpc[w] = "hold" /\ wpc' = [wpc EXCEPT ![w] = "complete"] /\ DOMAIN wpc = Caller
    BY <1>6 DEF HoldOff, PacedInv, PacedTypes
  <2>2. DWpc' = DWpc
    BY <2>1 DEF DWpc
  <2> QED BY <1>1, <1>6, <2>2 DEF HoldOff, DWpc
<1> QED BY <1>2, <1>3, <1>4, <1>5, <1>6

(* A retry is due only after some time, with an instruction or without.    *)
LEMMA CompleteImplements ==
    ASSUME PacedInv, NEW w \in Caller, Complete(w)
    PROVE  D!Next
<1>0. PICK m \in Msg, v \in D!Verdict, d \in Hold \cup {0} :
        m = wmsg[w] /\ v = wverdict[w] /\ d = wretry[w]
  BY DEF Complete, PacedInv, InHand, PacedTypes
<1>1. now \in Nat /\ now' = now /\ nextAt[m] \in Nat \cup {Never}
  BY Ticks DEF Complete, PacedInv, TypeOK, PacedTypes, vars
<1>2. now + Delay(m, d) \in Nat /\ ~(now + Delay(m, d) <= now)
  <2>1. Delay(m, d) \in Nat \ {0}
    BY <1>1, DelayFacts DEF PacedInv
  <2> QED BY <1>1, <2>1
<1>3. /\ wpc[w] = "complete" /\ wpc' = [wpc EXCEPT ![w] = "recv"]
      /\ status' = [status EXCEPT ![m] = StatusAfter(m, v)]
      /\ nextAt' = [nextAt EXCEPT ![m] = NextAtAfter(m, v, d)]
      /\ wmsg' = [wmsg EXCEPT ![w] = NoMsg]
      /\ wverdict' = [wverdict EXCEPT ![w] = "none"]
      /\ UNCHANGED <<attempts, rvars, hvars>>
  BY <1>0 DEF Complete
<1>4. D!StatusAfter(m, v) = StatusAfter(m, v)
  BY <1>1 DEF D!StatusAfter, StatusAfter, D!Exhausted, Exhausted, D!Verdict
<1>5. DueAt(m)' = D!DueAfter(m, v)
  <2>1. nextAt'[m] = NextAtAfter(m, v, d)
    BY <1>1, <1>3 DEF PacedInv, PacedTypes
  <2>2. CASE v \in {"delivered", "dead"}
    BY <1>1, <2>1, <2>2 DEF NextAtAfter, D!DueAfter, DueAt, Never
  <2>3. CASE v = "drop"
    BY <1>1, <2>1, <2>3 DEF NextAtAfter, D!DueAfter, DueAt, Never
  <2>4. CASE v = "retry"
    BY <1>1, <1>2, <2>1, <2>4
       DEF NextAtAfter, D!DueAfter, DueAt, Never, Exhausted, D!Exhausted
  <2> QED BY <1>1, <2>2, <2>3, <2>4 DEF D!Verdict
<1>6. \A n \in Msg \ {m} : DueAt(n)' = DueAt(n)
  BY <1>1, <1>3 DEF DueAt, Never, PacedInv, PacedTypes
<1>7. [n \in Msg |-> DueAt(n)]' = [[n \in Msg |-> DueAt(n)] EXCEPT ![m] = D!DueAfter(m, v)]
  BY <1>1, <1>5, <1>6
<1>8. D!WriteVerdict(m, v)
  BY <1>3, <1>4, <1>7 DEF D!WriteVerdict
<1>9. D!NextDelivery(w)
  <2>1. DWpc' = [DWpc EXCEPT ![w] = "recv"]
    BY <1>3, GoroutineMoves DEF Seen
  <2> QED BY <1>3, <2>1 DEF D!NextDelivery, DWpc
<1>10. D!Complete(w)
  BY <1>0, <1>3, <1>8, <1>9 DEF D!Complete, D!rvars, D!hvars, D!bvars, rvars, hvars
<1> QED BY <1>10 DEF D!Next, D!Work

(* The clock brings some messages' times, or none.                         *)
LEMMA PassesImplements ==
    ASSUME PacedInv, Passes
    PROVE  D!Next \/ UNCHANGED D!vars
<1> DEFINE S == {m \in Msg : nextAt[m] = now + 1}
<1>1. /\ now \in Nat /\ now' = now + 1 /\ nextAt \in [Msg -> Nat \cup {Never}]
      /\ UNCHANGED <<qvars, rvars, wvars, hvars>>
  BY Ticks DEF PacedInv, PacedTypes, TypeOK, Passes, Advance
<1>2. \A m \in Msg : m \in S => DueAt(m) = "later" /\ DueAt(m)' = "now"
  BY <1>1 DEF DueAt, Never, qvars
<1>3. \A m \in Msg : m \notin S => DueAt(m)' = DueAt(m)
  BY <1>1 DEF DueAt, Never, qvars
<1> HIDE DEF S
<1> USE DEF D!vars, D!qvars, D!rvars, D!wvars, D!hvars, D!bvars, qvars, rvars, wvars, hvars
<1>4. CASE \A m \in Msg : m \notin S
  <2>1. [n \in Msg |-> DueAt(n)]' = [n \in Msg |-> DueAt(n)]
    BY <1>3, <1>4
  <2> QED BY <1>1, <2>1
<1>5. CASE \E m \in Msg : m \in S
  <2>1. PICK m \in Msg : m \in S
    BY <1>5
  <2>2. [n \in Msg |-> DueAt(n)]' = [n \in Msg |-> IF n \in S THEN "now"
                                                   ELSE [l \in Msg |-> DueAt(l)][n]]
    BY <1>2, <1>3
  <2>3. S \in SUBSET Msg
    BY DEF S
  <2>4. D!ComeDue(S)
    BY <1>1, <1>2, <2>2, <2>3 DEF D!ComeDue
  <2>5. D!TimePasses(m)
    BY <1>1, <2>1, <2>3, <2>4 DEF D!TimePasses
  <2> QED BY <2>5 DEF D!Next
<1> QED BY <1>4, <1>5

LEMMA StepImplements ==
    ASSUME PacedInv, [PacedNext]_pvars
    PROVE  [D!Next]_(D!vars)
<1>1. ASSUME UNCHANGED <<now, qvars, rvars, wvars, hvars>> PROVE UNCHANGED D!vars
  <2>1. SameDue
    BY <1>1, DueStays DEF qvars
  <2> QED BY <1>1, <2>1 DEF SameDue, D!vars, D!qvars, D!rvars, D!wvars, D!hvars, D!bvars,
                            qvars, rvars, wvars, hvars
<1>2. CASE Housekeep \/ pvars' = pvars
  <2>1. UNCHANGED <<now, qvars, rvars, wvars, hvars>>
    BY <1>2 DEF Housekeep, Sweep, pvars, vars
  <2> QED BY <1>1, <2>1
<1> QED BY <1>2, SiteAsksImplements, ClaimRowsImplements, LoopImplements, WorkImplements,
           CompleteImplements, PassesImplements DEF PacedNext

(* With times for leases, retries and holds the worker does nothing that   *)
(* Delivery, which leaves the times open, does not allow.                  *)
THEOREM PacedImplementsDelivery == PacedSpec => ImplementsDelivery
<1>1. PacedInv /\ [PacedNext]_pvars => [D!Next]_(D!vars)
  BY StepImplements
<1> QED BY <1>1, InitImplements, PacedInvariance, PTL DEF PacedSpec, ImplementsDelivery, D!Spec

-----------------------------------------------------------------------------
(* Posts into a hold.  The goroutines that may still post to k before its  *)
(* hold is over: those whose Wait has returned, and those in a Wait that   *)
(* began before the hold.  Each posts once, and whoever has extended the   *)
(* hold is not among them.                                                 *)
Past(k) == {w \in Caller :
               \/ wpc[w] = "send" /\ Bucket[wmsg[w]] = k
               \/ cpc[w] # "free" /\ ckey[w] = k /\ owed[w] < hold[k]}
HoldBudget ==
    \A k \in Key : /\ intoHold[k] < Cardinality(Caller)
                   /\ now < hold[k] => intoHold[k] + Cardinality(Past(k)) < Cardinality(Caller)

LEMMA PastIsFinite ==
    ASSUME NEW S \in SUBSET Caller
    PROVE  /\ IsFiniteSet(S) /\ Cardinality(S) \in Nat
           /\ \A T \in SUBSET S : Cardinality(T) \in Nat /\ Cardinality(T) <= Cardinality(S)
<1>1. IsFiniteSet(S)
  BY CallerAssumption, FS_Subset
<1>2. ASSUME NEW T \in SUBSET S PROVE Cardinality(T) \in Nat /\ Cardinality(T) <= Cardinality(S)
  BY <1>1, FS_Subset, FS_CardinalityType
<1> QED BY <1>1, <1>2, FS_CardinalityType

LEMMA InitHoldBudget == Caller # {} /\ PacedInit => HoldBudget
<1> SUFFICES ASSUME Caller # {}, PacedInit PROVE HoldBudget
  OBVIOUS
<1>1. Cardinality(Caller) \in Nat /\ Cardinality(Caller) # 0
  BY CallerAssumption, FS_EmptySet, FS_CardinalityType
<1>2. now = 0 /\ \A k \in Key : hold[k] = 0 /\ intoHold[k] = 0
  BY DEF PacedInit, Init
<1> QED BY <1>1, <1>2 DEF HoldBudget

(* A step without a post or a new deadline, after which nobody else is     *)
(* past a hold that still lasts.                                           *)
LEMMA NobodySlipsPast ==
    ASSUME PacedInv, PacedInv', HoldBudget, hold' = hold, intoHold' = intoHold, now <= now',
           \A k \in Key : now' < hold[k] => Past(k)' \subseteq Past(k)
    PROVE  HoldBudget'
<1> SUFFICES ASSUME NEW k \in Key
             PROVE  /\ intoHold'[k] < Cardinality(Caller)
                    /\ now' < hold'[k] =>
                          intoHold'[k] + Cardinality(Past(k)') < Cardinality(Caller)
  BY DEF HoldBudget
<1>1. intoHold'[k] < Cardinality(Caller)
  BY DEF HoldBudget
<1>2. ASSUME now' < hold[k] PROVE intoHold[k] + Cardinality(Past(k)') < Cardinality(Caller)
  <2>1. now \in Nat /\ now' \in Nat /\ hold[k] \in Nat /\ intoHold[k] \in Nat
    BY Ticks DEF PacedInv, PacedTypes, TypeOK
  <2>2. now < hold[k]
    BY <1>2, <2>1
  <2>3. intoHold[k] + Cardinality(Past(k)) < Cardinality(Caller)
    BY <2>2 DEF HoldBudget
  <2>4. /\ Cardinality(Past(k)') \in Nat /\ Cardinality(Past(k)) \in Nat
        /\ Cardinality(Past(k)') <= Cardinality(Past(k)) /\ Cardinality(Caller) \in Nat
    <3>1. Past(k) \in SUBSET Caller /\ Past(k)' \in SUBSET Past(k) /\ Caller \in SUBSET Caller
      BY <1>2 DEF Past
    <3> HIDE DEF Past
    <3> QED BY <3>1, PastIsFinite
  <2> HIDE DEF Past
  <2> QED BY <2>1, <2>3, <2>4
<1> QED BY <1>1, <1>2

(* Who posts is past the hold no longer.                                   *)
LEMMA SendKeepsBudget ==
    ASSUME PacedInv, HoldBudget, NEW w \in Caller, Send(w)
    PROVE  HoldBudget'
<1>0. PICK k \in Key : k = Bucket[wmsg[w]]
  BY BucketAssumption DEF Send, PacedInv, InHand
<1>1. /\ wpc[w] = "send" /\ cpc[w] = "free" /\ DOMAIN wpc = Caller
      /\ \A l \in Key : intoHold[l] \in Nat /\ hold[l] \in Nat
      /\ now \in Nat
  BY Ticks DEF Send, PacedInv, PacedTypes, InHand, TypeOK
<1>2. /\ now' = now /\ hold' = hold /\ UNCHANGED <<cpc, ckey, owed, wmsg>>
      /\ intoHold' = [intoHold EXCEPT ![k] = IF now < hold[k] THEN @ + 1 ELSE @]
      /\ wpc' \in {[wpc EXCEPT ![w] = "hold"], [wpc EXCEPT ![w] = "complete"]}
  BY <1>0 DEF Send, vars, cvars
<1>3. \A v \in Caller \ {w} : wpc'[v] = wpc[v]
  BY <1>1, <1>2
<1>4. wpc'[w] # "send"
  BY <1>1, <1>2
<1>5. /\ w \in Past(k) /\ \A l \in Key : l # k => w \notin Past(l)
      /\ \A l \in Key : Past(l)' = Past(l) \ {w}
  BY <1>0, <1>1, <1>2, <1>3, <1>4 DEF Past
<1>6. ASSUME NEW l \in Key, l # k
      PROVE  /\ intoHold'[l] < Cardinality(Caller)
             /\ now' < hold'[l] => intoHold'[l] + Cardinality(Past(l)') < Cardinality(Caller)
  <2>1. intoHold'[l] = intoHold[l] /\ Past(l)' = Past(l)
    <3>1. intoHold'[l] = intoHold[l]
      BY <1>2, <1>6 DEF PacedInv, PacedTypes
    <3>2. w \notin Past(l) /\ Past(l)' = Past(l) \ {w}
      BY <1>5, <1>6
    <3> HIDE DEF Past
    <3> QED BY <3>1, <3>2
  <2> QED BY <1>2, <2>1 DEF HoldBudget
<1>7. /\ intoHold'[k] < Cardinality(Caller)
      /\ now' < hold'[k] => intoHold'[k] + Cardinality(Past(k)') < Cardinality(Caller)
  <2>1. intoHold'[k] = IF now < hold[k] THEN intoHold[k] + 1 ELSE intoHold[k]
    BY <1>1, <1>2 DEF PacedInv, PacedTypes
  <2>2. /\ Cardinality(Past(k)') = Cardinality(Past(k)) - 1
        /\ Cardinality(Past(k)) \in Nat /\ Cardinality(Past(k)') \in Nat
        /\ Cardinality(Caller) \in Nat
    <3>1. Past(k) \in SUBSET Caller /\ Past(k)' = Past(k) \ {w} /\ w \in Past(k)
          /\ Past(k) \ {w} \in SUBSET Caller /\ Caller \in SUBSET Caller
      BY <1>1, <1>5 DEF Past
    <3> HIDE DEF Past
    <3>2. IsFiniteSet(Past(k)) /\ Cardinality(Past(k)) \in Nat
          /\ Cardinality(Past(k) \ {w}) \in Nat /\ Cardinality(Caller) \in Nat
      BY <3>1, PastIsFinite
    <3> QED BY <3>1, <3>2, FS_RemoveElement
  <2>3. /\ intoHold[k] < Cardinality(Caller)
        /\ now < hold[k] => intoHold[k] + Cardinality(Past(k)) < Cardinality(Caller)
    BY <1>1 DEF HoldBudget
  <2> HIDE DEF Past
  <2> QED BY <1>1, <1>2, <2>1, <2>2, <2>3
<1> QED BY <1>6, <1>7 DEF HoldBudget

(* Who extends the hold is not past it.                                    *)
LEMMA HoldOffKeepsBudget ==
    ASSUME PacedInv, HoldBudget, NEW w \in Caller, HoldOff(w)
    PROVE  HoldBudget'
<1>0. PICK k \in Key : k = Bucket[wmsg[w]]
  BY BucketAssumption DEF HoldOff, PacedInv, InHand
<1>1. /\ wpc[w] = "hold" /\ cpc[w] = "free" /\ DOMAIN wpc = Caller
      /\ \A l \in Key : intoHold[l] \in Nat /\ hold[l] \in Nat
  BY DEF HoldOff, PacedInv, PacedTypes, InHand, TypeOK
<1>2. /\ now' = now /\ UNCHANGED <<cpc, ckey, owed, wmsg>>
      /\ wpc' = [wpc EXCEPT ![w] = "complete"]
      /\ intoHold' = [intoHold EXCEPT ![k] = IF hold'[k] > hold[k] THEN 0 ELSE @]
      /\ hold' = [hold EXCEPT ![k] = Later(@, now + wretry[w])]
  BY <1>0 DEF HoldOff, ReserveFor, cvars
<1>3. /\ \A v \in Caller \ {w} : wpc'[v] = wpc[v]
      /\ wpc'[w] = "complete"
  BY <1>1, <1>2
<1>4. ASSUME NEW l \in Key, hold'[l] = hold[l], intoHold'[l] = intoHold[l]
      PROVE  /\ intoHold'[l] < Cardinality(Caller)
             /\ now' < hold'[l] => intoHold'[l] + Cardinality(Past(l)') < Cardinality(Caller)
  <2>1. Past(l)' = Past(l)
    BY <1>1, <1>2, <1>3, <1>4 DEF Past
  <2> QED BY <1>2, <1>4, <2>1 DEF HoldBudget
<1>5. ASSUME NEW l \in Key, l # k PROVE hold'[l] = hold[l] /\ intoHold'[l] = intoHold[l]
  BY <1>2, <1>5 DEF PacedInv, PacedTypes, TypeOK
<1>6. CASE ~(hold'[k] > hold[k])
  <2>1. now \in Nat /\ wretry[w] \in Nat
    BY <1>1, HoldAssumption, Ticks DEF PacedInv, PacedTypes, TypeOK
  <2>2. hold'[k] = hold[k] /\ intoHold'[k] = intoHold[k]
    BY <1>1, <1>2, <1>6, <2>1 DEF Later, PacedInv, PacedTypes, TypeOK
  <2> QED BY <1>4, <1>5, <2>2 DEF HoldBudget
<1>7. CASE hold'[k] > hold[k]
  <2>1. intoHold'[k] = 0
    BY <1>1, <1>2, <1>7 DEF PacedInv, PacedTypes
  <2>2. Past(k)' \subseteq Caller \ {w}
    BY <1>1, <1>2, <1>3 DEF Past
  <2>3. /\ Cardinality(Past(k)') \in Nat /\ Cardinality(Caller) \in Nat
        /\ Cardinality(Past(k)') < Cardinality(Caller)
    <3>1. /\ Past(k)' \in SUBSET (Caller \ {w}) /\ Caller \ {w} \in SUBSET Caller
          /\ Caller \in SUBSET Caller
      BY <2>2
    <3> HIDE DEF Past
    <3>2. /\ Cardinality(Past(k)') \in Nat /\ Cardinality(Caller \ {w}) \in Nat
          /\ Cardinality(Past(k)') <= Cardinality(Caller \ {w}) /\ Cardinality(Caller) \in Nat
      BY <3>1, PastIsFinite
    <3>3. Cardinality(Caller \ {w}) = Cardinality(Caller) - 1
      BY CallerAssumption, FS_RemoveElement
    <3> QED BY <3>2, <3>3
  <2>4. intoHold'[k] < Cardinality(Caller)
        /\ intoHold'[k] + Cardinality(Past(k)') < Cardinality(Caller)
    <3> HIDE DEF Past
    <3> QED BY <2>1, <2>3
  <2> QED BY <1>4, <1>5, <2>4 DEF HoldBudget
<1> QED BY <1>6, <1>7

(* A Wait that began after the hold returns after it.                      *)
LEMMA NextHoldBudget ==
    ASSUME PacedInv, CallersServe, HoldBudget, [PacedNext]_pvars
    PROVE  HoldBudget'
<1>0. PacedInv'
  BY NextPacedInv
<1>1. now \in Nat /\ (\A k \in Key : hold[k] \in Nat) /\ \A w \in Caller : owed[w] \in Nat
  BY Ticks DEF PacedInv, TypeOK
<1>2. ASSUME UNCHANGED <<hold, intoHold, wmsg, cpc, ckey, owed>>, now' \in {now, now + 1},
             \A w \in Caller : wpc'[w] = "send" => wpc[w] = "send"
      PROVE  HoldBudget'
  <2>1. \A k \in Key : Past(k)' \subseteq Past(k)
    BY <1>2 DEF Past
  <2>2. now <= now'
    BY <1>1, <1>2
  <2> QED BY <1>0, <1>2, <2>1, <2>2, NobodySlipsPast
<1>3. CASE \/ \E m \in Msg : SiteAsks(m)
           \/ ClaimRows \/ ClaimNothing \/ FeedDone \/ Drained \/ Tick
           \/ Housekeep \/ Passes \/ pvars' = pvars
  BY <1>2, <1>3 DEF SiteAsks, ClaimRows, ClaimNothing, FeedDone, Drained, Tick, Housekeep, Passes,
        Sweep, Advance, pvars, vars, cvars, wvars, hvars
<1>4. ASSUME NEW w \in Caller, Feed(w) PROVE HoldBudget'
  <2>1. PICK m \in batch : wmsg' = [wmsg EXCEPT ![w] = m]
    BY <1>4 DEF Feed
  <2>2. /\ wpc[w] = "recv" /\ wpc' = [wpc EXCEPT ![w] = "limit"]
        /\ UNCHANGED <<now, hold, intoHold, cpc, ckey, owed>>
    BY <1>4 DEF Feed, vars, cvars, hvars
  <2>3. \A v \in Caller : /\ v # w => wpc'[v] = wpc[v] /\ wmsg'[v] = wmsg[v]
                          /\ v = w => wpc'[v] = "limit"
    BY <2>1, <2>2 DEF PacedInv, PacedTypes
  <2>4. \A k \in Key : Past(k)' \subseteq Past(k)
    BY <2>2, <2>3 DEF Past
  <2>5. now <= now'
    BY <1>1, <2>2
  <2> QED BY <1>0, <2>2, <2>4, <2>5, NobodySlipsPast
<1>5. ASSUME NEW w \in Caller, RangeEnds(w) PROVE HoldBudget'
  BY <1>2, <1>5 DEF RangeEnds, vars, cvars, hvars, PacedInv, PacedTypes
<1>6. ASSUME NEW w \in Caller, Complete(w) PROVE HoldBudget'
  <2>1. /\ UNCHANGED <<now, hold, intoHold, cpc, ckey, owed>>
        /\ wpc' = [wpc EXCEPT ![w] = "recv"] /\ wmsg' = [wmsg EXCEPT ![w] = NoMsg]
    BY <1>6 DEF Complete, vars, cvars, hvars
  <2>2. \A v \in Caller : /\ v # w => wpc'[v] = wpc[v] /\ wmsg'[v] = wmsg[v]
                          /\ v = w => wpc'[v] = "recv"
    BY <2>1 DEF PacedInv, PacedTypes
  <2>3. \A k \in Key : Past(k)' \subseteq Past(k)
    BY <2>1, <2>2 DEF Past
  <2>4. now <= now'
    BY <1>1, <2>1
  <2> QED BY <1>0, <2>1, <2>3, <2>4, NobodySlipsPast
<1>7. ASSUME NEW w \in Caller, Wait(w) PROVE HoldBudget'
  <2>1. /\ wpc[w] = "limit" /\ UNCHANGED <<now, hold, intoHold, wmsg>>
        /\ \/ (Call(w, Bucket[wmsg[w]]) \/ Reserve(w)) /\ wpc' = wpc
           \/ Return(w) /\ wpc' = [wpc EXCEPT ![w] = "send"]
    BY <1>7 DEF Wait, hvars, Call, Reserve, Return
  <2>2. \A v \in Caller \ {w} : wpc'[v] = wpc[v] /\ cpc'[v] = cpc[v] /\ ckey'[v] = ckey[v]
                                /\ owed'[v] = owed[v]
    <3>1. \A v \in Caller \ {w} : wpc'[v] = wpc[v]
      BY <2>1 DEF PacedInv, PacedTypes
    <3>2. \A v \in Caller \ {w} : cpc'[v] = cpc[v] /\ ckey'[v] = ckey[v] /\ owed'[v] = owed[v]
      BY <2>1 DEF Call, Reserve, Return, PacedInv, TypeOK
    <3> QED BY <3>1, <3>2
  <2>3. ASSUME NEW k \in Key, now < hold[k], w \in Past(k)' PROVE w \in Past(k)
    <3>1. CASE Call(w, Bucket[wmsg[w]])
      <4>1. wpc' = wpc /\ ckey'[w] = Bucket[wmsg[w]] /\ owed'[w] = hold[Bucket[wmsg[w]]]
        BY <2>1, <3>1 DEF Call, Return, PacedInv, TypeOK
      <4>2. ~(wpc'[w] = "send") /\ ~(ckey'[w] = k /\ owed'[w] < hold'[k])
        BY <1>1, <2>1, <4>1
      <4> QED BY <2>3, <4>2 DEF Past
    <3>2. CASE Reserve(w)
      <4>1. wpc' = wpc /\ ckey' = ckey /\ owed' = owed /\ cpc[w] # "free"
        BY <2>1, <3>2 DEF Reserve, Return
      <4> QED BY <2>1, <2>3, <4>1 DEF Past
    <3>3. CASE Return(w) /\ wpc' = [wpc EXCEPT ![w] = "send"]
      <4>1. cpc[w] = "queued" /\ ckey[w] = Bucket[wmsg[w]] /\ owed[w] <= now
            /\ cpc'[w] = "free"
        BY <3>3 DEF Return, PacedInv, InHand, CallersServe, TypeOK
      <4>2. Bucket[wmsg[w]] = k
        BY <2>1, <2>3, <4>1 DEF Past
      <4>3. owed[w] < hold[k]
        BY <1>1, <2>3, <4>1
      <4> QED BY <4>1, <4>2, <4>3 DEF Past
    <3> QED BY <2>1, <3>1, <3>2, <3>3
  <2>4. ASSUME NEW k \in Key, NEW v \in Caller \ {w}, v \in Past(k)' PROVE v \in Past(k)
    BY <2>1, <2>2, <2>4 DEF Past
  <2>5. \A k \in Key : now' < hold[k] => Past(k)' \subseteq Past(k)
    <3>1. \A k \in Key : Past(k)' \subseteq Caller
      BY DEF Past
    <3> HIDE DEF Past
    <3> QED BY <2>1, <2>3, <2>4, <3>1
  <2>6. now <= now'
    BY <1>1, <2>1
  <2> QED BY <1>0, <2>1, <2>5, <2>6, NobodySlipsPast
<1> QED BY <1>3, <1>4, <1>5, <1>6, <1>7, SendKeepsBudget, HoldOffKeepsBudget DEF PacedNext

(* Between two extensions of a webhook's hold every goroutine but the one  *)
(* that extended it posts at most once more before it ends, if no hold is  *)
(* longer than a bucket is kept.  (Without goroutines there is no count to *)
(* keep below theirs.)                                                     *)
THEOREM FewPostsGoIntoHold ==
    HoldsFitTTL /\ Caller # {} => (PacedSpec => []FewPostsIntoHold)
<1> SUFFICES ASSUME HoldsFitTTL, Caller # {} PROVE PacedSpec => []FewPostsIntoHold
  OBVIOUS
<1>1. PacedInit => HoldBudget /\ HoldKnown /\ CallersServe
  BY InitHoldBudget, InitServe DEF PacedInit
<1>2. PacedInv /\ HoldKnown /\ CallersServe /\ HoldBudget /\ [PacedNext]_pvars
        => HoldKnown' /\ CallersServe' /\ HoldBudget'
  <2> SUFFICES ASSUME PacedInv, HoldKnown, CallersServe, HoldBudget, [PacedNext]_pvars
               PROVE  HoldKnown' /\ CallersServe' /\ HoldBudget'
    OBVIOUS
  <2>1. TypeOK /\ [Next]_vars
    BY StepIsLimiterStep DEF PacedInv
  <2> QED BY <2>1, NextHoldKnown, NextCallersServe, NextHoldBudget
<1>3. HoldBudget => FewPostsIntoHold
  BY DEF HoldBudget, FewPostsIntoHold
<1> QED BY <1>1, <1>2, <1>3, PacedInvariance, PTL DEF PacedSpec

-----------------------------------------------------------------------------
(* The schedule.  A message in somebody's hands is marked 'delivering' and *)
(* in nobody else's.                                                       *)
Holds(w) == wpc[w] \in {"limit", "send", "hold", "complete"}
OneHolder ==
    /\ \A m \in batch : status[m] = "delivering"
    /\ \A w \in Caller : Holds(w) => status[wmsg[w]] = "delivering" /\ wmsg[w] \notin batch
    /\ \A v, w \in Caller : v # w /\ Holds(v) /\ Holds(w) => wmsg[v] # wmsg[w]

(* Who has posted has posted, and has an instruction only from a 429.      *)
Posted == \A w \in Caller : wpc[w] \in {"hold", "complete"} =>
             /\ sends[wmsg[w]] > 0
             /\ wmsg[w] \notin limited => wretry[w] = 0

(* A message is first posted after its first claim.  Once posted, it is    *)
(* claimed when its delays so far have passed since, and waits until the   *)
(* next has passed too.  One that has failed is not claimed again.         *)
OnTime(m) ==
    /\ sends[m] = 0 => \/ status[m] \in {"absent", "pending"} /\ attempts[m] = 0
                       \/ status[m] = "delivering" /\ attempts[m] = 1
    /\ sends[m] > 0 => /\ status[m] # "absent" /\ firstSend[m] \in Nat /\ attempts[m] > 0
                       /\ status[m] = "delivering" => firstSend[m] + Schedule(attempts[m]) <= now
                       /\ status[m] = "pending" => firstSend[m] + Schedule(attempts[m] + 1) <= nextAt[m]
    /\ firstSend[m] = Never <=> sends[m] = 0
    /\ status[m] = "failed" => nextAt[m] = Never
ScheduleInv == OneHolder /\ Posted /\ \A m \in Msg : m \notin limited => OnTime(m)

LEMMA ScheduleFacts ==
    /\ Schedule(1) = 0
    /\ \A n \in Nat \ {0} : /\ Schedule(n) \in Nat /\ Backoff(n) \in Nat
                            /\ Schedule(n + 1) = Schedule(n) + Backoff(n)
<1>1. \A n \in Nat : Backoff(n) \in Nat
  <2>1. Len(Delays) \in Nat \ {0} /\ \A i \in 1..Len(Delays) : Delays[i] \in Nat \ {0}
    BY DelaysAssumption
  <2> QED BY <2>1 DEF Backoff
<1>2. \A n \in Nat : IsFiniteSet(1..n)
  BY FS_Interval
<1> DEFINE f(n) == [i \in 1..n |-> Backoff(i)]
<1>3. \A n \in Nat : /\ DOMAIN f(n) = 1..n
                     /\ \A i \in 1..n : f(n)[i] = Backoff(i) /\ f(n)[i] \in Nat
  BY <1>1
<1>4. \A n \in Nat \ {0} : n - 1 \in Nat /\ (n + 1) - 1 = n
  OBVIOUS
<1>5. \A n \in Nat \ {0} : Schedule(n) = SumFunctionOnSet(f(n - 1), 1..(n - 1))
  BY <1>3, <1>4 DEF Schedule, SumFunction
<1> HIDE DEF f
<1>6. ASSUME NEW n \in Nat \ {0} PROVE Schedule(n) \in Nat
  BY <1>2, <1>3, <1>4, <1>5, SumIsNat
<1>7. Schedule(1) = 0
  <2>1. IsFiniteSet(1..0) /\ \A i \in 1..0 : f(0)[i] = 0
    BY <1>2
  <2>2. SumFunctionOnSet(f(0), 1..0) = 0
    BY <2>1, SumOfZeros
  <2>3. 1 \in Nat \ {0} /\ 1 - 1 = 0
    OBVIOUS
  <2> QED BY <1>5, <2>2, <2>3
<1>8. ASSUME NEW n \in Nat \ {0} PROVE Schedule(n + 1) = Schedule(n) + Backoff(n)
  <2>1. n \in 1..n /\ (1..n) \ {n} = 1..(n - 1) /\ n + 1 \in Nat \ {0}
    OBVIOUS
  <2>2. \A i \in (1..n) \ {n} : f(n - 1)[i] = f(n)[i]
    BY <1>3, <1>4, <2>1
  <2>3. SumFunctionOnSet(f(n), 1..n) = f(n)[n] + SumFunctionOnSet(f(n - 1), (1..n) \ {n})
    <3> DEFINE S == 1..n
               a == f(n)
               b == f(n - 1)
    <3>1. IsFiniteSet(S) /\ (\A i \in S : a[i] \in Nat) /\ n \in S
          /\ \A i \in S \ {n} : b[i] = a[i]
      BY <1>2, <1>3, <2>1, <2>2
    <3> HIDE DEF S, a, b
    <3>2. PICK y \in S : y = n
      BY <3>1
    <3>3. \A i \in S \ {y} : b[i] = a[i]
      BY <3>1, <3>2
    <3>4. IsFiniteSet(S)
      BY <3>1
    <3>5. \A i \in S : a[i] \in Nat
      BY <3>1
    <3>6. SumFunctionOnSet(a, S) = a[y] + SumFunctionOnSet(b, S \ {y})
      BY ONLY <3>3, <3>4, <3>5, y \in S, SumSplits
    <3> QED BY <3>2, <3>6 DEF S, a, b
  <2>4. Schedule(n + 1) = f(n)[n] + Schedule(n)
    BY <1>4, <1>5, <2>1, <2>3
  <2>5. f(n)[n] = Backoff(n) /\ Backoff(n) \in Nat /\ Schedule(n) \in Nat
    BY <1>1, <1>3, <1>6, <2>1
  <2> QED BY <2>4, <2>5
<1> QED BY <1>1, <1>6, <1>7, <1>8

LEMMA InitScheduleInv == PacedInit => ScheduleInv
  BY DEF PacedInit, ScheduleInv, OneHolder, Posted, OnTime, Holds, Never

(* What is posted, claimed or waiting stays on time while time passes.     *)
LEMMA OnTimeStays ==
    ASSUME PacedInv, NEW m \in Msg, OnTime(m), now' \in {now, now + 1},
           sends'[m] = sends[m], status'[m] = status[m], attempts'[m] = attempts[m],
           nextAt'[m] = nextAt[m], firstSend'[m] = firstSend[m]
    PROVE  OnTime(m)'
<1>1. now \in Nat /\ attempts[m] \in Nat /\ sends[m] \in Nat
  BY Ticks DEF PacedInv, PacedTypes, TypeOK
<1>2. attempts[m] > 0 => Schedule(attempts[m]) \in Nat
  BY <1>1, ScheduleFacts
<1>3. ASSUME sends[m] > 0, status[m] = "delivering"
      PROVE  firstSend[m] + Schedule(attempts[m]) <= now'
  <2>1. firstSend[m] \in Nat /\ Schedule(attempts[m]) \in Nat
        /\ firstSend[m] + Schedule(attempts[m]) <= now
    BY <1>2, <1>3 DEF OnTime
  <2> QED BY <1>1, <2>1
<1>4. Schedule(attempts[m])' = Schedule(attempts[m])
      /\ Schedule(attempts[m] + 1)' = Schedule(attempts[m] + 1)
  BY DEF Schedule, Backoff
<1> HIDE DEF Schedule
<1> QED BY <1>3, <1>4 DEF OnTime, Never

(* A step that claims, hands out, posts and completes nothing.             *)
LEMMA QuietKeepsSchedule ==
    ASSUME PacedInv, ScheduleInv, now' \in {now, now + 1},
           UNCHANGED <<qvars, batch, sends, firstSend, limited, wmsg, wretry>>,
           \A w \in Caller : /\ Holds(w)' => Holds(w)
                             /\ wpc'[w] \in {"hold", "complete"} => wpc[w] \in {"hold", "complete"}
    PROVE  ScheduleInv'
<1>1. OneHolder'
  BY DEF ScheduleInv, OneHolder, qvars
<1>2. Posted'
  BY DEF ScheduleInv, Posted
<1>3. ASSUME NEW m \in Msg, m \notin limited' PROVE OnTime(m)'
  BY <1>3, OnTimeStays DEF ScheduleInv, qvars
<1> QED BY <1>1, <1>2, <1>3 DEF ScheduleInv

LEMMA SiteAsksKeepsSchedule ==
    ASSUME PacedInv, ScheduleInv, NEW m \in Msg, SiteAsks(m)
    PROVE  ScheduleInv'
<1>1. /\ status[m] = "absent" /\ status' = [status EXCEPT ![m] = "pending"]
      /\ nextAt' = [nextAt EXCEPT ![m] = now]
      /\ UNCHANGED <<now, attempts, batch, wpc, wmsg, wretry, sends, firstSend, limited>>
  BY DEF SiteAsks, vars, rvars, wvars, hvars
<1>2. status'[m] = "pending" /\ \A n \in Msg \ {m} : status'[n] = status[n] /\ nextAt'[n] = nextAt[n]
  BY <1>1 DEF PacedInv, PacedTypes
<1>3. batch \subseteq Msg /\ \A w \in Caller : Holds(w) => wmsg[w] \in Msg
  BY DEF PacedInv, PacedTypes, InHand, Holds
<1>4. OneHolder'
  BY <1>1, <1>2, <1>3 DEF ScheduleInv, OneHolder, Holds
<1>5. Posted'
  BY <1>1 DEF ScheduleInv, Posted
<1>6. ASSUME m \notin limited PROVE OnTime(m)'
  <2>1. attempts[m] \in Nat /\ sends[m] \in Nat
    BY DEF PacedInv, PacedTypes
  <2>2. sends[m] = 0 /\ attempts[m] = 0 /\ firstSend[m] = Never
    <3>1. OnTime(m)
      BY <1>6 DEF ScheduleInv
    <3> QED BY <1>1, <2>1, <3>1 DEF OnTime
  <2> QED BY <1>1, <1>2, <2>2 DEF OnTime, Never
<1>7. ASSUME NEW n \in Msg \ {m}, n \notin limited PROVE OnTime(n)'
  <2>1. OnTime(n)
    BY <1>7 DEF ScheduleInv
  <2> QED BY <1>1, <1>2, <2>1, OnTimeStays
<1> QED BY <1>1, <1>4, <1>5, <1>6, <1>7 DEF ScheduleInv

(* What is claimed was due, and so its delays have passed.                 *)
LEMMA ClaimKeepsSchedule ==
    ASSUME PacedInv, ScheduleInv, ClaimRows
    PROVE  ScheduleInv'
<1>1. PICK S \in Selections \ {{}} :
        /\ status' = [m \in Msg |-> IF m \in S THEN "delivering" ELSE status[m]]
        /\ attempts' = [m \in Msg |-> IF m \in S THEN attempts[m] + 1 ELSE attempts[m]]
        /\ nextAt' = [m \in Msg |-> IF m \in S THEN now + ClaimLease ELSE nextAt[m]]
        /\ batch' = S
  BY DEF ClaimRows
<1>2. /\ wpc' = [w \in Caller |-> "recv"]
      /\ UNCHANGED <<now, wmsg, wretry, sends, firstSend, limited>>
  BY DEF ClaimRows, vars, hvars
<1>3. S \subseteq Claimable /\ S \subseteq Msg
  BY DEF Selections, Claimable
<1>4. OneHolder' /\ Posted'
  BY <1>1, <1>2, <1>3 DEF OneHolder, Posted, Holds
<1>5. ASSUME NEW m \in Msg \ S, m \notin limited PROVE OnTime(m)'
  <2>1. OnTime(m) /\ status'[m] = status[m] /\ attempts'[m] = attempts[m] /\ nextAt'[m] = nextAt[m]
    BY <1>1, <1>5 DEF ScheduleInv
  <2> QED BY <1>2, <2>1, OnTimeStays
<1>6. ASSUME NEW m \in S, m \notin limited PROVE OnTime(m)'
  <2>1. /\ m \in Msg /\ status[m] \in {"pending", "failed"} /\ nextAt[m] # Never /\ nextAt[m] <= now
        /\ attempts[m] \in Nat /\ sends[m] \in Nat /\ now \in Nat /\ nextAt[m] \in Nat
    BY <1>3, Ticks DEF Claimable, PacedInv, PacedTypes, TypeOK
  <2>2. OnTime(m)
    BY <1>6, <2>1 DEF ScheduleInv
  <2>3. status[m] = "pending" /\ status'[m] = "delivering" /\ attempts'[m] = attempts[m] + 1
    BY <1>1, <2>1, <2>2 DEF OnTime
  <2>4. sends[m] = 0 => attempts[m] = 0
    BY <2>2, <2>3 DEF OnTime
  <2>5. ASSUME sends[m] > 0 PROVE firstSend[m] + Schedule(attempts[m] + 1) <= now
    <3>1. /\ firstSend[m] \in Nat /\ attempts[m] + 1 \in Nat \ {0}
          /\ firstSend[m] + Schedule(attempts[m] + 1) <= nextAt[m]
      BY <2>1, <2>2, <2>3, <2>5 DEF OnTime
    <3>2. Schedule(attempts[m] + 1) \in Nat
      BY <3>1, ScheduleFacts
    <3> QED BY <2>1, <3>1, <3>2
  <2>6. sends[m] > 0 => firstSend[m] \in Nat
    BY <2>2 DEF OnTime
  <2>7. firstSend[m] = Never <=> sends[m] = 0
    BY <2>2 DEF OnTime
  <2>8. Schedule(attempts[m])' = Schedule(attempts[m] + 1)
    BY <2>3 DEF Schedule, Backoff
  <2> HIDE DEF Schedule
  <2> QED BY <1>2, <2>1, <2>3, <2>4, <2>5, <2>6, <2>7, <2>8 DEF OnTime, Never
<1> QED BY <1>2, <1>4, <1>5, <1>6 DEF ScheduleInv

LEMMA FeedKeepsSchedule ==
    ASSUME PacedInv, ScheduleInv, NEW w \in Caller, Feed(w)
    PROVE  ScheduleInv'
<1>1. PICK m \in batch : batch' = batch \ {m} /\ wmsg' = [wmsg EXCEPT ![w] = m]
  BY DEF Feed
<1>2. /\ wpc[w] = "recv" /\ wpc' = [wpc EXCEPT ![w] = "limit"]
      /\ UNCHANGED <<now, status, attempts, nextAt, wretry, sends, firstSend, limited>>
  BY DEF Feed, vars, qvars, hvars
<1>3. /\ wpc'[w] = "limit" /\ wmsg'[w] = m
      /\ \A v \in Caller \ {w} : wpc'[v] = wpc[v] /\ wmsg'[v] = wmsg[v]
  BY <1>1, <1>2 DEF PacedInv, PacedTypes
<1>4. OneHolder'
  BY <1>1, <1>2, <1>3 DEF ScheduleInv, OneHolder, Holds
<1>5. Posted'
  BY <1>2, <1>3 DEF ScheduleInv, Posted
<1>6. ASSUME NEW n \in Msg, n \notin limited PROVE OnTime(n)'
  <2>1. OnTime(n)
    BY <1>6 DEF ScheduleInv
  <2> QED BY <1>2, <2>1, OnTimeStays
<1> QED BY <1>2, <1>4, <1>5, <1>6 DEF ScheduleInv

LEMMA SendKeepsSchedule ==
    ASSUME PacedInv, ScheduleInv, NEW w \in Caller, Send(w)
    PROVE  ScheduleInv'
<1>0. PICK m \in Msg : m = wmsg[w]
  BY DEF Send, PacedInv, InHand
<1>1. PICK d \in Hold \cup {0} :
        /\ wretry' = [wretry EXCEPT ![w] = d]
        /\ limited' = IF d > 0 THEN limited \cup {m} ELSE limited
        /\ wpc' = [wpc EXCEPT ![w] = IF d > 0 THEN "hold" ELSE "complete"]
  BY <1>0 DEF Send
<1>2. /\ wpc[w] = "send"
      /\ sends' = [sends EXCEPT ![m] = @ + 1]
      /\ firstSend' = [firstSend EXCEPT ![m] = IF @ = Never THEN now ELSE @]
      /\ UNCHANGED <<now, status, attempts, nextAt, batch, wmsg>>
  BY <1>0 DEF Send, vars, qvars, rvars
<1>3. /\ wpc'[w] \in {"hold", "complete"} /\ wretry'[w] = d
      /\ \A v \in Caller \ {w} : wpc'[v] = wpc[v] /\ wretry'[v] = wretry[v]
  BY <1>1, <1>2 DEF PacedInv, PacedTypes
<1>4. /\ sends[m] \in Nat /\ sends'[m] = sends[m] + 1 /\ now \in Nat
      /\ firstSend'[m] = IF firstSend[m] = Never THEN now ELSE firstSend[m]
      /\ \A n \in Msg \ {m} : sends'[n] = sends[n] /\ firstSend'[n] = firstSend[n]
  BY <1>2, Ticks DEF PacedInv, PacedTypes, TypeOK
<1>5. OneHolder'
  BY <1>2, <1>3 DEF ScheduleInv, OneHolder, Holds
<1>6. Posted'
  <2>1. d \in Nat /\ (m \notin limited' => d = 0) /\ limited \subseteq limited'
    BY <1>1, HoldAssumption
  <2>2. sends'[m] > 0
    BY <1>4
  <2>3. ASSUME NEW v \in Caller \ {w}, wpc'[v] \in {"hold", "complete"}
        PROVE  sends'[wmsg[v]] > 0 /\ (wmsg[v] \notin limited' => wretry'[v] = 0)
    <3>1. wpc[v] \in {"hold", "complete"} /\ wmsg[v] \in Msg
      BY <1>3, <2>3 DEF PacedInv, InHand
    <3>2. sends[wmsg[v]] > 0 /\ (wmsg[v] \notin limited => wretry[v] = 0)
      BY <3>1 DEF ScheduleInv, Posted
    <3> QED BY <1>3, <1>4, <2>1, <2>2, <3>1, <3>2
  <2> QED BY <1>0, <1>2, <1>3, <2>1, <2>2, <2>3 DEF Posted
<1>7. ASSUME NEW n \in Msg \ {m}, n \notin limited' PROVE OnTime(n)'
  <2>1. OnTime(n)
    BY <1>1, <1>7 DEF ScheduleInv
  <2> QED BY <1>2, <1>4, <2>1, OnTimeStays
<1>8. ASSUME m \notin limited' PROVE OnTime(m)'
  <2>1. OnTime(m) /\ status[m] = "delivering" /\ attempts[m] \in Nat
    BY <1>0, <1>1, <1>2, <1>8 DEF ScheduleInv, OneHolder, Holds, PacedInv, PacedTypes
  <2>2. Schedule(attempts[m])' = Schedule(attempts[m])
    BY <1>2 DEF Schedule, Backoff
  <2>3. CASE sends[m] = 0
    <3>1. attempts[m] = 1 /\ firstSend'[m] = now
      BY <1>4, <2>1, <2>3 DEF OnTime
    <3>2. now + Schedule(attempts[m]) = now
      BY <1>4, <3>1, ScheduleFacts
    <3> HIDE DEF Schedule
    <3> QED BY <1>2, <1>4, <2>1, <2>2, <2>3, <3>1, <3>2 DEF OnTime, Never
  <2>4. CASE sends[m] # 0
    <3>1. /\ sends[m] > 0 /\ firstSend[m] \in Nat /\ attempts[m] > 0
          /\ firstSend[m] + Schedule(attempts[m]) <= now
      BY <1>4, <2>1, <2>4 DEF OnTime
    <3>2. firstSend'[m] = firstSend[m]
      BY <1>4, <3>1 DEF Never
    <3> HIDE DEF Schedule
    <3> QED BY <1>2, <1>4, <2>1, <2>2, <3>1, <3>2 DEF OnTime, Never
  <2> QED BY <2>3, <2>4
<1> QED BY <1>5, <1>6, <1>7, <1>8 DEF ScheduleInv

(* A retry without an instruction waits for the schedule's next delay.     *)
LEMMA CompleteKeepsSchedule ==
    ASSUME PacedInv, ScheduleInv, NEW w \in Caller, Complete(w)
    PROVE  ScheduleInv'
<1>0. PICK m \in Msg, v \in D!Verdict, d \in Hold \cup {0} :
        m = wmsg[w] /\ v = wverdict[w] /\ d = wretry[w]
  BY DEF Complete, PacedInv, InHand, PacedTypes
<1>1. /\ wpc[w] = "complete" /\ wpc' = [wpc EXCEPT ![w] = "recv"]
      /\ status' = [status EXCEPT ![m] = StatusAfter(m, v)]
      /\ nextAt' = [nextAt EXCEPT ![m] = NextAtAfter(m, v, d)]
      /\ wmsg' = [wmsg EXCEPT ![w] = NoMsg]
      /\ wretry' = [wretry EXCEPT ![w] = 0]
      /\ UNCHANGED <<now, attempts, batch, sends, firstSend, limited>>
  BY <1>0 DEF Complete, vars, rvars, hvars
<1>2. /\ wpc'[w] = "recv"
      /\ \A u \in Caller \ {w} : wpc'[u] = wpc[u] /\ wmsg'[u] = wmsg[u] /\ wretry'[u] = wretry[u]
  BY <1>1 DEF PacedInv, PacedTypes
<1>3. /\ status'[m] = StatusAfter(m, v) /\ nextAt'[m] = NextAtAfter(m, v, d)
      /\ \A n \in Msg \ {m} : status'[n] = status[n] /\ nextAt'[n] = nextAt[n]
  BY <1>1 DEF PacedInv, PacedTypes
<1>4. /\ status[m] = "delivering" /\ m \notin batch
      /\ \A u \in Caller \ {w} : Holds(u) => wmsg[u] # m /\ wmsg[u] \in Msg
  BY <1>0, <1>1 DEF ScheduleInv, OneHolder, Holds, PacedInv, InHand
<1>5. OneHolder'
  <2>1. batch \subseteq Msg
    BY DEF PacedInv, PacedTypes
  <2> QED BY <1>1, <1>2, <1>3, <1>4, <2>1 DEF ScheduleInv, OneHolder, Holds
<1>6. Posted'
  BY <1>1, <1>2 DEF ScheduleInv, Posted
<1>7. ASSUME NEW n \in Msg \ {m}, n \notin limited PROVE OnTime(n)'
  <2>1. OnTime(n)
    BY <1>7 DEF ScheduleInv
  <2> QED BY <1>1, <1>3, <2>1, OnTimeStays
<1>8. ASSUME m \notin limited PROVE OnTime(m)'
  <2>1. OnTime(m) /\ sends[m] > 0 /\ d = 0
    BY <1>0, <1>1, <1>8 DEF ScheduleInv, Posted
  <2>2. /\ firstSend[m] \in Nat /\ attempts[m] \in Nat \ {0} /\ sends[m] \in Nat /\ now \in Nat
        /\ firstSend[m] + Schedule(attempts[m]) <= now
    BY <1>4, <2>1, Ticks DEF OnTime, PacedInv, PacedTypes, TypeOK
  <2>3. firstSend[m] + Schedule(attempts[m] + 1) <= now + Backoff(attempts[m])
    <3>1. /\ Schedule(attempts[m]) \in Nat /\ Backoff(attempts[m]) \in Nat
          /\ Schedule(attempts[m] + 1) = Schedule(attempts[m]) + Backoff(attempts[m])
      BY <2>2, ScheduleFacts
    <3> QED BY <2>2, <3>1
  <2>4. Schedule(attempts[m] + 1)' = Schedule(attempts[m] + 1)
    BY <1>1 DEF Schedule, Backoff
  <2>5. Delay(m, d) = Backoff(attempts[m])
    BY <2>1 DEF Delay
  <2>6. /\ status'[m] \in {"delivered", "dead", "failed", "pending"}
        /\ status'[m] = "failed" => nextAt'[m] = Never
        /\ status'[m] = "pending" => nextAt'[m] = now + Delay(m, d)
    <3>1. CASE v \in {"delivered", "dead"}
      BY <1>3, <3>1 DEF StatusAfter
    <3>2. CASE v = "drop"
      BY <1>3, <3>2 DEF StatusAfter, NextAtAfter
    <3>3. CASE v = "retry"
      BY <1>3, <3>3 DEF StatusAfter, NextAtAfter
    <3> QED BY <3>1, <3>2, <3>3 DEF D!Verdict
  <2>7. status'[m] = "pending" => firstSend[m] + Schedule(attempts[m] + 1) <= nextAt'[m]
    BY <2>3, <2>5, <2>6
  <2> HIDE DEF Schedule
  <2> QED BY <1>1, <2>1, <2>2, <2>4, <2>6, <2>7 DEF OnTime, Never
<1> QED BY <1>1, <1>5, <1>6, <1>7, <1>8 DEF ScheduleInv

LEMMA NextScheduleInv ==
    ASSUME PacedInv, ScheduleInv, [PacedNext]_pvars
    PROVE  ScheduleInv'
<1>1. CASE \/ ClaimNothing \/ FeedDone \/ Drained \/ Tick
           \/ Housekeep \/ Passes \/ pvars' = pvars
  <2>1. /\ UNCHANGED <<qvars, batch, sends, firstSend, limited, wpc, wmsg, wretry>>
        /\ now' \in {now, now + 1}
    BY <1>1 DEF ClaimNothing, FeedDone, Drained, Tick, Housekeep, Passes, Sweep, Advance,
                pvars, vars, rvars, wvars, hvars
  <2> QED BY <2>1, QuietKeepsSchedule DEF Holds
<1>2. ASSUME NEW w \in Caller, RangeEnds(w) \/ Wait(w) \/ HoldOff(w) PROVE ScheduleInv'
  <2>1. UNCHANGED <<now, qvars, batch, sends, firstSend, limited, wmsg, wretry>>
    BY <1>2 DEF RangeEnds, Wait, HoldOff, Call, Reserve, Return, ReserveFor, vars, rvars, hvars
  <2>2. \A v \in Caller : /\ Holds(v)' => Holds(v)
                          /\ wpc'[v] \in {"hold", "complete"} => wpc[v] \in {"hold", "complete"}
    BY <1>2 DEF RangeEnds, Wait, HoldOff, Holds, PacedInv, PacedTypes
  <2> QED BY <2>1, <2>2, QuietKeepsSchedule
<1> QED BY <1>1, <1>2, SiteAsksKeepsSchedule, ClaimKeepsSchedule, FeedKeepsSchedule,
           SendKeepsSchedule, CompleteKeepsSchedule DEF PacedNext

(* The n-th post of a message that met no 429 comes no sooner after its    *)
(* first than the first n-1 delays of Backoff's schedule together.         *)
THEOREM RetriesKeepSchedule == PacedSpec => KeepsSchedule
<1>1. PacedInv /\ ScheduleInv /\ [PacedNext]_pvars => ScheduleInv'
  BY NextScheduleInv
<1>2. PacedInv /\ ScheduleInv =>
        [\A w \in Caller : Send(w) /\ sends[wmsg[w]] > 0 /\ wmsg[w] \notin limited =>
            now - firstSend[wmsg[w]] >= Schedule(attempts[wmsg[w]])]_pvars
  <2> SUFFICES ASSUME PacedInv, ScheduleInv, NEW w \in Caller, Send(w),
                      sends[wmsg[w]] > 0, wmsg[w] \notin limited
               PROVE  now - firstSend[wmsg[w]] >= Schedule(attempts[wmsg[w]])
    OBVIOUS
  <2>1. wmsg[w] \in Msg /\ status[wmsg[w]] = "delivering"
    BY DEF Send, PacedInv, InHand, ScheduleInv, OneHolder, Holds
  <2>2. /\ firstSend[wmsg[w]] \in Nat /\ attempts[wmsg[w]] \in Nat \ {0} /\ now \in Nat
        /\ firstSend[wmsg[w]] + Schedule(attempts[wmsg[w]]) <= now
    BY <2>1, Ticks DEF ScheduleInv, OnTime, PacedInv, PacedTypes, TypeOK
  <2>3. Schedule(attempts[wmsg[w]]) \in Nat
    BY <2>2, ScheduleFacts
  <2> QED BY <2>2, <2>3
<1> QED BY <1>1, <1>2, InitScheduleInv, PacedInvariance, PTL DEF PacedSpec, KeepsSchedule
=============================================================================

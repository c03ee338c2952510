--------------------------- MODULE HiscoresProofs ---------------------------
(***************************************************************************)
(* Theorems about HiscoresClient, for every number of workers and every    *)
(* burst, number of attempts, delay and timeout.                           *)
(***************************************************************************)
EXTENDS HiscoresClient, Sums

(* An attempt is counted as it begins, and a pause follows all but the     *)
(* last.                                                                   *)
Counted ==
    \A w \in Worker : /\ wpc[w] \in {"free", "limit"} => attempt[w] = 0
                      /\ wpc[w] = "request" => attempt[w] > 0
                      /\ wpc[w] = "delay" => attempt[w] > 0 /\ attempt[w] < Attempts

(* Nothing is sent in the future.                                          *)
Quiet == \A t \in Time : t > now => sent[t] = 0

(* Workers that wait for a token, and those of them that will at t.        *)
Waiting == {w \in Worker : wpc[w] = "limit"}
From(t) == {w \in Waiting : wake[w] >= t}
Beyond(t) == {w \in Waiting : wake[w] > t}

(* The tokens promised for t and later are one per tick and a burst ahead: *)
(* no more workers than that wait for one.                                 *)
TokensApart ==
    \A t \in Nat : t > now => Cardinality(From(t)) <= Later(promised, t) - t

(* Until the process stops every token promised for after t has a worker   *)
(* that waits for it.                                                      *)
TokensAwaited ==
    ~cancelled => \A t \in Nat : t >= now => promised <= t + Burst + Cardinality(Beyond(t))

(* The requests a worker may still make for the token it has or waits for. *)
Owe == [w \in Worker |-> IF wpc[w] = "free" THEN 0 ELSE Attempts - attempt[w]]
Owed == SumFunctionOnSet(Owe, Worker)

Backlog == (Attempts - 1) * Cardinality(Worker)

(* What was sent since a and is still owed is paid for: by tokens promised *)
(* since a, or before a by workers that had made an attempt by then.       *)
Paid ==
    ~cancelled => \A a, b \in Time : a <= now /\ now <= b =>
        Requests(a, b) + Owed <= Attempts * (Later(promised, a) - a) + Backlog

(* The rate over the periods that are not over yet follows from these.     *)
RateSoFar ==
    ~cancelled => \A a, b \in Time : a <= b /\ now <= b =>
        Requests(a, b) <= Attempts * (Burst + (b - a)) + Backlog

TypeInv == TypeOK /\ Counted /\ Quiet
Inv == TypeInv /\ TokensApart /\ TokensAwaited /\ Paid

-----------------------------------------------------------------------------
(* Types.                                                                  *)
LEMMA Constants == Attempts \in Nat /\ Attempts > 0 /\ (\A n \in Int : Later(1, n) \in Int)
  BY RetriesAssumption DEF Attempts, Later

LEMMA InitTypeInv == Init => TypeInv
<1> SUFFICES ASSUME Init PROVE TypeInv
  OBVIOUS
<1>1. 0 \in 0..Attempts /\ 0 \in Time
  BY Constants, MaxTimeAssumption DEF Time
<1> QED BY <1>1 DEF Init, TypeInv, TypeOK, Counted, Quiet

LEMMA FetchKeepsTypes ==
    ASSUME TypeInv, NEW w \in Worker, TakeToken(w) \/ Fetch(w)
    PROVE  TypeInv'
<1> USE Constants, BudgetAssumption DEF TypeInv, TypeOK, Counted, Quiet
<1>1. now \in Time /\ now \in Nat
  BY MaxTimeAssumption DEF Time
<1>2. CASE TakeToken(w)
  <2>1. promised' \in Nat /\ Token \in Nat
    BY <1>1, <1>2 DEF TakeToken, Token, Later
  <2> QED BY <1>2, <2>1 DEF TakeToken
<1>3. ASSUME Attempt(w), wpc[w] = "limit" \/ wpc[w] = "delay" PROVE TypeInv'
  <2>1. attempt[w] + 1 \in 0..Attempts /\ attempt[w] + 1 > 0
    BY <1>3
  <2>2. now + Timeout \in Nat /\ sent[now] + 1 \in Nat
    BY <1>1
  <2> QED BY <1>1, <1>3, <2>1, <2>2 DEF Attempt
<1>4. ASSUME NEW o \in {"none", "ok", "unranked", "transient"}, Done(w, o), UNCHANGED sent
      PROVE  TypeInv'
  BY <1>4 DEF Done
<1>5. CASE FailsAndWaits(w)
  <2>1. now + RetryDelay \in Nat
    BY <1>1
  <2> QED BY <1>5, <2>1 DEF FailsAndWaits, AttemptsLeft
<1>6. CASE \E p \in Asked : FirstAttempt(w, p[1], p[2])
  BY <1>3, <1>6 DEF FirstAttempt
<1>7. CASE Retry(w)
  BY <1>3, <1>7 DEF Retry
<1>8. CASE \E p \in Asked : NotLookedUp(w, p[1], p[2])
  BY <1>4, <1>8 DEF NotLookedUp
<1>9. CASE Answered(w) \/ NotFound(w) \/ FailsForGood(w)
  BY <1>4, <1>9 DEF Answered, NotFound, FailsForGood
<1>10. CASE Interrupted(w)
  BY <1>4, <1>10 DEF Interrupted
<1> QED BY <1>2, <1>5, <1>6, <1>7, <1>8, <1>9, <1>10 DEF Fetch

LEMMA NextTypeInv == TypeInv /\ [Next]_vars => TypeInv'
<1> SUFFICES ASSUME TypeInv, [Next]_vars PROVE TypeInv'
  OBVIOUS
<1>1. CASE Cancel \/ UNCHANGED vars
  BY <1>1 DEF Cancel, vars, TypeInv, TypeOK, Counted, Quiet
<1>2. CASE Advance
  BY <1>2, MaxTimeAssumption DEF Advance, TypeInv, TypeOK, Counted, Quiet, Time
<1> QED BY <1>1, <1>2, FetchKeepsTypes DEF Next

LEMMA TypeInvariance == Spec => []TypeInv
  BY InitTypeInv, NextTypeInv, PTL DEF Spec

(* The type invariant holds in every behaviour: a fetch makes no more      *)
(* attempts than it should.                                                *)
THEOREM TypeCorrect == Spec => []TypeOK
<1>1. TypeInv => TypeOK
  BY DEF TypeInv
<1> QED BY <1>1, TypeInvariance, PTL

-----------------------------------------------------------------------------
(* Waiting for tokens.                                                     *)
LEMMA FiniteSets ==
    ASSUME NEW S \in SUBSET Worker
    PROVE  IsFiniteSet(S) /\ Cardinality(S) \in Nat
  BY WorkerAssumption, FS_Subset, FS_CardinalityType

LEMMA Among ==
    ASSUME NEW t
    PROVE  From(t) \in SUBSET Worker /\ Beyond(t) \in SUBSET Worker /\ Waiting \in SUBSET Worker
  BY DEF From, Beyond, Waiting

(* A set of workers that loses none but w, or gains none but w.            *)
LEMMA CountsDiffer ==
    ASSUME NEW S \in SUBSET Worker, NEW T \in SUBSET Worker, NEW w \in Worker
    PROVE  /\ S \subseteq T => Cardinality(S) <= Cardinality(T)
           /\ T \subseteq S \cup {w} => Cardinality(T) <= Cardinality(S) + 1
           /\ S \cup {w} \subseteq T /\ w \notin S => Cardinality(S) + 1 <= Cardinality(T)
<1>1. IsFiniteSet(S) /\ Cardinality(S) \in Nat /\ IsFiniteSet(T) /\ Cardinality(T) \in Nat
  BY FiniteSets
<1>2. /\ IsFiniteSet(S \cup {w})
      /\ Cardinality(S \cup {w}) = IF w \in S THEN Cardinality(S) ELSE Cardinality(S) + 1
  BY <1>1, FS_AddElement
<1>3. S \subseteq T => Cardinality(S) <= Cardinality(T)
  BY <1>1, FS_Subset
<1>4. T \subseteq S \cup {w} => Cardinality(T) <= Cardinality(S \cup {w})
  BY <1>2, FS_Subset
<1>5. S \cup {w} \subseteq T => Cardinality(S \cup {w}) <= Cardinality(T)
  BY <1>1, FS_Subset
<1> QED BY <1>1, <1>2, <1>3, <1>4, <1>5

(* What a step has to do so that the waiting workers stay in line: nobody  *)
(* joins, and who leaves has its token or the process stops.               *)
Leaves ==
    /\ now' \in Nat /\ now' >= now /\ promised' = promised
    /\ cancelled => cancelled'
    /\ \A w \in Worker : wpc'[w] = "limit" => wpc[w] = "limit" /\ wake'[w] = wake[w]
    /\ cancelled' \/ \A w \in Worker :
          wpc[w] = "limit" /\ wake[w] > now => wpc'[w] = "limit" /\ wake'[w] = wake[w]

LEMMA LeavesKeepsLine ==
    ASSUME TypeInv, TokensApart, TokensAwaited, Leaves
    PROVE  TokensApart' /\ TokensAwaited'
<1>0. now \in Nat /\ promised \in Nat /\ \A w \in Worker : wake[w] \in Nat
  BY MaxTimeAssumption DEF TypeInv, TypeOK, Time
<1>1. ASSUME NEW t \in Nat, t > now'
      PROVE  Cardinality(From(t)') <= Later(promised', t) - t
  <2>1. From(t)' \subseteq From(t)
    BY DEF From, Waiting, Leaves
  <2>2. PICK n \in Nat : n = Later(promised, t)
    BY <1>0 DEF Later
  <2>3. Cardinality(From(t)) <= n - t
    BY <1>0, <1>1, <2>2 DEF TokensApart, Leaves
  <2>4. Cardinality(From(t)') <= Cardinality(From(t)) /\ Cardinality(From(t)') \in Nat
        /\ Cardinality(From(t)) \in Nat
    BY <2>1, Among, FiniteSets, FS_Subset
  <2>5. Later(promised', t) = n
    BY <2>2 DEF Leaves
  <2> QED BY <2>2, <2>3, <2>4, <2>5
<1>2. ASSUME ~cancelled', NEW t \in Nat, t >= now'
      PROVE  promised' <= t + Burst + Cardinality(Beyond(t)')
  <2>1. Beyond(t) \subseteq Beyond(t)'
    BY <1>0, <1>2 DEF Beyond, Waiting, Leaves
  <2>2. Beyond(t)' \in SUBSET Worker /\ Beyond(t) \in SUBSET Worker
    BY DEF Beyond, Waiting
  <2>3. Cardinality(Beyond(t)) <= Cardinality(Beyond(t)') /\ Cardinality(Beyond(t)') \in Nat
        /\ Cardinality(Beyond(t)) \in Nat
    BY <2>1, <2>2, FiniteSets, FS_Subset
  <2>4. promised <= t + Burst + Cardinality(Beyond(t))
    BY <1>0, <1>2 DEF TokensAwaited, Leaves
  <2> QED BY <1>0, <2>3, <2>4, BudgetAssumption DEF Leaves
<1> QED BY <1>1, <1>2 DEF TokensApart, TokensAwaited

(* A worker joins with the token behind the last.                          *)
LEMMA JoinsLine ==
    ASSUME TypeInv, TokensApart, TokensAwaited, NEW w \in Worker, TakeToken(w)
    PROVE  TokensApart' /\ TokensAwaited'
<1>0. /\ now \in Nat /\ promised \in Nat /\ \A v \in Worker : wake[v] \in Nat
      /\ Burst \in Nat /\ Burst > 0
  BY MaxTimeAssumption, BudgetAssumption DEF TypeInv, TypeOK, Time
<1>1. PICK n \in Nat, at \in Nat :
        /\ n = Later(promised, now) /\ at = Token
        /\ at = IF now < n + 1 - Burst THEN n + 1 - Burst ELSE now
  <2>1. PICK n \in Nat : n = Later(promised, now)
    BY <1>0 DEF Later
  <2>2. Token = IF now < n + 1 - Burst THEN n + 1 - Burst ELSE now
    BY <2>1 DEF Token, Later
  <2>3. Token \in Nat
    BY <1>0, <2>1, <2>2
  <2> QED BY <2>1, <2>2, <2>3
<1>2. /\ promised' = n + 1 /\ now' = now /\ cancelled' = cancelled /\ ~cancelled
      /\ wpc[w] = "free"
      /\ wpc' = [wpc EXCEPT ![w] = "limit"] /\ wake' = [wake EXCEPT ![w] = at]
  BY <1>1 DEF TakeToken
<1>3. n >= promised /\ n >= now /\ (n = promised \/ n = now)
  BY <1>0, <1>1 DEF Later
<1>4. /\ \A v \in Worker \ {w} : wpc'[v] = wpc[v] /\ wake'[v] = wake[v]
      /\ wpc'[w] = "limit" /\ wake'[w] = at
  BY <1>2 DEF TypeInv, TypeOK
<1>5. ASSUME NEW t \in Nat, t > now
      PROVE  Cardinality(From(t)') <= Later(promised', t) - t
  <2>1. From(t)' \in SUBSET Worker /\ From(t) \in SUBSET Worker
    BY DEF From, Waiting
  <2>2. Cardinality(From(t)) <= Later(promised, t) - t
    BY <1>5 DEF TokensApart
  <2>3. Cardinality(From(t)') \in Nat /\ Cardinality(From(t)) \in Nat
    BY <2>1, FiniteSets
  <2>4. CASE at >= t
    <3>1. From(t)' \subseteq From(t) \cup {w}
      BY <1>4 DEF From, Waiting
    <3>2. Cardinality(From(t)') <= Cardinality(From(t)) + 1
      BY <2>1, <3>1, CountsDiffer
    <3>3. n = promised /\ promised >= t
      BY <1>0, <1>1, <1>3, <1>5, <2>4
    <3>4. Later(promised, t) = promised /\ Later(promised', t) = promised + 1
      BY <1>0, <1>2, <1>5, <3>3 DEF Later
    <3> QED BY <1>0, <2>2, <2>3, <3>2, <3>4
  <2>5. CASE ~(at >= t)
    <3>1. From(t)' \subseteq From(t)
      BY <1>4, <2>5 DEF From, Waiting
    <3>2. Cardinality(From(t)') <= Cardinality(From(t))
      BY <2>1, <3>1, CountsDiffer
    <3>3. Later(promised, t) <= Later(promised', t) /\ Later(promised, t) \in Nat /\ Later(promised', t) \in Nat
      BY <1>0, <1>2, <1>3, <1>5 DEF Later
    <3> QED BY <2>2, <2>3, <3>2, <3>3
  <2> QED BY <2>4, <2>5
<1>6. ASSUME NEW t \in Nat, t >= now
      PROVE  promised' <= t + Burst + Cardinality(Beyond(t)')
  <2>1. Beyond(t)' \in SUBSET Worker /\ Beyond(t) \in SUBSET Worker
    BY DEF Beyond, Waiting
  <2>2. promised <= t + Burst + Cardinality(Beyond(t))
    BY <1>2, <1>6 DEF TokensAwaited
  <2>3. Cardinality(Beyond(t)') \in Nat /\ Cardinality(Beyond(t)) \in Nat
    BY <2>1, FiniteSets
  <2>4. CASE at > t
    <3>1. Beyond(t) \cup {w} \subseteq Beyond(t)' /\ w \notin Beyond(t)
      BY <1>2, <1>4, <2>4 DEF Beyond, Waiting
    <3>2. Cardinality(Beyond(t)) + 1 <= Cardinality(Beyond(t)')
      BY <2>1, <3>1, CountsDiffer
    <3> QED BY <1>0, <1>2, <1>3, <1>6, <2>2, <2>3, <3>2
  <2>5. CASE ~(at > t)
    BY <1>0, <1>1, <1>2, <1>6, <2>3, <2>5
  <2> QED BY <2>4, <2>5
<1> QED BY <1>2, <1>5, <1>6 DEF TokensApart, TokensAwaited

-----------------------------------------------------------------------------
(* Requests.                                                               *)
LEMMA NaturalOwe ==
    ASSUME TypeInv
    PROVE  /\ IsFiniteSet(Worker)
           /\ \A w \in Worker : /\ Owe[w] \in Nat
                                /\ Owe[w] <= Attempts
                                /\ wpc[w] = "limit" => Owe[w] = Attempts
                                /\ wpc[w] # "limit" => Owe[w] <= Attempts - 1
           /\ Owed \in Nat
<1>1. \A w \in Worker : /\ Owe[w] \in Nat
                        /\ Owe[w] <= Attempts
                        /\ wpc[w] = "limit" => Owe[w] = Attempts
                        /\ wpc[w] # "limit" => Owe[w] <= Attempts - 1
  BY Constants DEF TypeInv, TypeOK, Counted, Owe
<1> QED BY <1>1, WorkerAssumption, SumIsNat DEF Owed

(* What is owed is at least what the waiting workers will send and at most *)
(* that and the retries of all others.                                     *)
LEMMA OwedBounds ==
    ASSUME TypeInv, NEW S \in SUBSET Waiting
    PROVE  /\ Attempts * Cardinality(S) <= Owed
           /\ Owed <= Cardinality(Waiting) + Backlog
<1>1. /\ \A w \in Worker : /\ Owe[w] \in Nat
                           /\ Owe[w] <= (Attempts - 1) + (IF w \in Waiting THEN 1 ELSE 0)
      /\ \A w \in S : Attempts <= Owe[w]
      /\ Attempts - 1 \in Nat /\ Attempts \in Nat
      /\ S \in SUBSET Worker /\ Waiting \in SUBSET Worker
  BY NaturalOwe, Constants DEF Waiting
<1>2. PICK d \in Nat, c \in Nat : d = Attempts - 1 /\ c = Attempts
  BY <1>1
<1>3. /\ c * Cardinality(S) <= SumFunctionOnSet(Owe, Worker)
      /\ SumFunctionOnSet(Owe, Worker) <= d * Cardinality(Worker) + Cardinality(Waiting)
  <2>1. \A w \in Worker : Owe[w] \in Nat /\ Owe[w] <= d + (IF w \in Waiting THEN 1 ELSE 0)
    BY <1>1, <1>2
  <2>2. \A w \in S : c <= Owe[w]
    BY <1>1, <1>2
  <2> HIDE DEF Owe
  <2> QED BY <1>1, <2>1, <2>2, WorkerAssumption, SumBounds
<1>4. /\ Cardinality(Worker) \in Nat /\ Cardinality(Waiting) \in Nat
      /\ d * Cardinality(Worker) \in Nat
  BY <1>1, FiniteSets
<1> QED BY <1>2, <1>3, <1>4 DEF Owed, Backlog

(* When one worker's debt changes, so does the sum.                        *)
LEMMA OwedChanges ==
    ASSUME TypeInv, NEW w \in Worker, NEW d \in Int,
           \A v \in Worker \ {w} : wpc'[v] = wpc[v] /\ attempt'[v] = attempt[v],
           Owe'[w] = Owe[w] + d
    PROVE  Owed' = Owed + d
<1>1. PICK f, g : f = Owe /\ g = Owe'
  OBVIOUS
<1>2. \A v \in Worker \ {w} : g[v] = f[v]
  BY <1>1 DEF Owe
<1>3. \A v \in Worker : f[v] \in Nat
  BY <1>1, NaturalOwe
<1>4. SumFunctionOnSet(g, Worker) = SumFunctionOnSet(f, Worker) + (IF w \in Worker THEN d ELSE 0)
  BY <1>1, <1>2, <1>3, WorkerAssumption, SumChanges
<1> QED BY <1>1, <1>3, <1>4, WorkerAssumption, SumIsNat DEF Owed

(* The log, over a period that ends now or before.                         *)
LEMMA LogFacts ==
    ASSUME TypeInv, NEW a \in Time, NEW b \in Time
    PROVE  /\ IsFiniteSet(a..b) /\ (\A t \in a..b : sent[t] \in Nat)
           /\ Requests(a, b) \in Nat
<1>1. IsFiniteSet(a..b)
  BY MaxTimeAssumption, FS_Interval DEF Time
<1>2. \A t \in a..b : t \in Time
  BY MaxTimeAssumption DEF Time
<1> QED BY <1>1, <1>2, SumIsNat DEF Requests, TypeInv, TypeOK

LEMMA LogBefore ==
    ASSUME TypeInv, NEW a \in Time, NEW b \in Time, now < a
    PROVE  Requests(a, b) = 0
<1>1. \A t \in a..b : sent[t] = 0
  BY MaxTimeAssumption DEF TypeInv, TypeOK, Quiet, Time
<1> QED BY <1>1, LogFacts, SumOfZeros DEF Requests

(* An attempt is logged in the periods that are not over.                  *)
LEMMA LogGrows ==
    ASSUME TypeInv, NEW w \in Worker, Attempt(w), NEW a \in Time, NEW b \in Time
    PROVE  Requests(a, b)' = Requests(a, b) + (IF now \in a..b THEN 1 ELSE 0)
<1>1. PICK f, g, t, S : f = sent /\ g = sent' /\ t = now /\ S = a..b
  OBVIOUS
<1>2. \A x \in S \ {t} : g[x] = f[x]
  BY <1>1, MaxTimeAssumption DEF Attempt, TypeInv, TypeOK, Time
<1>3. t \in S => g[t] = f[t] + 1
  BY <1>1, MaxTimeAssumption DEF Attempt, TypeInv, TypeOK, Time
<1>4. IsFiniteSet(S) /\ \A x \in S : f[x] \in Nat
  BY <1>1, LogFacts
<1>5. SumFunctionOnSet(g, S) = SumFunctionOnSet(f, S) + (IF t \in S THEN 1 ELSE 0)
  BY <1>2, <1>3, <1>4, SumChanges
<1> QED BY <1>1, <1>5 DEF Requests

(* A step that sends nothing and takes no token owes no more than before.  *)
LEMMA SettlesKeepsPaid ==
    ASSUME TypeInv, Paid, UNCHANGED <<now, promised, sent>>,
           cancelled => cancelled',
           cancelled' \/ (Owed' \in Int /\ Owed' <= Owed)
    PROVE  Paid'
<1> SUFFICES ASSUME ~cancelled', NEW a \in Time, NEW b \in Time, a <= now', now' <= b
             PROVE  Requests(a, b)' + Owed' <= Attempts * (Later(promised', a) - a) + Backlog
  BY DEF Paid, Backlog, Attempts, Later
<1>1. Requests(a, b) + Owed <= Attempts * (Later(promised, a) - a) + Backlog
  BY DEF Paid
<1>2. Requests(a, b)' = Requests(a, b)
  BY DEF Requests
<1>3. Owed' <= Owed /\ Owed \in Nat /\ Owed' \in Int /\ Requests(a, b) \in Nat
  BY NaturalOwe, LogFacts
<1>4. PICK r \in Int : r = Attempts * (Later(promised, a) - a) + Backlog
  <2>1. Cardinality(Worker) \in Nat
    BY FiniteSets
  <2>2. Later(promised, a) - a \in Int
    BY MaxTimeAssumption DEF Later, TypeInv, TypeOK, Time
  <2> QED BY <2>1, <2>2, Constants DEF Backlog
<1>5. Attempts * (Later(promised', a) - a) + Backlog = r
  BY <1>4
<1> QED BY <1>1, <1>2, <1>3, <1>4, <1>5

LEMMA AttemptKeepsPaid ==
    ASSUME TypeInv, Paid, NEW w \in Worker, Attempt(w), ~cancelled,
           wpc[w] = "limit" \/ wpc[w] = "delay"
    PROVE  Paid'
<1>1. Owed' = Owed - 1
  <2>1. \A v \in Worker \ {w} : wpc'[v] = wpc[v] /\ attempt'[v] = attempt[v]
    BY DEF Attempt, TypeInv, TypeOK
  <2>2. Owe'[w] = Owe[w] + (-1)
    BY Constants DEF Attempt, TypeInv, TypeOK, Owe, Attempts, Later
  <2>3. Owed' = Owed + (-1)
    BY <2>1, <2>2, OwedChanges
  <2> QED BY <2>3, NaturalOwe
<1> SUFFICES ASSUME NEW a \in Time, NEW b \in Time, a <= now', now' <= b
             PROVE  Requests(a, b)' + Owed' <= Attempts * (Later(promised', a) - a) + Backlog
  BY DEF Paid, Backlog, Attempts, Later
<1>2. now' = now /\ promised' = promised /\ now \in a..b
  BY MaxTimeAssumption DEF Attempt, TypeInv, TypeOK, Time
<1>3. Requests(a, b) + Owed <= Attempts * (Later(promised, a) - a) + Backlog
  BY <1>2 DEF Paid
<1>4. Requests(a, b)' = Requests(a, b) + 1 /\ Requests(a, b) \in Nat /\ Owed \in Nat
  BY <1>2, LogGrows, LogFacts, NaturalOwe
<1>5. Requests(a, b)' + Owed' = Requests(a, b) + Owed
  BY <1>1, <1>4
<1> QED BY <1>2, <1>3, <1>5

LEMMA TokenKeepsPaid ==
    ASSUME TypeInv, Paid, NEW w \in Worker, TakeToken(w)
    PROVE  Paid'
<1>0. /\ now' = now /\ promised' = Later(promised, now) + 1 /\ sent' = sent /\ ~cancelled
      /\ now \in Nat /\ promised \in Nat
      /\ wpc[w] = "free" /\ attempt[w] = 0 /\ attempt' = attempt
      /\ wpc' = [wpc EXCEPT ![w] = "limit"]
  BY MaxTimeAssumption DEF TakeToken, TypeInv, TypeOK, Counted, Time
<1>1. Owed' = Owed + Attempts
  <2>1. \A v \in Worker \ {w} : wpc'[v] = wpc[v] /\ attempt'[v] = attempt[v]
    BY <1>0 DEF TypeInv, TypeOK
  <2>2. wpc'[w] = "limit" /\ attempt'[w] = 0
    BY <1>0 DEF TypeInv, TypeOK
  <2>3. Owe'[w] = Owe[w] + Attempts
    BY <1>0, <2>2, Constants DEF Owe, Attempts, Later
  <2> QED BY <2>1, <2>3, OwedChanges, Constants
<1> SUFFICES ASSUME NEW a \in Time, NEW b \in Time, a <= now', now' <= b
             PROVE  Requests(a, b)' + Owed' <= Attempts * (Later(promised', a) - a) + Backlog
  BY DEF Paid, Backlog, Attempts, Later
<1>2. Requests(a, b) + Owed <= Attempts * (Later(promised, a) - a) + Backlog
  BY <1>0 DEF Paid
<1>3. Requests(a, b)' = Requests(a, b) /\ Requests(a, b) \in Nat /\ Owed \in Nat
  BY <1>0, LogFacts, NaturalOwe DEF Requests
<1>4. PICK m \in Nat, n \in Nat : m = Later(promised, a) - a /\ n = Later(promised', a) - a /\ n > m
  <2>1. a \in Nat /\ a <= now
    BY <1>0, MaxTimeAssumption DEF Time
  <2> QED BY <1>0, <2>1 DEF Later
<1>5. Attempts * n >= Attempts * m + Attempts
  <2>1. PICK k \in Nat : n = m + 1 + k
    <3>1. n - m - 1 \in Nat /\ n = m + 1 + (n - m - 1)
      BY <1>4
    <3> QED BY <3>1
  <2>2. Attempts * (m + 1 + k) = Attempts * m + Attempts + Attempts * k
    BY Constants
  <2>3. Attempts * k \in Nat /\ Attempts * m \in Nat
    BY Constants
  <2> QED BY <2>1, <2>2, <2>3, Constants
<1>6. PICK r \in Nat : r = Backlog
  BY Constants, FiniteSets DEF Backlog
<1>7. Requests(a, b) + Owed <= Attempts * m + r
  BY <1>2, <1>4, <1>6
<1>8. Attempts * m \in Nat /\ Attempts * n \in Nat
  BY Constants
<1>9. Requests(a, b)' + Owed' <= Attempts * n + r
  BY <1>1, <1>3, <1>5, <1>7, <1>8, Constants
<1> QED BY <1>4, <1>6, <1>9

(* A period begins: the workers that wait have tokens of that period.      *)
LEMMA AdvanceKeepsPaid ==
    ASSUME TypeInv, TokensApart, Paid, Advance
    PROVE  Paid'
<1>0. /\ now \in Nat /\ promised \in Nat /\ now' = now + 1
      /\ UNCHANGED <<promised, cancelled, wpc, attempt, sent>>
      /\ \A w \in Waiting : now < wake[w]
  BY MaxTimeAssumption DEF Advance, TypeInv, TypeOK, Time, Waiting
<1>1. Owed' = Owed
  BY <1>0 DEF Owed, Owe, Attempts, Later
<1> SUFFICES ASSUME ~cancelled, NEW a \in Time, NEW b \in Time, a <= now', now' <= b
             PROVE  Requests(a, b)' + Owed' <= Attempts * (Later(promised', a) - a) + Backlog
  BY <1>0 DEF Paid, Backlog, Attempts, Later
<1>2. a \in Nat /\ b \in Nat /\ now <= b
  BY <1>0, MaxTimeAssumption DEF Time
<1>3. Requests(a, b)' = Requests(a, b)
  BY <1>0 DEF Requests
<1>4. Requests(a, b) + Owed <= Attempts * (Later(promised, a) - a) + Backlog
  <2>1. CASE a <= now
    BY <1>2, <2>1 DEF Paid
  <2>2. CASE a = now + 1
    <3>1. Requests(a, b) = 0
      BY <1>0, <2>2, LogBefore
    <3>2. From(a) = Waiting
      BY <1>0, <2>2 DEF From, TypeInv, TypeOK, Waiting
    <3>3. PICK n \in Int : n = Later(promised, a) - a
      BY <1>0, <1>2 DEF Later
    <3>4. Cardinality(Waiting) <= n /\ Cardinality(Waiting) \in Nat
      BY <1>0, <1>2, <2>2, <3>2, <3>3, Among, FiniteSets DEF TokensApart
    <3>5. Owed <= Cardinality(Waiting) + Backlog /\ Owed \in Nat
      BY OwedBounds, NaturalOwe
    <3>6. n <= Attempts * n /\ Attempts * n \in Int
      <4>1. PICK k \in Nat : Attempts = 1 + k
        <5>1. Attempts - 1 \in Nat /\ Attempts = 1 + (Attempts - 1)
          BY Constants
        <5> QED BY <5>1
      <4>2. (1 + k) * n = n + k * n /\ k * n \in Nat
        BY <3>4
      <4> QED BY <4>1, <4>2
    <3>7. PICK r \in Nat : r = Backlog
      BY Constants, FiniteSets DEF Backlog
    <3> QED BY <3>1, <3>3, <3>4, <3>5, <3>6, <3>7
  <2> QED BY <1>0, <1>2, <2>1, <2>2
<1> QED BY <1>0, <1>1, <1>3, <1>4

-----------------------------------------------------------------------------
(* The invariant, and the rate.                                            *)
LEMMA InitInv == Init => Inv
<1> SUFFICES ASSUME Init PROVE Inv
  OBVIOUS
<1>1. TypeInv /\ now = 0 /\ promised = 0 /\ (\A w \in Worker : wpc[w] = "free")
  BY InitTypeInv DEF Init
<1>2. \A t : From(t) = {} /\ Beyond(t) = {}
  BY <1>1 DEF From, Beyond, Waiting
<1>3. TokensApart /\ TokensAwaited
  BY <1>1, <1>2, FS_EmptySet, BudgetAssumption DEF TokensApart, TokensAwaited, Later
<1>4. Owed = 0
  <2>1. \A w \in Worker : Owe[w] = 0
    BY <1>1 DEF Owe
  <2> HIDE DEF Owe
  <2> QED BY <2>1, WorkerAssumption, SumOfZeros DEF Owed
<1>5. ASSUME NEW a \in Time, NEW b \in Time, a <= now
      PROVE  Requests(a, b) + Owed <= Attempts * (Later(promised, a) - a) + Backlog
  <2>1. a = 0 /\ Later(promised, a) - a = 0
    BY <1>1, <1>5, MaxTimeAssumption DEF Time, Later
  <2>2. \A t \in a..b : sent[t] = 0
    BY <2>1, MaxTimeAssumption DEF Init, Time
  <2>3. Requests(a, b) = 0
    BY <1>1, <2>2, LogFacts, SumOfZeros DEF Requests
  <2>4. Backlog \in Nat
    BY Constants, FiniteSets DEF Backlog
  <2> QED BY <1>4, <2>1, <2>3, <2>4, Constants
<1>6. Paid
  BY <1>5 DEF Paid
<1> QED BY <1>1, <1>3, <1>6 DEF Inv

(* A worker that is done, or whose process stops.                          *)
LEMMA DoneKeeps ==
    ASSUME Inv, NEW w \in Worker, NEW o, Done(w, o), UNCHANGED sent,
           cancelled \/ wpc[w] # "limit" \/ now >= wake[w]
    PROVE  TokensApart' /\ TokensAwaited' /\ Paid'
<1>1. Leaves
  BY MaxTimeAssumption DEF Done, Leaves, Inv, TypeInv, TypeOK, Time
<1>2. Owed' <= Owed /\ Owed' \in Int
  <2>1. \A v \in Worker \ {w} : wpc'[v] = wpc[v] /\ attempt'[v] = attempt[v]
    BY DEF Done, Inv, TypeInv, TypeOK
  <2>2. Owe'[w] = 0
    BY DEF Done, Inv, TypeInv, TypeOK, Owe
  <2>3. Owe[w] \in Nat /\ Owed \in Nat
    BY NaturalOwe DEF Inv
  <2>4. PICK n \in Nat : n = Owe[w]
    BY <2>3
  <2>5. Owed' = Owed + (-n)
    <3>1. Owe'[w] = Owe[w] + (-n)
      BY <2>2, <2>4
    <3> HIDE DEF Owe
    <3> QED BY <2>1, <3>1, OwedChanges DEF Inv
  <2> QED BY <2>3, <2>5
<1> QED BY <1>1, <1>2, LeavesKeepsLine, SettlesKeepsPaid DEF Inv, Done

LEMMA FetchKeeps ==
    ASSUME Inv, NEW w \in Worker, TakeToken(w) \/ Fetch(w)
    PROVE  TokensApart' /\ TokensAwaited' /\ Paid'
<1>1. CASE TakeToken(w)
  BY <1>1, JoinsLine, TokenKeepsPaid DEF Inv
<1>2. ASSUME Attempt(w), ~cancelled,
             (wpc[w] = "limit" /\ now >= wake[w]) \/ wpc[w] = "delay"
      PROVE  TokensApart' /\ TokensAwaited' /\ Paid'
  <2>1. Leaves
    BY <1>2, MaxTimeAssumption DEF Attempt, Leaves, Inv, TypeInv, TypeOK, Time
  <2> QED BY <1>2, <2>1, LeavesKeepsLine, AttemptKeepsPaid DEF Inv
<1>3. CASE FailsAndWaits(w)
  <2>1. Leaves
    BY <1>3, MaxTimeAssumption DEF FailsAndWaits, Leaves, Inv, TypeInv, TypeOK, Time
  <2>2. Owe' = Owe
    BY <1>3 DEF FailsAndWaits, Owe, Attempts, Later, Inv, TypeInv, TypeOK
  <2>3. Owed' = Owed /\ Owed \in Nat
    BY <2>2, NaturalOwe DEF Owed, Inv
  <2> QED BY <1>3, <2>1, <2>3, LeavesKeepsLine, SettlesKeepsPaid DEF Inv, FailsAndWaits
<1>4. CASE \E p \in Asked : FirstAttempt(w, p[1], p[2])
  BY <1>2, <1>4 DEF FirstAttempt
<1>5. CASE Retry(w)
  BY <1>2, <1>5 DEF Retry
<1>6. CASE \E p \in Asked : NotLookedUp(w, p[1], p[2])
  BY <1>6, DoneKeeps DEF NotLookedUp
<1>7. CASE Answered(w) \/ NotFound(w) \/ FailsForGood(w)
  BY <1>7, DoneKeeps DEF Answered, NotFound, FailsForGood
<1>8. CASE Interrupted(w)
  BY <1>8, DoneKeeps DEF Interrupted
<1> QED BY <1>1, <1>3, <1>4, <1>5, <1>6, <1>7, <1>8 DEF Fetch

LEMMA NextInv == Inv /\ [Next]_vars => Inv'
<1> SUFFICES ASSUME Inv, [Next]_vars PROVE Inv'
  OBVIOUS
<1>1. TypeInv'
  BY NextTypeInv DEF Inv
<1>2. CASE \E w \in Worker : TakeToken(w) \/ Fetch(w)
  BY <1>1, <1>2, FetchKeeps DEF Inv
<1>3. CASE Cancel \/ UNCHANGED vars
  <2>1. Leaves
    BY <1>3, MaxTimeAssumption DEF Cancel, vars, Leaves, Inv, TypeInv, TypeOK, Time
  <2>2. Owed' = Owed /\ Owed \in Nat
    BY <1>3, NaturalOwe DEF Cancel, vars, Owed, Owe, Attempts, Later, Inv
  <2> QED BY <1>1, <1>3, <2>1, <2>2, LeavesKeepsLine, SettlesKeepsPaid DEF Inv, Cancel, vars
<1>4. CASE Advance
  <2>1. Leaves
    BY <1>4, MaxTimeAssumption DEF Advance, Leaves, Inv, TypeInv, TypeOK, Time
  <2> QED BY <1>1, <1>4, <2>1, LeavesKeepsLine, AdvanceKeepsPaid DEF Inv
<1> QED BY <1>2, <1>3, <1>4 DEF Next

LEMMA Invariance == Spec => []Inv
  BY InitInv, NextInv, PTL DEF Spec

(* In the periods that are not over: the tokens beyond now and the burst   *)
(* are still owed to workers, with all their attempts.                     *)
LEMMA InvRateSoFar == Inv => RateSoFar
<1> SUFFICES ASSUME Inv, ~cancelled, NEW a \in Time, NEW b \in Time, a <= b, now <= b
             PROVE  Requests(a, b) <= Attempts * (Burst + (b - a)) + Backlog
  BY DEF RateSoFar
<1>1. /\ a \in Nat /\ b \in Nat /\ now \in Nat /\ promised \in Nat
      /\ Burst \in Nat /\ Burst > 0 /\ Attempts \in Nat /\ Attempts > 0
  BY MaxTimeAssumption, BudgetAssumption, Constants DEF Inv, TypeInv, TypeOK, Time
<1>2. PICK r \in Nat : r = Backlog
  BY Constants, FiniteSets DEF Backlog
<1>3. PICK n \in Nat : n = Burst + (b - a)
  BY <1>1
<1>4. Attempts * n \in Nat
  BY <1>1
<1>5. CASE now < a
  <2>1. Requests(a, b) = 0
    BY <1>5, LogBefore DEF Inv
  <2> QED BY <1>2, <1>3, <1>4, <2>1
<1>6. CASE a <= now
  <2>1. PICK k \in Nat : k = Cardinality(Beyond(now))
    BY Among, FiniteSets
  <2>2. promised <= now + Burst + k
    BY <1>1, <2>1 DEF Inv, TokensAwaited
  <2>3. Attempts * k <= Owed
    <3>1. Beyond(now) \in SUBSET Waiting
      BY DEF Beyond
    <3> QED BY <2>1, <3>1, OwedBounds DEF Inv
  <2>4. PICK m \in Nat : m = Later(promised, a) - a
    BY <1>1 DEF Later
  <2>5. Requests(a, b) + Owed <= Attempts * m + r
    BY <1>2, <1>6, <2>4 DEF Inv, Paid
  <2>6. m <= n + k
    BY <1>1, <1>3, <1>6, <2>2, <2>4 DEF Later
  <2>7. Attempts * m <= Attempts * n + Attempts * k
    <3>1. PICK j \in Nat : m + j = n + k
      <4>1. (n + k) - m \in Nat /\ m + ((n + k) - m) = n + k
        BY <2>6
      <4> QED BY <4>1
    <3>2. Attempts * (m + j) = Attempts * m + Attempts * j /\ Attempts * j \in Nat
      BY <1>1
    <3>3. Attempts * (n + k) = Attempts * n + Attempts * k
      BY <1>1
    <3>4. Attempts * m \in Nat /\ Attempts * k \in Nat
      BY <1>1
    <3> QED BY <1>4, <3>1, <3>2, <3>3, <3>4
  <2>8. Requests(a, b) \in Nat /\ Owed \in Nat /\ Attempts * m \in Nat /\ Attempts * k \in Nat
    BY <1>1, LogFacts, NaturalOwe DEF Inv
  <2>9. Requests(a, b) <= Attempts * n + r
    BY <1>4, <2>3, <2>5, <2>7, <2>8
  <2> QED BY <1>2, <1>3, <2>9
<1> QED BY <1>1, <1>5, <1>6

(* No period takes more requests than the attempts of a burst and a token  *)
(* per tick, and one round of retries by every worker: failing fetches     *)
(* stretch the rate to Jagex by the number of attempts and no further.     *)
THEOREM RequestsAreBounded == Spec => []RateTimesRetries
<1>1. Init => RateTimesRetries
  <2> SUFFICES ASSUME Init, NEW a \in Time, NEW b \in Time, a <= b
               PROVE  Requests(a, b) <= Attempts * (Burst + (b - a)) + Backlog
    BY DEF RateTimesRetries, Backlog
  <2> QED BY InitInv, InvRateSoFar, MaxTimeAssumption DEF Init, RateSoFar, Time
<1>2. Inv /\ RateTimesRetries /\ RateSoFar' /\ [Next]_vars => RateTimesRetries'
  <2> SUFFICES ASSUME Inv, RateTimesRetries, RateSoFar', [Next]_vars,
                      NEW a \in Time, NEW b \in Time, a <= b
               PROVE  Requests(a, b)' <= Attempts * (Burst + (b - a)) + Backlog
    BY DEF RateTimesRetries, Backlog, Attempts, Later
  <2>1. Requests(a, b) <= Attempts * (Burst + (b - a)) + Backlog
    BY DEF RateTimesRetries, Backlog
  <2>2. CASE sent' = sent
    BY <2>1, <2>2 DEF Requests
  <2>3. CASE sent' # sent
    <3>1. PICK w \in Worker : Attempt(w) /\ ~cancelled
      BY <2>3 DEF Next, vars, Fetch, TakeToken, Cancel, Advance, FirstAttempt, NotLookedUp,
         Answered, NotFound, FailsAndWaits, FailsForGood, Retry, Interrupted
    <3>2. now' = now /\ ~cancelled'
      BY <3>1 DEF Attempt
    <3>3. CASE now <= b
      BY <3>2, <3>3 DEF RateSoFar, Backlog, Attempts, Later
    <3>4. CASE ~(now <= b)
      <4>1. now \notin a..b
        BY <3>4, MaxTimeAssumption DEF Time
      <4>2. Requests(a, b)' = Requests(a, b)
        BY <3>1, <4>1, LogGrows, LogFacts DEF Inv
      <4> QED BY <2>1, <4>2
    <3> QED BY <3>3, <3>4
  <2> QED BY <2>2, <2>3
<1> QED BY <1>1, <1>2, Invariance, InvRateSoFar, PTL DEF Spec
=============================================================================

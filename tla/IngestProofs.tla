---------------------------- MODULE IngestProofs ----------------------------
(***************************************************************************)
(* Theorems about Ingest, for every number of clients and handlers, every  *)
(* batch and every sequence of failures, retries and crashes; and about    *)
(* Presence, for every interval and every order in which touches wait and  *)
(* finish.                                                                 *)
(***************************************************************************)
EXTENDS Ingest, Presence, Sums, TLAPS

(* A handler is at an event of its caller's batch or just behind the last, *)
(* and has stored every event before it.                                   *)
Progress ==
    \A h \in Conn : hpc[h] # "free" =>
        /\ caller[h] \in Client
        /\ pos[h] \in 1..(Len(Batch[caller[h]]) + 1)
        /\ \A n \in 1..(pos[h] - 1) : rows[Batch[caller[h]][n]] > 0

Inv == TypeOK /\ Progress /\ NoDoubleCredit /\ AckedIsStored

-----------------------------------------------------------------------------
LEMMA BatchFacts ==
    ASSUME NEW c \in Client
    PROVE  /\ Len(Batch[c]) \in Nat /\ DOMAIN Batch[c] = 1..Len(Batch[c])
           /\ \A n \in 1..Len(Batch[c]) : Batch[c][n] \in Event
<1>1. Batch[c] \in Seq(Event)
  BY BatchAssumption
<1> QED BY <1>1

LEMMA InitInv == Init => Inv
  BY BoundAssumption, EventAssumption
     DEF Init, Inv, TypeOK, Progress, NoDoubleCredit, AckedIsStored

(* What a step has to do for Inv to survive it: rows only grow, and only   *)
(* where there is none yet if the event is keyed; a handler that goes on   *)
(* has stored what it passes; a client is told 202 only by a handler that  *)
(* has passed the whole batch.                                             *)
Grows == /\ \A e \in Event : rows'[e] >= rows[e]
         /\ \A e \in Keyed : rows'[e] # rows[e] => rows[e] = 0 /\ rows'[e] = 1
Moves == \A h \in Conn : hpc'[h] # "free" =>
            \/ hpc[h] # "free" /\ caller'[h] = caller[h] /\ pos'[h] = pos[h]
            \/ caller'[h] \in Client /\ pos'[h] = 1
            \/ /\ Loop(h) /\ caller'[h] = caller[h] /\ pos'[h] = pos[h] + 1
               /\ rows'[EventAt(h)] > 0
Tells == \A c \in Client : client'[c] = "acked" =>
            \/ client[c] = "acked"
            \/ \E h \in Conn : /\ hpc[h] = "loop" /\ caller[h] = c
                               /\ pos[h] > Len(Batch[c])

LEMMA StepKeepsInv ==
    ASSUME Inv, TypeOK', Grows, Moves, Tells
    PROVE  Inv'
<1>1. \A e \in Event : rows[e] \in Nat /\ rows'[e] \in Nat
  BY DEF Inv, TypeOK
<1>2. NoDoubleCredit'
  BY <1>1, EventAssumption DEF Grows, Inv, NoDoubleCredit
<1>3. Progress'
  <2> SUFFICES ASSUME NEW h \in Conn, hpc'[h] # "free"
               PROVE  /\ caller'[h] \in Client
                      /\ pos'[h] \in 1..(Len(Batch[caller'[h]]) + 1)
                      /\ \A n \in 1..(pos'[h] - 1) : rows'[Batch[caller'[h]][n]] > 0
    BY DEF Progress
  <2>1. CASE hpc[h] # "free" /\ caller'[h] = caller[h] /\ pos'[h] = pos[h]
    <3>1. /\ caller[h] \in Client /\ pos[h] \in 1..(Len(Batch[caller[h]]) + 1)
          /\ \A n \in 1..(pos[h] - 1) : rows[Batch[caller[h]][n]] > 0
      BY <2>1 DEF Inv, Progress
    <3>2. \A n \in 1..(pos[h] - 1) : Batch[caller[h]][n] \in Event
      BY <3>1, BatchFacts
    <3> QED BY <1>1, <2>1, <3>1, <3>2 DEF Grows
  <2>2. CASE caller'[h] \in Client /\ pos'[h] = 1
    BY <2>2, BatchFacts
  <2>3. CASE /\ Loop(h) /\ caller'[h] = caller[h] /\ pos'[h] = pos[h] + 1
             /\ rows'[EventAt(h)] > 0
    <3>1. /\ caller[h] \in Client /\ pos[h] \in 1..Len(Batch[caller[h]])
          /\ \A n \in 1..(pos[h] - 1) : rows[Batch[caller[h]][n]] > 0
      BY <2>3, BatchFacts DEF Inv, Progress, Loop
    <3>2. \A n \in 1..(pos[h] - 1) : Batch[caller[h]][n] \in Event
      BY <3>1, BatchFacts
    <3>3. \A n \in 1..(pos[h] - 1) : rows'[Batch[caller[h]][n]] > 0
      BY <1>1, <3>1, <3>2 DEF Grows
    <3>4. \A n \in 1..pos[h] : n \in 1..(pos[h] - 1) \/ n = pos[h]
      BY <3>1
    <3>5. \A n \in 1..pos[h] : rows'[Batch[caller[h]][n]] > 0
      BY <2>3, <3>3, <3>4 DEF EventAt
    <3>6. pos'[h] - 1 = pos[h] /\ pos'[h] \in 1..(Len(Batch[caller[h]]) + 1)
      BY <2>3, <3>1, BatchFacts
    <3> QED BY <2>3, <3>1, <3>5, <3>6
  <2> QED BY <2>1, <2>2, <2>3 DEF Moves
<1>4. AckedIsStored'
  <2> SUFFICES ASSUME NEW c \in Client, client'[c] = "acked", NEW n \in DOMAIN Batch[c]
               PROVE  rows'[Batch[c][n]] > 0
    BY DEF AckedIsStored
  <2>1. Batch[c][n] \in Event /\ n \in 1..Len(Batch[c]) /\ Len(Batch[c]) \in Nat
    BY BatchFacts
  <2>2. CASE client[c] = "acked"
    BY <1>1, <2>1, <2>2 DEF Inv, AckedIsStored, Grows
  <2>3. ASSUME NEW h \in Conn, hpc[h] = "loop", caller[h] = c, pos[h] > Len(Batch[c])
        PROVE  rows[Batch[c][n]] > 0
    <3>1. n \in 1..(pos[h] - 1)
      BY <2>1, <2>3 DEF Inv, TypeOK
    <3> QED BY <2>3, <3>1 DEF Inv, Progress
  <2> QED BY <1>1, <2>1, <2>2, <2>3 DEF Tells, Grows
<1> QED BY <1>2, <1>3, <1>4 DEF Inv

-----------------------------------------------------------------------------
(* A step that leaves the table, 202s and running handlers where they are. *)
LEMMA QuietStepKeeps ==
    ASSUME Inv, TypeOK', rows' = rows,
           \A h \in Conn : hpc'[h] # "free" =>
              \/ hpc[h] # "free" /\ caller'[h] = caller[h] /\ pos'[h] = pos[h]
              \/ caller'[h] \in Client /\ pos'[h] = 1,
           \A c \in Client : client'[c] = "acked" => client[c] = "acked"
    PROVE  Inv'
<1>1. Grows
  BY EventAssumption DEF Grows, Inv, TypeOK
<1> QED BY <1>1, StepKeepsInv DEF Moves, Tells

LEMMA HandleKeepsInv ==
    ASSUME Inv, NEW h \in Conn, Handle(h) \/ HangUp(h)
    PROVE  Inv'
<1> USE BoundAssumption, NoClientAssumption
<1>1. ASSUME NEW e \in Event, Insert(e) PROVE Grows /\ rows'[e] > 0 /\ rows' \in [Event -> Nat]
  BY <1>1, EventAssumption DEF Insert, Duplicate, Grows, Inv, TypeOK
<1>2. Loop(h) => EventAt(h) \in Event /\ caller[h] \in Client
  BY BatchFacts DEF Loop, EventAt, Inv, Progress
<1>3. hpc[h] # "free" => caller[h] \in Client
  BY DEF Inv, Progress
<1>4. CASE Authed(h) \/ Decode(h)
  BY <1>4, QuietStepKeeps DEF Authed, Decode, Inv, TypeOK
<1>5. CASE Unauthorized(h) \/ Malformed(h) \/ BlankKind(h)
  <2>1. rows' = rows /\ Reply(h, "rejected") /\ UNCHANGED <<revoked, ingested, lost, faults>>
        /\ hpc[h] # "free"
    BY <1>5 DEF Unauthorized, Malformed, BlankKind, Loop
  <2> QED BY <1>3, <2>1, QuietStepKeeps DEF Reply, Free, Inv, TypeOK
<1>6. CASE AuthFails(h)
  BY <1>3, <1>6, QuietStepKeeps DEF AuthFails, Reply, Free, Fault, Inv, TypeOK
<1>7. CASE Store(h)
  <2>1. Grows /\ rows'[EventAt(h)] > 0 /\ rows' \in [Event -> Nat]
    BY <1>1, <1>2, <1>7 DEF Store
  <2>2. TypeOK'
    BY <1>7, <2>1 DEF Store, Inv, TypeOK
  <2>3. Moves /\ Tells
    BY <1>7, <2>1 DEF Store, Moves, Tells, Inv, TypeOK
  <2> QED BY <2>1, <2>2, <2>3, StepKeepsInv
<1>8. CASE StoreFails(h)
  <2>1. Grows /\ rows' \in [Event -> Nat]
    <3>1. CASE rows' = rows
      BY <3>1, EventAssumption DEF Grows, Inv, TypeOK
    <3> QED BY <1>1, <1>2, <1>8, <3>1 DEF StoreFails
  <2>2. TypeOK'
    BY <1>2, <1>8, <2>1 DEF StoreFails, Reply, Free, Fault, Inv, TypeOK
  <2>3. Moves /\ Tells
    BY <1>2, <1>8 DEF StoreFails, Reply, Free, Moves, Tells, Inv, TypeOK
  <2> QED BY <2>1, <2>2, <2>3, StepKeepsInv
<1>9. CASE Accept(h)
  <2>1. hpc[h] = "loop" /\ pos[h] > Len(Batch[caller[h]]) /\ rows' = rows
    BY <1>9 DEF Accept
  <2>2. Grows
    BY <2>1, EventAssumption DEF Grows, Inv, TypeOK
  <2>3. TypeOK'
    BY <1>3, <1>9 DEF Accept, Reply, Free, Inv, TypeOK
  <2>4. Moves
    BY <1>9 DEF Accept, Reply, Free, Moves, Inv, TypeOK
  <2>5. Tells
    BY <1>3, <1>9, <2>1 DEF Accept, Reply, Tells, Inv, TypeOK
  <2> QED BY <2>2, <2>3, <2>4, <2>5, StepKeepsInv
<1>10. CASE HangUp(h)
  BY <1>3, <1>10, QuietStepKeeps DEF HangUp, Inv, TypeOK
<1> QED BY <1>4, <1>5, <1>6, <1>7, <1>8, <1>9, <1>10 DEF Handle

LEMMA NextInv == Inv /\ [Next]_vars => Inv'
<1> SUFFICES ASSUME Inv, [Next]_vars PROVE Inv'
  OBVIOUS
<1> USE BoundAssumption, NoClientAssumption
<1>1. ASSUME NEW c \in Client, NEW h \in Conn, Post(c, h) PROVE Inv'
  BY <1>1, QuietStepKeeps DEF Post, Inv, TypeOK
<1>2. ASSUME NEW c \in Client, Revoke(c) PROVE Inv'
  BY <1>2, QuietStepKeeps DEF Revoke, hvars, Inv, TypeOK
<1>3. CASE Crash
  BY <1>3, QuietStepKeeps DEF Crash, Fault, Inv, TypeOK
<1>4. CASE UNCHANGED vars
  BY <1>4, QuietStepKeeps DEF vars, hvars, Inv, TypeOK
<1> QED BY <1>1, <1>2, <1>3, <1>4, HandleKeepsInv DEF Next

LEMMA Invariance == Spec => []Inv
  BY InitInv, NextInv, PTL DEF Spec

(* The type invariant holds in every behaviour.                            *)
THEOREM TypeCorrect == Spec => []TypeOK
<1>1. Inv => TypeOK
  BY DEF Inv
<1> QED BY <1>1, Invariance, PTL

(* No keyed event is stored twice, however often and however concurrently  *)
(* it is pushed.                                                           *)
THEOREM NeverCreditedTwice == Spec => []NoDoubleCredit
<1>1. Inv => NoDoubleCredit
  BY DEF Inv
<1> QED BY <1>1, Invariance, PTL

(* A client that has got its 202 has every event of its batch in the       *)
(* table, through failed statements, hang-ups and crashes.                 *)
THEOREM AckMeansStored == Spec => []AckedIsStored
<1>1. Inv => AckedIsStored
  BY DEF Inv
<1> QED BY <1>1, Invariance, PTL

-----------------------------------------------------------------------------
(* The counters.  A handler's tally moves into the process's counter with  *)
(* its 202 and is forgotten with any other answer; either way it was       *)
(* stored, one row for each event that was not a duplicate.                *)

LEMMA SumsAreNat ==
    ASSUME TypeOK
    PROVE  SumFunction(accepted) \in Nat /\ SumFunction(rows) \in Nat /\ ingested \in Nat
<1>1. accepted \in [Conn -> Nat] /\ rows \in [Event -> Nat] /\ ingested \in Nat
  BY DEF TypeOK
<1>2. DOMAIN accepted = Conn /\ DOMAIN rows = Event
  BY <1>1
<1>3. SumFunctionOnSet(accepted, Conn) \in Nat /\ SumFunctionOnSet(rows, Event) \in Nat
  BY <1>1, FiniteAssumption, SumIsNat
<1> QED BY <1>1, <1>2, <1>3 DEF SumFunction

(* An answer forgets the handler's tally.                                  *)
LEMMA FreeForgets ==
    ASSUME TypeOK, NEW h \in Conn, Free(h)
    PROVE  accepted[h] \in Nat /\ SumFunction(accepted') = SumFunction(accepted) - accepted[h]
<1>1. accepted[h] \in Nat /\ accepted' = [accepted EXCEPT ![h] = 0]
  BY DEF TypeOK, Free
<1>2. accepted[h] + (-accepted[h]) = 0 /\ -accepted[h] \in Int
  BY <1>1
<1>3. PICK d \in Int : d = -accepted[h]
  BY <1>2
<1>4. /\ DOMAIN accepted = Conn /\ DOMAIN accepted' = Conn
      /\ \A x \in Conn : accepted[x] \in Nat
      /\ \A x \in Conn \ {h} : accepted'[x] = accepted[x]
      /\ accepted'[h] = accepted[h] + d
  BY <1>1, <1>2, <1>3 DEF TypeOK
<1>5. SumFunction(accepted) \in Nat /\ SumFunction(accepted') = SumFunction(accepted) + d
  BY ONLY <1>4, h \in Conn, d \in Int, FiniteAssumption, SumsDiffer
<1> QED BY <1>1, <1>3, <1>5

LEMMA InitCountersHonest == Init => CountersHonest
<1> SUFFICES ASSUME Init PROVE CountersHonest
  OBVIOUS
<1>1. DOMAIN accepted = Conn /\ DOMAIN rows = Event /\ ingested = 0
      /\ (\A x \in Conn : accepted[x] = 0) /\ (\A x \in Event : rows[x] = 0)
  BY DEF Init
<1>2. SumFunctionOnSet(accepted, Conn) = 0 /\ SumFunctionOnSet(rows, Event) = 0
  BY <1>1, FiniteAssumption, SumOfZeros
<1> QED BY <1>1, <1>2 DEF CountersHonest, SumFunction

LEMMA HandleKeepsCounters ==
    ASSUME Inv, CountersHonest, NEW h \in Conn, Handle(h) \/ HangUp(h)
    PROVE  CountersHonest'
<1>1. TypeOK /\ SumFunction(accepted) \in Nat /\ SumFunction(rows) \in Nat /\ ingested \in Nat
  BY SumsAreNat DEF Inv
<1>2. ingested + SumFunction(accepted) <= SumFunction(rows)
  BY DEF CountersHonest
<1>3. ASSUME UNCHANGED <<ingested, accepted, rows>> PROVE CountersHonest'
  BY <1>3 DEF CountersHonest
<1>4. ASSUME Reply(h, "rejected") \/ Reply(h, "ready"), ingested' = ingested,
             SumFunction(rows') \in Nat, SumFunction(rows) <= SumFunction(rows')
      PROVE  CountersHonest'
  <2>1. accepted[h] \in Nat /\ SumFunction(accepted') = SumFunction(accepted) - accepted[h]
    BY <1>1, <1>4, FreeForgets DEF Reply
  <2>2. ingested' + SumFunction(accepted') <= SumFunction(rows')
    BY <1>1, <1>2, <1>4, <2>1
  <2> QED BY <2>2 DEF CountersHonest
<1>5. ASSUME NEW e \in Event, Insert(e)
      PROVE  /\ SumFunction(rows') \in Nat
             /\ SumFunction(rows') = SumFunction(rows) + (IF Duplicate(e) THEN 0 ELSE 1)
  <2>1. CASE Duplicate(e)
    BY <1>1, <1>5, <2>1 DEF Insert
  <2>2. CASE ~Duplicate(e)
    <3>1. /\ DOMAIN rows = Event /\ DOMAIN rows' = Event
          /\ \A x \in Event : rows[x] \in Nat
          /\ \A x \in Event \ {e} : rows'[x] = rows[x]
          /\ rows'[e] = rows[e] + 1 /\ 1 \in Int
      BY <1>1, <1>5, <2>2 DEF Insert, TypeOK
    <3>2. SumFunction(rows') = SumFunction(rows) + 1
      BY ONLY <3>1, e \in Event, FiniteAssumption, SumsDiffer
    <3> QED BY <1>1, <2>2, <3>2
  <2> QED BY <2>1, <2>2
<1>6. Loop(h) => EventAt(h) \in Event
  BY BatchFacts DEF Loop, EventAt, Inv, Progress
<1>7. CASE Authed(h) \/ Decode(h) \/ HangUp(h)
  BY <1>3, <1>7 DEF Authed, Decode, HangUp
<1>8. CASE Unauthorized(h) \/ Malformed(h) \/ BlankKind(h) \/ AuthFails(h)
  <2>1. (Reply(h, "rejected") \/ Reply(h, "ready")) /\ ingested' = ingested /\ rows' = rows
    BY <1>8 DEF Unauthorized, Malformed, BlankKind, AuthFails
  <2> QED BY <1>1, <1>4, <2>1
<1>9. CASE Store(h)
  <2>1. Loop(h) /\ Insert(EventAt(h)) /\ ingested' = ingested
    BY <1>9 DEF Store
  <2>2. /\ SumFunction(rows') \in Nat
        /\ SumFunction(rows') = SumFunction(rows) + (IF Duplicate(EventAt(h)) THEN 0 ELSE 1)
    BY <1>5, <1>6, <2>1
  <2>3. SumFunction(accepted') = SumFunction(accepted) + (IF Duplicate(EventAt(h)) THEN 0 ELSE 1)
    <3>1. CASE Duplicate(EventAt(h))
      BY <1>1, <1>9, <3>1 DEF Store
    <3>2. CASE ~Duplicate(EventAt(h))
      <4>1. /\ DOMAIN accepted = Conn /\ DOMAIN accepted' = Conn
            /\ \A x \in Conn : accepted[x] \in Nat
            /\ \A x \in Conn \ {h} : accepted'[x] = accepted[x]
            /\ accepted'[h] = accepted[h] + 1 /\ 1 \in Int
        BY <1>1, <1>9, <3>2 DEF Store, TypeOK
      <4>2. SumFunction(accepted') = SumFunction(accepted) + 1
        BY ONLY <4>1, h \in Conn, FiniteAssumption, SumsDiffer
      <4> QED BY <3>2, <4>2
    <3> QED BY <3>1, <3>2
  <2>4. ingested' + SumFunction(accepted') <= SumFunction(rows')
    BY <1>1, <1>2, <2>1, <2>2, <2>3
  <2> QED BY <2>4 DEF CountersHonest
<1>10. CASE StoreFails(h)
  <2>1. Loop(h) /\ Reply(h, "ready") /\ ingested' = ingested
        /\ (rows' = rows \/ Insert(EventAt(h)))
    BY <1>10 DEF StoreFails
  <2>2. SumFunction(rows') \in Nat /\ SumFunction(rows) <= SumFunction(rows')
    BY <1>1, <1>5, <1>6, <2>1
  <2> QED BY <1>4, <2>1, <2>2
<1>11. CASE Accept(h)
  <2>1. Free(h) /\ ingested' = ingested + accepted[h] /\ rows' = rows
    BY <1>11 DEF Accept, Reply
  <2>2. accepted[h] \in Nat /\ SumFunction(accepted') = SumFunction(accepted) - accepted[h]
    BY <1>1, <2>1, FreeForgets
  <2>3. ingested' + SumFunction(accepted') <= SumFunction(rows')
    BY <1>1, <1>2, <2>1, <2>2
  <2> QED BY <2>3 DEF CountersHonest
<1> QED BY <1>7, <1>8, <1>9, <1>10, <1>11 DEF Handle

LEMMA NextCountersHonest == Inv /\ CountersHonest /\ [Next]_vars => CountersHonest'
<1> SUFFICES ASSUME Inv, CountersHonest, [Next]_vars PROVE CountersHonest'
  OBVIOUS
<1>1. ASSUME UNCHANGED <<ingested, accepted, rows>> PROVE CountersHonest'
  BY <1>1 DEF CountersHonest
<1>2. ASSUME NEW c \in Client, NEW h \in Conn, Post(c, h) PROVE CountersHonest'
  BY <1>1, <1>2 DEF Post
<1>3. ASSUME NEW c \in Client, Revoke(c) PROVE CountersHonest'
  BY <1>1, <1>3 DEF Revoke, hvars
<1>4. CASE Crash
  <2>1. ingested' = 0 /\ rows' = rows /\ DOMAIN accepted' = Conn
        /\ \A x \in Conn : accepted'[x] = 0
    BY <1>4 DEF Crash
  <2>2. SumFunctionOnSet(accepted', Conn) = 0
    BY <2>1, FiniteAssumption, SumOfZeros
  <2>3. SumFunction(accepted') = 0
    BY <2>1, <2>2 DEF SumFunction
  <2>4. SumFunction(rows) \in Nat
    BY SumsAreNat DEF Inv
  <2> QED BY <2>1, <2>3, <2>4 DEF CountersHonest
<1>5. CASE UNCHANGED vars
  BY <1>1, <1>5 DEF vars, hvars
<1> QED BY <1>2, <1>3, <1>4, <1>5, HandleKeepsCounters DEF Next

(* What Forge reports as ingested, with the tallies of the answers under   *)
(* way, is no more than the rows there are: retries and handlers that run  *)
(* side by side are not counted twice.                                     *)
THEOREM CountersNeverExceedRows == Spec => []CountersHonest
  BY InitCountersHonest, NextCountersHonest, Invariance, PTL DEF Spec

-----------------------------------------------------------------------------
(* Presence, which has no variable in common with Ingest.                  *)

(* A goroutine that is not free serves a client; its statement's now() is  *)
(* set; an account_id it has read is still its token's.                    *)
Served ==
    \A h \in Goroutine :
        /\ gpc[h] # "free" => who[h] \in Token
        /\ gpc[h] = "touching" => stamp[h] # Never
        /\ callerId[h] # NoId => gpc[h] = "beat" /\ callerId[h] = account[who[h]]

(* Since a touch began last_seen_at has not gone back: what was fresh in   *)
(* its snapshot is fresh in the row.                                       *)
Forward == \A h \in Goroutine : gpc[h] = "touching" => snapshot[h] <= lastSeen[who[h]]

SeenInv == PresenceTypeOK /\ Served /\ Forward /\ SeenIsRecent

-----------------------------------------------------------------------------
LEMMA InitSeenInv == PresenceInit => SeenInv
  BY IntervalAssumption
     DEF PresenceInit, SeenInv, PresenceTypeOK, Served, Forward, SeenIsRecent, Clock, Never, NoId

(* What every step but a touch's does to the rows and to other goroutines. *)
KeepsSeen ==
    /\ UNCHANGED <<lastSeen, touched>>
    /\ \A h \in Goroutine : gpc'[h] = "touching" =>
          \/ gpc[h] = "touching" /\ snapshot'[h] = snapshot[h] /\ who'[h] = who[h]
          \/ who'[h] \in Token /\ snapshot'[h] = lastSeen[who'[h]]

LEMMA KeepsSeenKeepsForward ==
    ASSUME SeenInv, KeepsSeen
    PROVE  Forward' /\ SeenIsRecent'
<1>1. \A c \in Token : lastSeen[c] \in Int
  BY IntervalAssumption DEF SeenInv, PresenceTypeOK, Clock, Never
<1>2. Forward'
  BY <1>1 DEF SeenInv, Forward, KeepsSeen
<1>3. SeenIsRecent'
  BY DEF SeenInv, SeenIsRecent, KeepsSeen
<1> QED BY <1>2, <1>3

(* The steps of a goroutine other than TouchSeen.                          *)
LEMMA ServeKeeps ==
    ASSUME SeenInv, NEW h \in Goroutine, Serve(h), ~TouchSeen(h)
    PROVE  PresenceTypeOK' /\ Served' /\ KeepsSeen
<1> USE IntervalAssumption, NoTokenAssumption, AccountAssumption, RowAssumption
    DEF SeenInv, PresenceTypeOK, Served, KeepsSeen, Clock, Never, NoId
<1>1. CASE TouchBegins(h)
  BY <1>1 DEF TouchBegins
<1>2. CASE TouchFails(h)
  BY <1>2 DEF TouchFails, End, Failure
<1>3. CASE BeatAuthed(h)
  BY <1>3 DEF BeatAuthed, Resolved
<1>4. CASE BeatRefused(h)
  BY <1>4 DEF BeatRefused, End, Failure
<1>5. CASE NoAccount(h)
  BY <1>5 DEF NoAccount, End
<1>6. CASE Heartbeat(h)
  <2>1. stamped' = stamped \cup (Row \cap {callerId[h]}) /\ account' = account
    BY <1>6 DEF Heartbeat
  <2>2. who[h] \in Token /\ callerId[h] = account[who[h]]
    BY <1>6 DEF Heartbeat
  <2>3. stamped \subseteq Row \cap {account[c] : c \in Token}
    OBVIOUS
  <2>4. stamped' \subseteq Row \cap {account'[c] : c \in Token}
    BY ONLY <2>1, <2>2, <2>3
  <2> QED BY <1>6, <2>4 DEF Heartbeat, End
<1>7. CASE HeartbeatFails(h)
  BY <1>7 DEF HeartbeatFails, End, Failure
<1> QED BY <1>1, <1>2, <1>3, <1>4, <1>5, <1>6, <1>7 DEF Serve

LEMMA OutsideKeepsSeen ==
    ASSUME SeenInv,
           \/ \E c \in Token, h \in Goroutine : PollServed(c, h) \/ Beat(c, h)
           \/ \E c \in Token, a \in Account : Link(c, a)
           \/ Advance
    PROVE  PresenceTypeOK' /\ Served' /\ KeepsSeen
<1> USE IntervalAssumption, NoTokenAssumption, AccountAssumption
    DEF SeenInv, PresenceTypeOK, Served, KeepsSeen, Clock, Never, NoId
<1>1. ASSUME NEW c \in Token, NEW h \in Goroutine, PollServed(c, h) \/ Beat(c, h)
      PROVE  PresenceTypeOK' /\ Served' /\ KeepsSeen
  BY <1>1 DEF PollServed, Beat, Start
<1>2. ASSUME NEW c \in Token, NEW a \in Account, Link(c, a)
      PROVE  PresenceTypeOK' /\ Served' /\ KeepsSeen
  <2>1. /\ account[c] = NoId /\ account' = [account EXCEPT ![c] = a] /\ stamped' = stamped
        /\ a \in Account
    BY <1>2 DEF Link
  <2>2. \A n \in stamped : n \in Row /\ n # NoId /\ \E d \in Token : n = account[d]
    BY RowAssumption
  <2>3. \A n \in stamped : \E d \in Token : n = account'[d]
    BY <2>1, <2>2
  <2>4. stamped' \subseteq Row \cap {account'[d] : d \in Token}
    BY ONLY <2>1, <2>2, <2>3
  <2>5. account' \in [Token -> Account \cup {NoId}]
    BY <2>1
  <2> QED BY <1>2, <2>4, <2>5 DEF Link
<1>3. CASE Advance
  BY <1>3 DEF Advance
<1> QED BY <1>1, <1>2, <1>3

(* What a write replaces is older than the interval; what it leaves alone  *)
(* is not, as its snapshot cannot be newer than the row.                   *)
LEMMA TouchSeenKeeps ==
    ASSUME SeenInv, NEW h \in Goroutine, TouchSeen(h)
    PROVE  /\ SeenInv'
           /\ \A c \in Token : lastSeen'[c] # lastSeen[c] =>
                 lastSeen[c] = Never \/ lastSeen'[c] > lastSeen[c] + Interval
<1> DEFINE c == who[h]
           at == stamp[h]
<1>1. /\ c \in Token /\ at \in 0..MaxTime /\ snapshot[h] \in Int
      /\ \A d \in Token : lastSeen[d] \in Int /\ touched[d] \in Int
      /\ snapshot[h] <= lastSeen[c] /\ snapshot[h] >= Never
  BY IntervalAssumption DEF TouchSeen, SeenInv, PresenceTypeOK, Served, Forward, Clock, Never
<1>2. /\ lastSeen' = IF Writes(h) THEN [lastSeen EXCEPT ![c] = at] ELSE lastSeen
      /\ touched' = IF touched[c] < at THEN [touched EXCEPT ![c] = at] ELSE touched
      /\ UNCHANGED <<now, account, stamped, failures>>
      /\ End(h)
  BY DEF TouchSeen
<1> HIDE DEF c, at
<1>3. Writes(h) <=> lastSeen[c] = Never \/ lastSeen[c] < at - Interval
  BY <1>1, IntervalAssumption DEF Writes, Stale, Never, c, at
<1>4. \A d \in Token \ {c} : lastSeen'[d] = lastSeen[d] /\ touched'[d] = touched[d]
  BY <1>2 DEF SeenInv, PresenceTypeOK
<1>5. /\ lastSeen'[c] = IF Writes(h) THEN at ELSE lastSeen[c]
      /\ touched'[c] = IF touched[c] < at THEN at ELSE touched[c]
  BY <1>1, <1>2 DEF SeenInv, PresenceTypeOK
<1>6. lastSeen'[c] # lastSeen[c] => lastSeen[c] = Never \/ lastSeen'[c] > lastSeen[c] + Interval
  BY <1>1, <1>3, <1>5, IntervalAssumption DEF Never
<1>7. lastSeen'[c] >= lastSeen[c]
  BY <1>1, <1>3, <1>5, IntervalAssumption DEF Never
<1>8. SeenIsRecent'
  <2>1. touched[c] # Never => lastSeen[c] # Never /\ touched[c] <= lastSeen[c] + Interval
    BY <1>1 DEF SeenInv, SeenIsRecent
  <2>2. touched'[c] # Never => lastSeen'[c] # Never /\ touched'[c] <= lastSeen'[c] + Interval
    BY <1>1, <1>3, <1>5, <2>1, IntervalAssumption DEF Never
  <2> QED BY <1>4, <2>2 DEF SeenInv, SeenIsRecent
<1>9. PresenceTypeOK' /\ Served'
  <2>1. lastSeen' \in [Token -> Clock] /\ touched' \in [Token -> Clock]
    BY <1>1, <1>2 DEF SeenInv, PresenceTypeOK, Clock
  <2> QED BY <1>2, <2>1, IntervalAssumption DEF End, SeenInv, PresenceTypeOK, Served, Clock, Never, NoId
<1>10. Forward'
  <2>1. \A g \in Goroutine : gpc'[g] = "touching" =>
          g # h /\ gpc[g] = "touching" /\ snapshot'[g] = snapshot[g] /\ who'[g] = who[g]
    BY <1>2 DEF End, SeenInv, PresenceTypeOK
  <2>2. \A d \in Token : lastSeen'[d] >= lastSeen[d]
    BY <1>1, <1>4, <1>7
  <2>3. \A g \in Goroutine : snapshot[g] \in Int
    BY IntervalAssumption DEF SeenInv, PresenceTypeOK, Clock, Never
  <2>4. \A d \in Token : lastSeen'[d] \in Int
    BY <1>1, <1>4, <1>5
  <2> QED BY <1>1, <2>1, <2>2, <2>3, <2>4 DEF SeenInv, Forward, Served
<1> QED BY <1>4, <1>6, <1>8, <1>9, <1>10 DEF SeenInv

LEMMA NextSeenInv ==
    ASSUME SeenInv, [PresenceNext]_pvars
    PROVE  /\ SeenInv'
           /\ \A c \in Token : lastSeen'[c] # lastSeen[c] =>
                 lastSeen[c] = Never \/ lastSeen'[c] > lastSeen[c] + Interval
<1>1. CASE UNCHANGED pvars
  BY <1>1 DEF pvars, SeenInv, PresenceTypeOK, Served, Forward, SeenIsRecent
<1>2. CASE \E h \in Goroutine : TouchSeen(h)
  BY <1>2, TouchSeenKeeps
<1>3. CASE PresenceNext /\ ~ \E h \in Goroutine : TouchSeen(h)
  <2>1. PresenceTypeOK' /\ Served' /\ KeepsSeen
    BY <1>3, ServeKeeps, OutsideKeepsSeen DEF PresenceNext
  <2> QED BY <2>1, KeepsSeenKeepsForward DEF SeenInv, KeepsSeen
<1> QED BY <1>1, <1>2, <1>3

LEMMA SeenInvariance == PresenceSpec => []SeenInv
<1>1. SeenInv /\ [PresenceNext]_pvars => SeenInv'
  BY NextSeenInv
<1> QED BY <1>1, InitSeenInv, PTL DEF PresenceSpec

(* The type invariant holds in every behaviour: what has been stamped is a *)
(* row of the table with the account_id of a token for its player_id.      *)
THEOREM PresenceTypeCorrect == PresenceSpec => []PresenceTypeOK
<1>1. SeenInv => PresenceTypeOK
  BY DEF SeenInv
<1> QED BY <1>1, SeenInvariance, PTL

(* A heartbeat stamps by account number.  If no row has the number of an   *)
(* account, because the two sequences have not met or, as under the schema *)
(* of migrations/, because there is no forge_sweep_state, nobody is ever   *)
(* seen, whatever is linked and however often plugins post.                *)
THEOREM NoMatchNobodySeen ==
    Row \cap Account = {} /\ PresenceSpec => []NobodySeen
<1>1. Row \cap Account = {} /\ SeenInv => NobodySeen
  BY RowAssumption DEF SeenInv, PresenceTypeOK, NobodySeen, NoId
<1>2. CASE Row \cap Account = {}
  <2>1. SeenInv => NobodySeen
    BY <1>1, <1>2
  <2> QED BY <2>1, SeenInvariance, PTL
<1>3. CASE Row \cap Account # {}
  BY <1>3
<1> QED BY <1>2, <1>3

(* last_seen_at is at most the interval behind the latest poll that was    *)
(* recorded, although TouchSeen skips most of its writes.                  *)
THEOREM SeenStaysRecent == PresenceSpec => []SeenIsRecent
<1>1. SeenInv => SeenIsRecent
  BY DEF SeenInv
<1> QED BY <1>1, SeenInvariance, PTL

(* Two writes of last_seen_at are further apart than the interval, however *)
(* many touches of one token overlap.                                      *)
THEOREM WritesStayApart == PresenceSpec => WritesFarApart
<1>1. SeenInv /\ [PresenceNext]_pvars =>
        [\A c \in Token : lastSeen'[c] # lastSeen[c] =>
            lastSeen[c] = Never \/ lastSeen'[c] > lastSeen[c] + Interval]_pvars
  BY NextSeenInv
<1> QED BY <1>1, SeenInvariance, PTL DEF PresenceSpec, WritesFarApart
=============================================================================

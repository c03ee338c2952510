-------------------------- MODULE LifecycleProofs --------------------------
(***************************************************************************)
(* Theorems about Lifecycle, for every set of environments, any number of  *)
(* goroutines and every size of the pool.                                  *)
(***************************************************************************)
EXTENDS Lifecycle, FiniteSetTheorems, TLAPS

Goroutine == Loop \cup Slot
Lent == {g \in Goroutine : db[g] = "have"}

(* Nothing runs before store.Open has returned and after the exit.         *)
Quiet == /\ server = "off"
         /\ \A l \in Loop : loop[l] = "off"
         /\ \A s \in Slot : task[s] = "free"
         /\ \A g \in Goroutine : db[g] = "none"

(* The order of run's calls: the context is done before it drains, the     *)
(* loops are over and the listener is closed before Shutdown returns, the  *)
(* requests are answered before the pool is closed, or have overrun.       *)
Order ==
    /\ main \in {"load", "open", "exited"} => Quiet
    /\ main \in {"drain", "shutdown", "close", "closing"} => signalled
    /\ main \in {"shutdown", "close", "closing"} => LoopsOver /\ server # "up"
    /\ main \in {"close", "closing"} => overrun \/ Unanswered = {}
    /\ closed => main \in {"closing", "exited"}
    /\ ~closed => refused = {}

(* A loop that has returned and a slot that is free use no database.       *)
Unused == /\ \A l \in Loop : loop[l] # "running" => db[l] = "none"
          /\ \A s \in Slot : task[s] = "free" => db[s] = "none"

Inv == TypeOK /\ Order /\ Unused /\ PoolClosesLast

-----------------------------------------------------------------------------
LEMMA GoroutinesFinite == IsFiniteSet(Goroutine)
<1>1. IsFiniteSet({"sweep"}) /\ IsFiniteSet({"discord"}) /\ IsFiniteSet({"report"})
      /\ IsFiniteSet({"housekeep"})
  BY FS_Singleton
<1>2. IsFiniteSet({"sweep"} \cup {"discord"}) /\ IsFiniteSet({"report"} \cup {"housekeep"})
  BY <1>1, FS_Union
<1>3. Goroutine = (({"sweep"} \cup {"discord"}) \cup ({"report"} \cup {"housekeep"})) \cup Slot
  BY DEF Goroutine, Loop, Awaited
<1> QED BY <1>2, <1>3, FS_Union, SlotAssumption

(* The pool's account: a step that lends no more does not exceed it.       *)
LEMMA LendsNoMore ==
    ASSUME TypeOK, Lent' \subseteq Lent
    PROVE  Cardinality(Lent') <= MaxConns
<1>1. IsFiniteSet(Lent) /\ Cardinality(Lent) <= MaxConns
  BY GoroutinesFinite, FS_Subset DEF Lent, TypeOK, Goroutine
<1>2. Cardinality(Lent') <= Cardinality(Lent) /\ IsFiniteSet(Lent')
  BY <1>1, FS_Subset
<1>3. Cardinality(Lent') \in Nat /\ Cardinality(Lent) \in Nat
  BY <1>1, <1>2, FS_CardinalityType
<1> QED BY <1>1, <1>2, <1>3, BoundAssumption

LEMMA LendsOneMore ==
    ASSUME TypeOK, Cardinality(Lent) < MaxConns, NEW g, Lent' \subseteq Lent \cup {g}
    PROVE  Cardinality(Lent') <= MaxConns
<1>1. IsFiniteSet(Lent)
  BY GoroutinesFinite, FS_Subset DEF Lent
<1>2. IsFiniteSet(Lent \cup {g}) /\ Cardinality(Lent \cup {g}) <= Cardinality(Lent) + 1
  <2>1. Cardinality(Lent) \in Nat
    BY <1>1, FS_CardinalityType
  <2> QED BY <1>1, <2>1, FS_AddElement
<1>3. Cardinality(Lent') <= Cardinality(Lent \cup {g}) /\ IsFiniteSet(Lent')
  BY <1>2, FS_Subset
<1>4. /\ Cardinality(Lent') \in Nat /\ Cardinality(Lent) \in Nat
      /\ Cardinality(Lent \cup {g}) \in Nat
  BY <1>1, <1>2, <1>3, FS_CardinalityType
<1> QED BY <1>2, <1>3, <1>4, BoundAssumption

LEMMA InitInv == Init => Inv
<1> SUFFICES ASSUME Init PROVE Inv
  OBVIOUS
<1>1. TypeOK
  <2>1. {g \in Loop \cup Slot : db[g] = "have"} = {}
    BY DEF Init
  <2>2. Cardinality({g \in Loop \cup Slot : db[g] = "have"}) <= MaxConns
    BY <2>1, FS_EmptySet, BoundAssumption
  <2>3. /\ loop \in [Loop -> {"off", "running", "done"}]
        /\ task \in [Slot -> Request \cup {"free", "touch"}]
        /\ db \in [Loop \cup Slot -> {"none", "want", "have"}]
        /\ faults \in 0..MaxFaults
    BY BoundAssumption DEF Init
  <2> QED BY <2>2, <2>3 DEF Init, TypeOK
<1>2. Quiet
  BY DEF Init, Quiet, Goroutine
<1>3. Order /\ Unused /\ PoolClosesLast
  BY <1>2 DEF Init, Order, Unused, Quiet, PoolClosesLast, Goroutine
<1> QED BY <1>1, <1>3 DEF Inv

-----------------------------------------------------------------------------
(* The steps of the database: those of a goroutine that has something to   *)
(* do there.  A closed pool turns away housekeep, touches, and requests    *)
(* that have outlasted Shutdown.                                           *)
Statement(g) == Acquire(g) \/ Return(g) \/ TurnedAway(g) \/ GiveUp(g)

LEMMA StatementShape ==
    ASSUME Inv, NEW g \in Goroutine, Statement(g)
    PROVE  /\ db[g] # "none" /\ main \notin {"load", "open", "exited"}
           /\ UNCHANGED <<env, main, signalled, server, loop, closed, overrun, faults>>
           /\ db' \in [Goroutine -> {"none", "want", "have"}]
           /\ \A f \in Goroutine \ {g} : db'[f] = db[f]
           /\ g \in Loop => loop[g] = "running" /\ task' = task
           /\ g \in Slot => task[g] # "free"
           /\ \/ task' = task
              \/ g \in Slot /\ task[g] = "ping" /\ task' = [task EXCEPT ![g] = "backlog"]
<1>1. db \in [Goroutine -> {"none", "want", "have"}] /\ Order /\ Unused
  BY DEF Inv, TypeOK, Goroutine
<1>2. /\ db[g] # "none"
      /\ UNCHANGED <<env, main, signalled, server, loop, closed, overrun, faults>>
  BY DEF Statement, Acquire, Return, TurnedAway, GiveUp, hist
<1>3. \E x \in {"none", "want", "have"} : db' = [db EXCEPT ![g] = x]
  <2>1. CASE Acquire(g)
    BY <2>1 DEF Acquire
  <2>2. CASE Return(g)
    BY <2>2 DEF Return
  <2>3. CASE TurnedAway(g) \/ GiveUp(g)
    BY <2>3 DEF TurnedAway, GiveUp
  <2> QED BY <2>1, <2>2, <2>3 DEF Statement
<1>4. /\ g \in Loop => loop[g] = "running"
      /\ g \in Slot => task[g] # "free"
  BY <1>1, <1>2 DEF Unused
<1>5. main \notin {"load", "open", "exited"}
  BY <1>1, <1>2 DEF Order, Quiet
<1>6. g \in Loop => Kind(g) # "ping"
  BY DEF Kind, Loop, Awaited
<1>7. \/ task' = task
      \/ g \in Slot /\ task[g] = "ping" /\ task' = [task EXCEPT ![g] = "backlog"]
  <2>1. CASE Return(g)
    BY <1>6, <2>1 DEF Return, Kind, Goroutine
  <2>2. CASE Acquire(g) \/ TurnedAway(g) \/ GiveUp(g)
    BY <2>2 DEF Acquire, TurnedAway, GiveUp
  <2> QED BY <2>1, <2>2 DEF Statement
<1>8. g \in Loop => g \notin Slot
  BY SlotAssumption
<1> QED BY <1>1, <1>2, <1>3, <1>4, <1>5, <1>7, <1>8

(* Who is turned away.                                                     *)
LEMMA TurnedAwayWho ==
    ASSUME Inv, NEW g \in Goroutine, TurnedAway(g)
    PROVE  /\ Kind(g) \in (Loop \cup Request \cup {"touch"}) \ Awaited
           /\ Kind(g) \in Request => overrun
<1>1. db[g] = "want" /\ closed
  BY DEF TurnedAway
<1>2. main = "closing" /\ LoopsOver /\ (overrun \/ Unanswered = {})
  <2>1. main \notin {"load", "open", "exited"}
    BY StatementShape DEF Statement
  <2> QED BY <1>1, <2>1 DEF Inv, Order
<1>3. CASE g \in Loop
  <2>1. loop[g] = "running"
    BY <1>1, <1>3 DEF Inv, Unused
  <2>2. g \notin Awaited
    BY <1>2, <2>1 DEF LoopsOver
  <2>3. g \notin Request
    BY <1>3 DEF Loop, Awaited, Request
  <2> QED BY <1>3, <2>2, <2>3 DEF Kind
<1>4. CASE g \in Slot
  <2>1. Kind(g) = task[g] /\ task[g] \in Request \cup {"touch"}
    BY <1>1, <1>4, SlotAssumption DEF Kind, Inv, TypeOK, Unused
  <2>2. task[g] \in Request => overrun
    BY <1>2, <1>4 DEF Unanswered
  <2> QED BY <2>1, <2>2 DEF Request, Awaited
<1> QED BY <1>3, <1>4 DEF Goroutine

LEMMA StatementKeepsInv ==
    ASSUME Inv, NEW g \in Goroutine, Statement(g)
    PROVE  Inv'
<1>1. TypeOK /\ Order /\ Unused /\ PoolClosesLast
  BY DEF Inv
<1>2. /\ db[g] # "none" /\ main \notin {"load", "open", "exited"}
      /\ UNCHANGED <<env, main, signalled, server, loop, closed, overrun, faults>>
      /\ db' \in [Goroutine -> {"none", "want", "have"}]
      /\ \A f \in Goroutine \ {g} : db'[f] = db[f]
      /\ g \in Loop => loop[g] = "running" /\ task' = task
      /\ g \in Slot => task[g] # "free"
      /\ \/ task' = task
         \/ g \in Slot /\ task[g] = "ping" /\ task' = [task EXCEPT ![g] = "backlog"]
  BY StatementShape
<1>3. \/ refused' = refused
      \/ /\ TurnedAway(g) /\ closed
         /\ refused' = refused \cup {Kind(g)}
  BY DEF Statement, Acquire, Return, TurnedAway, GiveUp, hist
<1>4. Cardinality(Lent') <= MaxConns
  <2>1. CASE Acquire(g)
    <3>1. Cardinality(Lent) < MaxConns
      BY <2>1 DEF Acquire, Lent, Goroutine
    <3>2. Lent' \subseteq Lent \cup {g}
      BY <1>2 DEF Lent
    <3> QED BY <1>1, <3>1, <3>2, LendsOneMore
  <2>2. CASE ~Acquire(g)
    <3>1. db'[g] # "have"
      <4>1. g \in DOMAIN db
        BY <1>1 DEF TypeOK, Goroutine
      <4> QED BY <2>2, <4>1 DEF Statement, Return, TurnedAway, GiveUp
    <3>2. Lent' \subseteq Lent
      BY <1>2, <3>1 DEF Lent
    <3> QED BY <1>1, <3>2, LendsNoMore
  <2> QED BY <2>1, <2>2
<1>5. task' \in [Slot -> Request \cup {"free", "touch"}]
      /\ \A s \in Slot : /\ task'[s] = "free" => task[s] = "free"
                         /\ task'[s] \in Request => task[s] \in Request
  BY <1>1, <1>2 DEF TypeOK, Request
<1>6. refused' \subseteq Loop \cup Request \cup {"touch"}
  BY <1>1, <1>3, TurnedAwayWho DEF TypeOK
<1>7. TypeOK'
  BY <1>1, <1>2, <1>4, <1>5, <1>6 DEF TypeOK, Lent, Goroutine
<1>8. Unused'
  <2>1. ASSUME NEW l \in Loop, loop'[l] # "running" PROVE db'[l] = "none"
    BY <1>1, <1>2, <2>1 DEF Unused, Goroutine
  <2>2. ASSUME NEW s \in Slot, task'[s] = "free" PROVE db'[s] = "none"
    BY <1>1, <1>2, <1>5, <2>2 DEF Unused, Goroutine
  <2> QED BY <2>1, <2>2 DEF Unused
<1>9. Order'
  <2>1. Unanswered = {} => Unanswered' = {}
    BY <1>5 DEF Unanswered
  <2>2. ~closed => refused' = {}
    BY <1>1, <1>3 DEF Order
  <2> QED BY <1>1, <1>2, <2>1, <2>2 DEF Order, LoopsOver
<1>10. PoolClosesLast'
  <2>1. refused \cap Awaited = {} => refused' \cap Awaited = {}
    BY <1>3, TurnedAwayWho
  <2>2. refused' \cap Request # {} => refused \cap Request # {} \/ overrun
    BY <1>3, TurnedAwayWho
  <2> QED BY <1>1, <1>2, <2>1, <2>2 DEF PoolClosesLast, LoopsOver
<1> QED BY <1>7, <1>8, <1>9, <1>10 DEF Inv

-----------------------------------------------------------------------------
(* The steps of run.                                                       *)

(* The exit takes every goroutine along.                                   *)
LEMMA ExitKeepsInv ==
    ASSUME Inv, Exit, UNCHANGED <<env, signalled, closed, refused, overrun>>,
           faults' \in 0..MaxFaults
    PROVE  Inv'
<1>1. Quiet'
  BY DEF Exit, Quiet, Goroutine
<1>2. TypeOK'
  <2>1. Lent' = {}
    BY <1>1 DEF Quiet, Lent
  <2>2. Cardinality({g \in Loop \cup Slot : db[g] = "have"})' <= MaxConns
    BY <2>1, LendsNoMore DEF Inv, Lent, Goroutine
  <2>3. /\ loop' \in [Loop -> {"off", "running", "done"}]
        /\ task' \in [Slot -> Request \cup {"free", "touch"}]
        /\ db' \in [Loop \cup Slot -> {"none", "want", "have"}]
    BY DEF Exit
  <2> QED BY <2>2, <2>3 DEF Exit, TypeOK, Inv
<1>3. Unused'
  BY <1>1 DEF Quiet, Unused, Goroutine
<1>4. Order'
  BY <1>1 DEF Order, Inv, Exit
<1>5. LoopsOver'
  BY <1>1 DEF Quiet, LoopsOver, Loop
<1>6. PoolClosesLast'
  BY <1>5 DEF PoolClosesLast, Inv
<1> QED BY <1>2, <1>3, <1>4, <1>6 DEF Inv

LEMMA OpenKeepsInv ==
    ASSUME Inv, Open
    PROVE  Inv'
<1>1. TypeOK /\ Order /\ Unused /\ PoolClosesLast /\ main = "open" /\ Quiet /\ ~closed
  BY DEF Inv, Order, Open
<1>2. /\ main' = "serve" /\ server' = "up"
      /\ loop' \in [Loop -> {"off", "running"}]
      /\ UNCHANGED <<env, signalled, task, db, closed, refused, overrun, faults>>
  BY DEF Open, hist
<1>3. TypeOK'
  <2>1. Cardinality(Lent') <= MaxConns
    BY <1>1, <1>2, LendsNoMore DEF Lent
  <2> QED BY <1>1, <1>2, <2>1 DEF TypeOK, Lent, Goroutine
<1>4. Unused'
  BY <1>1, <1>2 DEF Unused, Quiet, Goroutine
<1>5. Order'
  BY <1>1, <1>2 DEF Order
<1>6. PoolClosesLast'
  BY <1>1, <1>2 DEF PoolClosesLast
<1> QED BY <1>3, <1>4, <1>5, <1>6 DEF Inv

(* The steps of run that no goroutine notices.                             *)
LEMMA RunKeepsInv ==
    ASSUME Inv, Load \/ Done \/ Wait \/ Shutdown \/ Close
    PROVE  Inv'
<1>1. TypeOK /\ Order /\ Unused /\ PoolClosesLast
  BY DEF Inv
<1>2. UNCHANGED <<env, signalled, loop, task, db, refused, faults>>
  BY DEF Load, Done, Wait, Shutdown, Close, hist
<1>3. TypeOK'
  <2>1. Cardinality(Lent') <= MaxConns
    BY <1>1, <1>2, LendsNoMore DEF Lent
  <2>2. main' \in {"load", "open", "serve", "drain", "shutdown", "close", "closing", "exited"}
    BY DEF Load, Done, Wait, Shutdown, Close
  <2>3. server' \in {"off", "up", "failed", "closed"}
    BY <1>1 DEF Load, Done, Wait, Shutdown, Close, TypeOK
  <2>4. closed' \in BOOLEAN /\ overrun' \in BOOLEAN
    BY <1>1 DEF Load, Done, Wait, Shutdown, Close, TypeOK, hist
  <2> QED BY <1>1, <1>2, <2>1, <2>2, <2>3, <2>4 DEF TypeOK, Lent, Goroutine
<1>4. Unused'
  BY <1>1, <1>2 DEF Unused
<1>5. (LoopsOver' <=> LoopsOver) /\ Unanswered' = Unanswered
  BY <1>2 DEF LoopsOver, Unanswered
<1>6. Order' /\ PoolClosesLast'
  <2>1. CASE Load
    <3>1. Quiet /\ UNCHANGED <<server, closed, overrun>> /\ main' \in {"open", "exited"} /\ ~closed
      BY <1>1, <2>1 DEF Order, Load, hist
    <3>2. Quiet'
      BY <1>2, <3>1 DEF Quiet, Goroutine
    <3> QED BY <1>1, <1>2, <3>1, <3>2 DEF Order, PoolClosesLast
  <2>2. CASE Done
    BY <1>1, <1>2, <2>2 DEF Order, PoolClosesLast, Done, hist
  <2>3. CASE Wait
    <3>1. LoopsOver /\ server' # "up" /\ main = "drain" /\ main' = "shutdown"
          /\ UNCHANGED <<closed, overrun>>
      BY <2>3 DEF Wait, hist
    <3> QED BY <1>1, <1>2, <1>5, <3>1 DEF Order, PoolClosesLast
  <2>4. CASE Shutdown
    <3>1. /\ main = "shutdown" /\ main' = "close" /\ UNCHANGED <<server, closed>>
          /\ overrun' \/ Unanswered' = {}
          /\ ~closed
      BY <1>1, <1>5, <2>4 DEF Shutdown, Order
    <3> QED BY <1>1, <1>2, <1>5, <3>1 DEF Order, PoolClosesLast
  <2>5. CASE Close
    <3>1. /\ main = "close" /\ main' = "closing" /\ UNCHANGED <<server, overrun>> /\ closed'
          /\ refused = {}
      BY <1>1, <2>5 DEF Close, hist, Order
    <3> QED BY <1>1, <1>2, <1>5, <3>1 DEF Order, PoolClosesLast
  <2> QED BY <2>1, <2>2, <2>3, <2>4, <2>5
<1> QED BY <1>3, <1>4, <1>6 DEF Inv

(* The signal, and the listener that fails.                                *)
LEMMA OutsideKeepsInv ==
    ASSUME Inv, Signal \/ ListenFails
    PROVE  Inv'
<1>1. TypeOK /\ Order /\ Unused /\ PoolClosesLast
  BY DEF Inv
<1>2. /\ UNCHANGED <<env, main, loop, task, db, closed, refused, overrun>>
      /\ signalled => signalled'
      /\ server' = server \/ (server = "up" /\ server' = "failed")
      /\ signalled' \in BOOLEAN /\ faults' \in 0..MaxFaults
  <2>1. signalled \in BOOLEAN /\ faults \in 0..MaxFaults
    BY <1>1 DEF TypeOK
  <2>2. CASE Signal
    BY <2>1, <2>2, Zenon DEF Signal, hist
  <2>3. CASE ListenFails
    <3>1. faults' \in 0..MaxFaults
      BY <2>1, <2>3, BoundAssumption DEF ListenFails, Fault
    <3> QED BY <2>1, <2>3, <3>1, Zenon DEF ListenFails
  <2> QED BY <2>2, <2>3
<1>3. TypeOK'
  <2>1. Cardinality(Lent') <= MaxConns
    BY <1>1, <1>2, LendsNoMore DEF Lent
  <2> QED BY <1>1, <1>2, <2>1 DEF TypeOK, Lent, Goroutine
<1>4. Unused' /\ PoolClosesLast'
  BY <1>1, <1>2 DEF Unused, PoolClosesLast, LoopsOver
<1>5. Quiet => Quiet'
  BY <1>2 DEF Quiet, Goroutine
<1>6. Order'
  BY <1>1, <1>2, <1>5 DEF Order, LoopsOver, Unanswered
<1> QED BY <1>3, <1>4, <1>6 DEF Inv

-----------------------------------------------------------------------------
(* The steps of the loops and of the HTTP server.                          *)

(* What a goroutine g does besides its statements: it is there, it lends   *)
(* nothing to itself, and no new request arrives once the server is not up.*)
LEMMA GoroutineKeepsInv ==
    ASSUME Inv, NEW g \in Goroutine,
           UNCHANGED <<env, main, signalled, server, closed, hist>>,
           main \notin {"load", "open", "exited"},
           loop' \in [Loop -> {"off", "running", "done"}],
           task' \in [Slot -> Request \cup {"free", "touch"}],
           db' \in [Goroutine -> {"none", "want", "have"}],
           \A l \in Loop : loop'[l] = "running" => loop[l] = "running",
           \A s \in Slot : task'[s] \in Request => task[s] \in Request \/ server = "up",
           \A f \in Goroutine \ {g} : db'[f] = db[f],
           db'[g] # "have",
           Unused'
    PROVE  Inv'
<1>1. TypeOK /\ Order /\ Unused /\ PoolClosesLast
  BY DEF Inv
<1>2. UNCHANGED <<env, main, signalled, server, closed, refused, overrun, faults>>
  BY DEF hist
<1>3. Cardinality(Lent') <= MaxConns
  <2>1. Lent' \subseteq Lent
    BY DEF Lent
  <2> QED BY <1>1, <2>1, LendsNoMore
<1>4. TypeOK'
  BY <1>1, <1>2, <1>3 DEF TypeOK, Lent, Goroutine
<1>5. LoopsOver => LoopsOver'
  BY DEF LoopsOver, Loop
<1>6. server # "up" /\ Unanswered = {} => Unanswered' = {}
  BY DEF Unanswered
<1>7. Order'
  BY <1>1, <1>2, <1>5, <1>6 DEF Order
<1>8. PoolClosesLast'
  BY <1>1, <1>2, <1>5 DEF PoolClosesLast
<1> QED BY <1>4, <1>7, <1>8 DEF Inv

LEMMA LoopKeepsInv ==
    ASSUME Inv, NEW l \in Loop, Query(l) \/ LoopReturns(l)
    PROVE  Inv'
<1>1. /\ loop \in [Loop -> {"off", "running", "done"}]
      /\ task \in [Slot -> Request \cup {"free", "touch"}]
      /\ db \in [Goroutine -> {"none", "want", "have"}]
      /\ Order /\ Unused
  BY DEF Inv, TypeOK, Goroutine
<1>2. loop[l] = "running" /\ db[l] = "none"
      /\ UNCHANGED <<env, main, signalled, server, task, closed, hist>>
  BY DEF Query, LoopReturns
<1>3. main \notin {"load", "open", "exited"}
  BY <1>1, <1>2 DEF Order, Quiet
<1>4. \/ loop' = loop /\ db' = [db EXCEPT ![l] = "want"]
      \/ loop' = [loop EXCEPT ![l] = "done"] /\ db' = db
  BY DEF Query, LoopReturns
<1>5. l \in Goroutine /\ l \notin Slot
  BY SlotAssumption DEF Goroutine
<1>6. /\ loop' \in [Loop -> {"off", "running", "done"}]
      /\ db' \in [Goroutine -> {"none", "want", "have"}]
      /\ \A m \in Loop : loop'[m] = "running" => loop[m] = "running"
      /\ \A f \in Goroutine \ {l} : db'[f] = db[f]
      /\ db'[l] # "have"
  BY <1>1, <1>2, <1>4, <1>5
<1>7. Unused'
  BY <1>1, <1>2, <1>4, <1>5 DEF Unused, Goroutine
<1> QED BY <1>1, <1>2, <1>3, <1>5, <1>6, <1>7, GoroutineKeepsInv

Handling(s) == \/ \E r \in Request \ {"backlog"} : Arrive(s, r)
               \/ NextStatement(s) \/ Answer(s) \/ AnswerPoll(s) \/ TouchOver(s)

LEMMA HandlerKeepsInv ==
    ASSUME Inv, NEW s \in Slot, Handling(s)
    PROVE  Inv'
<1>1. /\ loop \in [Loop -> {"off", "running", "done"}]
      /\ task \in [Slot -> Request \cup {"free", "touch"}]
      /\ db \in [Goroutine -> {"none", "want", "have"}]
      /\ Order /\ Unused
  BY DEF Inv, TypeOK, Goroutine
<1>2. db[s] = "none" /\ (task[s] # "free" \/ server = "up")
      /\ UNCHANGED <<env, main, signalled, server, loop, closed, hist>>
  BY <1>1 DEF Handling, Arrive, NextStatement, Answer, AnswerPoll, TouchOver, Unused, Request
<1>3. main \notin {"load", "open", "exited"}
  BY <1>1, <1>2 DEF Order, Quiet
<1> DEFINE Turns(x, d) == /\ task' = [task EXCEPT ![s] = x]
                          /\ db' = [db EXCEPT ![s] = d]
                          /\ x \in Request => task[s] \in Request \/ server = "up"
                          /\ x = "free" => d = "none"
<1>4. \E x \in Request \cup {"free", "touch"}, d \in {"none", "want"} : Turns(x, d)
  <2>1. ASSUME NEW r \in Request \ {"backlog"}, Arrive(s, r)
        PROVE  \E x \in Request, d \in {"none", "want"} : Turns(x, d)
    BY <2>1 DEF Arrive, Request
  <2>2. s \in Goroutine
    BY DEF Goroutine
  <2>3. [task EXCEPT ![s] = task[s]] = task /\ [db EXCEPT ![s] = "none"] = db
    BY <1>1, <1>2, <2>2
  <2>4. CASE NextStatement(s)
    BY <2>3, <2>4 DEF NextStatement, Request
  <2>5. CASE Answer(s) \/ TouchOver(s)
    BY <2>3, <2>5 DEF Answer, TouchOver, Request
  <2>6. CASE AnswerPoll(s)
    BY <2>6 DEF AnswerPoll, Request
  <2> QED BY <2>1, <2>4, <2>5, <2>6 DEF Handling
<1>5. PICK x \in Request \cup {"free", "touch"}, d \in {"none", "want"} : Turns(x, d)
  BY <1>4
<1>6. s \in Goroutine /\ s \notin Loop
  BY SlotAssumption DEF Goroutine
<1>7. /\ task' \in [Slot -> Request \cup {"free", "touch"}]
      /\ \A i \in Slot : task'[i] \in Request => task[i] \in Request \/ server = "up"
  BY <1>1, <1>5
<1>8. /\ db' \in [Goroutine -> {"none", "want", "have"}]
      /\ \A f \in Goroutine \ {s} : db'[f] = db[f]
      /\ db'[s] # "have"
  BY <1>1, <1>5, <1>6
<1>9. Unused'
  BY <1>1, <1>2, <1>5, <1>6 DEF Unused, Goroutine
<1>10. /\ loop' \in [Loop -> {"off", "running", "done"}]
       /\ \A l \in Loop : loop'[l] = "running" => loop[l] = "running"
  BY <1>1, <1>2
<1> QED BY <1>2, <1>3, <1>6, <1>7, <1>8, <1>9, <1>10, GoroutineKeepsInv

-----------------------------------------------------------------------------
LEMMA NextInv == Inv /\ [Next]_vars => Inv'
<1> SUFFICES ASSUME Inv, [Next]_vars PROVE Inv'
  OBVIOUS
<1>1. CASE Run
  <2>1. CASE Load \/ Done \/ Wait \/ Shutdown \/ Close
    BY <2>1, RunKeepsInv
  <2>2. CASE Open
    BY <2>2, OpenKeepsInv
  <2>3. CASE OpenFails \/ TickerPanics \/ CloseReturns
    <3>1. Exit /\ UNCHANGED <<env, signalled, closed, refused, overrun>>
      BY <2>3 DEF OpenFails, TickerPanics, CloseReturns, hist
    <3>2. faults' \in 0..MaxFaults
      <4>1. faults' = faults \/ Fault
        BY <2>3 DEF OpenFails, TickerPanics, CloseReturns, hist
      <4>2. faults \in 0..MaxFaults
        BY DEF Inv, TypeOK
      <4> QED BY <4>1, <4>2, BoundAssumption DEF Fault
    <3> QED BY <3>1, <3>2, ExitKeepsInv
  <2> QED BY <1>1, <2>1, <2>2, <2>3 DEF Run
<1>2. CASE Signal \/ ListenFails
  BY <1>2, OutsideKeepsInv
<1>3. ASSUME NEW g \in Goroutine, Statement(g) PROVE Inv'
  BY <1>3, StatementKeepsInv
<1>4. ASSUME NEW l \in Loop, Query(l) \/ LoopReturns(l) PROVE Inv'
  BY <1>4, LoopKeepsInv
<1>5. ASSUME NEW s \in Slot, Handling(s) PROVE Inv'
  BY <1>5, HandlerKeepsInv
<1>6. CASE UNCHANGED vars
  BY <1>6 DEF vars, hist, Inv, TypeOK, Order, Quiet, Unused, PoolClosesLast, LoopsOver,
              Unanswered, Goroutine
<1> QED BY <1>1, <1>2, <1>3, <1>4, <1>5, <1>6 DEF Next, Goroutine, Statement, Handling

LEMMA Invariance == Spec => []Inv
  BY InitInv, NextInv, PTL DEF Spec

(* The type invariant holds in every behaviour, and with it the cap on the *)
(* connections the pool lends.                                             *)
THEOREM TypeCorrect == Spec => []TypeOK
<1>1. Inv => TypeOK
  BY DEF Inv
<1> QED BY <1>1, Invariance, PTL

(* Whatever order the loops return in, requests are answered in and the    *)
(* signal comes in: the pool is closed after the awaited loops, and it     *)
(* turns a request away only if that outlasted Shutdown.                   *)
THEOREM PoolOutlivesLoops == Spec => []PoolClosesLast
<1>1. Inv => PoolClosesLast
  BY DEF Inv
<1> QED BY <1>1, Invariance, PTL

-----------------------------------------------------------------------------
(* A duration of the environment is not negative.                          *)
LEMMA TickIsNat == Config.tick \in Nat
  BY DEF Config, FromEnv, Seconds

(* No step leaves the process down but one after a signal, a refused start *)
(* or the panic of a Discord tick of zero: not a lost port, nor a database *)
(* that fails.                                                             *)
THEOREM SignalsStop == Spec => OnlySignalsStop
<1> DEFINE Justified == \/ signalled
                        \/ main \in {"load", "open"}
                        \/ Config.discord /\ Config.tick = 0
<1>1. ASSUME Inv, [Next]_vars PROVE [main' = "exited" => Justified]_vars
  <2> SUFFICES ASSUME Next, main' = "exited" PROVE Justified
    BY <1>1
  <2>1. CASE Run
    <3>1. CASE TickerPanics
      BY <3>1, TickIsNat DEF TickerPanics
    <3>2. CASE CloseReturns
      BY <1>1, <3>2 DEF CloseReturns, Inv, Order
    <3>3. CASE Load \/ OpenFails \/ Open \/ Done \/ Wait \/ Shutdown \/ Close
      BY <3>3 DEF Load, OpenFails, Open, Done, Wait, Shutdown, Close
    <3> QED BY <2>1, <3>1, <3>2, <3>3 DEF Run
  <2>2. CASE ~Run
    <3>1. main' = main
      BY <2>2 DEF Next, Signal, ListenFails, Acquire, Return, TurnedAway, GiveUp, Query,
                  LoopReturns, Arrive, NextStatement, Answer, AnswerPoll, TouchOver
    <3>2. Quiet
      BY <1>1, <3>1 DEF Inv, Order
    <3>3. FALSE
      BY <1>1, <2>2, <3>1, <3>2, SlotAssumption
         DEF Next, Signal, ListenFails, Acquire, Return, TurnedAway, GiveUp, Query,
             LoopReturns, Arrive, NextStatement, Answer, AnswerPoll, TouchOver, Quiet,
             Goroutine, Request
    <3> QED BY <3>3
  <2> QED BY <2>1, <2>2
<1> QED BY <1>1, Invariance, PTL DEF Spec, OnlySignalsStop
=============================================================================

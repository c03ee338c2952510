----------------------------- MODULE Lifecycle -----------------------------
(***************************************************************************)
(* cmd/forge, internal/config and store.Open: one process from its         *)
(* environment to its exit.  run starts the enabled loops and an HTTP      *)
(* server; all of them share one pool of connections.  After a signal run  *)
(* waits for the loops, then its deferred calls shut the server down and   *)
(* close the pool, in that order.                                          *)
(***************************************************************************)
EXTENDS Integers, FiniteSets

CONSTANTS Environments, (* the environments a process may be started in    *)
          Slot,         (* goroutines: HTTP handlers and what they leave   *)
          MaxConns,     (* connections of the pool                         *)
          MaxFaults     (* bound: failures of Open and ListenAndServe      *)

Var == {"DATABASE_URL", "RPS", "WORKERS", "LEASE", "SWEEP", "EDGE", "DISCORD", "TICK"}
Text == {"", "junk", "url", "true", "false", "-1", "0", "1", "4", "5", "NaN",
         "1s", "5m", "0s", "2s"}

ASSUME EnvironmentAssumption == Environments \subseteq [Var -> Text]
ASSUME BoundAssumption == MaxConns \in Nat \ {0} /\ MaxFaults \in Nat

VARIABLES
  env,       (* the environment                                            *)
  main,      (* where run is                                               *)
  signalled, (* the context is done                                        *)
  server,    (* "off", "up", "failed" or "closed"                          *)
  loop,      (* the goroutines run starts: "off", "running" or "done"      *)
  task,      (* what each slot does; "free" when there is no goroutine     *)
  db,        (* each goroutine's statement: "none", "want" a connection or *)
             (* "have" one                                                 *)
  closed,    (* the pool is closed                                         *)
  refused,   (* history: the tasks a closed pool has turned away           *)
  overrun,   (* history: Shutdown gave up waiting                          *)
  faults     (* bounded by MaxFaults                                       *)

hist == <<refused, overrun, faults>>
vars == <<env, main, signalled, server, loop, task, db, closed, hist>>

(* housekeep is started by the Discord worker, and nobody waits for it.    *)
Awaited == {"sweep", "discord", "report"}
Loop == Awaited \cup {"housekeep"}
Request == {"health", "ping", "backlog", "edge"}

ASSUME SlotAssumption == IsFiniteSet(Slot) /\ Slot \cap Loop = {}

-----------------------------------------------------------------------------
(* config.Load.                                                            *)

(* envInt, envFloat, envBool, envDuration: the default stands in for what  *)
(* is missing and for what does not parse.                                 *)
FromEnv(parsed, text, def) == IF text \in DOMAIN parsed THEN parsed[text] ELSE def

Bools == [t \in {"true", "false", "0", "1"} |-> t \in {"true", "1"}]
Ints == [t \in {"-1", "0", "1", "4", "5"} |->
            CASE t = "-1" -> -1 [] t = "0" -> 0 [] t = "1" -> 1 [] t = "4" -> 4 [] t = "5" -> 5]
Floats == [t \in DOMAIN Ints \cup {"NaN"} |-> t]
Seconds == [t \in {"0", "0s", "1s", "2s", "5m"} |->
              CASE t \in {"0", "0s"} -> 0 [] t = "1s" -> 1 [] t = "2s" -> 2 [] t = "5m" -> 300]

Config == [url |-> env["DATABASE_URL"],
           rps |-> FromEnv(Floats, env["RPS"], "1"),
           workers |-> FromEnv(Ints, env["WORKERS"], 4),
           lease |-> FromEnv(Seconds, env["LEASE"], 300),
           sweep |-> FromEnv(Bools, env["SWEEP"], TRUE),
           edge |-> FromEnv(Bools, env["EDGE"], TRUE),
           discord |-> FromEnv(Bools, env["DISCORD"], TRUE),
           tick |-> FromEnv(Seconds, env["TICK"], 2)]

(* NaN <= 0 is false.                                                      *)
NotPositive(rps) == rps \in {"-1", "0"}

Rejected(c) == \/ ~c.sweep /\ ~c.edge /\ ~c.discord
               \/ c.url = ""
               \/ NotPositive(c.rps)
               \/ c.workers < 1
               \/ c.lease < 60

-----------------------------------------------------------------------------
Init == /\ env \in Environments
        /\ main = "load"
        /\ signalled = FALSE
        /\ server = "off"
        /\ loop = [l \in Loop |-> "off"]
        /\ task = [s \in Slot |-> "free"]
        /\ db = [g \in Loop \cup Slot |-> "none"]
        /\ closed = FALSE
        /\ refused = {}
        /\ overrun = FALSE
        /\ faults = 0

Fault == faults < MaxFaults /\ faults' = faults + 1

Exit == /\ main' = "exited"
        /\ server' = "off"
        /\ loop' = [l \in Loop |-> "off"]
        /\ task' = [s \in Slot |-> "free"]
        /\ db' = [g \in Loop \cup Slot |-> "none"]

Load == /\ main = "load"
        /\ main' = IF Rejected(Config) THEN "exited" ELSE "open"
        /\ UNCHANGED <<env, signalled, server, loop, task, db, closed, hist>>

(* store.Open parses the URL and pings, under the context of the signals.  *)
OpenFails == /\ main = "open" /\ (IF signalled THEN UNCHANGED faults ELSE Fault)
             /\ Exit
             /\ UNCHANGED <<env, signalled, closed, refused, overrun>>

Enabled(l) == CASE l = "sweep" -> Config.sweep
                [] l \in {"discord", "housekeep"} -> Config.discord
                [] l = "report" -> Config.edge

Open == /\ main = "open"
        /\ main' = "serve"
        /\ server' = "up"
        /\ loop' = [l \in Loop |-> IF Enabled(l) THEN "running" ELSE "off"]
        /\ UNCHANGED <<env, signalled, task, db, closed, hist>>

(* time.NewTicker panics in the worker's goroutine, which ends the process.*)
TickerPanics == /\ main = "serve" /\ Config.discord /\ Config.tick <= 0
                /\ Exit
                /\ UNCHANGED <<env, signalled, closed, hist>>

(* SIGINT or SIGTERM; a second one changes nothing.                        *)
Signal == /\ main \in {"open", "serve"} /\ ~signalled
          /\ signalled' = TRUE
          /\ UNCHANGED <<env, main, server, loop, task, db, closed, hist>>

(* Mutant of ListenFails: a process without its port gives up.             *)
ListenFailsExits == /\ server = "up" /\ Fault
                    /\ Exit
                    /\ UNCHANGED <<env, signalled, closed, refused, overrun>>

(* ListenAndServe fails, which is logged.                                  *)
ListenFails == /\ server = "up" /\ Fault
               /\ server' = "failed"
               /\ UNCHANGED <<env, main, signalled, loop, task, db, closed, refused, overrun>>

Done == /\ main = "serve" /\ signalled
        /\ main' = "drain"
        /\ UNCHANGED <<env, signalled, server, loop, task, db, closed, hist>>

LoopsOver == \A l \in Awaited : loop[l] # "running"

(* Mutant of Wait: the deferred calls in the opposite order.               *)
WaitThenClose == /\ main = "drain" /\ LoopsOver
                 /\ main' = "closing"
                 /\ closed' = TRUE
                 /\ UNCHANGED <<env, signalled, server, loop, task, db, hist>>

(* wg.Wait returns, and Shutdown closes the listener.                      *)
Wait == /\ main = "drain" /\ LoopsOver
        /\ main' = "shutdown"
        /\ server' = IF server = "up" THEN "closed" ELSE server
        /\ UNCHANGED <<env, signalled, loop, task, db, closed, hist>>

(* Shutdown waits for the requests, not for what they have left behind.    *)
Unanswered == {s \in Slot : task[s] \in Request}

(* Mutant of Shutdown: a context without an end.                           *)
ShutdownPatient == /\ main = "shutdown" /\ Unanswered = {}
                   /\ main' = "close"
                   /\ UNCHANGED <<env, signalled, server, loop, task, db, closed, hist>>

(* Shutdown returns, with the last answer or after its ten seconds.        *)
Shutdown == /\ main = "shutdown"
            /\ main' = "close"
            /\ overrun' = (Unanswered # {})
            /\ UNCHANGED <<env, signalled, server, loop, task, db, closed, refused, faults>>

Close == /\ main = "close"
         /\ main' = "closing"
         /\ closed' = TRUE
         /\ UNCHANGED <<env, signalled, server, loop, task, db, hist>>

(* Close waits until every connection has been returned.                   *)
CloseReturns == /\ main = "closing" /\ \A g \in Loop \cup Slot : db[g] # "have"
                /\ Exit
                /\ UNCHANGED <<env, signalled, closed, hist>>

Run == \/ Load \/ OpenFails \/ Open \/ TickerPanics \/ Done \/ Wait \/ Shutdown
       \/ Close \/ CloseReturns
-----------------------------------------------------------------------------
(* The pool (external: pgxpool).  A statement takes one connection and     *)
(* gives it back; one whose context is done gives up, in either state.     *)

Kind(g) == IF g \in Loop THEN g ELSE task[g]

(* Mutant of Acquire: the pool grows with the demand.                      *)
AcquireUnbounded(g) == /\ db[g] = "want" /\ ~closed
                       /\ db' = [db EXCEPT ![g] = "have"]
                       /\ UNCHANGED <<env, main, signalled, server, loop, task, closed, hist>>

(* Open caps MaxConns, for the Site's sake.                                *)
Acquire(g) == /\ db[g] = "want" /\ ~closed
              /\ Cardinality({f \in Loop \cup Slot : db[f] = "have"}) < MaxConns
              /\ db' = [db EXCEPT ![g] = "have"]
              /\ UNCHANGED <<env, main, signalled, server, loop, task, closed, hist>>

(* A statement returns.  Ping is followed by Backlog.                      *)
Return(g) == /\ db[g] = "have"
             /\ db' = [db EXCEPT ![g] = IF Kind(g) = "ping" THEN "want" ELSE "none"]
             /\ task' = IF Kind(g) = "ping" THEN [task EXCEPT ![g] = "backlog"] ELSE task
             /\ UNCHANGED <<env, main, signalled, server, loop, closed, hist>>

TurnedAway(g) == /\ db[g] = "want" /\ closed
                 /\ db' = [db EXCEPT ![g] = "none"]
                 /\ refused' = refused \cup {Kind(g)}
                 /\ UNCHANGED <<env, main, signalled, server, loop, task, closed, overrun, faults>>

(* The loops have the context of the signals, /ready two seconds, a touch  *)
(* three; an edge request has no end of its own but its client's, and      *)
(* /health none at all.                                                    *)
MayGiveUp(g) == IF g \in Loop THEN signalled ELSE task[g] # "health"
GiveUp(g) == /\ db[g] # "none" /\ MayGiveUp(g)
             /\ db' = [db EXCEPT ![g] = "none"]
             /\ UNCHANGED <<env, main, signalled, server, loop, task, closed, hist>>

-----------------------------------------------------------------------------
(* The loops.  What they do is the matter of Sweep and Delivery.           *)

Query(l) == /\ loop[l] = "running" /\ l # "report" /\ db[l] = "none" /\ ~signalled
            /\ db' = [db EXCEPT ![l] = "want"]
            /\ UNCHANGED <<env, main, signalled, server, loop, task, closed, hist>>

LoopReturns(l) ==
    /\ loop[l] = "running" /\ signalled /\ db[l] = "none"
    /\ loop' = [loop EXCEPT ![l] = "done"]
    /\ UNCHANGED <<env, main, signalled, server, task, db, closed, hist>>

-----------------------------------------------------------------------------
(* The HTTP server.                                                        *)

(* Mutant of NeedsDatabase: /health pings as well.                         *)
NeedsDatabaseAll(r) == TRUE

NeedsDatabase(r) == r # "health"

Arrive(s, r) ==
    /\ server = "up" /\ task[s] = "free"
    /\ r = "edge" => Config.edge
    /\ task' = [task EXCEPT ![s] = r]
    /\ db' = [db EXCEPT ![s] = IF NeedsDatabase(r) THEN "want" ELSE "none"]
    /\ UNCHANGED <<env, main, signalled, server, loop, closed, hist>>

(* An edge handler goes on to its next statement.                          *)
NextStatement(s) ==
    /\ task[s] = "edge" /\ db[s] = "none"
    /\ db' = [db EXCEPT ![s] = "want"]
    /\ UNCHANGED <<env, main, signalled, server, loop, task, closed, hist>>

Answer(s) ==
    /\ task[s] \in Request /\ db[s] = "none"
    /\ task' = [task EXCEPT ![s] = "free"]
    /\ UNCHANGED <<env, main, signalled, server, loop, db, closed, hist>>

(* A config poll is answered and leaves TouchSeen to a goroutine.          *)
AnswerPoll(s) ==
    /\ task[s] = "edge" /\ db[s] = "none"
    /\ task' = [task EXCEPT ![s] = "touch"]
    /\ db' = [db EXCEPT ![s] = "want"]
    /\ UNCHANGED <<env, main, signalled, server, loop, closed, hist>>

TouchOver(s) ==
    /\ task[s] = "touch" /\ db[s] = "none"
    /\ task' = [task EXCEPT ![s] = "free"]
    /\ UNCHANGED <<env, main, signalled, server, loop, db, closed, hist>>

Next == \/ Run \/ Signal \/ ListenFails
        \/ \E g \in Loop \cup Slot : Acquire(g) \/ Return(g) \/ TurnedAway(g) \/ GiveUp(g)
        \/ \E l \in Loop : Query(l) \/ LoopReturns(l)
        \/ \E s \in Slot : \/ \E r \in Request \ {"backlog"} : Arrive(s, r)
                           \/ NextStatement(s) \/ Answer(s) \/ AnswerPoll(s) \/ TouchOver(s)

Spec == Init /\ [][Next]_vars

(* run goes on, loops look at the context, timers end, probes are answered *)
(* as soon as they can be.  Nothing is assumed of the edge's clients, nor  *)
(* of the database.                                                        *)
FairSpec ==
    /\ Spec
    /\ WF_vars(Run)
    /\ \A l \in Loop : WF_vars(LoopReturns(l)) /\ WF_vars(GiveUp(l))
    /\ \A s \in Slot : /\ WF_vars(TurnedAway(s))
                       /\ WF_vars(task[s] # "edge" /\ GiveUp(s))
                       /\ WF_vars(task[s] # "edge" /\ Answer(s))

-----------------------------------------------------------------------------
(* Properties.                                                             *)

(* The type invariant; the pool lends no more than it has.                 *)
TypeOK == /\ env \in Environments
          /\ main \in {"load", "open", "serve", "drain", "shutdown", "close", "closing",
                       "exited"}
          /\ signalled \in BOOLEAN /\ closed \in BOOLEAN /\ overrun \in BOOLEAN
          /\ server \in {"off", "up", "failed", "closed"}
          /\ loop \in [Loop -> {"off", "running", "done"}]
          /\ task \in [Slot -> Request \cup {"free", "touch"}]
          /\ db \in [Loop \cup Slot -> {"none", "want", "have"}]
          /\ Cardinality({g \in Loop \cup Slot : db[g] = "have"}) <= MaxConns
          /\ refused \subseteq Loop \cup Request \cup {"touch"}
          /\ faults \in 0..MaxFaults

(* The pool is closed last: the loops have returned before, so that none   *)
(* loses a verdict or a result to a closed pool (only housekeep may), and  *)
(* it turns a request away only if that outlasted Shutdown.                *)
PoolClosesLast == /\ closed => LoopsOver /\ refused \cap Awaited = {}
                  /\ refused \cap Request # {} => overrun

(* The process goes down by a signal or by a refused start, not because it *)
(* lost its port; the exception is a Discord tick of zero.                 *)
OnlySignalsStop ==
    [][main' = "exited" => \/ signalled
                           \/ main \in {"load", "open"}
                           \/ Config.discord /\ Config.tick = 0]_vars

(* "A health check that fails when Postgres blips gets the container       *)
(* killed": /health and /ready are answered though the database is not, no *)
(* connection is free and edge requests hang.                              *)
ProbesAnswered ==
    \A s \in Slot : task[s] \in {"health", "ping", "backlog"} ~> task[s] \notin Request

(* After a signal the process exits whatever its requests do, provided the *)
(* database answers what was sent to it.                                   *)
ExitsAfterSignal ==
    (\A s \in Slot : WF_vars(Return(s))) => (signalled ~> main = "exited")
=============================================================================

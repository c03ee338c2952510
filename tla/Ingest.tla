------------------------------- MODULE Ingest -------------------------------
(***************************************************************************)
(* internal/edge, the write path: game clients push batches of events, the *)
(* handler of each request authenticates the caller and stores the events  *)
(* one statement at a time, and a client that got no 202 pushes again.     *)
(***************************************************************************)
EXTENDS Integers, Sequences, FiniteSets, Functions

CONSTANTS Client,    (* plugin installations, each with its token          *)
          Conn,      (* handler goroutines                                 *)
          Event,     (* what happened in the game                          *)
          Batch,     (* the batch each client pushes                       *)
          Keyed,     (* events sent with a dedupe key (of their own)       *)
          Blank,     (* events sent without a kind                         *)
          TooLong,   (* clients whose batch is longer than MaxIngestBody   *)
          NoClient,
          MaxPosts,  (* bound: requests of each client that may be lost    *)
          MaxFaults  (* bound: failed statements and crashes               *)

(* A push without an "events" array is a batch of one.                     *)
ASSUME BatchAssumption == Batch \in [Client -> Seq(Event) \ {<<>>}]
ASSUME EventAssumption == Keyed \subseteq Event /\ Blank \subseteq Event
ASSUME FiniteAssumption == IsFiniteSet(Conn) /\ IsFiniteSet(Event)
ASSUME BodyAssumption == TooLong \subseteq Client
ASSUME NoClientAssumption == NoClient \notin Client
ASSUME BoundAssumption == MaxPosts \in Nat /\ MaxFaults \in Nat

VARIABLES
  rows,      (* rows of forge_plugin_ingest_events made of each event      *)
  revoked,   (* clients whose token is revoked                             *)
  client,    (* each client: "ready" to push, "waiting", or done           *)
  hpc,       (* each handler: "free", "auth", "decode" or in the "loop"    *)
  caller,    (* whose request it handles                                   *)
  listening, (* is the client still there?                                 *)
  pos,       (* the event the loop is at                                   *)
  accepted, duplicates,
  ingested,  (* what the process has counted as stored, its periodic       *)
             (* reports included                                           *)
  lost,      (* posts of each client that got no answer; see MaxPosts      *)
  faults     (* bounded by MaxFaults                                       *)

hvars == <<hpc, caller, listening, pos, accepted, duplicates>>
vars == <<rows, revoked, client, hvars, ingested, lost, faults>>

Init == /\ rows = [e \in Event |-> 0]
        /\ revoked = {}
        /\ client = [c \in Client |-> "ready"]
        /\ hpc = [h \in Conn |-> "free"]
        /\ caller = [h \in Conn |-> NoClient]
        /\ listening = [h \in Conn |-> FALSE]
        /\ pos = [h \in Conn |-> 0]
        /\ accepted = [h \in Conn |-> 0]
        /\ duplicates = [h \in Conn |-> 0]
        /\ ingested = 0
        /\ lost = [c \in Client |-> 0]
        /\ faults = 0

Fault == faults < MaxFaults /\ faults' = faults + 1

-----------------------------------------------------------------------------
(* A client pushes its batch, for the first time or again.                 *)
Post(c, h) ==
    /\ client[c] = "ready" /\ hpc[h] = "free"
    /\ client' = [client EXCEPT ![c] = "waiting"]
    /\ hpc' = [hpc EXCEPT ![h] = "auth"]
    /\ caller' = [caller EXCEPT ![h] = c]
    /\ listening' = [listening EXCEPT ![h] = TRUE]
    /\ pos' = [pos EXCEPT ![h] = 1]
    /\ UNCHANGED <<rows, revoked, accepted, duplicates, ingested, lost, faults>>

(* The handler ends with an answer; a client that has hung up misses it.   *)
(* The plugin pushes again after anything but a 202 or a 4xx.              *)
Free(h) == /\ hpc' = [hpc EXCEPT ![h] = "free"]
           /\ caller' = [caller EXCEPT ![h] = NoClient]
           /\ listening' = [listening EXCEPT ![h] = FALSE]
           /\ pos' = [pos EXCEPT ![h] = 0]
           /\ accepted' = [accepted EXCEPT ![h] = 0]
           /\ duplicates' = [duplicates EXCEPT ![h] = 0]

Reply(h, then) ==
    /\ client' = IF listening[h] THEN [client EXCEPT ![caller[h]] = then] ELSE client
    /\ Free(h)

(* authed: the credential is looked up once per request.                   *)
Authed(h) ==
    /\ hpc[h] = "auth" /\ caller[h] \notin revoked
    /\ hpc' = [hpc EXCEPT ![h] = "decode"]
    /\ UNCHANGED <<rows, revoked, client, caller, listening, pos, accepted, duplicates,
                   ingested, lost, faults>>

Unauthorized(h) ==
    /\ hpc[h] = "auth" /\ caller[h] \in revoked
    /\ Reply(h, "rejected")
    /\ UNCHANGED <<rows, revoked, ingested, lost, faults>>

(* The lookup errs, or the request's context ended with the connection.    *)
AuthFails(h) ==
    /\ hpc[h] = "auth"
    /\ IF listening[h] THEN Fault ELSE UNCHANGED faults
    /\ Reply(h, "ready")
    /\ UNCHANGED <<rows, revoked, ingested, lost>>

(* The whole body is read and decoded before the first event is stored.    *)
Decode(h) ==
    /\ hpc[h] = "decode" /\ caller[h] \notin TooLong
    /\ hpc' = [hpc EXCEPT ![h] = "loop"]
    /\ UNCHANGED <<rows, revoked, client, caller, listening, pos, accepted, duplicates,
                   ingested, lost, faults>>

(* The body is cut, by the limit or with the connection: 400.              *)
Malformed(h) ==
    /\ hpc[h] = "decode" /\ (caller[h] \in TooLong \/ ~listening[h])
    /\ Reply(h, "rejected")
    /\ UNCHANGED <<rows, revoked, ingested, lost, faults>>

Loop(h) == hpc[h] = "loop" /\ pos[h] <= Len(Batch[caller[h]])
EventAt(h) == Batch[caller[h]][pos[h]]

(* Mutant of Duplicate: no unique index.                                   *)
DuplicateNever(e) == FALSE

(* ON CONFLICT (dedupe_key) WHERE dedupe_key IS NOT NULL DO NOTHING.       *)
Duplicate(e) == e \in Keyed /\ rows[e] > 0
Insert(e) == rows' = IF Duplicate(e) THEN rows ELSE [rows EXCEPT ![e] = @ + 1]

(* Mutant of Store: without DO NOTHING, a repeated key is a 500.           *)
StoreConflictErrs(h) ==
    /\ Loop(h) /\ EventAt(h) \notin Blank
    /\ Insert(EventAt(h))
    /\ IF Duplicate(EventAt(h))
         THEN Reply(h, "ready")
         ELSE /\ accepted' = [accepted EXCEPT ![h] = @ + 1]
              /\ pos' = [pos EXCEPT ![h] = @ + 1]
              /\ UNCHANGED <<client, hpc, caller, listening, duplicates>>
    /\ UNCHANGED <<revoked, ingested, lost, faults>>

Store(h) ==
    /\ Loop(h) /\ EventAt(h) \notin Blank
    /\ Insert(EventAt(h))
    /\ IF Duplicate(EventAt(h))
         THEN /\ duplicates' = [duplicates EXCEPT ![h] = @ + 1]
              /\ UNCHANGED accepted
         ELSE /\ accepted' = [accepted EXCEPT ![h] = @ + 1]
              /\ UNCHANGED duplicates
    /\ pos' = [pos EXCEPT ![h] = @ + 1]
    /\ UNCHANGED <<revoked, client, hpc, caller, listening, ingested, lost, faults>>

(* An event without a kind: 400, and what came before it stays stored.     *)
BlankKind(h) ==
    /\ Loop(h) /\ EventAt(h) \in Blank
    /\ Reply(h, "rejected")
    /\ UNCHANGED <<rows, revoked, ingested, lost, faults>>

(* The statement errs, by a fault or since the request's context ended     *)
(* with the client's connection; it may have committed all the same.       *)
StoreFails(h) ==
    /\ Loop(h) /\ EventAt(h) \notin Blank
    /\ IF listening[h] THEN Fault ELSE UNCHANGED faults
    /\ rows' = rows \/ Insert(EventAt(h))
    /\ Reply(h, "ready")
    /\ UNCHANGED <<revoked, ingested, lost>>

(* Mutant of Accept: 202 before the last event of the batch.               *)
AcceptEarly(h) ==
    /\ hpc[h] = "loop" /\ pos[h] >= Len(Batch[caller[h]])
    /\ ingested' = ingested + accepted[h]
    /\ Reply(h, "acked")
    /\ UNCHANGED <<rows, revoked, lost, faults>>

(* Mutant of Accept: what the batch holds is counted.                      *)
AcceptCountsAll(h) ==
    /\ hpc[h] = "loop" /\ pos[h] > Len(Batch[caller[h]])
    /\ ingested' = ingested + accepted[h] + duplicates[h]
    /\ Reply(h, "acked")
    /\ UNCHANGED <<rows, revoked, lost, faults>>

(* 202, and the counters.                                                  *)
Accept(h) ==
    /\ hpc[h] = "loop" /\ pos[h] > Len(Batch[caller[h]])
    /\ ingested' = ingested + accepted[h]
    /\ Reply(h, "acked")
    /\ UNCHANGED <<rows, revoked, lost, faults>>

Handle(h) == \/ Authed(h) \/ Unauthorized(h) \/ AuthFails(h)
             \/ Decode(h) \/ Malformed(h)
             \/ Store(h) \/ BlankKind(h) \/ StoreFails(h) \/ Accept(h)

-----------------------------------------------------------------------------
(* The connection breaks or the client's timeout ends: the handler may run *)
(* on, while the client pushes again.                                      *)
HangUp(h) ==
    /\ hpc[h] # "free" /\ listening[h]
    /\ lost[caller[h]] < MaxPosts
    /\ lost' = [lost EXCEPT ![caller[h]] = @ + 1]
    /\ listening' = [listening EXCEPT ![h] = FALSE]
    /\ client' = [client EXCEPT ![caller[h]] = "ready"]
    /\ UNCHANGED <<rows, revoked, hpc, caller, pos, accepted, duplicates, ingested, faults>>

(* The Site revokes a token.                                               *)
Revoke(c) == /\ c \notin revoked
             /\ revoked' = revoked \cup {c}
             /\ UNCHANGED <<rows, client, hvars, ingested, lost, faults>>

(* The process dies with its handlers and its counters.                    *)
Crash ==
    /\ Fault
    /\ client' = [c \in Client |-> IF client[c] = "waiting" THEN "ready" ELSE client[c]]
    /\ hpc' = [h \in Conn |-> "free"]
    /\ caller' = [h \in Conn |-> NoClient]
    /\ listening' = [h \in Conn |-> FALSE]
    /\ pos' = [h \in Conn |-> 0]
    /\ accepted' = [h \in Conn |-> 0]
    /\ duplicates' = [h \in Conn |-> 0]
    /\ ingested' = 0
    /\ UNCHANGED <<rows, revoked, lost>>

Next == \/ \E c \in Client : (\E h \in Conn : Post(c, h)) \/ Revoke(c)
        \/ \E h \in Conn : Handle(h) \/ HangUp(h)
        \/ Crash

Spec == Init /\ [][Next]_vars

(* Handlers run to their end and clients push again until they are told.   *)
FairSpec == /\ Spec
            /\ \A h \in Conn : WF_vars(Handle(h))
            /\ \A c \in Client : SF_vars(\E h \in Conn : Post(c, h))
-----------------------------------------------------------------------------
(* Properties.                                                             *)

(* The type invariant of the table, the clients and the handlers.          *)
TypeOK == /\ rows \in [Event -> Nat]
          /\ revoked \subseteq Client
          /\ client \in [Client -> {"ready", "waiting", "acked", "rejected"}]
          /\ hpc \in [Conn -> {"free", "auth", "decode", "loop"}]
          /\ caller \in [Conn -> Client \cup {NoClient}]
          /\ listening \in [Conn -> BOOLEAN]
          /\ pos \in [Conn -> Nat]
          /\ accepted \in [Conn -> Nat] /\ duplicates \in [Conn -> Nat]
          /\ ingested \in Nat
          /\ lost \in [Client -> 0..MaxPosts] /\ faults \in 0..MaxFaults

(* "A retried kill must not credit twice": one row for each keyed event,   *)
(* though an abandoned handler and the retry store the batch side by side. *)
NoDoubleCredit == \A e \in Keyed : rows[e] <= 1

(* "202: the events are durably stored", every one of the batch.           *)
AckedIsStored ==
    \A c \in Client : client[c] = "acked" =>
        \A n \in DOMAIN Batch[c] : rows[Batch[c][n]] > 0

(* The counter and the answers under way never claim more than the table   *)
(* holds, although retries and concurrent handlers see the same events.    *)
CountersHonest ==
    ingested + SumFunction(accepted) <= SumFunction(rows)

(* A client whose batch is well-formed and whose token is not revoked has  *)
(* its push accepted in the end, whatever was lost on the way.             *)
EveryPushLands ==
    \A c \in Client \ TooLong : (\A n \in DOMAIN Batch[c] : Batch[c][n] \notin Blank) =>
        <>(client[c] = "acked" \/ c \in revoked)
=============================================================================

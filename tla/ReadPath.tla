------------------------------ MODULE ReadPath ------------------------------
(***************************************************************************)
(* internal/edge, the read path: plugins poll for the document the Site    *)
(* has bound to their token, naming the versions they already hold; the    *)
(* handler of each request authenticates, loads the bound payload in one   *)
(* statement and answers with a 304 or with the body.                      *)
(*                                                                         *)
(* A payload is named by its content (the base64 part of its ETag).        *)
(***************************************************************************)
EXTENDS Integers, FiniteSets

CONSTANTS Client,      (* plugin installations, each with its token        *)
          Conn,        (* handler goroutines                               *)
          Poll,        (* <<client, route>>: what is polled                *)
          Version,     (* payloads the Site renders                        *)
          Zipped,      (* those stored with encoding 'gzip'                *)
          Damaged,     (* of these, the ones that do not decompress        *)
          Accept,      (* Accept-Encoding of each client: <<coding, q>>    *)
          Anything,    (* clients that send If-None-Match: *               *)
          None,
          MaxChanges,  (* bound: changes the Site makes                    *)
          MaxLosses    (* bound: lost answers, bad requests, failed lookups*)

Route == {"config", "board", "preview"}
ASSUME PollAssumption == Poll \subseteq Client \X Route
ASSUME VersionAssumption == Damaged \subseteq Zipped /\ Zipped \subseteq Version
ASSUME NoneAssumption == None \notin Version \cup Client \cup Poll \cup Conn
ASSUME BoundAssumption == MaxChanges \in Nat /\ MaxLosses \in Nat

VARIABLES
  bound,    (* the version bound to each scope                             *)
  revoked,  (* clients whose token is revoked                              *)
  held,     (* versions each poller has a copy of                          *)
  shown,    (* the one it takes for current                                *)
  waits,    (* the handler whose answer it waits for                       *)
  hpc,      (* each handler: "free", "auth", "load", "answer" or "sent"    *)
  req,      (* the poll it serves                                          *)
  tags,     (* its If-None-Match                                           *)
  payload,  (* what load returned                                          *)
  reply,    (* the answer on its way to the client                         *)
  seen,     (* history: what was bound to its scope since it began         *)
  barred,   (* history: was the token revoked before it began?             *)
  changes,  (* bounded by MaxChanges                                       *)
  losses    (* bounded by MaxLosses                                        *)

svars == <<bound, revoked, changes>>
cvars == <<held, shown, waits>>
vars == <<svars, cvars, hpc, req, tags, payload, reply, seen, barred, losses>>

(* The primary key of the row that binds a payload: token and kind, or the *)
(* event of a preview (one event is enough).                               *)
ScopeOf(p) == IF p[2] = "preview" THEN <<None, "preview">> ELSE p
Scope == {ScopeOf(p) : p \in Poll}

(* A tag is a version and whether it carries the W/ prefix; the Site's do. *)
AnyTag == <<None, FALSE>>
ETag(v) == <<v, TRUE>>
TrimPrefix(tag) == tag[1]
Tag == (Version \cup {None}) \X BOOLEAN

NoReply == [status |-> 0, version |-> None, coding |-> "none", counted |-> "none"]
Answer(status) == [NoReply EXCEPT !.status = status]

Init == /\ bound = [s \in Scope |-> None]
        /\ revoked = {}
        /\ held = [p \in Poll |-> {}]
        /\ shown = [p \in Poll |-> None]
        /\ waits = [p \in Poll |-> None]
        /\ hpc = [h \in Conn |-> "free"]
        /\ req = [h \in Conn |-> None]
        /\ tags = [h \in Conn |-> {}]
        /\ payload = [h \in Conn |-> None]
        /\ reply = [h \in Conn |-> NoReply]
        /\ seen = [h \in Conn |-> {}]
        /\ barred = [h \in Conn |-> FALSE]
        /\ changes = 0
        /\ losses = 0

Lose == losses < MaxLosses /\ losses' = losses + 1

-----------------------------------------------------------------------------
(* A plugin polls.  Some HTTP stacks strip the W/ prefix in transit.       *)
Request(p, h) ==
    /\ waits[p] = None /\ hpc[h] = "free"
    /\ waits' = [waits EXCEPT ![p] = h]
    /\ hpc' = [hpc EXCEPT ![h] = "auth"]
    /\ req' = [req EXCEPT ![h] = p]
    /\ \E weak \in BOOLEAN :
         tags' = [tags EXCEPT ![h] = IF p[1] \in Anything THEN {AnyTag}
                                     ELSE {<<v, weak>> : v \in held[p]}]
    /\ seen' = [seen EXCEPT ![h] = {bound[ScopeOf(p)]}]
    /\ barred' = [barred EXCEPT ![h] = p[1] \in revoked]
    /\ UNCHANGED <<svars, held, shown, payload, reply, losses>>

Reply(h, r) == /\ hpc' = [hpc EXCEPT ![h] = "sent"]
               /\ reply' = [reply EXCEPT ![h] = r]

(* The request was a bad one: 405 for another method, 400 for an eventId   *)
(* that is no positive number.                                             *)
Malformed(h) ==
    /\ hpc[h] = "auth" /\ Lose
    /\ \E status \in IF req[h][2] = "preview" THEN {400, 405} ELSE {405} :
         Reply(h, Answer(status))
    /\ UNCHANGED <<svars, cvars, req, tags, payload, seen, barred>>

(* Mutant of NeedsToken: a board needs no token either.                    *)
NeedsTokenConfigOnly(route) == route = "config"

(* Previews are anonymous.                                                 *)
NeedsToken(route) == route \in {"config", "board"}

(* authed: the credential is looked up once per request.                   *)
Authed(h) ==
    /\ hpc[h] = "auth"
    /\ NeedsToken(req[h][2]) => req[h][1] \notin revoked
    /\ hpc' = [hpc EXCEPT ![h] = "load"]
    /\ UNCHANGED <<svars, cvars, req, tags, payload, reply, seen, barred, losses>>

Unauthorized(h) ==
    /\ hpc[h] = "auth" /\ NeedsToken(req[h][2]) /\ req[h][1] \in revoked
    /\ Reply(h, Answer(401))
    /\ UNCHANGED <<svars, cvars, req, tags, payload, seen, barred, losses>>

(* A lookup errs, by a fault or since the client is gone: 500.             *)
LookupFails(h) ==
    /\ \/ hpc[h] = "auth" /\ NeedsToken(req[h][2])
       \/ hpc[h] = "load"
    /\ IF waits[req[h]] = h THEN Lose ELSE UNCHANGED losses
    /\ Reply(h, Answer(500))
    /\ UNCHANGED <<svars, cvars, req, tags, payload, seen, barred>>

(* BoundPayload and PublicPayload: one join, so etag, body and encoding    *)
(* belong together.                                                        *)
Load(h) ==
    /\ hpc[h] = "load"
    /\ payload' = [payload EXCEPT ![h] = bound[ScopeOf(req[h])]]
    /\ hpc' = [hpc EXCEPT ![h] = "answer"]
    /\ UNCHANGED <<svars, cvars, req, tags, reply, seen, barred, losses>>

(* Mutants of matchesETag: prefixes are compared; any condition will do.   *)
MatchesExactly(ifNoneMatch, current) ==
    \E tag \in ifNoneMatch : tag \in {AnyTag, current}
MatchesAlways(ifNoneMatch, current) == ifNoneMatch # {}

(* If-None-Match against the current tag, by weak comparison.              *)
matchesETag(ifNoneMatch, current) ==
    \E tag \in ifNoneMatch : tag = AnyTag \/ TrimPrefix(tag) = TrimPrefix(current)

(* The coding is looked for by name, whatever its q.                       *)
acceptsGzip(header) == \E part \in header : part[1] = "gzip"

(* What the 200 branch sends: bytes as they are stored, or unpacked.       *)
Body(v, header) ==
    IF v \in Zipped /\ acceptsGzip(header)
      THEN [status |-> 200, version |-> v, coding |-> "gzip", counted |-> "served"]
    ELSE IF v \in Damaged
      THEN [status |-> 500, version |-> v, coding |-> "none", counted |-> "served"]
    ELSE [status |-> 200, version |-> v, coding |-> "identity", counted |-> "served"]

(* Mutants of Payload: a 204 when nothing is bound; the ETag header is set *)
(* for a 200 only.                                                         *)
PayloadNoContent(v, ifNoneMatch, header) ==
    IF v = None THEN Answer(204) ELSE Body(v, header)
PayloadBare304(v, ifNoneMatch, header) ==
    IF v = None THEN Answer(404)
    ELSE IF matchesETag(ifNoneMatch, ETag(v))
      THEN [Answer(304) EXCEPT !.counted = "notModified"]
    ELSE Body(v, header)

(* The rest of servePayload.  Every answer after the load has the ETag.    *)
Payload(v, ifNoneMatch, header) ==
    IF v = None THEN Answer(404)
    ELSE IF matchesETag(ifNoneMatch, ETag(v))
      THEN [Answer(304) EXCEPT !.version = v, !.counted = "notModified"]
    ELSE Body(v, header)

servePayload(h) ==
    /\ hpc[h] = "answer"
    /\ Reply(h, Payload(payload[h], tags[h], Accept[req[h][1]]))
    /\ UNCHANGED <<svars, cvars, req, tags, payload, seen, barred, losses>>

Handle(h) == \/ Malformed(h) \/ Authed(h) \/ Unauthorized(h) \/ LookupFails(h)
             \/ Load(h) \/ servePayload(h)

-----------------------------------------------------------------------------
(* The answer reaches the plugin, if it still waits for it.                *)
Receive(h) ==
    /\ hpc[h] = "sent"
    /\ LET p == req[h]
           r == reply[h]
           heard == waits[p] = h
       IN  /\ waits' = IF heard THEN [waits EXCEPT ![p] = None] ELSE waits
           /\ shown' = IF heard /\ r.status \in {200, 304} /\ r.version # None
                         THEN [shown EXCEPT ![p] = r.version] ELSE shown
           /\ held' = IF heard /\ r.status = 200
                        THEN [held EXCEPT ![p] = @ \cup {r.version}] ELSE held
    /\ hpc' = [hpc EXCEPT ![h] = "free"]
    /\ req' = [req EXCEPT ![h] = None]
    /\ tags' = [tags EXCEPT ![h] = {}]
    /\ payload' = [payload EXCEPT ![h] = None]
    /\ reply' = [reply EXCEPT ![h] = NoReply]
    /\ seen' = [seen EXCEPT ![h] = {}]
    /\ barred' = [barred EXCEPT ![h] = FALSE]
    /\ UNCHANGED <<svars, losses>>

(* The plugin's timeout ends or the game client is restarted: the handler  *)
(* runs on, and what it sends is for nobody.                               *)
GiveUp(p) ==
    /\ waits[p] # None /\ Lose
    /\ waits' = [waits EXCEPT ![p] = None]
    /\ \/ UNCHANGED <<held, shown>>
       \/ /\ held' = [held EXCEPT ![p] = {}]
          /\ shown' = [shown EXCEPT ![p] = None]
    /\ UNCHANGED <<svars, hpc, req, tags, payload, reply, seen, barred>>

Change == changes < MaxChanges /\ changes' = changes + 1

(* The Site binds scopes to other payloads; a payload it deletes takes its *)
(* bindings along (ON DELETE CASCADE).                                     *)
Rebind(new) ==
    /\ Change
    /\ bound' = new
    /\ seen' = [h \in Conn |-> IF req[h] = None THEN {}
                               ELSE seen[h] \cup {new[ScopeOf(req[h])]}]
    /\ UNCHANGED <<revoked, cvars, hpc, req, tags, payload, reply, barred, losses>>

Bind(s, v) == bound[s] # v /\ Rebind([bound EXCEPT ![s] = v])
Delete(v) == /\ \E s \in Scope : bound[s] = v
             /\ Rebind([s \in Scope |-> IF bound[s] = v THEN None ELSE bound[s]])

Revoke(c) ==
    /\ c \notin revoked /\ Change
    /\ revoked' = revoked \cup {c}
    /\ UNCHANGED <<bound, cvars, hpc, req, tags, payload, reply, seen, barred, losses>>

Next == \/ \E p \in Poll : (\E h \in Conn : Request(p, h)) \/ GiveUp(p)
        \/ \E h \in Conn : Handle(h) \/ Receive(h)
        \/ \E s \in Scope, v \in Version : Bind(s, v)
        \/ \E v \in Version : Delete(v)
        \/ \E c \in Client : Revoke(c)

Spec == Init /\ [][Next]_vars

(* Plugins go on polling, and handlers run to their end.                   *)
FairSpec == /\ Spec
            /\ \A h \in Conn : WF_vars(Handle(h)) /\ WF_vars(Receive(h))
            /\ \A p \in Poll : SF_vars(\E h \in Conn : Request(p, h))
-----------------------------------------------------------------------------
(* Properties.                                                             *)

(* The type invariant of the bindings, the pollers and the handlers.       *)
TypeOK ==
    /\ bound \in [Scope -> Version \cup {None}]
    /\ revoked \subseteq Client
    /\ held \in [Poll -> SUBSET Version]
    /\ shown \in [Poll -> Version \cup {None}]
    /\ waits \in [Poll -> Conn \cup {None}]
    /\ hpc \in [Conn -> {"free", "auth", "load", "answer", "sent"}]
    /\ req \in [Conn -> Poll \cup {None}]
    /\ tags \in [Conn -> SUBSET Tag]
    /\ payload \in [Conn -> Version \cup {None}]
    /\ reply \in [Conn -> [status : {0, 200, 304, 400, 401, 404, 405, 500},
                           version : Version \cup {None},
                           coding : {"none", "gzip", "identity"},
                           counted : {"none", "served", "notModified"}]]
    /\ seen \in [Conn -> SUBSET (Version \cup {None})]
    /\ barred \in [Conn -> BOOLEAN]
    /\ changes \in 0..MaxChanges /\ losses \in 0..MaxLosses

(* An answer that is on its way to somebody who waits for it.              *)
Heard(h) == hpc[h] = "sent" /\ waits[req[h]] = h

(* However the Site rebinds, deletes and revokes beside the handlers: a    *)
(* document or a 304 names a version that was bound to the caller's own    *)
(* scope while the request ran, and nobody whose token was revoked before  *)
(* the request gets one.                                                   *)
AnswersOwnBinding ==
    \A h \in Conn : hpc[h] = "sent" /\ reply[h].status \in {200, 304} =>
        /\ reply[h].version \in seen[h]
        /\ req[h][2] # "preview" => ~barred[h]

(* A plugin that is told "not modified" has the version that is current.   *)
NotModifiedIsHeld ==
    \A h \in Conn : Heard(h) /\ reply[h].status = 304 /\ req[h][1] \notin Anything =>
        reply[h].version \in held[req[h]]

(* "A conditional request that we fail to recognise costs a full body":    *)
(* nobody is sent a body it holds, whatever became of the W/ prefix.       *)
NoBodyTwice ==
    \A h \in Conn : Heard(h) /\ reply[h].status = 200 =>
        reply[h].version \notin held[req[h]] \/ req[h][1] \in Anything

(* Once the Site leaves its bindings alone, every plugin that may see one  *)
(* shows it, although answers cross each other and its copies are many.    *)
Servable(p) ==
    LET v == bound[ScopeOf(p)]
    IN  /\ v # None
        /\ v \in Damaged => acceptsGzip(Accept[p[1]])
        /\ p[2] # "preview" => p[1] \notin revoked
EventuallyCurrent ==
    \A p \in Poll : p[1] \notin Anything =>
        <>[](Servable(p) => shown[p] = bound[ScopeOf(p)])
=============================================================================

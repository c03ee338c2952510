----------------------------- MODULE ReadProofs -----------------------------
(***************************************************************************)
(* Theorems about ReadPath, for every number of plugins, handlers and      *)
(* payloads, whatever the Site rebinds, deletes and revokes meanwhile.     *)
(***************************************************************************)
EXTENDS ReadPath, TLAPS

(* A handler that is not free serves a poll, and what is bound to its      *)
(* scope now is in its history; a token barred when it began is revoked.   *)
Attended(h) ==
    /\ hpc[h] = "free" => req[h] = None
    /\ hpc[h] # "free" => /\ req[h] \in Poll
                          /\ bound[ScopeOf(req[h])] \in seen[h]
                          /\ barred[h] => req[h][1] \in revoked

(* Who gets past authed needs no token or had a good one; what load has    *)
(* returned, and what an answer names, was bound while the request ran.    *)
Entitled(h) == req[h][2] # "preview" => ~barred[h]
Loaded(h) ==
    /\ hpc[h] \in {"load", "answer"} => Entitled(h)
    /\ hpc[h] = "answer" => payload[h] \in seen[h]
    /\ hpc[h] = "sent" /\ reply[h].status \in {200, 304} =>
          reply[h].version \in seen[h] \ {None} /\ Entitled(h)

(* As long as the plugin waits, the tags of its request name what it       *)
(* holds, and so the answer is right about that.                           *)
Waited(h) == hpc[h] # "free" /\ waits[req[h]] = h /\ req[h][1] \notin Anything
Told(h) ==
    Waited(h) =>
        /\ {TrimPrefix(tag) : tag \in tags[h]} = held[req[h]]
        /\ hpc[h] = "sent" => /\ reply[h].status = 304 => reply[h].version \in held[req[h]]
                              /\ reply[h].status = 200 => reply[h].version \notin held[req[h]]

(* A poller waits for a handler that serves it.                            *)
WaitsForOwn == \A p \in Poll : waits[p] # None => hpc[waits[p]] # "free" /\ req[waits[p]] = p

HandlerInv == \A h \in Conn : Attended(h) /\ Loaded(h) /\ Told(h)
Inv == TypeOK /\ WaitsForOwn /\ HandlerInv

-----------------------------------------------------------------------------
LEMMA ScopeOfPoll == \A p \in Poll : ScopeOf(p) \in Scope
  BY DEF Scope

LEMMA PollFacts ==
    /\ None \notin Poll /\ None \notin Conn /\ None \notin Version
    /\ \A p \in Poll : p[1] \in Client /\ p[2] \in Route
  BY PollAssumption, NoneAssumption

(* Every answer is typed; a 200 or a 304 names the payload that was        *)
(* loaded, and which of them it is depends on If-None-Match alone.         *)
Status == {0, 200, 304, 400, 401, 404, 405, 500}
ReplyType == [status : Status, version : Version \cup {None},
              coding : {"none", "gzip", "identity"},
              counted : {"none", "served", "notModified"}]

LEMMA AnswerFacts ==
    ASSUME NEW s \in Status
    PROVE  Answer(s) \in ReplyType /\ Answer(s).status = s
  BY DEF Answer, NoReply, ReplyType

NotModified(v) == [Answer(304) EXCEPT !.version = v, !.counted = "notModified"]

LEMMA NotModifiedFacts ==
    ASSUME NEW v \in Version
    PROVE  /\ NotModified(v) \in ReplyType
           /\ NotModified(v).version = v /\ NotModified(v).status = 304
<1> DEFINE r == Answer(304)
           q == [r EXCEPT !.version = v]
<1>1. r \in ReplyType /\ r.status = 304
  BY AnswerFacts DEF Status
<1>2. NotModified(v) = [q EXCEPT !.counted = "notModified"]
  BY DEF NotModified
<1> HIDE DEF r
<1>3. q \in ReplyType /\ q.status = 304 /\ q.version = v
  BY <1>1 DEF ReplyType
<1> HIDE DEF q
<1>4. [q EXCEPT !.counted = "notModified"] \in ReplyType
      /\ [q EXCEPT !.counted = "notModified"].status = 304
      /\ [q EXCEPT !.counted = "notModified"].version = v
  BY <1>3 DEF ReplyType
<1> QED BY <1>2, <1>4

LEMMA BodyFacts ==
    ASSUME NEW v \in Version, NEW header
    PROVE  /\ Body(v, header) \in ReplyType
           /\ Body(v, header).version = v /\ Body(v, header).status # 304
  BY DEF Body, ReplyType, Status

LEMMA PayloadFacts ==
    ASSUME NEW v \in Version \cup {None}, NEW tgs, NEW header
    PROVE  LET r == Payload(v, tgs, header)
           IN  /\ r \in ReplyType
               /\ r.status \in {200, 304} => r.version = v /\ v # None
               /\ r.status = 304 => matchesETag(tgs, ETag(v))
               /\ r.status = 200 => ~matchesETag(tgs, ETag(v))
<1>1. CASE v = None
  BY <1>1, AnswerFacts DEF Payload, Status
<1>2. CASE v # None /\ matchesETag(tgs, ETag(v))
  <2>1. Payload(v, tgs, header) = NotModified(v)
    BY <1>2 DEF Payload, NotModified
  <2> QED BY <1>2, <2>1, NotModifiedFacts
<1>3. CASE v # None /\ ~matchesETag(tgs, ETag(v))
  <2>1. Payload(v, tgs, header) = Body(v, header)
    BY <1>3 DEF Payload
  <2> QED BY <1>3, <2>1, BodyFacts
<1> QED BY <1>1, <1>2, <1>3

(* Weak comparison against a list without "*" looks for the version.       *)
LEMMA MatchesByVersion ==
    ASSUME NEW tgs, NEW v, {TrimPrefix(tag) : tag \in tgs} \subseteq Version
    PROVE  matchesETag(tgs, ETag(v)) <=> v \in {TrimPrefix(tag) : tag \in tgs}
<1>1. ASSUME NEW tag \in tgs PROVE tag # AnyTag
  <2>1. TrimPrefix(tag) \in Version
    OBVIOUS
  <2>2. TrimPrefix(AnyTag) = None
    BY DEF AnyTag, TrimPrefix
  <2> QED BY <2>1, <2>2, PollFacts
<1>2. TrimPrefix(ETag(v)) = v
  BY DEF TrimPrefix, ETag
<1> QED BY <1>1, <1>2 DEF matchesETag

-----------------------------------------------------------------------------
LEMMA InitInv == Init => Inv
<1> SUFFICES ASSUME Init PROVE Inv
  OBVIOUS
<1>1. NoReply \in ReplyType
  BY DEF NoReply, ReplyType, Status
<1>2. TypeOK
  BY <1>1, BoundAssumption DEF Init, TypeOK, ReplyType, Status
<1>3. WaitsForOwn
  BY DEF Init, WaitsForOwn
<1>4. HandlerInv
  BY DEF Init, HandlerInv, Attended, Loaded, Told, Waited
<1> QED BY <1>2, <1>3, <1>4 DEF Inv

(* A step that leaves handler g alone: what was bound to its scope, who is *)
(* revoked and whether it is waited for may only change as they can.       *)
Untouched(g) ==
    /\ hpc'[g] = hpc[g] /\ req'[g] = req[g] /\ tags'[g] = tags[g]
    /\ payload'[g] = payload[g] /\ reply'[g] = reply[g] /\ barred'[g] = barred[g]
    /\ hpc[g] # "free" => /\ seen[g] \subseteq seen'[g]
                          /\ bound'[ScopeOf(req[g])] \in seen'[g]
                          /\ waits'[req[g]] = g =>
                                waits[req[g]] = g /\ held'[req[g]] = held[req[g]]
    /\ revoked \subseteq revoked'

LEMMA UntouchedKeeps ==
    ASSUME HandlerInv, NEW g \in Conn, Untouched(g)
    PROVE  Attended(g)' /\ Loaded(g)' /\ Told(g)'
<1>1. Attended(g) /\ Loaded(g) /\ Told(g)
  BY DEF HandlerInv
<1>2. Attended(g)'
  BY <1>1 DEF Untouched, Attended
<1>3. Loaded(g)'
  BY <1>1 DEF Untouched, Loaded, Entitled
<1>4. Told(g)'
  BY <1>1 DEF Untouched, Told, Waited
<1> QED BY <1>2, <1>3, <1>4

(* A step of handler h itself: bindings, pollers, the request and its      *)
(* history are as before, other handlers where they were.                  *)
Working(h) ==
    /\ UNCHANGED <<svars, cvars, req, tags, seen, barred>>
    /\ \A g \in Conn \ {h} :
          hpc'[g] = hpc[g] /\ payload'[g] = payload[g] /\ reply'[g] = reply[g]
    /\ hpc[h] # "free" /\ hpc'[h] # "free"

LEMMA WorkingKeeps ==
    ASSUME Inv, TypeOK', NEW h \in Conn, Working(h), Loaded(h)',
           Waited(h) /\ hpc'[h] = "sent" =>
              /\ reply'[h].status = 304 => reply'[h].version \in held[req[h]]
              /\ reply'[h].status = 200 => reply'[h].version \notin held[req[h]]
    PROVE  Inv'
<1>1. \A g \in Conn : hpc[g] # "free" => bound[ScopeOf(req[g])] \in seen[g]
  BY DEF Inv, HandlerInv, Attended
<1>2. ASSUME NEW g \in Conn, g # h PROVE Attended(g)' /\ Loaded(g)' /\ Told(g)'
  <2>1. Untouched(g)
    BY <1>1, <1>2 DEF Working, Untouched, svars, cvars
  <2> QED BY <2>1, UntouchedKeeps DEF Inv
<1>3. Attended(h) /\ Told(h)
  BY DEF Inv, HandlerInv
<1>4. Attended(h)'
  BY <1>3 DEF Attended, Working, svars
<1>5. Told(h)'
  BY <1>3 DEF Told, Waited, Working, cvars
<1>6. WaitsForOwn'
  <2>1. \A g \in Conn : hpc[g] # "free" => hpc'[g] # "free"
    BY DEF Working
  <2>2. ASSUME NEW p \in Poll, waits[p] # None
        PROVE  waits[p] \in Conn /\ hpc[waits[p]] # "free" /\ req[waits[p]] = p
    BY <2>2 DEF Inv, TypeOK, WaitsForOwn
  <2> QED BY <2>1, <2>2 DEF WaitsForOwn, Working, cvars
<1> QED BY <1>2, <1>4, <1>5, <1>6 DEF Inv, HandlerInv

(* An answer other than a document or a 304.                               *)
LEMMA RefusalKeeps ==
    ASSUME Inv, NEW h \in Conn, hpc[h] # "free",
           NEW s \in Status \ {200, 304}, Reply(h, Answer(s)),
           UNCHANGED <<svars, cvars, req, tags, payload, seen, barred>>,
           losses' \in 0..MaxLosses
    PROVE  Inv'
<1>1. Answer(s) \in ReplyType /\ Answer(s).status = s
  BY AnswerFacts
<1>2. TypeOK'
  BY <1>1 DEF Inv, TypeOK, Reply, svars, cvars, ReplyType, Status
<1>3. hpc'[h] = "sent" /\ reply'[h].status = s
  BY <1>1 DEF Inv, TypeOK, Reply
<1>4. Working(h)
  BY <1>3 DEF Working, Reply, Inv, TypeOK
<1>5. Loaded(h)'
  BY <1>3 DEF Loaded
<1> QED BY <1>2, <1>3, <1>4, <1>5, WorkingKeeps

LEMMA LossesBounded == Lose /\ TypeOK => losses' \in 0..MaxLosses
  BY BoundAssumption DEF Lose, TypeOK

LEMMA HandleKeepsInv ==
    ASSUME Inv, NEW h \in Conn, Handle(h)
    PROVE  Inv'
<1>1. Attended(h) /\ Loaded(h) /\ Told(h) /\ TypeOK
  BY DEF Inv, HandlerInv
<1>2. CASE Malformed(h)
  <2>1. PICK s \in {400, 405} : Reply(h, Answer(s))
    BY <1>2 DEF Malformed
  <2>2. s \in Status \ {200, 304} /\ hpc[h] # "free" /\ losses' \in 0..MaxLosses
    BY <1>1, <1>2, LossesBounded DEF Malformed, Status
  <2>3. UNCHANGED <<svars, cvars, req, tags, payload, seen, barred>>
    BY <1>2 DEF Malformed
  <2> QED BY <2>1, <2>2, <2>3, RefusalKeeps
<1>3. CASE Unauthorized(h)
  <2>1. Reply(h, Answer(401)) /\ hpc[h] # "free" /\ losses' \in 0..MaxLosses
        /\ UNCHANGED <<svars, cvars, req, tags, payload, seen, barred>>
    BY <1>1, <1>3 DEF Unauthorized, TypeOK
  <2> QED BY <2>1, RefusalKeeps DEF Status
<1>4. CASE LookupFails(h)
  <2>1. losses' \in 0..MaxLosses
    BY <1>1, <1>4, LossesBounded DEF LookupFails, TypeOK
  <2>2. Reply(h, Answer(500)) /\ hpc[h] # "free"
        /\ UNCHANGED <<svars, cvars, req, tags, payload, seen, barred>>
    BY <1>4 DEF LookupFails
  <2> QED BY <2>1, <2>2, RefusalKeeps DEF Status
<1>5. CASE Authed(h)
  <2>1. hpc[h] = "auth" /\ hpc' = [hpc EXCEPT ![h] = "load"]
        /\ UNCHANGED <<svars, cvars, req, tags, payload, reply, seen, barred, losses>>
        /\ (NeedsToken(req[h][2]) => req[h][1] \notin revoked)
    BY <1>5 DEF Authed
  <2>2. TypeOK' /\ hpc'[h] = "load"
    BY <1>1, <2>1 DEF TypeOK, svars, cvars
  <2>3. Working(h)
    BY <1>1, <2>1, <2>2 DEF Working, TypeOK
  <2>4. req[h][2] # "preview" => NeedsToken(req[h][2])
    BY <1>1, <2>1, PollFacts DEF Attended, NeedsToken, Route
  <2>5. Entitled(h)
    BY <1>1, <2>1, <2>4 DEF Attended, Entitled
  <2>6. Loaded(h)'
    BY <2>1, <2>2, <2>5 DEF Loaded, Entitled
  <2> QED BY <2>2, <2>3, <2>6, WorkingKeeps
<1>6. CASE Load(h)
  <2>1. hpc[h] = "load" /\ hpc' = [hpc EXCEPT ![h] = "answer"]
        /\ payload' = [payload EXCEPT ![h] = bound[ScopeOf(req[h])]]
        /\ UNCHANGED <<svars, cvars, req, tags, reply, seen, barred, losses>>
    BY <1>6 DEF Load
  <2>2. bound[ScopeOf(req[h])] \in Version \cup {None} /\ bound[ScopeOf(req[h])] \in seen[h]
    BY <1>1, <2>1, ScopeOfPoll DEF Attended, TypeOK
  <2>3. TypeOK' /\ hpc'[h] = "answer" /\ payload'[h] = bound[ScopeOf(req[h])]
    BY <1>1, <2>1, <2>2 DEF TypeOK, svars, cvars
  <2>4. Working(h)
    BY <1>1, <2>1, <2>3 DEF Working, TypeOK
  <2>5. Loaded(h)'
    BY <1>1, <2>1, <2>2, <2>3 DEF Loaded, Entitled
  <2> QED BY <2>3, <2>4, <2>5, WorkingKeeps
<1>7. CASE servePayload(h)
  <2> DEFINE r == Payload(payload[h], tags[h], Accept[req[h][1]])
  <2>1. hpc[h] = "answer" /\ hpc' = [hpc EXCEPT ![h] = "sent"]
        /\ reply' = [reply EXCEPT ![h] = r]
        /\ UNCHANGED <<svars, cvars, req, tags, payload, seen, barred, losses>>
    BY <1>7 DEF servePayload, Reply
  <2>2. /\ r \in ReplyType
        /\ r.status \in {200, 304} => r.version = payload[h] /\ payload[h] # None
        /\ r.status = 304 => matchesETag(tags[h], ETag(payload[h]))
        /\ r.status = 200 => ~matchesETag(tags[h], ETag(payload[h]))
    <3>1. payload[h] \in Version \cup {None}
      BY <1>1 DEF TypeOK
    <3> QED BY <3>1, PayloadFacts
  <2> HIDE DEF r
  <2>3. TypeOK' /\ hpc'[h] = "sent" /\ reply'[h] = r
    BY <1>1, <2>1, <2>2 DEF TypeOK, svars, cvars, ReplyType, Status
  <2>4. Working(h)
    BY <1>1, <2>1, <2>3 DEF Working, TypeOK
  <2>5. Loaded(h)'
    BY <1>1, <2>1, <2>2, <2>3 DEF Loaded, Entitled
  <2>6. ASSUME Waited(h)
        PROVE  /\ r.status = 304 => r.version \in held[req[h]]
               /\ r.status = 200 => r.version \notin held[req[h]]
    <3>1. {TrimPrefix(tag) : tag \in tags[h]} = held[req[h]]
      BY <1>1, <2>6 DEF Told
    <3>2. held[req[h]] \subseteq Version
      BY <1>1, <2>6 DEF TypeOK, Attended, Waited
    <3>3. matchesETag(tags[h], ETag(payload[h])) <=> payload[h] \in held[req[h]]
      BY <3>1, <3>2, MatchesByVersion
    <3> QED BY <2>2, <3>3
  <2> QED BY <2>3, <2>4, <2>5, <2>6, WorkingKeeps
<1> QED BY <1>2, <1>3, <1>4, <1>5, <1>6, <1>7 DEF Handle

-----------------------------------------------------------------------------
LEMMA RequestKeepsInv ==
    ASSUME Inv, NEW p \in Poll, NEW h \in Conn, Request(p, h)
    PROVE  Inv'
<1>1. TypeOK /\ WaitsForOwn /\ HandlerInv
  BY DEF Inv
<1>2. PICK weak \in BOOLEAN :
         tags' = [tags EXCEPT ![h] = IF p[1] \in Anything THEN {AnyTag}
                                     ELSE {<<v, weak>> : v \in held[p]}]
  BY DEF Request
<1>3. /\ waits[p] = None /\ hpc[h] = "free"
      /\ waits' = [waits EXCEPT ![p] = h]
      /\ hpc' = [hpc EXCEPT ![h] = "auth"]
      /\ req' = [req EXCEPT ![h] = p]
      /\ seen' = [seen EXCEPT ![h] = {bound[ScopeOf(p)]}]
      /\ barred' = [barred EXCEPT ![h] = p[1] \in revoked]
      /\ UNCHANGED <<svars, held, shown, payload, reply, losses>>
  BY DEF Request
<1>4. bound[ScopeOf(p)] \in Version \cup {None} /\ held[p] \subseteq Version
  BY <1>1, ScopeOfPoll DEF TypeOK
<1>5. TypeOK'
  <2>1. tags' \in [Conn -> SUBSET Tag]
    <3> DEFINE T == IF p[1] \in Anything THEN {AnyTag} ELSE {<<v, weak>> : v \in held[p]}
    <3>1. AnyTag \in Tag /\ \A v \in held[p] : <<v, weak>> \in Tag
      BY <1>4 DEF AnyTag, Tag
    <3>2. T \in SUBSET Tag
      BY <3>1
    <3>3. tags' = [tags EXCEPT ![h] = T] /\ tags \in [Conn -> SUBSET Tag]
      BY <1>1, <1>2 DEF TypeOK
    <3> QED BY <3>2, <3>3
  <2>2. barred' \in [Conn -> BOOLEAN]
    <3> DEFINE b == p[1] \in revoked
    <3>1. b \in BOOLEAN /\ barred' = [barred EXCEPT ![h] = b]
      BY <1>3
    <3> HIDE DEF b
    <3> QED BY <1>1, <3>1 DEF TypeOK
  <2>3. /\ waits' \in [Poll -> Conn \cup {None}] /\ req' \in [Conn -> Poll \cup {None}]
        /\ hpc' \in [Conn -> {"free", "auth", "load", "answer", "sent"}]
        /\ seen' \in [Conn -> SUBSET (Version \cup {None})]
    BY <1>1, <1>3, <1>4 DEF TypeOK
  <2> QED BY <1>1, <1>3, <2>1, <2>2, <2>3 DEF TypeOK, svars
<1>6. /\ waits'[p] = h /\ hpc'[h] = "auth" /\ req'[h] = p
      /\ seen'[h] = {bound[ScopeOf(p)]} /\ barred'[h] = (p[1] \in revoked)
  BY <1>1, <1>3 DEF TypeOK
<1>7. ASSUME NEW g \in Conn, g # h
      PROVE  /\ hpc'[g] = hpc[g] /\ req'[g] = req[g] /\ tags'[g] = tags[g]
             /\ seen'[g] = seen[g] /\ barred'[g] = barred[g]
  BY <1>1, <1>2, <1>3, <1>7 DEF TypeOK
<1>8. \A q \in Poll : q # p => waits'[q] = waits[q]
  BY <1>1, <1>3 DEF TypeOK
<1>9. ASSUME NEW g \in Conn, g # h PROVE Attended(g)' /\ Loaded(g)' /\ Told(g)'
  <2>1. hpc[g] # "free" => req[g] \in Poll /\ bound[ScopeOf(req[g])] \in seen[g]
    BY <1>1 DEF HandlerInv, Attended
  <2>2. ASSUME hpc[g] # "free", waits'[req[g]] = g PROVE waits[req[g]] = g
    BY <1>6, <1>8, <1>9, <2>1, <2>2
  <2>3. Untouched(g)
    BY <1>3, <1>7, <1>9, <2>1, <2>2 DEF Untouched, svars
  <2> QED BY <1>1, <2>3, UntouchedKeeps
<1>10. Attended(h)' /\ Loaded(h)'
  BY <1>3, <1>6 DEF Attended, Loaded, svars
<1>11. Told(h)'
  <2>1. ASSUME p[1] \notin Anything
        PROVE  {TrimPrefix(tag) : tag \in tags'[h]} = held[p]
    <3>1. tags'[h] = {<<v, weak>> : v \in held[p]}
      BY <1>1, <1>2, <2>1 DEF TypeOK
    <3>2. \A v \in held[p] : <<v, weak>> \in tags'[h] /\ TrimPrefix(<<v, weak>>) = v
      BY <3>1 DEF TrimPrefix
    <3>3. \A tag \in tags'[h] : TrimPrefix(tag) \in held[p]
      BY <3>1 DEF TrimPrefix
    <3> HIDE <3>1
    <3> QED BY <3>2, <3>3
  <2> QED BY <1>3, <1>6, <2>1 DEF Told, Waited
<1>12. WaitsForOwn'
  <2>1. ASSUME NEW q \in Poll, q # p, waits'[q] # None
        PROVE  hpc'[waits'[q]] # "free" /\ req'[waits'[q]] = q
    <3>1. waits'[q] = waits[q] /\ waits[q] \in Conn
          /\ hpc[waits[q]] # "free" /\ req[waits[q]] = q
      BY <1>1, <1>8, <2>1 DEF WaitsForOwn, TypeOK
    <3> QED BY <1>3, <1>7, <3>1
  <2> QED BY <1>6, <2>1 DEF WaitsForOwn
<1> QED BY <1>5, <1>9, <1>10, <1>11, <1>12 DEF Inv, HandlerInv

LEMMA ReceiveKeepsInv ==
    ASSUME Inv, NEW h \in Conn, Receive(h)
    PROVE  Inv'
<1> DEFINE p == req[h]
           r == reply[h]
           heard == waits[p] = h
<1>1. TypeOK /\ WaitsForOwn /\ HandlerInv
  BY DEF Inv
<1>2. p \in Poll /\ r \in ReplyType
      /\ (r.status \in {200, 304} => r.version \in Version)
  <2>1. hpc[h] = "sent" /\ Attended(h) /\ Loaded(h)
    BY <1>1 DEF Receive, HandlerInv
  <2>2. seen[h] \subseteq Version \cup {None} /\ r \in ReplyType
    BY <1>1 DEF TypeOK, ReplyType, Status
  <2> QED BY <2>1, <2>2 DEF Attended, Loaded
<1>3. /\ waits' = IF heard THEN [waits EXCEPT ![p] = None] ELSE waits
      /\ shown' = IF heard /\ r.status \in {200, 304} /\ r.version # None
                    THEN [shown EXCEPT ![p] = r.version] ELSE shown
      /\ held' = IF heard /\ r.status = 200
                   THEN [held EXCEPT ![p] = @ \cup {r.version}] ELSE held
  BY DEF Receive
<1>4. /\ hpc' = [hpc EXCEPT ![h] = "free"]
      /\ req' = [req EXCEPT ![h] = None]
      /\ tags' = [tags EXCEPT ![h] = {}]
      /\ payload' = [payload EXCEPT ![h] = None]
      /\ reply' = [reply EXCEPT ![h] = NoReply]
      /\ seen' = [seen EXCEPT ![h] = {}]
      /\ barred' = [barred EXCEPT ![h] = FALSE]
      /\ UNCHANGED <<svars, losses>>
  BY DEF Receive
<1> HIDE DEF p, r, heard
<1>5. TypeOK'
  <2>1. waits' \in [Poll -> Conn \cup {None}] /\ shown' \in [Poll -> Version \cup {None}]
    BY <1>1, <1>2, <1>3 DEF TypeOK
  <2>2. held' \in [Poll -> SUBSET Version]
    BY <1>1, <1>2, <1>3 DEF TypeOK
  <2>3. NoReply \in ReplyType
    BY DEF NoReply, ReplyType, Status
  <2> QED BY <1>1, <1>4, <2>1, <2>2, <2>3 DEF TypeOK, svars, ReplyType, Status
<1>6. hpc'[h] = "free" /\ req'[h] = None
  BY <1>1, <1>4 DEF TypeOK
<1>7. ASSUME NEW g \in Conn, g # h
      PROVE  /\ hpc'[g] = hpc[g] /\ req'[g] = req[g] /\ tags'[g] = tags[g]
             /\ payload'[g] = payload[g] /\ reply'[g] = reply[g]
             /\ seen'[g] = seen[g] /\ barred'[g] = barred[g]
  BY <1>1, <1>4, <1>7 DEF TypeOK
<1>8. ASSUME NEW q \in Poll
      PROVE  /\ waits'[q] = IF heard /\ q = p THEN None ELSE waits[q]
             /\ ~heard \/ q # p => held'[q] = held[q]
  BY <1>1, <1>2, <1>3 DEF TypeOK
<1>9. ASSUME NEW g \in Conn, g # h PROVE Attended(g)' /\ Loaded(g)' /\ Told(g)'
  <2>1. hpc[g] # "free" => req[g] \in Poll /\ bound[ScopeOf(req[g])] \in seen[g]
    BY <1>1 DEF HandlerInv, Attended
  <2>2. ASSUME hpc[g] # "free", waits'[req[g]] = g
        PROVE  waits[req[g]] = g /\ held'[req[g]] = held[req[g]]
    BY <1>8, <2>1, <2>2, PollFacts
  <2>3. Untouched(g)
    BY <1>4, <1>7, <1>9, <2>1, <2>2 DEF Untouched, svars
  <2> QED BY <1>1, <2>3, UntouchedKeeps
<1>10. Attended(h)' /\ Loaded(h)' /\ Told(h)'
  BY <1>6 DEF Attended, Loaded, Told, Waited
<1>11. WaitsForOwn'
  <2>1. ASSUME NEW q \in Poll, waits'[q] # None
        PROVE  hpc'[waits'[q]] # "free" /\ req'[waits'[q]] = q
    <3>1. waits'[q] = waits[q] /\ waits[q] \in Conn /\ ~(heard /\ q = p)
          /\ hpc[waits[q]] # "free" /\ req[waits[q]] = q
      BY <1>1, <1>8, <2>1 DEF WaitsForOwn, TypeOK
    <3>2. waits[q] # h
      BY <3>1 DEF p, heard
    <3> QED BY <1>7, <3>1, <3>2
  <2> QED BY <2>1 DEF WaitsForOwn
<1> QED BY <1>5, <1>9, <1>10, <1>11 DEF Inv, HandlerInv

(* What happens outside of the handlers leaves every one of them alone.    *)
LEMMA OutsideKeepsInv ==
    ASSUME Inv, TypeOK', UNCHANGED <<hpc, req, tags, payload, reply, barred>>,
           \A g \in Conn : Untouched(g),
           \A q \in Poll : waits'[q] \in {waits[q], None}
    PROVE  Inv'
<1>1. HandlerInv'
  BY UntouchedKeeps DEF Inv, HandlerInv
<1>2. WaitsForOwn'
  BY DEF Inv, WaitsForOwn
<1> QED BY <1>1, <1>2 DEF Inv

LEMMA GiveUpKeepsInv ==
    ASSUME Inv, NEW p \in Poll, GiveUp(p)
    PROVE  Inv'
<1>1. TypeOK /\ HandlerInv
  BY DEF Inv
<1>2. /\ waits' = [waits EXCEPT ![p] = None] /\ losses' \in 0..MaxLosses
      /\ UNCHANGED <<svars, hpc, req, tags, payload, reply, seen, barred>>
      /\ \/ UNCHANGED <<held, shown>>
         \/ held' = [held EXCEPT ![p] = {}] /\ shown' = [shown EXCEPT ![p] = None]
  BY <1>1, LossesBounded DEF GiveUp
<1>3. TypeOK'
  <2>1. held' \in [Poll -> SUBSET Version] /\ shown' \in [Poll -> Version \cup {None}]
    BY <1>1, <1>2 DEF TypeOK
  <2>2. waits' \in [Poll -> Conn \cup {None}]
    BY <1>1, <1>2 DEF TypeOK
  <2>3. losses' \in 0..MaxLosses
        /\ UNCHANGED <<svars, hpc, req, tags, payload, reply, seen, barred>>
    BY <1>2
  <2> QED BY <1>1, <2>1, <2>2, <2>3 DEF TypeOK, svars
<1>4. ASSUME NEW q \in Poll
      PROVE  waits'[q] = (IF q = p THEN None ELSE waits[q]) /\ (q # p => held'[q] = held[q])
  BY <1>1, <1>2 DEF TypeOK
<1>5. ASSUME NEW g \in Conn PROVE Untouched(g)
  <2>1. hpc[g] # "free" => req[g] \in Poll /\ bound[ScopeOf(req[g])] \in seen[g]
    BY <1>1 DEF HandlerInv, Attended
  <2>2. ASSUME hpc[g] # "free", waits'[req[g]] = g
        PROVE  waits[req[g]] = g /\ held'[req[g]] = held[req[g]]
    BY <1>4, <2>1, <2>2, PollFacts
  <2> QED BY <1>2, <2>1, <2>2 DEF Untouched, svars
<1> QED BY <1>2, <1>3, <1>4, <1>5, OutsideKeepsInv

LEMMA RebindKeepsInv ==
    ASSUME Inv, NEW new \in [Scope -> Version \cup {None}], Rebind(new)
    PROVE  Inv'
<1>1. TypeOK /\ HandlerInv
  BY DEF Inv
<1>2. /\ bound' = new /\ changes' \in 0..MaxChanges
      /\ seen' = [h \in Conn |-> IF req[h] = None THEN {}
                                 ELSE seen[h] \cup {new[ScopeOf(req[h])]}]
      /\ UNCHANGED <<revoked, cvars, hpc, req, tags, payload, reply, barred, losses>>
  BY <1>1, BoundAssumption DEF Rebind, Change, TypeOK
<1>3. TypeOK'
  <2>1. ASSUME NEW h \in Conn, req[h] # None
        PROVE  new[ScopeOf(req[h])] \in Version \cup {None}
    BY <1>1, <2>1, ScopeOfPoll DEF TypeOK
  <2>2. seen' \in [Conn -> SUBSET (Version \cup {None})]
    BY <1>1, <1>2, <2>1 DEF TypeOK
  <2> QED BY <1>1, <1>2, <2>2 DEF TypeOK, cvars
<1>4. ASSUME NEW g \in Conn PROVE Untouched(g)
  <2>1. ASSUME hpc[g] # "free"
        PROVE  seen'[g] = seen[g] \cup {new[ScopeOf(req[g])]}
    BY <1>1, <1>2, <2>1, PollFacts DEF HandlerInv, Attended
  <2> QED BY <1>2, <2>1 DEF Untouched, cvars
<1> QED BY <1>2, <1>3, <1>4, OutsideKeepsInv DEF cvars

LEMMA RevokeKeepsInv ==
    ASSUME Inv, NEW c \in Client, Revoke(c)
    PROVE  Inv'
<1>1. /\ revoked' = revoked \cup {c} /\ changes' \in 0..MaxChanges
      /\ UNCHANGED <<bound, cvars, hpc, req, tags, payload, reply, seen, barred, losses>>
  BY BoundAssumption DEF Revoke, Change, Inv, TypeOK
<1>2. TypeOK'
  BY <1>1 DEF Inv, TypeOK, cvars
<1>3. ASSUME NEW g \in Conn PROVE Untouched(g)
  BY <1>1 DEF Inv, HandlerInv, Attended, Untouched, cvars
<1> QED BY <1>1, <1>2, <1>3, OutsideKeepsInv DEF cvars

LEMMA NextInv == Inv /\ [Next]_vars => Inv'
<1> SUFFICES ASSUME Inv, [Next]_vars PROVE Inv'
  OBVIOUS
<1>1. bound \in [Scope -> Version \cup {None}]
  BY DEF Inv, TypeOK
<1>2. ASSUME NEW s \in Scope, NEW v \in Version, Bind(s, v) PROVE Inv'
  <2>1. [bound EXCEPT ![s] = v] \in [Scope -> Version \cup {None}]
    BY <1>1
  <2> QED BY <1>2, <2>1, RebindKeepsInv DEF Bind
<1>3. ASSUME NEW v \in Version, Delete(v) PROVE Inv'
  <2>1. [s \in Scope |-> IF bound[s] = v THEN None ELSE bound[s]]
          \in [Scope -> Version \cup {None}]
    BY <1>1
  <2> QED BY <1>3, <2>1, RebindKeepsInv DEF Delete
<1>4. CASE UNCHANGED vars
  BY <1>4 DEF vars, svars, cvars, Inv, TypeOK, WaitsForOwn, HandlerInv, Attended,
              Loaded, Entitled, Told, Waited
<1> QED BY <1>2, <1>3, <1>4, RequestKeepsInv, GiveUpKeepsInv, HandleKeepsInv,
           ReceiveKeepsInv, RevokeKeepsInv DEF Next

LEMMA Invariance == Spec => []Inv
  BY InitInv, NextInv, PTL DEF Spec

-----------------------------------------------------------------------------
(* The type invariant holds in every behaviour: what pollers hold and show *)
(* are payloads of the Site, never an error.                               *)
THEOREM TypeCorrect == Spec => []TypeOK
<1>1. Inv => TypeOK
  BY DEF Inv
<1> QED BY <1>1, Invariance, PTL

(* Whatever the Site does beside a request, its answer names a version     *)
(* bound to the caller's own scope while it ran, and a token revoked       *)
(* before it gets none.                                                    *)
THEOREM AnswersAreOwn == Spec => []AnswersOwnBinding
<1>1. Inv => AnswersOwnBinding
  BY DEF Inv, HandlerInv, Loaded, Entitled, AnswersOwnBinding
<1> QED BY <1>1, Invariance, PTL

(* A plugin that is told "not modified" has what it is told about, with    *)
(* answers that cross, time-outs and restarts in between.                  *)
THEOREM NotModifiedIsTrue == Spec => []NotModifiedIsHeld
<1>1. Inv => NotModifiedIsHeld
  BY DEF Inv, HandlerInv, Told, Waited, NotModifiedIsHeld, Heard
<1> QED BY <1>1, Invariance, PTL

(* No plugin is sent a body it holds, whatever a proxy made of its tags.   *)
THEOREM BodiesAreNews == Spec => []NoBodyTwice
<1>1. Inv => NoBodyTwice
  BY DEF Inv, HandlerInv, Told, Waited, NoBodyTwice, Heard
<1> QED BY <1>1, Invariance, PTL
=============================================================================

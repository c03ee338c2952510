------------------------------ MODULE Presence ------------------------------
(***************************************************************************)
(* internal/edge: what Forge records about players being there.  A config  *)
(* poll touches last_seen_at from a goroutine of its own, after the        *)
(* answer; a heartbeat sets live_seen_at in forge_sweep_state.             *)
(*                                                                         *)
(* An UPDATE takes its now() when it begins, and may then wait for the row *)
(* while others commit.  PostgreSQL looks at the row twice: as the         *)
(* statement's snapshot has it, and as it is once the statement holds it.  *)
(*                                                                         *)
(* The table of heartbeats is not the one of credentials: a token has an   *)
(* account_id, which is an accounts.id, while a row of forge_sweep_state   *)
(* has a player_id, which is a forge_players.id (scripts/seed-dev.sql).    *)
(* Two sequences number them, and the handler passes the one for the       *)
(* other.  No migration creates forge_sweep_state.                         *)
(***************************************************************************)
EXTENDS Integers

CONSTANTS Token,       (* plugin installations, each with its token        *)
          Goroutine,   (* handlers and touches                             *)
          Interval,    (* SeenInterval                                     *)
          Account,     (* accounts.id                                      *)
          HasTable,    (* does forge_sweep_state exist?                    *)
          Row,         (* the player_id of its rows                        *)
          NoToken,
          MaxTime,     (* bound: the clock stops here                      *)
          MaxFailures  (* bound: refused requests and failed statements    *)

ASSUME IntervalAssumption == Interval \in Nat /\ MaxTime \in Nat /\ MaxFailures \in Nat
ASSUME AccountAssumption == Account \subseteq Nat \ {0}
ASSUME RowAssumption == HasTable \in BOOLEAN /\ Row \subseteq Nat \ {0} /\ (~HasTable => Row = {})
ASSUME NoTokenAssumption == NoToken \notin Token

VARIABLES
  now,
  lastSeen,  (* last_seen_at of each token; Never for NULL                 *)
  account,   (* account_id of each token; NoId for NULL                    *)
  stamped,   (* the rows (player_id) whose live_seen_at has been set       *)
  gpc,       (* each goroutine: "free", "touch", "touching", "auth", "beat"*)
  who,       (* whose request it serves                                    *)
  stamp,     (* the now() of its statement                                 *)
  snapshot,  (* last_seen_at as its statement first saw it                 *)
  callerId,  (* the AccountID of the caller it has authenticated           *)
  touched,   (* history: the latest now() of a touch that succeeded        *)
  failures   (* bounded by MaxFailures                                     *)

pvars == <<now, lastSeen, account, stamped, gpc, who, stamp, snapshot, callerId, touched, failures>>

Never == -1
NoId == 0
Clock == {Never} \cup (0..MaxTime)

PresenceInit ==
    /\ now = 0
    /\ lastSeen = [c \in Token |-> Never]
    /\ account = [c \in Token |-> NoId]
    /\ stamped = {}
    /\ gpc = [h \in Goroutine |-> "free"]
    /\ who = [h \in Goroutine |-> NoToken]
    /\ stamp = [h \in Goroutine |-> Never]
    /\ snapshot = [h \in Goroutine |-> Never]
    /\ callerId = [h \in Goroutine |-> NoId]
    /\ touched = [c \in Token |-> Never]
    /\ failures = 0

Failure == failures < MaxFailures /\ failures' = failures + 1

Start(c, h, pc) == /\ gpc[h] = "free"
                   /\ gpc' = [gpc EXCEPT ![h] = pc]
                   /\ who' = [who EXCEPT ![h] = c]
End(h) == /\ gpc' = [gpc EXCEPT ![h] = "free"]
          /\ who' = [who EXCEPT ![h] = NoToken]
          /\ stamp' = [stamp EXCEPT ![h] = Never]
          /\ snapshot' = [snapshot EXCEPT ![h] = Never]
          /\ callerId' = [callerId EXCEPT ![h] = NoId]

-----------------------------------------------------------------------------
(* handleConfig has answered, whatever it was, and leaves a goroutine.     *)
PollServed(c, h) ==
    /\ Start(c, h, "touch")
    /\ UNCHANGED <<now, lastSeen, account, stamped, stamp, snapshot, callerId, touched, failures>>

TouchBegins(h) ==
    /\ gpc[h] = "touch"
    /\ gpc' = [gpc EXCEPT ![h] = "touching"]
    /\ stamp' = [stamp EXCEPT ![h] = now]
    /\ snapshot' = [snapshot EXCEPT ![h] = lastSeen[who[h]]]
    /\ UNCHANGED <<now, lastSeen, account, stamped, who, callerId, touched, failures>>

(* Mutant of Stale: NULL is not older than anything.                       *)
StaleUnlessNull(seen, at) == seen # Never /\ seen < at - Interval

(* last_seen_at IS NULL OR last_seen_at < now() - interval.                *)
Stale(seen, at) == seen = Never \/ seen < at - Interval

(* Mutant of Writes: what was read decides, as in a read-then-write.       *)
WritesUnchecked(h) == Stale(snapshot[h], stamp[h])

Writes(h) == Stale(snapshot[h], stamp[h]) /\ Stale(lastSeen[who[h]], stamp[h])

TouchSeen(h) ==
    /\ gpc[h] = "touching"
    /\ lastSeen' = IF Writes(h) THEN [lastSeen EXCEPT ![who[h]] = stamp[h]] ELSE lastSeen
    /\ touched' = IF touched[who[h]] < stamp[h]
                    THEN [touched EXCEPT ![who[h]] = stamp[h]] ELSE touched
    /\ End(h)
    /\ UNCHANGED <<now, account, stamped, failures>>

(* The statement errs, or its three seconds are over.                      *)
TouchFails(h) ==
    /\ gpc[h] \in {"touch", "touching"} /\ Failure
    /\ End(h)
    /\ UNCHANGED <<now, lastSeen, account, stamped, touched>>

-----------------------------------------------------------------------------
(* A plugin posts a heartbeat.                                             *)
Beat(c, h) ==
    /\ Start(c, h, "auth")
    /\ UNCHANGED <<now, lastSeen, account, stamped, stamp, snapshot, callerId, touched, failures>>

(* Mutant of Resolved: the account is not read from the row.               *)
ResolvedNil(c) == NoId

(* authed: the caller has the account_id the row has now.                  *)
Resolved(c) == account[c]
BeatAuthed(h) ==
    /\ gpc[h] = "auth"
    /\ gpc' = [gpc EXCEPT ![h] = "beat"]
    /\ callerId' = [callerId EXCEPT ![h] = Resolved(who[h])]
    /\ UNCHANGED <<now, lastSeen, account, stamped, who, stamp, snapshot, touched, failures>>

(* 405, 401, or 500 for a lookup that errs.                                *)
BeatRefused(h) ==
    /\ gpc[h] = "auth" /\ Failure
    /\ End(h)
    /\ UNCHANGED <<now, lastSeen, account, stamped, touched>>

(* A token without a player yet: 204.                                      *)
NoAccount(h) ==
    /\ gpc[h] = "beat" /\ callerId[h] = NoId
    /\ End(h)
    /\ UNCHANGED <<now, lastSeen, account, stamped, touched, failures>>

(* UPDATE ... WHERE player_id = $1, with the caller's AccountID for $1.    *)
(* The row stamped is the one that has this number, whoever's it is.  How  *)
(* many rows there were is not looked at: 204 also for none.               *)
Heartbeat(h) ==
    /\ gpc[h] = "beat" /\ callerId[h] # NoId /\ HasTable
    /\ stamped' = stamped \cup (Row \cap {callerId[h]})
    /\ End(h)
    /\ UNCHANGED <<now, lastSeen, account, touched, failures>>

(* 500 for an UPDATE that errs.  Without the table every one does.         *)
HeartbeatFails(h) ==
    /\ gpc[h] = "beat" /\ callerId[h] # NoId
    /\ HasTable => failures < MaxFailures
    /\ failures' = IF HasTable THEN failures + 1 ELSE failures
    /\ End(h)
    /\ UNCHANGED <<now, lastSeen, account, stamped, touched>>

-----------------------------------------------------------------------------
(* The Site links a token to an account, while it is already in use.       *)
Link(c, a) ==
    /\ account[c] = NoId
    /\ account' = [account EXCEPT ![c] = a]
    /\ UNCHANGED <<now, lastSeen, stamped, gpc, who, stamp, snapshot, callerId, touched, failures>>

Advance ==
    /\ now < MaxTime
    /\ now' = now + 1
    /\ UNCHANGED <<lastSeen, account, stamped, gpc, who, stamp, snapshot, callerId, touched, failures>>

Serve(h) == \/ TouchBegins(h) \/ TouchSeen(h) \/ TouchFails(h)
             \/ BeatAuthed(h) \/ BeatRefused(h)
             \/ NoAccount(h) \/ Heartbeat(h) \/ HeartbeatFails(h)

PresenceNext ==
    \/ \E c \in Token, h \in Goroutine : PollServed(c, h) \/ Beat(c, h)
    \/ \E h \in Goroutine : Serve(h)
    \/ \E c \in Token, a \in Account : Link(c, a)
    \/ Advance

PresenceSpec == PresenceInit /\ [][PresenceNext]_pvars

(* Goroutines run to their end, and a plugin that runs sends heartbeats.   *)
FairPresenceSpec ==
    /\ PresenceSpec
    /\ \A h \in Goroutine : WF_pvars(Serve(h))
    /\ \A c \in Token : SF_pvars(\E h \in Goroutine : Beat(c, h))
-----------------------------------------------------------------------------
(* Properties.                                                             *)

(* The type invariant of the rows and the goroutines.                      *)
PresenceTypeOK ==
    /\ now \in 0..MaxTime
    /\ lastSeen \in [Token -> Clock] /\ touched \in [Token -> Clock]
    /\ account \in [Token -> Account \cup {NoId}]
    /\ stamped \subseteq Row \cap {account[c] : c \in Token}
    /\ gpc \in [Goroutine -> {"free", "touch", "touching", "auth", "beat"}]
    /\ who \in [Goroutine -> Token \cup {NoToken}]
    /\ stamp \in [Goroutine -> Clock] /\ snapshot \in [Goroutine -> Clock]
    /\ callerId \in [Goroutine -> Account \cup {NoId}]
    /\ failures \in 0..MaxFailures

(* "At most once per interval": two writes of a token's last_seen_at are   *)
(* further apart than the interval and never go back in time, although     *)
(* touches overlap, wait for each other and finish out of order.           *)
WritesFarApart ==
    [][\A c \in Token : lastSeen'[c] # lastSeen[c] =>
          lastSeen[c] = Never \/ lastSeen'[c] > lastSeen[c] + Interval]_pvars

(* The write that is saved costs at most the interval: last_seen_at is     *)
(* that close to the latest poll whose touch succeeded.                    *)
SeenIsRecent ==
    \A c \in Token : touched[c] # Never =>
        lastSeen[c] # Never /\ touched[c] <= lastSeen[c] + Interval

(* What a heartbeat does where the table exists: the row whose player_id   *)
(* is the account_id of a token is stamped, if the token's plugin goes on  *)
(* sending heartbeats, though it was linked between two of them or during  *)
(* one, and some are refused or fail.  That it is the row of the account's *)
(* player is not said: nothing in the code relates the two numbers.        *)
AccountRowsSeen ==
    \A a \in Account \cap Row : (\E c \in Token : account[c] = a) ~> a \in stamped

(* No heartbeat has had an effect.                                         *)
NobodySeen == stamped = {}
=============================================================================

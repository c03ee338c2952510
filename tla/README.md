# Anvil Forge: specification

Forge is one Go process beside the Site and a shared PostgreSQL. It runs up to
three subsystems: the *sweep* fetches players' hiscores for the Site, the
*delivery worker* posts the Site's messages to Discord, and the *plugin edge*
serves and receives what the game plugin polls and pushes. They share the
process's context and its connection pool and nothing else; each talks to the
Site through a table.

This directory holds TLA+ models of the parts whose correctness depends on the
order of events, TLC configurations that check them, and TLAPS proofs.
`PROJECT.json` ties each definition to source lines, each property to a mutation
that breaks it, and each hazard to the properties aimed at it.

## Inventory

| Part (source) | State | Operations | What makes it correct |
|---|---|---|---|
| Fetch queue (`internal/store/store.go`) | rows of `hiscores_fetches`: lane, `claimed_at`, `outcome` | `Claim`, `Complete`, `RecordRun`; `Backlog` reads | a row is leased to one claim at a time, a lapsed lease returns it, the first answer is final, lanes are served in order and none is starved |
| Sweep runner (`internal/sweep/runner.go`) | the claimed batch, a channel, worker goroutines, tallies | `Run`, `Tick`, the worker loop | no request is in flight twice, none is lost, the run log adds up, `Run` returns when told to |
| Hiscores client (`internal/hiscores/client.go`) | none; uses the process's limiter | `Fetch`, `fetchOnce` | bounded attempts, no retry of a terminal miss, the request budget |
| RSN text (`internal/hiscores/rsn.go`) | none | `SanitizeRsn`, `NormalizeRsn`, `IsPlausibleRsn` | words and only words survive, the stored key is stable |
| Delivery queue (`internal/discord/queue.go`, `migrations/0002`) | rows of `forge_discord_deliveries`: status, attempts, `next_attempt_at` | `Enqueue`, `Claim`, `Complete`, `Prune`; `Stats` reads | one holder per message, bounded attempts, final verdicts, no repeated post, no lost message |
| Delivery worker (`internal/discord/worker.go`) | the claimed batch, a channel, goroutines | `Run`, `drain`, `housekeep` | the same, and that `Run` returns |
| Sender (`internal/discord/sender.go`) | none | `Send`, `parseRetryAfter`, `Backoff` | the verdict of each answer |
| Per-webhook limiter (`internal/ratelimit/keyed.go`) | a bucket per webhook: token bucket, last use, hold | `Wait`, `ReserveFor`, `Sweep`; `Len` reads | burst plus rate bounds the posts, holds are honoured, eviction breaks neither |
| Plugin ingest (`internal/edge`, `migrations/0003`) | rows of `forge_plugin_ingest_events`, counters | `handleIngest`, `authed`, `Store.Ingest` | nothing credited twice, a 202 means stored, retries land |
| Plugin read path (`internal/edge`, `migrations/0003`) | bindings of payloads to tokens and events, counters | `handleConfig`, `handleBoard`, `authed`, `servePayload`, `matchesETag` | nobody gets another's document, a 304 only for what the client has, no body twice, everybody ends up current |
| Presence (`internal/edge`) | `last_seen_at`, `live_seen_at` | `TouchSeen`, `handleHeartbeat`, `Heartbeat` | written at most once per interval, never further behind; heartbeats of linked accounts count, and for whom |
| Configuration (`internal/config`) | settings | `Load` | refuses what the loops cannot run with |
| Lifecycle (`cmd/forge/main.go`, `store.Open`) | the context, the loops, the server, the pool | start, SIGTERM, health, readiness, the deferred calls | loops return before the pool closes, which turns away only requests that outlast `Shutdown`, probes are answered, the process exits |

How they interact: `Run` calls `Claim` and hands rows over an unbuffered channel
to goroutines that call the limiter, then the remote service, then `Complete`;
`housekeep` prunes and evicts beside them. The Site inserts rows and reads
answers at any time. A deploy may overlap two processes; a stopped one is
restarted (`restart: unless-stopped`).

What is hard: the feeder, the goroutines and a cancelled context meeting in any
order; a claim, a remote effect and a write-back that can be separated by a crash,
a lapsed lease or a failed statement; statements that commit although their answer
is lost; two processes on one table; a token bucket, a hold and an eviction
racing; clients that retry while their first request is still being handled; tags,
snapshots and accounts that are old when they are used; one small pool under
loops, handlers and probes, and its closing. `PROJECT.json` lists these as
hazards, each at its line.

## Modules

    FetchContract     <-- implemented by --  Sweep     EXTENDS  FetchQueue
    DeliveryContract  <-- implemented by --  Delivery  EXTENDS  DeliveryQueue
                                                ^
                                                +-- implemented by --  PacedDelivery
    KeyedLimiter  <-- extended by -- PacedDelivery
    HiscoresClient  EXTENDS  Rsn
    Ingest        ReadPath        Presence        Lifecycle

`MC*` modules give small instances for TLC; `*Proofs` modules hold the theorems,
and **Sums** the lemmas about sums over functions that three of them rest on.
`LimiterProofs` is about `KeyedLimiter` and `PacedDelivery`, `IngestProofs` about
`Ingest` and `Presence`, which share no name so that it can extend both; the others are each about the module they are named for.

**FetchQueue** has one operator per SQL statement, each atomic. Rows are numbered
in the order of `requested_at`, and get their lanes from one of `Lanes`. Time is
abstracted to what the statements ask of it: `lease[r]` is `free` (`claimed_at` is
NULL), `leased` or `lapsed`, and `Lapse` turns one into the other. `Jump`, `Rest`,
`Picked` and `Due` are the CTEs of `Claim`, with a parameter for the rows another
claim has locked (SKIP LOCKED).

**Sweep** adds the processes. `pc[i]` is where `Run`/`Tick` is: `tick` (about to
claim), `feed` (the send loop), `drain` (after `close(queue)`), `abort` (after
`<-ctx.Done()` in the loop), `pause` (the select of `Run`), `stopped`. `wpc[w]` is
where a worker goroutine is. `Feed` is one rendezvous on the channel. A cancelled
context makes statements fail, limiters refuse and fetches return; `ClaimLost`
and `Complete` cover statements that commit although the caller sees an error.
`claimed` and `tally` are `len(claims)` and the three atomic counters. `expired`
is a history of rows whose lease lapsed. `Cancel`, `Crash` and failed statements
are bounded by `MaxStops` and `MaxFaults`.

**FetchContract** is what the Site may rely on: a request submitted is answered,
once, and the first answer stays. `Sweep` implements it with `submitted <- rows`
and `answer <- result`.

**DeliveryQueue** and **Delivery** are built the same way. `due[m]` is
`next_attempt_at`: `now`, `later` (a lease or a retry's delay) or `never`
(`'infinity'`). `Selections` is what `ORDER BY priority DESC, next_attempt_at
LIMIT` may pick: `next_attempt_at` decides among equal priorities, and is not
modelled beyond due or not due, so any of them may come first. `UPDATE ...
RETURNING` does not order its rows, so `Feed` takes any message of the batch.
`Send` chooses among the verdicts; with the context done a post can only fail or
be refused for its URL. Two differences from the sweep are in the code and kept:
`Run` returns directly when a drain was aborted, and after `Send` there is no
check of the context, so a cancelled post is still handed to `Complete`.
`LateReplay` says whether the Site may replay an event after the row of its
message was pruned.

**DeliveryContract** is what the Site may rely on: a message that was asked for is
posted at most `MaxAttempts` times and not again once Discord has accepted it, and
its verdict is final and says `delivered` if and only if Discord did. `Delivery`
implements it; a pruned row stands for the verdict `delivered`. The contract does
not say that a verdict comes, because the code does not bring it about.

**KeyedLimiter** counts time in ticks of one token (half a second at 2/s). A
token bucket of size `Burst` is represented by `slot`, the tick after the last
token it has promised; a token is there `Burst` ticks before that. Buckets are
named by key and time of creation, since a goroutine goes on waiting on the
limiter of a bucket that has been evicted. `granted` counts tokens per tick.
`hold` and `owed` are history: the latest deadline ever given for a key, and that
deadline when a call began.

**PacedDelivery** composes the two. It extends `KeyedLimiter`, whose callers are the
goroutines of the delivery worker and whose variables it shares: `Wait` goes through
the limiter's `Call`, `Reserve` and `Return`, a 429 becomes a `ReserveFor` on its
webhook and a `Retry-After` for its message, and `next_attempt_at` is a time on the
limiter's clock. `PacedInit` and `PacedNext` are its own; `Init`, `Next` and `Spec`
are the limiter's. There is one
process, nothing stops and no statement fails; those are in `Delivery`, which it
implements: what is shown there for any timing holds for this one.

**HiscoresClient** uses the same time base for the sweep's one bucket: a token
per `Fetch`, up to `Attempts` requests per `Fetch` (`Retries`, and at least one), an answer at any time before
`Timeout`. `sent` counts requests per tick. Which names are looked up at all is
decided by **Rsn**, where a name is a sequence of rune classes: two cases of a
letter, two kinds of white space, underscore, hyphen and everything else.

**Ingest** has clients that push their batch until they get a 202 or a 4xx,
handler goroutines that run on after their client has hung up, one statement per
event, the unique index on `dedupe_key`, bodies over the limit (cut by
`LimitReader`, so that they do not decode), token revocation and crashes.
`ingested` is what the process has counted, its periodic reports included
(`Stats` swaps the counter with zero, which moves numbers to the log).

**ReadPath** has pollers that keep copies of documents and name them in
If-None-Match, with the `W/` prefix or with what proxies make of it; handlers in
three steps (authenticate, load, answer); and a Site that binds, deletes and
revokes in between. A payload is named by its content. `seen` and `barred` are
history: what was bound to a handler's scope, and whether its token had been
revoked, since its request began.

**Presence** has the two statements about players being there. `TouchSeen` runs in
a goroutine after the answer; its UPDATE takes `now()` when it begins and may wait
for the row, and PostgreSQL evaluates its WHERE clause on the snapshot and again
on the row it has waited for. A heartbeat goes through two tables whose numbers come
from different sequences: `account[c]` is a token's `account_id`, an `accounts.id`;
`Row` are the `player_id`s of `forge_sweep_state`, which `scripts/seed-dev.sql` takes from
`forge_players.id`. The handler passes the first for the second, so `Heartbeat` stamps
the row with the number of the caller's account, whoever's it is, and the model relates
`Row` to `Account` in no way. `HasTable` says whether `forge_sweep_state` exists;
without it `Heartbeat` is not possible, and its failures are not counted as faults. A
token is linked once; revocation is in `ReadPath`.

**Lifecycle** has one process from `Load` to the end of `run`'s deferred calls: the
environment with its fallbacks and refusals, the loops (what they do is in `Sweep`
and `Delivery`), the server with its handlers and the goroutines they leave, and
the pool that all of them take connections from. `refused` and `overrun` are
history: who was turned away by the closed pool, and whether `Shutdown` gave up.

## Runs

The longest take between one and two minutes.

| Run | Question | Instance |
|---|---|---|
| `sweep_overlap` | Do leases and SKIP LOCKED keep two processes apart? Does the queue keep its contract when they are not? | 2 rows, 2 processes of 1 worker, claims of 2, 1 stop, 1 fault |
| `sweep_recovery` | Is every request answered, does `Run` return, does the run log add up, does the lane rule serve late joiners without starving the rest? | 3 rows, two late joiners or one row of each lane, 1 process of 1 worker, claims of 2, 1 stop, 1 fault, fair |
| `delivery` | Safety of delivery, and its contract | 2 messages, 2 processes of 1 goroutine, 2 attempts, 1 stop, 1 fault |
| `delivery_fair` | Does every message get where it should? Does `Run` return? | 2 messages, 1 process of 1 goroutine, claims of 2, 2 stops, 1 fault, fair |
| `delivery_stuck` | Does a crashed worker's message become due again (violated)? | 2 messages, 1 stop, fair |
| `limiter` | Budget and holds under eviction | 1 key, 2 callers, `Burst = 1`, `TTL = 4`, holds of 1 and 2, 7 ticks |
| `paced` | Does the worker with its limiter do what `Delivery` allows? What goes into a hold? Are retries on schedule? | 2 messages to 1 webhook, 2 goroutines, 3 attempts, delays 1 and 2, 429s of 2, 3 ticks |
| `hiscores` | What bounds the requests to Jagex? Are names cleaned as documented? | 3 workers, 2 attempts, 5 ticks; all 19 608 names of up to 5 runes |
| `ingest` | Credits, acknowledgements, counters, retries | 3 clients, 2 handlers, 4 events, 1 lost post each, 1 fault |
| `read` | Whose document, which version, how often | 2 pollers (one without gzip), 2 handlers, 2 versions (one damaged), 3 changes, 1 loss |
| `presence` | The interval of `TouchSeen`, and what heartbeats stamp | 1 token, 2 accounts, a row with one's number and one without, 2 goroutines, interval 2, 7 ticks, 1 fault |
| `lifecycle` | Start, probes, shutdown | 9 environments, 2 slots, 1 connection, 1 fault |

Why the bounds are enough for the hazards they are aimed at. Two processes, two
workers and two rows give every pair of actors that can meet: feeder and worker,
worker and worker, process and successor, holder and new claimer. A claim of two
in the hands of one worker leaves a row in the batch while another is in flight,
which every abort path needs, and a feeder that may be left without receivers; the
two runs about shutdown therefore have a single goroutine. One stop and one fault
put a crash before or after each statement; `delivery_fair` allows two stops, so
that the recovery itself can fail. Three rows and claims of two are the smallest
case in which a lane can take a whole claim. Two attempts distinguish a first try,
a retry and an exhausted message; the schedule needs a third. The limiter needs a
hold to end, an eviction and a fresh bucket inside the horizon: `TTL = 4` and 7
ticks allow it. Two handlers let two requests of one client cross each other; three
changes rebind a document, take it away and bind it again under one request. An
interval of 2 in 7 ticks allows three writes. One connection for two slots and up
to three loops is a pool with somebody waiting. Symmetry is used where all of the
permuted values play one role (callers, workers of the client, goroutines of
`paced`).

Deadlock is checked except in `hiscores`, where workers stop once the context is
done; `ingest`, where every client may be finished; `paced`, where goroutines may
sleep beyond the bound of the clock; and `lifecycle`, where the process ends.

Fairness. `Sweep` and `Delivery` assume that each goroutine that can run does
(the Go scheduler), that statements, fetches and posts return (they have
timeouts), that the limiter grants in the end, that time passes, and that a
stopped process is restarted. That the Site asks, that something fails or that a
process is stopped is never assumed. `Ingest` assumes weak fairness of handlers
and strong fairness of a client's retry, since another client may hold the
handlers in between; `ReadPath` and `Presence` assume the same of polls and
heartbeats, which a running plugin sends for ever. `Lifecycle` assumes that `run`
goes on, that loops look at their context, that the deadlines of `/ready` and of
touches fire, and that answers are written. It assumes nothing of edge clients,
whose requests have no deadline, nor of the database: `ProbesAnswered` holds while
every statement hangs, and `ExitsAfterSignal` states the one condition it needs,
that statements sent to the database return, since closing the pool waits for them.

What the main properties say:

- `SingleFlight`: `Tick` waits for all its workers before the next claim, so one
  process never fetches a request twice at once, even after its lease lapsed.
- `DoubleFetchOnlyAfterLapse`: two processes hold one row only after a lapse.
- `ContractKept`, `ContractHonoured`: `Sweep` implements `FetchContract`, without
  and with its fairness.
- `CompetitionNeverStopped`, `LateJoinersServed`: a claim that finds competition
  rows takes one, and one that finds late joiners takes one of them. They are
  checked for one process and claims of two; see the hazards for the two cases in
  which the first does not hold.
- `ExclusiveHolder`: `Complete` updates by id alone, and is right only because a
  message in anybody's hands is `delivering` and in nobody else's.
- `ConfirmedNotResent`: what Discord accepted is not posted again.
- `DeliveryContractKept`: `Delivery` implements `DeliveryContract`. The price is
  `EveryMessageSettles`, below: `delivering` is never reclaimed.
- `ImplementsDelivery`: so does the worker with its limiter and real times,
  through `Delivery`.
- `FewPostsIntoHold`: after a 429 only goroutines that were already past the hold
  post once more each, and the one that saw it does not.
- `KeepsSchedule`: the n-th post of a message that met no 429 comes no earlier
  than the first n-1 delays of `Backoff` after its first.
- `RateRespected`: for each webhook and each period, tokens are at most burst plus
  ticks, though buckets are evicted and made anew. It needs a TTL no shorter than
  the longest hold, the burst and the queue of waiting callers together; the code
  has 15 minutes.
- `NewCallsHonourHold`: a `Wait` that began after a `ReserveFor` returns no
  earlier than the latest deadline.
- `RateTimesRetries`: what the sweep's limiter does bound: in any period, the
  attempts of a fetch for each token of the burst and of its ticks, and one round of
  retries by every worker.
- `NamesAgree`: `SanitizeRsn` and `NormalizeRsn` against definitions by words instead
  of loops.
- `NoDoubleCredit`, `AckedIsStored`, `CountersHonest`, `EveryPushLands`: a client
  may push again beside its own abandoned request; what fits and is well formed
  lands, once.
- `AnswersOwnBinding`, `NotModifiedIsHeld`, `NoBodyTwice`, `EventuallyCurrent`:
  what a poller is told, against what was bound while it asked and what it holds.
- `WritesFarApart`, `SeenIsRecent`: both sides of the interval, for touches that
  overlap and finish out of order.
- `AccountRowsSeen`: where the table exists, heartbeats stamp the row with the number of
  a linked account, although the token is linked between or during them. It does not
  say that this row is the player's, which is not so; see below.
- `PoolClosesLast`, `OnlySignalsStop`, `ProbesAnswered`, `ExitsAfterSignal`.

## What the work turned up

`delivery_stuck` ends in a violation: a delivery claimed when its process stops (or
whose `Complete` fails) stays `delivering`. `Claim` (`queue.go:75`) selects
`pending` and `failed` only, while its comment (`queue.go:65-66`) and
`migrations/0002` promise that it becomes due again. The lease written into
`next_attempt_at` has no reader. It happens on an orderly shutdown as well.

Other disagreements between the code and what it says of itself; the models do
what the code does, and no property above depends on the words:

- `FORGE_HISCORES_BURST=0` passes `config.Load`; every worker then returns at its
  first `Limiter.Wait` and the feeder of `Tick` blocks for good, with a live
  context (`runner.go:89`, "cancelled").
- With `FORGE_CLAIM_BATCH=1`, `JumpShare` is the whole claim, and late joiners do
  stop the competition lane (`store.go:70`, "never stop it").
- Rate 2/s with burst 4 exceeds five posts in two seconds after an idle spell
  (`sender.go:15-16`, "just under it").
- Retries take no token (`config.go:16`, "the GLOBAL request rate to Jagex");
  `RateTimesRetries` is the bound there is.
- A dry run still executes the UPDATE of `Claim`, and a live process leaves the rows
  alone until the lease lapses (`config.go:51-53`, "writes nothing but the run
  log").
- RETURNING does not keep the order of the subquery, so an urgent message may go
  out after the routine ones of its claim (`queue.go:64-65`).
- All goroutines may sleep for one busy webhook while a quiet one has budget
  (`worker.go:84-85`, "without touching anyone else's throughput").
- A 429's `Retry-After` replaces the schedule and costs an attempt, so six short
  ones abandon a message after seconds (`sender.go:188-189`, "roughly 23 minutes").
- `acceptsGzip` ignores `q`, so `gzip;q=0` is served gzip (`migrations/0003:29-30`).
- `served` is counted before `gunzip`, whose failure is a 500 (`main.go:215`, "the
  ratio of 304s to 200s").
- `Heartbeat` (`store.go:168`) updates `forge_sweep_state`, which no migration creates
  (`migrations/0001:20` calls it "the wrong one" and adds
  `accounts.sweep_live_seen_at`). Every heartbeat of a linked account is then a 500 and
  nobody is stamped, against `store.go:162` and the endpoint table of the repository's
  README. Where the table exists, as `scripts/seed-dev.sql` expects, `server.go:247`
  passes an `accounts.id` for a `player_id` that is a `forge_players.id`: the player who
  happens to have that number is stamped, or nobody, and the answer is 204.
  `NoMatchNobodySeen` covers both: a heartbeat has an effect only where the numbers meet.
- `FORGE_HISCORES_RPS=NaN` is not `<= 0` and passes (`config.go:110`, "must be
  positive"); the default is 1 (`docs/RATE_BUDGET.md:88` says 5).
- `FORGE_DISCORD_TICK=0s` panics in `time.NewTicker` and ends the process, the
  exception in `OnlySignalsStop`. `FORGE_DISCORD_CLAIM_BATCH=0` makes the delivery
  loop claim without a pause, `FORGE_DISCORD_WORKERS=0` makes it wait for ever.
- A hold longer than the limiter's TTL is evicted with its bucket.
- A message replayed after its row was pruned is posted again.
- `docs/BOUNDARY.md:19` has Discord posting on the Site's side of the boundary.

## Proofs

TLC checks the instances above; the theorems hold for every value of the
constants that satisfies the modules' assumptions. The assumptions are only the
types of the constants, positive counts where the code has them (`Burst`,
`TTL`, `MaxAttempts`, the delays, the lease), a home process for each worker, that
there are finitely many goroutines, callers, workers, connections and events, and that
a loop is not a request slot.
What a theorem needs beyond that is a hypothesis in its statement.

`SweepProofs`

- `TypeInv` is inductive: `TypeOK`, `Finite` (the table is finite, so that a
  claim has a cardinality), and `TickShape`, the discipline of `Tick`: a batch only
  while it feeds, goroutines only until `wg.Wait` has returned, rows in hand are
  rows of the table, an outcome to be written is one of the three. `TypeOK` alone is
  not inductive: what `Complete` writes is typed only because `wout` is an outcome
  by then.
- `Apart` strengthens `SingleFlight` and `DoubleFetchOnlyAfterLapse`: what a
  process holds is leased unless its lease has lapsed at some time (`HeldIsLeased`), so
  a claim, which passes over leased rows, takes only held rows that lapsed.
  `ClaimKeepsApart` and `FeedKeepsApart` are the two steps that matter; `OthersTakeNothing` covers
  the rest through one lemma about steps that take nothing.
- `SweepKeepsContract`: `StepsRefine` shows that a step is a `Submit`, an `Answer`
  or a stutter of `FetchContract`; only `Complete` needs thought
  (`CompleteAnswers`), because a second process may complete a row that has an answer.
- The lanes. `LimitTakes` says what `ORDER BY ... LIMIT k` takes, k rows or all
  there are, by counting the rows `Ahead` of each; the last row let through has all
  the others ahead of it, and the first one left out has only those that were let
  through. `OldestCompetitionTaken`: only late joiners are ahead of the oldest open
  competition row, and `JumpShare` leaves it a place; `FirstLateJoinerTaken` and
  `NoLateJoinerFullClaim` are the other two lanes. These lemmas hold for whatever rows
  another claim has locked. `CompetitionKeepsMoving` and `LateJoinersAreServed` are
  about all that is pending, so their hypothesis is one process (`Alone`), and for the
  first a claim batch of at least two (the default is 20): a batch of one is all
  late joiner, and TLC finds the lane stopped.
- `RunLogsAddUp`, for a burst of at least one. `Books`: while a tick is undisturbed,
  every request claimed is in the batch, with a worker that has no outcome yet, or in
  the tally. The hypothesis is needed: with a burst of zero the workers leave with
  their requests, and TLC finds a run recorded without their outcomes.

`DeliveryProofs`

- `TypeInv` is built as above, with `DrainShape` for `drain`. `ExclusiveHolder` is
  inductive beside it: a claim takes messages that are pending or failed, hence in
  nobody's hands, and every other step takes none (`OthersTakeNothing`).
- `Budget` relates `sends` to `attempts`: a claim pays for one send, so a message
  that is claimed and unsent has `sends < attempts`; a pending message has
  attempts left, since an exhausted one goes to `failed`, and a failed one is never
  due. `AttemptBudgetHolds` is the bound on posts and on claims.
- `VerdictsStay` uses the same fact, since `Claim` does look at failed rows.
- `ConfirmedStaysSent` is proved under `~LateReplay`: a confirmed message is
  waiting to be completed, stranded as `delivering`, delivered, or pruned
  (`Confirmed`).
- `DeliveryKeepsContract`, under `~LateReplay`: every step is an `Ask`, a `Post`, a
  `Settle` or a stutter of `DeliveryContract`. `Budget` allows the post, `Confirmed`
  says that it is not a second one, and `Posted`, that a verdict about to be written
  is for a message that was posted and is `delivered` only for a confirmed one,
  makes `Complete` a `Settle`. Pruning is a stutter.

`LimiterProofs`

- `HoldsAreHonoured` is proved under `HoldsFitTTL`, that no hold is longer than the
  TTL. `HoldKnown` says that a deadline that has not passed is in the live bucket,
  which will outlive it; `CallersServe` that a caller's timer covers what it owes.
- `RateIsRespected` is proved under `BucketsOutlast`: the TTL covers the longest hold
  and, after it, one tick for each token of the burst and each caller. The code's TTL is
  1800 ticks for a burst of 4 and a handful of goroutines, so this is a bound on
  `Retry-After` alone; without it Sweep may evict a bucket that still has promises
  out, and a fresh one gives the burst again. `RateRespected` is not inductive, since
  it does not know what has been promised. `Budget` does: what was granted from tick
  a on is at most `Front - a`, where `Front` is the limiter's `slot` or now. When a
  bucket dies its `Front` falls back to now, so `BucketInv` says that it then had no
  promise left: each future token has a caller waiting for it (`Covered`), so they are
  no more than the callers; holds, pauses and slots end before the bucket is idle
  (`HoldsFit`, `PausesFit`, `SlotsFit`); and no dead bucket's limiter has promises
  (`OneLimiter`).

- `PacedDelivery`. `PacedInv` is the types, what each goroutine has in hand
  (`InHand`: who is in `Wait` is there for the webhook of its message), and that
  goroutines are idle between batches. With it every step is a step of the limiter or
  leaves it alone (`LimiterUsedAsSpecified`), so that the limiter's theorems carry
  over: `PostsKeepRate` and `PostsHonourHold` are the two that say what Discord sees.
- `PacedImplementsDelivery` maps a time to `now`, `later` or `never` by the clock, and
  a goroutine on its way to `ReserveFor` to one that is about to complete. The passing of
  time maps to rows falling due together, or to nothing; a claim takes
  rows by time and priority where `Delivery` leaves the choice among equal priorities
  open. `DeliveryProofs` therefore holds of the worker under real times.
- `FewPostsGoIntoHold` is proved under `HoldsFitTTL` and for at least one goroutine
  (`config.Load` lets zero through). `FewPostsIntoHold` is not inductive: it does not
  know who may still post. `HoldBudget` counts them: `Past(k)` are the goroutines that
  may post to k before its hold is over, those whose `Wait` has returned and those whose
  `Wait` began before the hold; the posts made and the goroutines in `Past(k)` are
  together fewer than all, because the one that extended the hold is not in it.
  Nobody joins `Past(k)` during a hold, which is where `HoldKnown` and with it the TTL
  is needed.
- `RetriesKeepSchedule`: `ScheduleInv` relates the sum of the first delays to
  `next_attempt_at` while a message waits and to the clock once it is claimed
  (`OnTime`), and says that no two goroutines hold one message (`OneHolder`) and that
  only one answered by a 429 has an instruction to wait (`Posted`). `ScheduleFacts`, by `SumSplits`, is that
  the sum grows by the next delay with each attempt.

`HiscoresProofs`

- `RequestsAreBounded` has no hypothesis. `RateTimesRetries` is not inductive, since
  it knows neither the tokens promised ahead nor the retries still to come. `Paid` does:
  what was sent since tick a, with all that the workers may still send for the tokens
  they have (`Owed`), is at most the attempts for each token promised since a and one
  round of retries. Taking a token raises both sides by `Attempts`; an attempt moves one
  from what is owed to what was sent. Two facts close it. `TokensApart`: no more workers
  wait for tokens of tick t or later than there are such tokens; when a new period
  begins it bounds what they owe to it. `TokensAwaited`: until the process stops, each
  token promised beyond now and the burst has its worker waiting, with all its attempts
  still owed; so what has been sent is that much less than `Paid` says
  (`InvRateSoFar`). Periods that are over do not change any more.
- `TypeCorrect` includes that a fetch makes no more than `Attempts` attempts, for every
  `Retries`, also one below 1.

`IngestProofs`

- `Inv` is `TypeOK`, `Progress` (a handler has stored every event before the one it
  is at), `NoDoubleCredit` and `AckedIsStored`. A 202 is sent behind the last event,
  so `Progress` gives `AckMeansStored`; rows never become fewer (`Grows`), so that
  other handlers, retries and crashes do not disturb it. `NeverCreditedTwice` rests
  on the index alone.
- `CountersNeverExceedRows`: `CountersHonest` is inductive beside `Inv`. A handler's
  tally moves into the counter with its 202 and is forgotten with any other answer or
  a crash; it grows by one only with a row (`HandleKeepsCounters`).
- About `Presence`, `SeenInv` is `PresenceTypeOK`, `Served` (a goroutine that is not
  free serves a token, its statement has its `now()`, an `account_id` it has read is
  still its token's), `Forward` (`last_seen_at` has not gone back since a touch took its snapshot)
  and `SeenIsRecent`. `Forward` is what makes a touch that writes nothing harmless: what
  was fresh in its snapshot is fresh in the row. `SeenStaysRecent` and
  `WritesStayApart` follow, for every interval and any number of touches, and
  `NoMatchNobodySeen` from the part of `PresenceTypeOK` that says what a stamped row is.

`ReadProofs`

- `Inv` is `TypeOK`, `WaitsForOwn` (who is waited for serves the one who waits) and,
  for each handler, `Attended` (its history has what is bound now), `Loaded` (what it
  has loaded, and what its answer names, was bound while it ran, and it was entitled
  to it) and `Told` (while its client still waits, the tags of its request name what
  the client holds). `Told` is the part that answers which cross depend on: a client
  that gave up and asked again waits for another handler. From it follow
  `NotModifiedIsTrue` and `BodiesAreNews`, from `Loaded` `AnswersAreOwn`.

`LifecycleProofs`

- `Inv` is `TypeOK`, which includes the cap on connections, `Order` (what is over at
  each place of `run` and its deferred calls), `Unused` (who is not running holds and
  awaits no connection) and `PoolClosesLast`. `SignalsStop` shows the action property
  from it.

`Sums`

- `SumFunction` is defined by a recursion over finite sets, by way of CHOOSE.
  `PartialSumStep` shows that the recursion has a solution, and `SumChanges`,
  `SumIsNat`, `SumOfZeros`, `SumSplits` and `SumBounds` what it gives. The library's induction theorems have an
  operator as their parameter, which the provers cannot instantiate; `NumberInduction`
  and `SubsetInduction` have the set of the cases shown instead, and come from the
  existence of a least element (`WFMin`).

Each proof module also proves its module's `TypeOK`; most runs do not repeat it.

Only model-checked: liveness under fairness (`ContractHonoured`,
`SettlesUndisturbed`, `WaitingGetsClaimed`, `EveryPushLands`, `EventuallyCurrent`,
`AccountRowsSeen`, `ProbesAnswered`, `ExitsAfterSignal`, both
`ShutdownCompletes`), which is out of the prover's reach, as is ENABLED; the
properties of `Rsn`, on which `NamesAgree` rests, since they say what folds over
sequences compute.

## Not modelled

Logging, the `-healthcheck` client and what the readers report (`Backlog`, `Stats`,
`Len`, `reportEdge`); the classification of status codes and the parsing of
`Retry-After` (the set of outcomes is modelled); JSON and gzip themselves; hashing of
tokens, which stand for themselves; settings that no branch of `run` depends on,
other than as constants; the sweep columns of `accounts`, which no code here
changes; build and deployment files. The database is taken to execute each
statement atomically (`TouchSeen` excepted, see `Presence`) and to keep what it has
committed. The runs have no client that sends `If-None-Match: *` (`Anything` is
empty) and no dry run (the theorems of `SweepProofs` cover it).

## Plan

Done, in this order: `FetchContract`, `FetchQueue`, `Sweep` and its proofs;
`DeliveryQueue`, `Delivery` and its proofs; `KeyedLimiter` and its proofs;
`HiscoresClient`; `Ingest`; then `DeliveryContract` and the proof that `Delivery`
implements it, `PacedDelivery`, `ReadPath`, `Presence` and its proofs, `Lifecycle`,
`Rsn`, the proofs about `Ingest`; then the proofs about `ReadPath` and `Lifecycle`, and
those about rates, counters, the run log and the lanes; then those about
`PacedDelivery` and `HiscoresClient`.

What is left:

1. the hypotheses of the lane theorems for overlapping processes: what a claim takes
   of the rows that no other claim has locked;
2. `FewPostsIntoHold` for holds longer than the TTL: how many posts an eviction lets
   into a hold;
3. a dry run and a live process on one table, which needs `DryRun` per process.

# Bollwark API: a TLA+ verification project

Bollwark is a self-hosted, cookie-free CAPTCHA service written in Rust: a
browser widget fetches a proof-of-work challenge, solves it, and the
integrator's backend redeems it. This directory models the service's state
machines from the source, checks them with TLC on small instances and proves
the central results for every instance with TLAPS. `PROJECT.json` maps each
definition to the lines it models.

## Inventory

| Component | State | Operations | Talks to |
|---|---|---|---|
| **Challenge service** (`api/handlers.rs`, `storage/memory.rs`, `puzzle/`) | map of live challenges, maps of sites, hash semaphore | `GET /v1/puzzle`, `POST /v1/verify`, cleanup task, request timeout | site registry, admission, decision log |
| **Admission and risk scoring** (`risk/`, `site/types.rs`, `config.rs`) | four maps of rate windows, site policies, configuration | counting, scoring, tier, difficulty, shedding, policy edit, sweep, restart | called by both handlers |
| **Failover guard** (`failover/mod.rs`) | attested outage windows, last heartbeat, per-site budget, a state file | boot, heartbeat, declare outage, evaluate a claim, persist | verify handler, heartbeat task, admin endpoint |
| **Site registry** (`storage/memory.rs`, SQLite) | two maps behind two locks, a table | create, rotate, edit, delete, reload | admin handlers; read by the challenge service |
| **Decision log** (`dashboard/log.rs`, SQLite) | bounded channel, writer thread, puzzle, verify and label rows, training samples | record, label, clear, erase, prune, flush | handlers, sweeper, shutdown |
| **Training export** (`dashboard/query.rs`, `routes.rs`) | row ids of samples, the puller's cursor | a page of samples after an id | reads the log's database while the writer changes it |
| **Client crate** (`crates/bollwark-verify`) | one call in flight per form post | verify a token, time out, extract a form | `POST /v1/verify` |
| **Widget** (`static/captcha-widget.js`, `captcha-worker.js`) | current puzzle, token, timers, worker, failover flag | fetch, click, solve, refresh, failover, recovery, reset | the service, the browser |
| Dashboard statistics, assets, GeoIP, decoding, list reload, tuning crate | none that the service changes | read-only or pure | not modelled; reasons below |

What makes each hard, and what correctness means there:

- *Challenge service.* Handlers run in parallel on a multi-threaded runtime and
  release the map's lock between reading, hashing, counting and consuming. A
  request that times out leaves its hash running. Correct: one redemption per
  challenge, by its own site; bounded memory; nothing lost early, nothing
  brought back; every request answered.
- *Admission.* Fixed windows, sweeps, restarts, forged headers and rotating
  IPv6 addresses meet limits that are read at different moments. Correct:
  bursts bounded, headroom kept from flooders, no challenge without work.
- *Failover.* Two writers share a file, the process crashes, and downtime is
  inferred from what is left on disk. Correct: windows are real, claims pass
  only near an outage and within the budget.
- *Site registry.* Write-through with two locks, failing statements and stops
  between commit and answer. Correct: index, memory and table agree, what was
  answered survives.
- *Decision log.* A queue that drops, transactions that fail, and rows that
  move from one table to another. Correct: verdicts and erasures follow the
  decision, calls are answered, old data goes, a graceful stop loses nothing.
- *Training export.* Pages are separate reads, with folds, erasures and expiry
  in between. Correct: a finished pull misses nothing, ids keep their meaning.
- *Client crate.* Its timeout leaves the service's handler running, and the
  form's body is looked at after the pass. Correct: a token lets one post
  through, a fresh token is not called a replay, every post is answered.
- *Widget.* Promises, timers and one worker shared by several flows. Correct:
  one refresh loop, a token that is a real solution, failover that ends.

The individual hazards, each at its line, are listed in `PROJECT.json`.

## Modules

```
ChallengeService  ── refines ──> OneTimeChallenge
   ├── VerifyClient              the client crate, composed with it
   └── ChallengeServiceProofs
         └── VerifyClientProofs       (also extends VerifyClient)
DecisionLog ── DecisionLogProofs
   └── TrainingExport            a puller, composed with it
         └── TrainingExportProofs     (also extends DecisionLogProofs)
SiteStore  ── SiteStoreProofs
Failover   ── FailoverProofs
Admission  ── extends ──> RiskScoring
   └── AdmissionProofs
Widget     ── WidgetProofs
MC*        the instance of each for TLC
```

**ChallengeService.** `challenges`, `sites_by_key` and `sites_by_secret` are
the store's maps; each handler is a slot with a program counter (`vpc`, `ipc`)
and the values it carries between steps (`vreq`, `ireq`). Each acquisition of a
store lock is a step of its own: `BySecret`, `ByKey`, `GetChallenge`,
`CheckExpiry`, `AcquirePermit`, `HashDone`, `RejectNonce`, `Consume`, `Score`
follow `verify`; `PuzzleLookup`, `PuzzleAdmit`, `PuzzleRefuse`,
`PuzzleGenerate`, `PuzzleStore` follow `get_puzzle`. A handler that does not
suspend cannot be cancelled, so `Abandon` (the timeout layer, a caller that
hangs up) applies only at the two awaits of a memory-hard verification;
abandoned mid-hash, the hash goes on as one of `detached` and returns its
permit in `DetachedHashDone`. `SweepStart` reads the clock, `SweepRetain`
removes what had expired by then. Whether a nonce is right and what the scorers
decide are left open. `born`, `solved`, `invalid` and `owner` are history.

**OneTimeChallenge** is the promise: a challenge is unissued, live, and then
redeemed once or dropped, for good. `ChallengeService!Status` is the refinement
mapping.

**VerifyClient** extends ChallengeService with the callers of `/v1/verify`.
`call` is the form post behind each handler: the challenge its token names and
whether anybody still waits. `Handle` conjoins each step of the handler with
the answer it ends in (`Responds`), the status codes of `error.rs`; `Verdict`
is the match in `verify_inner`, `Extracted` what the axum extractor adds, and
`Deliver` runs the form's handler or refuses. `ClientTimeout` cuts the post off
and lets the handler run on; an answer lost on its way is such a timeout. A
visitor may send an issued token as often as he likes and the backend may still
hold a rotated secret. Posts that never reach a handler (no token, an
undecodable or unknown one) change nothing and are not actions. `accepted` and
`replayed` are history.

**RiskScoring** holds the pure functions: client address and rate key, every
issuance and verify signal, tiers, difficulty, load floor, policy resolution
and validation, boot-time validation of the configuration. Weights, bands and
lists are constants. **Admission** is the rest of the two handlers, seen from
the rate windows: it counts (three separate locks), scores, decides, sheds and
stores; `Score` counts behaviour blobs; `UpdatePolicy`, `Sweep`, `Restart` and
`Tick` are the environment. A challenge here is a unit of `active`; its life is
ChallengeService's subject. `quiet` (the requests of a subject that its counter
let through) and `taken` (the challenges a source got under pressure) are
history: sets of numbered events with their ages, as many as fall into a
stretch of time as long as the window, so that their number is a cardinality.

**Failover.** The state file is modelled down to directory entries and inodes:
`CreateTmp` truncates or creates the shared temporary file, `WriteTmp` fills
whichever inode the writer opened, `RenameTmp` moves whatever has that name.
Data that was written survives the crash of the process; loss of the kernel's
cache is left out. `Boot` is `FailoverGuard::load`, `Honor` and `RateLimited`
the two verdicts of `evaluate` that touch the budget. `ups` (the seconds the
process was running), `restarted` (its last stop or start again) and `honored`
(the claims accepted since boot, by second) are history.

**SiteStore.** An admin request takes its locks in order (`Acquire`), commits
(`Persist`) or is refused (`Refuse`), changes the maps and answers (`Apply`);
`Stop` may come between any two of these steps, `Restart` reloads the table.
`policy_column` and `FromRow` model what the NULL column does.

**DecisionLog.** Handlers offer records to a bounded channel and drop them when
it is full; callers of control messages wait for room (`Send`) and then for
their answer. The writer receives, drains a batch, commits it or loses it as a
whole, then runs at most one deferred control message, in a transaction that
may fail. `Drain`, `Flush`, `Exit` are the graceful stop, `Crash` the other
one. Records of refused puzzles carry no challenge id, join nothing, and are
left out.

`Sessions` is the join the dashboard's lists and totals are built on.

**TrainingExport** extends DecisionLog with the row ids of the samples
(`Numbered` gives the inserts of a fold their ids, in the order of the puzzle
rows) and with a puller that loops over `GET /v1/admin/training` until
`next_after_id` is null, and later resumes from the last id it holds or starts
over. Every step of the writer, the crash and the restart included, may come
between two pages.

**Widget.** A *flow* is an asynchronous function in flight (first fetch,
verify, refresh, recovery) with its position at an await; timers, the field
`_refreshTimer` (`handle`), the single `this.worker` and the deferred refresh
of a hidden tab are state. The service goes down and comes back, challenges
expire, the tab hides and shows. `Puzzles`, `FlowIds`, `TimerIds` are pools;
a puzzle id nothing refers to any more is reused, and `WidgetAssumption` asks
for enough ids that one is always free. Nothing in the code keeps a click, a
refresh, a recovery and `reset()` apart, and nothing in the model does, up to
the size of the pools (`Bearable`). `upset` is history: since the last clean
start, whose worker the end of another flow has terminated (a visitor's solve,
or the loop's), and whether a reset left flows or timers behind. The properties
use it to say exactly when the code keeps what one would expect of it.

## Runs

| Run | Bounds | Shows |
|---|---|---|
| `verify_race` | client and service; 1 site, 2 secrets, 1 challenge, 2 verifiers, 1 issuer, Argon2id, 1 permit, attempt cap 1, clock to 2 | `AcceptedOnce`, `NoFalseReplay`, `SingleUse`, `HashMemoryBounded`, `AnswersBounded`, refinement `ImplementsOneTime`, and under fairness `SubmissionsAnswered`, `PermitsRecover`, `ExpiredSwept` (296,516 states) |
| `issuance` | 2 sites, 3 secrets, 3 challenges, 2 issuers, 1 verifier, Argon2id, capacity 1, attempts uncapped | `TypeOK`, `TenantIsolation`, `RotationTakesHold`, `DwellIsArrival` along refresh chains, `OvershootBounded`, `NoPrematureLoss` with cap 0 (1,387,311 states) |
| `failover` | 1 site, heartbeat and 1 declarer, clock to 5, gap 3, failing writes, cap 2 in a window of 2 | `DiskMatchesMemory`, `WindowsAreReal`, `HonoredPerMinute`, `HonoredNearOutage` (1,783,863 states) |
| `site_store` | 2 sites, 3 secrets, 2 values, 2 admin handlers | `IndexIsInverse`, `MemoryMatchesDisk`, `AnsweredIsDurable`, `HoldersFinish` |
| `decision_log` | 1 challenge of either of 2 sites, channel 2, batch 2, clock to 3, training on and off, 1 failure | `LabelsFollowDecisions`, `ErasedStaysErased`, `GracefulStopWritesAll`, `RowOrSample`, `SessionsKept`, `CallsAnswered`, `OldRowsPruned` |
| `export` | 2 challenges, channel 1, pages of 1 sample, training on and off, clock to 3, 1 failure | `PullIsComplete`, `IdsAreForGood` (1,275,008 states) |
| `widget` | 2 retries, 3 flows, 3 timers, 7 puzzles; clicks and resets overlap any flow | `OneRefreshLoop`, `ClaimOnlyWhenExpired`, `SolvingSettles`, `FailoverEnds` (163,196 states) |
| `admission` | 2 handlers, 2 kinds of request of one source, 2 submissions, 3 policies, 3 configurations, per-IP cap 2, capacity 5, windows of 1 and 2 seconds | `FixedWindowBurst`, `ReservedHeadroom`, `NoFreeChallenge` (213,882 states) |

`issuance` and `site_store` also check a type invariant. Every property has a
mutant in `PROJECT.json`, a plausible mistake in the mapped code that violates
it.

*Why these bounds.* Races in the challenge map involve two handlers and the
sweeper on one id, so one challenge suffices for `verify_race`, and the second
secret is the one a rotation issues; there one assignment of secrets to sites
at boot stands for all, as secrets are interchangeable. Isolation needs two
sites, which `issuance` has. Both runs hash with Argon2id; with SHA-256 a
handler goes through the same states without waiting for a permit or being cut
off, and the theorems cover both. Refresh chains and overshoot
need three ids and two issuers. A capacity of 2 fills the log's channel while a
caller waits, and the clock reaches past retention. Pages of one sample and two
samples put the cursor between two commits; verify rows take no part in
paging, so `export` has none.

`failover` has a cap of two, so that a burst on each side of the boundary of
the fixed window puts three claims into one minute: the bound of
`HonoredPerMinute` is reached, and one less is violated.

The `widget` run lets three flows and timers meet, which is what one flow's
worker, terminated by the end of a second while a third waits, needs. The view
`Shape` leaves out which challenge is which, the tier and the token: no guard
and no property of the run reads them. Each exception the properties make is
needed: without its mention of `upset`, TLC violates each of the four.

`admission` takes the burst across a window boundary and the two handlers
between count and decision to their bounds: with one less, `FixedWindowBurst`
is violated in every map and `ReservedHeadroom` at `2 * HardLimit` plus one
handler. What keeps such a run small are its constraint and view, both in
`MCAdmission`. `Apart` searches deeply where the parts meet: handlers overlap
and challenges are remembered while the map is under pressure, bursts come under
the default configuration, behaviour blobs, which share no counter with
puzzle requests, come between them. `Shape` merges states with the same
future: handlers that trade places, a window that is over and none, counts on
the same side of the cap. What the constraint leaves out the theorems cover.
The counters saturate at `MaxCount`, where every comparison with a limit, a
band or a rung of the ladder is already decided.

`MaxTime`, `MaxDeclares`, `MaxHonored`, `MaxVerifies` and `MaxFailures` only
cap counters that would otherwise grow for ever. Where the clock stops,
age-based events after it are not explored.

*Violations.* Four runs show disagreements between documentation and code,
recorded under `findings` with the two of the next paragraph:

- `doc_torn_state`: the heartbeat and a declaration share one temporary file,
  so a crash can leave the truncated state file the comment rules out.
- `doc_false_outage`: a run with failover switched off writes one heartbeat at
  boot and no more; the next boot attests that healthy run as an outage.
- `doc_erase`: verify rows whose puzzle row is gone survive an erasure.
- `doc_widget_token`: a click while a refresh is in flight pairs the new
  challenge id with the old nonce.

`failover` is the same module as the first two with failover always enabled and
shows what does hold: `WindowsAreReal` then survives the writers' races, torn
files and crash loops, and `WindowsAreRealHolds` proves it.

*Weaker than documented.* Two properties hold because they say what the code
does, where the documentation says more; these are findings too.

- `AnswersBounded`: `VERIFY_MAX_ATTEMPTS` is documented as a bound on the
  memory-hard attempts one challenge can absorb. A request that is dropped
  while it hashes is never counted, so the cap bounds answers, not hashes; the
  hashes that run at once are bounded by the permits (`HashMemoryBounded`).
- `HonoredPerMinute`: `FAILOVER_MAX_PER_MIN` is documented per rolling minute.
  The counter is a fixed window, and any minute may hold twice the cap less one.

*Deadlock* is checked in every run.

## Fairness

- `verify_race`: weak fairness of each handler's steps (the runtime polls ready
  tasks, the timeout layer cuts a waiting one), of hashes (they are finite
  computations), of the sweeper (an interval task). The semaphore is not
  assumed to be fair to a waiting handler: the timeout answers it. Nothing is
  assumed of the client's timeout, which a client built with its own HTTP
  client may not have: `SubmissionsAnswered` rests on the service alone.
- `site_store`: weak fairness of admin handlers; nothing is assumed of stops.
- `decision_log`: weak fairness of the writer thread and of the sweeper's
  interval, strong fairness of `Send`, because the channel serves waiting
  senders in order.
- `widget`: requests and workers end, timers fire; strong fairness of the three
  steps of a recovery (fetched, worker created, solved) says that a service
  which is up again does not refuse for ever and that not every worker fails.
  A flow whose worker was terminated takes no step, and no fairness revives it.
  No fairness of clicks, resets, hiding or of the end of an outage:
  `FailoverEnds` is conditional on the service being up and the tab visible.

## Proofs

Each theorem is stated for arbitrary constants that satisfy the named
assumptions of its module: parameters in their ranges, `None` outside the data,
and the finiteness of the sets whose cardinality a property counts. Bounds such
as `MaxTime` are constants too, so a theorem holds for every bound. The
theorems, with the property each states, are listed in `PROJECT.json`; what
follows is the argument behind each group.

**ChallengeServiceProofs**, first part (`TypeCorrect`, `SingleUseHolds`,
`HashMemoryHolds`, `Refinement`). `SingleUse` is not inductive: in a state where an issuer still
holds an id that was already consumed, its insert would bring the challenge
back. The inductive invariant is `Inv == TypeOK /\ StoreInv`; `StoreInv` says
that an id is in at most one place (in one issuer's hands, in the map, or
consumed), and that what is in the map or consumed was minted. `InvNext` has
one lemma per group of actions, each with a step per action; `StoreOpsShrink`
states once what the removing operations (consume, failed attempt, delete,
sweep) have in common. `PermitInv` adds that free permits, running hashes and
detached hashes sum up to `Permits`. The refinement maps the insert to *issue*
(`StoreIsIssue`), the winning consume to *redeem* (`ConsumeIsRedeem`), every
other removal to *drop* (`ShrinkIsDrop`), and everything else to a stutter.

Second part, origins (`TenantIsolationHolds`, `DwellIsArrivalHolds`,
`RotationHolds`, `NoPrematureLossHolds`). `OriginInv` says that what an entry, a
challenge on its way to the map, a handler's snapshot or an authenticated
request carries agrees with the mint or the secret it was taken from. Mints and
the owners of secrets are written once, so a copy stays right however late it
is used; that is why the window between the lookups and the consume does no
harm. `NoPrematureLoss` also needs `SweepInv`: the clock a sweep goes by is
never ahead.

Third part, bounds (`OvershootHolds`, `AnswersHold`, `GoneHolds`). Neither
bound is inductive, because neither counts the handlers that have passed the
check and not yet acted. `CapacityInv` adds the admitted issuers to the
entries; `AttemptsInv` ties the counter in an entry to the answers given, and
`AnswersHold` counts the handlers engaged with a challenge. `GoneHolds` is the
converse of `NoPrematureLoss`: what has left the map was redeemed, worn out or
has expired.

**VerifyClientProofs** (`ClientImplementsService`, `AcceptedOnceHolds`,
`NoFalseReplayHolds`). Every step of the composition is one of
ChallengeService, so its theorems carry over. `LinkInv` relates a post to the
challenge its handler works on, `PassInv` says that a handler that scores is
the only one that redeemed its challenge. `NoFalseReplay` is `GoneHolds` at the
moment of the answer, kept because nothing takes back that a challenge is used
up (`UsedUpStays`).

**SiteStoreProofs** (`RegistryTypeCorrect`, `IndexIsInverseHolds`,
`MemoryMatchesDiskHolds`, `AnsweredIsDurableHolds`, `OneWriterHolds`). `LockInv`
says which locks a handler holds at each step, and from the order of the two
locks follows that at most one handler is between its statement and its answer.
`CommittedInv` says that what such a handler committed is what it will put into
the maps, `SecretsDistinct` is the table's UNIQUE column, and from both the
index stays the inverse of the sites (`Inverts`).

**DecisionLogProofs** (`LogTypeCorrect`, `RowOrSampleHolds`,
`LabelsFollowDecisionsHolds`, `ErasedStaysErasedHolds`, `GracefulStopHolds`,
`SessionsKeptHolds`). All rest on the order of the one queue. `LineInv`: a
challenge has one puzzle record, ahead of its verify records. `KnownInv`: until
that record is settled no table knows the challenge; afterwards it is one row,
one sample or neither, with the verdict last accepted, and after an erasure
neither for good. `AgeInv` orders the ages of rows for `SessionsKept`.
`FlushInv`: no record is behind a flush, for `GracefulStop`.

**TrainingExportProofs** (`IdsAreForGoodHolds`, `PullIsCompleteHolds`,
`ExportKeepsLog`). `IdsInv`: ids in use are distinct and within the sequence,
which never goes back. `MirrorInv`: an id that was pulled names no other
challenge. `CursorInv`: every sample at or before the cursor has been pulled,
the invariant behind `PullIsComplete`; it survives a fold because new ids are
above the sequence (`NumberedStep`) and a page because it is the beginning of
what lies after the cursor (`PageIsPrefix`, `LastPage`).

**FailoverProofs** (`DiskMatchesMemoryHolds`, `HonoredNearOutageHolds`,
`WindowsAreRealHolds`, `HonoredPerMinuteHolds`).
- `SoloInv`: without an overlap there is one writer, it works on the temporary
  file, and the state has not changed since its snapshot.
- `SourceInv` speaks of every window that is in memory, in a snapshot or in any
  inode (`Known`): a declared one was declared, any other ends at a restart.
  `HonoredNearOutage` follows for all constants, failover switched off in some
  runs included.
- `WindowsAreReal` assumes `EnabledChoices = {TRUE}`; without it the statement
  is false (`doc_false_outage`). `BeatInv` says the running process keeps its
  heartbeat, `FileInv` that what is on its way to the file, and the file
  itself, is at most one heartbeat behind memory, `DiskEvidence` that a readable
  file is at most two intervals behind the last second the process ran.
- `CapInv`: a site's counter covers the claims since it was opened, and the
  minute before that holds at most the cap. Two such stretches cover any minute,
  and one that reaches into the next window no longer holds the claim that
  opened the last, hence one less than twice the cap. Claims are a set of
  numbered events, so that their number is a cardinality and the argument needs
  no sum.

The proof of `WindowsAreReal` first failed, and for a good reason: the earlier
statement compared a window with a history of downtime that was itself pruned,
and held only because the clock of the run stopped early. It was restated over
`ups`, and the run's clock was raised to where the old form failed.

**AdmissionProofs** (`CountedBySource`, `FixedWindowBurstHolds`,
`ReservedHeadroomHolds`, `NoFreeChallengeHolds`), for any number of handlers,
sources and sites, any limits and window lengths.
- `CountedBySource` is a fact about `client_ip` and `rate_key` alone: the
  rightmost hop that is no trusted proxy is the one the first trusted proxy
  appended, so the address counted is the visitor's, cut to its /64. It rests
  on `RequestAssumption`: visitors are not themselves trusted proxies.
- `FixedWindowBurst` is not inductive: it says nothing of how the events fall
  around the moment the window was opened. `Accounts` does: those since then are
  within the window's count and within the limit, those before it within the
  limit, and the window was not over when any of them was counted. `WindowInv`
  says so of each of the four maps, and that a key without a window has no
  events; hence a sweep, which drops only windows that are over, drops none
  that still matters. For behaviour blobs `DuplicateCosts` links a count to a
  verdict: under a policy that flags duplicates (`FlagsDuplicates`) one past the
  limit does not pass. Validation does not ask that of a policy, so the history
  notes only replays let through under one that does; nothing is assumed.
- `ReservedHeadroom` relates two moments of one request, the count and the
  decision. `PressureInv` needs no ticket per request: for every age, the
  challenges decided up to that age, plus the requests counted and not yet
  decided, are at most the requests the counter let through up to that age,
  plus the handlers.
- `NoFreeChallenge` follows from `PolicyInv`: neither a configuration that
  boots nor a stored policy has a difficulty of 0, in the default or in the
  maximum, so no overlay of one on the other has (`DifficultyIsPositive`, with
  `FloorIsNatural` for the load ladder).

**WidgetProofs** (`OneRefreshLoopHolds`, `ClaimOnlyWhenExpiredHolds`,
`SpinnerHasItsSolve`), for any number of retries, pools of any size, and clicks
and resets that overlap whatever they like.
- The loop is one thing that changes hands: the armed timer, the deferred
  refresh or a flow. `OneInv` says that one of them has it at most and that an
  armed timer is the one of the handle, `KeptInv` that one has it exactly when
  the widget holds a challenge or a claim and the loop's worker was not
  terminated. `StartInv` (a first fetch is alone) and `ClaimInv` (only a widget
  in failover recovers) are what the steps need.
- All four hold until a reset leaves a flow or a timer behind, and again after a
  clean start; in between the invariant is `TypeInv` alone, since two loops and
  two first fetches are then possible.
- `SpinnerHasItsSolve` is the safety half of `SolvingSettles`: a widget that
  shows a spinner has a solve in flight, unless one was terminated. That a solve
  in flight ends is a matter of fairness and stays with TLC.

Model-checked only: liveness (`SubmissionsAnswered`, `PermitsRecover`,
`ExpiredSwept`, `HoldersFinish`, `CallsAnswered`, `OldRowsPruned`,
`SolvingSettles`, `FailoverEnds`); the prover handles neither fairness nor
ENABLED.

No module here declares a RECURSIVE operator.

## Not modelled

- The sums and groupings of `stats`, `analytics` and site activity, assets,
  GeoIP, JSON and hex decoding: read only or pure.
- Reload of reputation and fingerprint lists: an atomic replacement; the lists
  are constants. What a half-written list parses to is a matter of file system
  events and text formats.
- `bollwark-tuning`: offline evaluation and search in floating point.
- The risk band and failover flag on a pass, which the client hands on.
- Proof-of-work hashing itself; the widget's rendering and telemetry.
- The verify-time score of failover claims, and the guard's displayed totals.
- Width of summed weights (u32): `RiskScoring` sums unbounded integers.

## Observations

Met while modelling; no run states them, because no document promises
otherwise in terms a run could refute or because the cause lies outside the
models.

- The export carries a sample's label as it was when the page was read. A
  verdict that arrives after a sample was pulled never reaches a puller that
  resumes from its last id.
- A fold keeps the first verify row of a challenge (`INSERT OR IGNORE` over the
  join). A wrong nonce followed by a pass is exported as `pow_invalid`, and the
  tuning tool leaves such samples out. For the same reason `Session`, "One row
  per puzzle decision", lists a challenge once per verify row, and
  `total_sessions` counts joined rows.
- `analytics` runs several statements outside one transaction, so the panels of
  one answer may describe different commits.
- The list watcher's comment says the request path never sees a partial list. A
  file rewritten in place more slowly than the debounce is read half-written,
  and if that half parses it is used until the next event.
- `Verdict::Blocked` is documented as "Solved correctly, but refused on risk
  score"; a wrong nonce ends there too.
- Flows of the widget that overlap share one worker, and the end of any of
  them terminates it. Refresh A fails over while a visitor's solve runs; the
  recovery then creates the next `this.worker`, and when the visitor's solve
  ends, the recovery's promise never settles: the widget stays in failover
  without a timer (`OneRefreshLoop`, `FailoverEnds` with "loop" in `upset`). The
  other way round, a recovery or a refresh that ends while a second click's
  solve runs terminates that, and the spinner turns for ever (`SolvingSettles`
  with "solve" in `upset`). The loop never doubles this way.
- `reset()` does not cancel a fetch in flight. The refresh in flight and the one
  the reset schedules then both go on (two loops), an old first fetch that gives
  up after the reset's own succeeded enters failover over a live challenge, and
  a late one clears the timer of a recovery. After such a reset the properties
  of the widget say nothing until the next clean start ("reset" in `upset`).
- A policy or a configuration with `verify_shadow_min` above the weight of a
  duplicate is accepted and lets replayed behaviour blobs pass.
- A failover claim spends the site's budget before it is scored, so claims that
  scoring refuses use up the allowance.

## Plan

Done: the core (ChallengeService, its refinement and proofs), then SiteStore,
Failover, DecisionLog, Admission with RiskScoring, Widget; then the two
compositions, VerifyClient and TrainingExport, and the join of the dashboard.

Proved: every safety property and every action property that a run checks, the
refinement, and that the two compositions implement what they extend.

Still to extend: verify columns joined into training samples; a second site in
the admission run.

To prove: nothing that is within the prover's reach; liveness stays with TLC.

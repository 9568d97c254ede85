-------------------------- MODULE ChallengeService --------------------------
(***************************************************************************)
(* The life of a proof-of-work challenge: GET /v1/puzzle mints it into the *)
(* in-memory store, POST /v1/verify redeems it, the cleanup task sweeps    *)
(* it.  Handlers run in parallel on a multi-threaded runtime, so every     *)
(* acquisition of a store lock is a step of its own.  A handler that never *)
(* suspends cannot be cancelled; only the two awaits of a memory-hard      *)
(* verification (the permit, the blocking hash) can be cut by the request  *)
(* timeout or by a caller that hangs up.                                   *)
(*                                                                         *)
(* An answer that changes nothing (401, 404) returns the slot to "idle";   *)
(* a bearer token no site owns is refused in the first step, which leaves  *)
(* no trace and is not an action.  What the scorers decide is left open    *)
(* here: an issuance can always be refused, a solved one always blocked.   *)
(***************************************************************************)
EXTENDS Integers, FiniteSets

CONSTANTS
  SiteKeys,     \* registered sites
  Secrets,      \* site secrets: one per site at boot, the others for rotations
  Ids,          \* challenge ids a behaviour may mint (a bound)
  Verifiers,    \* concurrent POST /v1/verify handlers (a bound)
  Issuers,      \* concurrent GET /v1/puzzle handlers (a bound)
  None,
  Algorithm,    \* PUZZLE algorithm: "sha256" or "argon2id"
  TTL,          \* CHALLENGE_TTL_SECS
  MaxAttempts,  \* VERIFY_MAX_ATTEMPTS, 0 disables the cap
  MaxActive,    \* MAX_ACTIVE_CHALLENGES, 0 disables the cap
  Permits,      \* verify_permits
  MaxTime       \* the clock stops here (a bound)

ASSUME ParametersAssumption ==
  /\ Algorithm \in {"sha256", "argon2id"}
  /\ TTL \in Nat /\ MaxAttempts \in Nat /\ MaxActive \in Nat
  /\ Permits \in Nat \ {0} /\ MaxTime \in Nat

ASSUME FiniteAssumption ==
  IsFiniteSet(Ids) /\ IsFiniteSet(Verifiers) /\ IsFiniteSet(Issuers)

Challenge == [site_key : SiteKeys, dwell_since : Nat, expires_at : Nat,
              attempts : Nat]

(* History of a mint: `root' is the first challenge of its refresh chain.  *)
Birth == [site_key : SiteKeys, created_at : Nat, root : Ids]

ASSUME NoneAssumption ==
  None \notin SiteKeys \cup Secrets \cup Ids \cup Nat \cup Challenge \cup Birth

VARIABLES
  sites_by_key,     \* site -> its current secret, None once deleted
  sites_by_secret,  \* secret -> site
  challenges,       \* id -> challenge, None when not in the map
  now,
  sweepAt,          \* the `now' a running cleanup_expired captured
  vpc, vreq,        \* verify handlers
  ipc, ireq,        \* puzzle handlers
  available,        \* free permits of the semaphore
  detached,         \* hashes whose request is gone but which still run
  \* history
  owner,            \* secret -> the site it was ever issued to
  born,             \* id -> its Birth
  solved,           \* id -> how many requests consumed it
  invalid           \* id -> pow_invalid answers, counted when MaxAttempts > 0

sites == <<sites_by_key, sites_by_secret, owner>>
history == <<born, solved, invalid>>
vvars == <<vpc, vreq>>
ivars == <<ipc, ireq>>
sema == <<available, detached>>
clock == <<now, sweepAt>>
vars == <<sites, challenges, clock, vvars, ivars, sema, history>>

NoVerify == [secret |-> None, id |-> None, key |-> None, expires_at |-> 0]
NoIssue == [site_key |-> None, id |-> None, challenge |-> None]

Live == {c \in Ids : challenges[c] # None}

Init ==
  /\ sites_by_key \in [SiteKeys -> Secrets]
  /\ \A j, k \in SiteKeys : sites_by_key[j] = sites_by_key[k] => j = k
  /\ sites_by_secret = [s \in Secrets |->
       IF \E k \in SiteKeys : sites_by_key[k] = s
         THEN CHOOSE k \in SiteKeys : sites_by_key[k] = s ELSE None]
  /\ owner = sites_by_secret
  /\ challenges = [c \in Ids |-> None]
  /\ now = 0 /\ sweepAt = None
  /\ vpc = [v \in Verifiers |-> "idle"]
  /\ vreq = [v \in Verifiers |-> NoVerify]
  /\ ipc = [p \in Issuers |-> "idle"]
  /\ ireq = [p \in Issuers |-> NoIssue]
  /\ available = Permits /\ detached = 0
  /\ born = [c \in Ids |-> None]
  /\ solved = [c \in Ids |-> 0]
  /\ invalid = [c \in Ids |-> 0]

-----------------------------------------------------------------------------
(* Store: the operations on the challenge map, each under its write lock.  *)

(* Fault: the removal does not look whether anything was there.            *)
ConsumableAlways(c) == TRUE

(* consume_challenge succeeds for the caller that removes the entry.       *)
Consumable(c) == challenges[c] # None

Removed(c) == [challenges EXCEPT ![c] = None]

(* Fault: the cap is compared with > instead of >=.                        *)
AfterFailedAttemptLate(c) ==
  IF MaxAttempts = 0 \/ challenges[c] = None THEN challenges
  ELSE IF challenges[c].attempts + 1 > MaxAttempts THEN Removed(c)
  ELSE [challenges EXCEPT ![c].attempts = @ + 1]

(* Fault: the count is written back from the handler's own snapshot of the *)
(* challenge instead of in place, whether or not the entry is still there. *)
AfterFailedAttemptWriteBack(c) ==
  [challenges EXCEPT ![c] =
     [site_key |-> born[c].site_key, dwell_since |-> born[c].created_at,
      expires_at |-> born[c].created_at + TTL, attempts |-> 1]]

(* Fault: a cap of 0 evicts at once instead of disabling the cap.          *)
AfterFailedAttemptZero(c) ==
  IF challenges[c] = None THEN challenges
  ELSE IF challenges[c].attempts + 1 >= MaxAttempts THEN Removed(c)
  ELSE [challenges EXCEPT ![c].attempts = @ + 1]

(* register_failed_attempt                                                 *)
AfterFailedAttempt(c) ==
  IF MaxAttempts = 0 \/ challenges[c] = None THEN challenges
  ELSE IF challenges[c].attempts + 1 >= MaxAttempts THEN Removed(c)
  ELSE [challenges EXCEPT ![c].attempts = @ + 1]

(* Fault: the sweep counts a challenge as dead one tick early.             *)
AfterCleanupEarly(t) ==
  [c \in Ids |-> IF challenges[c] # None /\ challenges[c].expires_at > t + 1
                   THEN challenges[c] ELSE None]

(* Fault: the sweep keeps what it should drop.                             *)
AfterCleanupKeeps(t) ==
  [c \in Ids |-> IF challenges[c] # None /\ challenges[c].attempts = 0
                   THEN challenges[c] ELSE None]

(* cleanup_expired, with the clock it read on entry                        *)
AfterCleanup(t) ==
  [c \in Ids |-> IF challenges[c] # None /\ challenges[c].expires_at > t
                   THEN challenges[c] ELSE None]

-----------------------------------------------------------------------------
(* Sites: only what authentication sees (rotate and delete).               *)

(* Fault: the rotated secret is left in the index.                         *)
RotateSecretKeepsOld(k) == \E s \in Secrets :
  /\ sites_by_key[k] # None /\ owner[s] = None
  /\ sites_by_secret' = [sites_by_secret EXCEPT ![s] = k]
  /\ sites_by_key' = [sites_by_key EXCEPT ![k] = s]
  /\ owner' = [owner EXCEPT ![s] = k]
  /\ UNCHANGED <<challenges, clock, vvars, ivars, sema, history>>

(* rotate_site_secret: both maps under both write locks; the new secret is *)
(* 32 random bytes, so it was never in use.                                *)
RotateSecret(k) == \E s \in Secrets :
  /\ sites_by_key[k] # None /\ owner[s] = None
  /\ sites_by_secret' = [sites_by_secret EXCEPT ![sites_by_key[k]] = None,
                                                ![s] = k]
  /\ sites_by_key' = [sites_by_key EXCEPT ![k] = s]
  /\ owner' = [owner EXCEPT ![s] = k]
  /\ UNCHANGED <<challenges, clock, vvars, ivars, sema, history>>

(* delete_site; challenges already issued stay in the map                  *)
DeleteSite(k) ==
  /\ sites_by_key[k] # None
  /\ sites_by_secret' = [sites_by_secret EXCEPT ![sites_by_key[k]] = None]
  /\ sites_by_key' = [sites_by_key EXCEPT ![k] = None]
  /\ UNCHANGED <<owner, challenges, clock, vvars, ivars, sema, history>>

-----------------------------------------------------------------------------
(* GET /v1/puzzle                                                          *)

Decline(p) ==
  /\ ipc' = [ipc EXCEPT ![p] = "idle"]
  /\ ireq' = [ireq EXCEPT ![p] = NoIssue]

(* Requests come while there are ids to mint (a bound).  The site is       *)
(* looked up once; its later deletion does not stop the handler.           *)
PuzzleLookup(p) == \E k \in SiteKeys :
  /\ ipc[p] = "idle" /\ \E c \in Ids : born[c] = None
  /\ sites_by_key[k] # None
  /\ ipc' = [ipc EXCEPT ![p] = "admit"]
  /\ ireq' = [ireq EXCEPT ![p] =
       [site_key |-> k, id |-> None, challenge |-> None]]
  /\ UNCHANGED <<sites, challenges, clock, vvars, sema, history>>

(* Fault: the ceiling is compared with > instead of >=.                    *)
OverCapacityLate == MaxActive > 0 /\ Cardinality(Live) > MaxActive

OverCapacity == MaxActive > 0 /\ Cardinality(Live) >= MaxActive

(* The capacity check reads the size of the map and releases the lock.     *)
PuzzleAdmit(p) ==
  /\ ipc[p] = "admit" /\ ~OverCapacity
  /\ ipc' = [ipc EXCEPT ![p] = "generate"]
  /\ UNCHANGED <<sites, challenges, clock, vvars, ireq, sema, history>>

(* 403 on the origin, or 429: the map is full, or scoring says Block.      *)
PuzzleRefuse(p) ==
  /\ ipc[p] = "admit"
  /\ Decline(p)
  /\ UNCHANGED <<sites, challenges, clock, vvars, sema, history>>

(* The cited challenge is in the map and belongs to the requesting site.   *)
Inherits(k, r) ==
  r # None /\ challenges[r] # None /\ challenges[r].site_key = k

(* Fault: a refresh passes on created_at, so a chain forgets the arrival.  *)
DwellSinceCreated(k, r) ==
  IF Inherits(k, r) THEN born[r].created_at ELSE now

(* generate_with_dwell: the dwell anchor of the new challenge              *)
DwellSince(k, r) ==
  IF Inherits(k, r) THEN challenges[r].dwell_since ELSE now

(* The request may cite a challenge in refresh_of; which one first matters *)
(* here.                                                                   *)
PuzzleGenerate(p) == \E c \in Ids, r \in Ids \cup {None} :
  LET k == ireq[p].site_key
  IN /\ ipc[p] = "generate"
     /\ born[c] = None
     /\ ipc' = [ipc EXCEPT ![p] = "store"]
     /\ ireq' = [ireq EXCEPT ![p] =
          [site_key |-> k, id |-> c, challenge |->
             [site_key |-> k, dwell_since |-> DwellSince(k, r),
              expires_at |-> now + TTL, attempts |-> 0]]]
     /\ born' = [born EXCEPT ![c] =
          [site_key |-> k, created_at |-> now,
           root |-> IF Inherits(k, r) THEN born[r].root ELSE c]]
     /\ UNCHANGED <<sites, challenges, clock, vvars, sema, solved, invalid>>

(* store_challenge and the answer                                          *)
PuzzleStore(p) ==
  /\ ipc[p] = "store"
  /\ challenges' = [challenges EXCEPT ![ireq[p].id] = ireq[p].challenge]
  /\ Decline(p)
  /\ UNCHANGED <<sites, clock, vvars, sema, history>>

-----------------------------------------------------------------------------
(* POST /v1/verify                                                         *)

Goto(v, l) == vpc' = [vpc EXCEPT ![v] = l]

Answer(v) == Goto(v, "idle") /\ vreq' = [vreq EXCEPT ![v] = NoVerify]

(* Fault: a secret no site owns any more is not refused.                   *)
BySecretUnchecked(v, s) ==
  /\ vpc[v] = "idle"
  /\ Goto(v, "by_key")
  /\ vreq' = [vreq EXCEPT ![v] = [secret |-> s, id |-> None,
       key |-> sites_by_secret[s], expires_at |-> 0]]
  /\ UNCHANGED <<sites, challenges, clock, ivars, sema, history>>

(* First half of get_site_by_secret: secret -> site key, lock released.    *)
BySecretOf(v, s) ==
  /\ vpc[v] = "idle"
  /\ sites_by_secret[s] # None
  /\ Goto(v, "by_key")
  /\ vreq' = [vreq EXCEPT ![v] = [secret |-> s, id |-> None,
       key |-> sites_by_secret[s], expires_at |-> 0]]
  /\ UNCHANGED <<sites, challenges, clock, ivars, sema, history>>

BySecret(v) == \E s \in Secrets : BySecretOf(v, s)

(* Second half: site key -> site; 401 when the site was deleted meanwhile. *)
ByKey(v) ==
  /\ vpc[v] = "by_key"
  /\ IF sites_by_key[vreq[v].key] = None
       THEN Answer(v)
       ELSE Goto(v, "fetch") /\ UNCHANGED vreq
  /\ UNCHANGED <<sites, challenges, clock, ivars, sema, history>>

(* Fault: the challenge's site is not compared with the caller's.          *)
AnySitesChallenge(c, k) == TRUE

(* The caller's secret must belong to the site the challenge was for.      *)
OwnChallenge(c, k) == challenges[c].site_key = k

(* 404 on an unknown id, 401 on another site's challenge.                  *)
GetChallengeOf(v, c) ==
  /\ vpc[v] = "fetch"
  /\ IF challenges[c] = None \/ ~OwnChallenge(c, vreq[v].key)
       THEN Answer(v)
       ELSE /\ Goto(v, "expiry")
            /\ vreq' = [vreq EXCEPT ![v].id = c,
                        ![v].expires_at = challenges[c].expires_at]
  /\ UNCHANGED <<sites, challenges, clock, ivars, sema, history>>

(* The id is part of the request; which one it is first matters here.      *)
GetChallenge(v) == \E c \in Ids : GetChallengeOf(v, c)

(* 410 and delete_challenge when the snapshot has expired.  The clock is   *)
(* read before the delete takes its lock; both are one step, because an    *)
(* expired challenge stays expired.  An inline hash is part of the step.   *)
CheckExpiry(v) ==
  LET c == vreq[v].id IN
  /\ vpc[v] = "expiry"
  /\ \/ /\ vreq[v].expires_at < now
        /\ challenges' = Removed(c)
        /\ Answer(v)
     \/ /\ vreq[v].expires_at >= now /\ Algorithm = "sha256"
        /\ Goto(v, "settle")
        /\ UNCHANGED <<challenges, vreq>>
     \/ /\ vreq[v].expires_at >= now /\ Algorithm = "argon2id"
        /\ Goto(v, "permit")
        /\ UNCHANGED <<challenges, vreq>>
  /\ UNCHANGED <<sites, clock, ivars, sema, history>>

(* acquire_owned, then spawn_blocking moves the permit into the task.      *)
AcquirePermit(v) ==
  /\ vpc[v] = "permit" /\ available > 0
  /\ available' = available - 1
  /\ Goto(v, "hashing")
  /\ UNCHANGED <<sites, challenges, clock, vreq, ivars, detached, history>>

(* The blocking task ends: its permit is dropped, the handler is woken     *)
(* with the result.                                                        *)
HashDone(v) ==
  /\ vpc[v] = "hashing"
  /\ available' = available + 1
  /\ Goto(v, "settle")
  /\ UNCHANGED <<sites, challenges, clock, vreq, ivars, detached, history>>

(* The blocking task panics: unwinding drops the permit, the answer is 500.*)
HashPanics(v) ==
  /\ vpc[v] = "hashing"
  /\ available' = available + 1
  /\ Answer(v)
  /\ UNCHANGED <<sites, challenges, clock, ivars, detached, history>>

(* Fault: the permit belongs to the request's future and goes with it.     *)
AbandonReleases(v) ==
  /\ \/ vpc[v] = "permit" /\ UNCHANGED sema
     \/ vpc[v] = "hashing" /\ detached' = detached + 1
                           /\ available' = available + 1
     \/ vpc[v] = "settle" /\ Algorithm = "argon2id" /\ UNCHANGED sema
  /\ Answer(v)
  /\ UNCHANGED <<sites, challenges, clock, ivars, history>>

(* Fault: the wait for a permit is outside the request timeout.            *)
AbandonOnlyHash(v) ==
  /\ \/ vpc[v] = "hashing" /\ detached' = detached + 1 /\ UNCHANGED available
     \/ vpc[v] = "settle" /\ Algorithm = "argon2id" /\ UNCHANGED sema
  /\ Answer(v)
  /\ UNCHANGED <<sites, challenges, clock, ivars, history>>

(* REQUEST_TIMEOUT_SECS, or the caller hangs up: the handler's future is   *)
(* dropped at an await.  A running hash is detached and keeps its permit.  *)
Abandon(v) ==
  /\ \/ vpc[v] = "permit" /\ UNCHANGED sema
     \/ vpc[v] = "hashing" /\ detached' = detached + 1 /\ UNCHANGED available
     \/ vpc[v] = "settle" /\ Algorithm = "argon2id" /\ UNCHANGED sema
  /\ Answer(v)
  /\ UNCHANGED <<sites, challenges, clock, ivars, history>>

(* Fault: the permit of a detached hash leaks.                             *)
DetachedHashLeaks ==
  /\ detached > 0
  /\ detached' = detached - 1
  /\ UNCHANGED <<sites, challenges, clock, vvars, ivars, available, history>>

DetachedHashDone ==
  /\ detached > 0
  /\ detached' = detached - 1 /\ available' = available + 1
  /\ UNCHANGED <<sites, challenges, clock, vvars, ivars, history>>

(* Whether the submitted nonce is right first matters here, so the choice  *)
(* of that input is left to this point: both actions are enabled.          *)

(* A wrong nonce: register_failed_attempt and the pow_invalid answer.      *)
RejectNonce(v) ==
  LET c == vreq[v].id IN
  /\ vpc[v] = "settle"
  /\ challenges' = AfterFailedAttempt(c)
  /\ invalid' = IF MaxAttempts = 0 THEN invalid
                                   ELSE [invalid EXCEPT ![c] = @ + 1]
  /\ Answer(v)
  /\ UNCHANGED <<sites, clock, ivars, sema, born, solved>>

(* A correct nonce: consume_challenge, 404 if somebody else removed it.    *)
Consume(v) ==
  LET c == vreq[v].id IN
  /\ vpc[v] = "settle"
  /\ \/ /\ Consumable(c)
        /\ challenges' = Removed(c)
        /\ solved' = [solved EXCEPT ![c] = @ + 1]
        /\ Goto(v, "score")
        /\ UNCHANGED vreq
     \/ /\ ~Consumable(c)
        /\ Answer(v)
        /\ UNCHANGED <<challenges, solved>>
  /\ UNCHANGED <<sites, clock, ivars, sema, born, invalid>>

(* Verify-time scoring and the answer.                                     *)
Score(v) ==
  /\ vpc[v] = "score"
  /\ Answer(v)
  /\ UNCHANGED <<sites, challenges, clock, ivars, sema, history>>

-----------------------------------------------------------------------------
(* Cleanup task and clock                                                  *)

SweepStart ==
  /\ sweepAt = None
  /\ sweepAt' = now
  /\ UNCHANGED <<sites, challenges, now, vvars, ivars, sema, history>>

SweepRetain ==
  /\ sweepAt # None
  /\ challenges' = AfterCleanup(sweepAt)
  /\ sweepAt' = None
  /\ UNCHANGED <<sites, now, vvars, ivars, sema, history>>

Tick ==
  /\ now < MaxTime
  /\ now' = now + 1
  /\ UNCHANGED <<sites, challenges, sweepAt, vvars, ivars, sema, history>>

-----------------------------------------------------------------------------
VerifyStep(v) ==
  \/ ByKey(v) \/ GetChallenge(v) \/ CheckExpiry(v) \/ AcquirePermit(v)
  \/ RejectNonce(v) \/ Consume(v) \/ Score(v)

PuzzleStep(p) ==
  PuzzleAdmit(p) \/ PuzzleRefuse(p) \/ PuzzleGenerate(p) \/ PuzzleStore(p)

Next ==
  \/ \E k \in SiteKeys : RotateSecret(k) \/ DeleteSite(k)
  \/ \E p \in Issuers : PuzzleLookup(p) \/ PuzzleStep(p)
  \/ \E v \in Verifiers :
       BySecret(v) \/ VerifyStep(v) \/ HashDone(v) \/ HashPanics(v) \/ Abandon(v)
  \/ DetachedHashDone \/ SweepStart \/ SweepRetain \/ Tick

Spec == Init /\ [][Next]_vars

(* A handler that can run does run, or the timeout layer cuts it; blocking *)
(* hashes end; the cleanup interval keeps ticking.                         *)
Fairness ==
  /\ \A v \in Verifiers : /\ WF_vars(VerifyStep(v) \/ Abandon(v))
                          /\ WF_vars(HashDone(v))
  /\ WF_vars(DetachedHashDone)
  /\ WF_vars(SweepStart) /\ WF_vars(SweepRetain)

LiveSpec == Spec /\ Fairness

-----------------------------------------------------------------------------
(* Properties                                                              *)

VerifyPc == {"idle", "by_key", "fetch", "expiry", "permit", "hashing",
             "settle", "score"}
IssuePc == {"idle", "admit", "generate", "store"}

SitesOK ==
  /\ sites_by_key \in [SiteKeys -> Secrets \cup {None}]
  /\ sites_by_secret \in [Secrets -> SiteKeys \cup {None}]
  /\ owner \in [Secrets -> SiteKeys \cup {None}]

MapOK == challenges \in [Ids -> Challenge \cup {None}]

ClockOK == now \in Nat /\ sweepAt \in Nat \cup {None}

VerifyOK ==
  /\ vpc \in [Verifiers -> VerifyPc]
  /\ vreq \in [Verifiers ->
       [secret : Secrets \cup {None}, id : Ids \cup {None},
        key : SiteKeys \cup {None}, expires_at : Nat]]
  /\ \A v \in Verifiers : vpc[v] # "idle" =>
       /\ vreq[v].key \in SiteKeys /\ vreq[v].secret \in Secrets
       /\ vpc[v] \notin {"by_key", "fetch"} => vreq[v].id \in Ids

IssueOK ==
  /\ ipc \in [Issuers -> IssuePc]
  /\ ireq \in [Issuers ->
       [site_key : SiteKeys \cup {None}, id : Ids \cup {None},
        challenge : Challenge \cup {None}]]
  /\ \A p \in Issuers :
       /\ ipc[p] # "idle" => ireq[p].site_key \in SiteKeys
       /\ ipc[p] = "store" => /\ ireq[p].id \in Ids
                              /\ ireq[p].challenge \in Challenge

SemaOK == available \in Int /\ detached \in Nat

HistoryOK ==
  /\ born \in [Ids -> Birth \cup {None}]
  /\ solved \in [Ids -> Nat] /\ invalid \in [Ids -> Nat]

(* Every variable holds a value of its type, and a handler past its        *)
(* lookups holds what those lookups returned.                              *)
TypeOK == /\ SitesOK /\ MapOK /\ ClockOK /\ VerifyOK /\ IssueOK /\ SemaOK
          /\ HistoryOK

(* However many correct submissions of one challenge run in parallel, at   *)
(* most one gets past consume_challenge (handlers.rs: "concurrent correct  *)
(* submits cannot both pass"), and once one has, the challenge is gone for *)
(* good.                                                                   *)
SingleUse == \A c \in Ids :
  /\ solved[c] <= 1
  /\ solved[c] = 1 => challenges[c] = None

Hashing == {v \in Verifiers : vpc[v] = "hashing"}

(* Memory-hard hashes running at once, those of abandoned requests         *)
(* included, never exceed the permits, so timeouts and retries cannot      *)
(* over-commit the memory the semaphore is there to bound.                 *)
HashMemoryBounded == Cardinality(Hashing) + detached <= Permits

Engaged(c) == {v \in Verifiers :
  vpc[v] \in {"expiry", "permit", "hashing", "settle"} /\ vreq[v].id = c}

(* One challenge is answered (solved or pow_invalid) at most MaxAttempts   *)
(* times, plus the handlers that had read it before it was evicted: what   *)
(* was answered and what may still be answered together never exceed that. *)
(* This bounds answers, not work: a request that is abandoned while its    *)
(* hash runs is never counted (Abandon leaves challenges alone), so the    *)
(* memory-hard hashes one challenge absorbs have no bound of this kind,    *)
(* whatever the documentation promises of VERIFY_MAX_ATTEMPTS.             *)
AnswersBounded == MaxAttempts > 0 =>
  \A c \in Ids : invalid[c] + solved[c] + Cardinality(Engaged(c))
                    <= MaxAttempts - 1 + Cardinality(Verifiers)

(* A handler that works on a challenge was authenticated by a secret that  *)
(* was issued to the very site the challenge was minted for: one tenant    *)
(* can neither redeem nor wear out another tenant's challenge, whatever    *)
(* was rotated or deleted meanwhile.                                       *)
TenantIsolation == \A v \in Verifiers :
  vpc[v] \in {"expiry", "permit", "hashing", "settle", "score"} =>
    /\ born[vreq[v].id] # None
    /\ owner[vreq[v].secret] = born[vreq[v].id].site_key

(* A challenge leaves the map only when it is redeemed, when it has        *)
(* expired, or when its last allowed wrong nonce is counted: no visitor    *)
(* loses a live one to the sweeper or to another handler.                  *)
NoPrematureLoss ==
  [][\A c \in Ids : challenges[c] # None /\ challenges'[c] = None =>
       \/ solved'[c] > solved[c]
       \/ challenges[c].expires_at <= now
       \/ MaxAttempts > 0 /\ challenges[c].attempts >= MaxAttempts - 1]_vars

(* The dwell anchor a challenge carries is the moment the first challenge  *)
(* of its refresh chain was minted, for the same site: a refresh neither   *)
(* restarts the visitor's clock nor borrows another site's.                *)
DwellIsArrival == \A c \in Live :
  LET root == born[c].root IN
  /\ born[root] # None
  /\ born[root].site_key = challenges[c].site_key
  /\ challenges[c].dwell_since = born[root].created_at
  /\ born[root].created_at <= born[c].created_at

(* The capacity check and the insert are separate lock acquisitions; the   *)
(* map overshoots MAX_ACTIVE_CHALLENGES by at most the handlers that were  *)
(* admitted together, never by more.                                       *)
OvershootBounded == MaxActive > 0 =>
  Cardinality(Live) <= MaxActive - 1 + Cardinality(Issuers)

Pending(c) == \E p \in Issuers : ipc[p] = "store" /\ ireq[p].id = c

Status == [c \in Ids |->
  IF challenges[c] # None THEN "live"
  ELSE IF solved[c] > 0 THEN "redeemed"
  ELSE IF born[c] = None \/ Pending(c) THEN "unissued"
  ELSE "dropped"]

OneTime == INSTANCE OneTimeChallenge WITH status <- Status

(* The store, under every interleaving of handlers and sweeper, implements *)
(* the one-time challenge: nothing is redeemed twice, nothing that was     *)
(* dropped comes back.                                                     *)
ImplementsOneTime == OneTime!Spec

(* The semaphore always recovers: whoever abandons a request mid-hash, the *)
(* permit comes back when the detached hash ends.                          *)
PermitsRecover == available = 0 ~> available > 0

(* An expired challenge does not stay in memory: the sweeper removes it    *)
(* even if nobody ever submits it.                                         *)
ExpiredSwept == \A c \in Ids :
  (challenges[c] # None /\ challenges[c].expires_at <= now)
    ~> challenges[c] = None

(* Issued once to a site that has another secret now, or is gone.          *)
Revoked(s) == owner[s] # None /\ sites_by_key[owner[s]] # s

(* Rotation takes hold: verify authenticates once, at its start, so calls  *)
(* in flight may finish under the old secret, but from the moment of the   *)
(* rotation no further call gets in with it, although the backend keeps    *)
(* calling with the old secret until it is deployed anew.                  *)
RotationTakesHold ==
  [][\A s \in Secrets, v \in Verifiers :
       Revoked(s) /\ vreq[v].secret # s => vreq[v].secret' # s]_vars

=============================================================================

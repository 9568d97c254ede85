------------------------------- MODULE Widget -------------------------------
(***************************************************************************)
(* The browser widget: one object whose asynchronous flows (the first      *)
(* fetch, a solve, the pre-expiry refresh, the recovery poll of failover)  *)
(* interleave at every await and share its fields.  JavaScript runs each   *)
(* continuation to completion, so a step is what happens between two       *)
(* awaits.  `this.worker' names one worker only: a flow that ends          *)
(* terminates whichever worker is there, and a flow whose worker is        *)
(* terminated never resumes.                                               *)
(*                                                                         *)
(* Nothing keeps a click, a refresh, a recovery and a reset() from         *)
(* overlapping, and none of them waits for another.  The history variable  *)
(* `upset' notes what that has cost since the last clean start, so that    *)
(* the properties can say exactly when the code keeps them.                *)
(*                                                                         *)
(* Chrome, translations and telemetry are left out.  Tier "hard_pow"       *)
(* behaves like "checkbox".  The token a submit sends is re-encoded from   *)
(* the fields at that moment, so `token' holds those fields.               *)
(***************************************************************************)
EXTENDS Integers, FiniteSets, FiniteSetsExt

CONSTANTS
  None,
  Puzzles,            \* challenge ids, reused once nothing refers to them
  Retries,            \* Len(FAILOVER_RETRY_DELAYS_MS)
  FlowIds, TimerIds   \* flows and timers alive at once (bounds)

Callbacks == {"refresh", "recovery"}

(* An asynchronous function in flight: which await it is at, the challenge *)
(* it carries, and how often it has asked again.                           *)
Flow == [kind : {"init", "verify", "refresh", "recover"},
         at : {"fetch", "create", "run"},
         puzzle : Puzzles \cup {None}, attempt : Nat]

ASSUME WidgetAssumption ==
  /\ Retries \in Nat
  /\ FlowIds \subseteq Nat /\ TimerIds \subseteq Nat /\ Puzzles \subseteq Nat
  /\ FlowIds # {} /\ TimerIds # {}
  /\ IsFiniteSet(FlowIds) /\ IsFiniteSet(Puzzles)
  /\ Cardinality(Puzzles) > Cardinality(FlowIds) + 3
  /\ None \notin Nat \cup Callbacks \cup Flow

VARIABLES
  state,            \* "idle", "solving", "verified", "failed"
  puzzle,           \* challenge held, None before the first fetch
  tier,
  failover,
  expiry,           \* _puzzleExpiresAt: "live" or "expired", None when unset
  pending,          \* _refreshPending
  handle,           \* _refreshTimer
  token,            \* [_challengeId, _nonce]; the nonce names what it solves
  timers,           \* id -> callback of an armed timer, or None
  flows,            \* id -> [kind, at, puzzle, attempt], or None
  worker,           \* the flow whose worker `this.worker' names
  hidden, service,  \* the world
  upset             \* history: whose worker another flow has terminated, a
                    \* visitor's solve ("solve") or the loop's ("loop"), and
                    \* whether a reset has left flows or timers behind ("reset")

fields == <<state, puzzle, tier, failover, expiry, pending, handle, token>>
world == <<hidden, service>>
vars == <<fields, timers, flows, worker, world, upset>>

NoToken == [challenge |-> None, nonce |-> None]
Fetching(kind) == [kind |-> kind, at |-> "fetch", puzzle |-> None, attempt |-> 0]
Solving(kind, p) == [kind |-> kind, at |-> "create", puzzle |-> p, attempt |-> 0]

Live == {i \in FlowIds : flows[i] # None}
Armed == {t \in TimerIds : timers[t] # None}

(* What flows fs, timers ts and a deferred refresh can grow to: a first    *)
(* fetch becomes a solve and a timer.                                      *)
Load(fs, ts, deferred) ==
  Cardinality({i \in FlowIds : fs[i] # None})
    + Cardinality({i \in FlowIds : fs[i] # None /\ fs[i].kind = "init"})
    + Cardinality({t \in TimerIds : ts[t] # None})
    + (IF deferred THEN 1 ELSE 0)

(* The bound on overlapping clicks and resets; with it there always is     *)
(* room for a flow and a timer.                                            *)
Bearable(load) == load <= Min({Cardinality(FlowIds), Cardinality(TimerIds)})
Room == \E i \in FlowIds : flows[i] = None

FreeFlow == Min({i \in FlowIds : flows[i] = None})
FreeTimer(ts) == Min({i \in TimerIds : ts[i] = None})

(* The id of the next challenge: one nothing refers to any more.           *)
Fresh == Min(Puzzles \ ({puzzle, token.challenge, token.nonce}
                         \cup {flows[i].puzzle : i \in Live}))

(* Constructor: mount and fetch the first puzzle.                          *)
Init ==
  /\ state = "idle" /\ puzzle = None /\ tier = None /\ failover = FALSE
  /\ expiry = None /\ pending = FALSE /\ handle = None
  /\ timers = [i \in TimerIds |-> None]
  /\ flows = [i \in FlowIds |->
       IF i = Min(FlowIds) THEN Fetching("init") ELSE None]
  /\ worker = None /\ token = NoToken
  /\ hidden \in BOOLEAN /\ service \in {"up", "down"} /\ upset = {}

-----------------------------------------------------------------------------
(* Timers                                                                  *)

(* A timer is armed; the handle is overwritten.  Delays are lower bounds   *)
(* (a background tab is throttled), so an armed timer fires at any time.   *)
Arm(ts, callback) ==
  /\ timers' = [ts EXCEPT ![FreeTimer(ts)] = callback]
  /\ handle' = FreeTimer(ts)

(* _clearPuzzleRefresh: only the timer of the handle is cleared.           *)
Cleared == [i \in TimerIds |-> IF i = handle THEN None ELSE timers[i]]

(* _schedulePuzzleRefresh for the challenge p: without one, which reset()  *)
(* takes away, the timer is only cleared.                                  *)
SchedulePuzzleRefresh(p) ==
  \/ p # None /\ expiry' = "live" /\ Arm(Cleared, "refresh")
  \/ p = None /\ timers' = Cleared /\ handle' = None /\ UNCHANGED expiry

(* The timer t fires: its callback runs with the handle set to null.       *)
Spent(t) == [timers EXCEPT ![t] = None]

-----------------------------------------------------------------------------
(* Failover                                                                *)

(* _scheduleFailoverRecovery, with the timers already cleared              *)
ScheduleFailoverRecovery(ts) == Arm(ts, "recovery")

(* _enterFailover                                                          *)
EnterFailover ==
  /\ failover' = TRUE /\ tier' = None /\ state' = "verified"
  /\ ScheduleFailoverRecovery(Cleared)
  /\ UNCHANGED <<puzzle, expiry, pending, token>>

-----------------------------------------------------------------------------
(* Puzzle fetch                                                            *)

Answered(i) == flows[i] # None /\ flows[i].at = "fetch"

(* The service issues a puzzle or refuses (429, 4xx) as it likes.          *)
Issues == service = "up"
Refuses == service = "up"
Unreachable == service = "down"

(* _initFlow: the puzzle arrived.  invisible_pass starts the solve at      *)
(* once, the other tiers wait for a click.                                 *)
InitFetched(i) ==
  LET p == Fresh IN
  /\ Answered(i) /\ flows[i].kind = "init"
  /\ Issues
  /\ puzzle' = p
  /\ SchedulePuzzleRefresh(p)
  /\ \/ /\ tier' = "invisible_pass" /\ state' = "solving"
        /\ flows' = [flows EXCEPT ![i] = Solving("verify", p)]
     \/ /\ tier' = "checkbox" /\ UNCHANGED state
        /\ flows' = [flows EXCEPT ![i] = None]
  /\ UNCHANGED <<failover, pending, token, worker, world, upset>>

(* _fetchPuzzleWithRetry: another attempt after a short delay.             *)
InitRetries(i) ==
  /\ Answered(i) /\ flows[i].kind = "init"
  /\ Unreachable /\ flows[i].attempt < Retries
  /\ flows' = [flows EXCEPT ![i].attempt = @ + 1]
  /\ UNCHANGED <<fields, timers, worker, world, upset>>

InitUnreachable(i) ==
  /\ Answered(i) /\ flows[i].kind = "init"
  /\ Unreachable /\ flows[i].attempt = Retries
  /\ EnterFailover
  /\ flows' = [flows EXCEPT ![i] = None]
  /\ UNCHANGED <<worker, world, upset>>

(* 429: tier "block"; a 4xx: no tier.                                      *)
InitRefused(i) ==
  /\ Answered(i) /\ flows[i].kind = "init"
  /\ Refuses
  /\ tier' \in {"block", None} /\ state' = "failed"
  /\ flows' = [flows EXCEPT ![i] = None]
  /\ UNCHANGED <<puzzle, failover, expiry, pending, handle, token, timers,
                 worker, world, upset>>

-----------------------------------------------------------------------------
(* Solve                                                                   *)

(* _onCheckboxClick and _runVerify up to its await                         *)
Click ==
  /\ state \in {"idle", "failed"} /\ puzzle # None
  /\ Room /\ Bearable(Load(flows, timers, pending) + 1)
  /\ state' = "solving"
  /\ flows' = [flows EXCEPT ![FreeFlow] = Solving("verify", puzzle)]
  /\ UNCHANGED <<puzzle, tier, failover, expiry, pending, handle, token,
                 timers, worker, world, upset>>

(* _createWorker is done: `this.worker' now names this flow's worker.      *)
WorkerCreated(i) ==
  /\ flows[i] # None /\ flows[i].at = "create"
  /\ flows' = [flows EXCEPT ![i].at = "run"]
  /\ worker' = i
  /\ UNCHANGED <<fields, timers, world, upset>>

(* The flows left once flow i ended and _destroyWorker terminated the      *)
(* current worker, whoever it belongs to.                                  *)
Without(i) == [j \in FlowIds |-> IF j = i \/ j = worker THEN None ELSE flows[j]]

(* What that takes from another flow: a visitor's solve or the loop.       *)
Upset(i) == upset \cup
  {IF flows[j].kind = "verify" THEN "solve" ELSE "loop" : j \in {worker} \ {i, None}}

Injected(i) == [challenge |-> flows[i].puzzle, nonce |-> flows[i].puzzle]

Solved(i, kind) ==
  /\ flows[i] # None /\ flows[i].at = "run" /\ flows[i].kind = kind
  /\ flows' = Without(i) /\ worker' = None /\ upset' = Upset(i)

(* _runVerify after its await: the challenge is read from this.puzzle now; *)
(* reset() may have taken it away.                                         *)
VerifySolved(i) ==
  /\ Solved(i, "verify")
  /\ IF puzzle = None
       THEN state' = "failed" /\ UNCHANGED token
       ELSE /\ state' = "verified"
            /\ token' = [challenge |-> puzzle, nonce |-> flows[i].puzzle]
  /\ UNCHANGED <<puzzle, tier, failover, expiry, pending, handle, timers,
                 world>>

RefreshSolved(i) ==
  /\ Solved(i, "refresh")
  /\ token' = Injected(i)
  /\ SchedulePuzzleRefresh(puzzle)
  /\ UNCHANGED <<state, puzzle, tier, failover, pending, world>>

(* Fault: the recovered token is not followed by a refresh.                *)
RecoverSolvedOnce(i) ==
  /\ Solved(i, "recover")
  /\ failover' = FALSE
  /\ token' = Injected(i)
  /\ UNCHANGED <<state, puzzle, tier, expiry, pending, handle, timers, world>>

RecoverSolved(i) ==
  /\ Solved(i, "recover")
  /\ failover' = FALSE
  /\ token' = Injected(i)
  /\ SchedulePuzzleRefresh(puzzle)
  /\ UNCHANGED <<state, puzzle, tier, pending, world>>

(* The worker cannot be created, or reports an error.                      *)
SolveFails(i, kind) ==
  /\ flows[i] # None /\ flows[i].at \in {"create", "run"}
  /\ flows[i].kind = kind
  /\ IF flows[i].at = "create"
       THEN flows' = [flows EXCEPT ![i] = None] /\ UNCHANGED <<worker, upset>>
       ELSE flows' = Without(i) /\ worker' = None /\ upset' = Upset(i)

(* Fault: a failed solve is logged and leaves the state as it was.         *)
VerifyFailsSilently(i) ==
  /\ SolveFails(i, "verify")
  /\ UNCHANGED <<fields, timers, world>>

VerifyFails(i) ==
  /\ SolveFails(i, "verify")
  /\ state' = "failed"
  /\ UNCHANGED <<puzzle, tier, failover, expiry, pending, handle, token,
                 timers, world>>

-----------------------------------------------------------------------------
(* Refresh before expiry                                                   *)

(* _refreshPuzzle, run with the timers ts armed, in a tab that is hidden   *)
(* or not: while a solve is in flight it checks back later, in a hidden    *)
(* tab it waits to be shown.                                               *)
RefreshPuzzle(ts, isHidden, wasPending) ==
  /\ pending' = (wasPending \/ (state # "solving" /\ isHidden))
  /\ IF state = "solving" THEN Arm(ts, "refresh")
                           ELSE timers' = ts /\ handle' = None
  /\ flows' = IF state = "solving" \/ isHidden THEN flows
              ELSE [flows EXCEPT ![FreeFlow] = Fetching("refresh")]

RefreshDue(t) ==
  /\ timers[t] = "refresh" /\ Room
  /\ RefreshPuzzle(Spent(t), hidden, pending)
  /\ UNCHANGED <<state, puzzle, tier, failover, expiry, token, worker, world, upset>>

(* The new challenge is in; a verified form is re-solved in the background.*)
RefreshFetched(i) ==
  LET p == Fresh IN
  /\ Answered(i) /\ flows[i].kind = "refresh"
  /\ Issues
  /\ puzzle' = p
  /\ IF state = "verified"
       THEN /\ flows' = [flows EXCEPT ![i] = Solving("refresh", p)]
            /\ UNCHANGED <<expiry, timers, handle>>
       ELSE /\ flows' = [flows EXCEPT ![i] = None]
            /\ SchedulePuzzleRefresh(p)
  /\ UNCHANGED <<state, tier, failover, pending, token, worker, world, upset>>

(* Fault: a dead service is met with a claim whatever the token is worth.  *)
ExpiredAlways == TRUE

Expired == expiry = "expired"

(* Its catch: an error without a status, from the fetch or from the        *)
(* worker, counts as unreachable.                                          *)
RefreshGivesUp(unreachable) ==
  IF unreachable /\ Expired
    THEN EnterFailover
    ELSE /\ Arm(timers, "refresh")
         /\ UNCHANGED <<state, puzzle, tier, failover, expiry, pending, token>>

RefreshFetchFails(i) ==
  /\ Answered(i) /\ flows[i].kind = "refresh"
  /\ \/ Unreachable /\ RefreshGivesUp(TRUE)
     \/ Refuses /\ RefreshGivesUp(FALSE)
  /\ flows' = [flows EXCEPT ![i] = None]
  /\ UNCHANGED <<worker, world, upset>>

RefreshSolveFails(i) ==
  /\ SolveFails(i, "refresh")
  /\ RefreshGivesUp(TRUE)
  /\ UNCHANGED world

-----------------------------------------------------------------------------
(* Recovery poll                                                           *)

(* A hidden tab polls on without fetching; a widget that left failover     *)
(* stops.                                                                  *)
RecoveryDue(t) ==
  /\ timers[t] = "recovery" /\ Room
  /\ \/ /\ ~failover
        /\ timers' = Spent(t) /\ handle' = None /\ UNCHANGED flows
     \/ /\ failover /\ hidden
        /\ ScheduleFailoverRecovery(Spent(t)) /\ UNCHANGED flows
     \/ /\ failover /\ ~hidden
        /\ timers' = Spent(t) /\ handle' = None
        /\ flows' = [flows EXCEPT ![FreeFlow] = Fetching("recover")]
  /\ UNCHANGED <<state, puzzle, tier, failover, expiry, pending, token,
                 worker, world, upset>>

RecoverFetched(i) ==
  LET p == Fresh IN
  /\ Answered(i) /\ flows[i].kind = "recover"
  /\ Issues
  /\ puzzle' = p
  /\ flows' = [flows EXCEPT ![i] = Solving("recover", p)]
  /\ UNCHANGED <<state, tier, failover, expiry, pending, handle, token,
                 timers, worker, world, upset>>

(* Fault: a poll that fails is the last one.                               *)
RecoverFailsForGood(i) ==
  /\ \/ /\ Answered(i) /\ flows[i].kind = "recover"
        /\ Refuses \/ Unreachable
        /\ flows' = [flows EXCEPT ![i] = None] /\ UNCHANGED <<worker, upset>>
     \/ SolveFails(i, "recover")
  /\ UNCHANGED <<fields, timers, world>>

(* Its catch polls on, and keeps the claim.                                *)
RecoverFails(i) ==
  /\ \/ /\ Answered(i) /\ flows[i].kind = "recover"
        /\ Refuses \/ Unreachable
        /\ flows' = [flows EXCEPT ![i] = None] /\ UNCHANGED <<worker, upset>>
     \/ SolveFails(i, "recover")
  /\ ScheduleFailoverRecovery(Cleared)
  /\ UNCHANGED <<state, puzzle, tier, failover, expiry, pending, token, world>>

-----------------------------------------------------------------------------
(* Embedder and browser                                                    *)

(* reset(): fields are reset and the worker terminated, but flows at a     *)
(* fetch or at the creation of their worker go on.  The token fields stay. *)
(* It is a clean start when it leaves no flow and no timer behind.         *)
Reset ==
  LET rest == [j \in FlowIds |-> IF j = worker THEN None ELSE flows[j]]
      free == {j \in FlowIds : rest[j] = None} IN
  /\ Bearable(Load(rest, Cleared, FALSE) + 2)
  /\ flows' = [rest EXCEPT ![Min(free)] = Fetching("init")]
  /\ worker' = None
  /\ timers' = Cleared /\ handle' = None /\ pending' = FALSE
  /\ failover' = FALSE /\ state' = "idle" /\ puzzle' = None /\ tier' = None
  /\ upset' = IF free = FlowIds /\ Armed \subseteq {handle} THEN {}
              ELSE upset \cup {"reset"}
  /\ UNCHANGED <<expiry, token, world>>

(* The visibilitychange handler                                            *)
Show ==
  /\ hidden /\ Room /\ hidden' = FALSE
  /\ IF pending THEN RefreshPuzzle(timers, FALSE, FALSE)
                ELSE UNCHANGED <<pending, timers, handle, flows>>
  /\ UNCHANGED <<state, puzzle, tier, failover, expiry, token, worker, service, upset>>

Hide ==
  /\ ~hidden /\ hidden' = TRUE
  /\ UNCHANGED <<fields, timers, flows, worker, service, upset>>

Outage ==
  /\ service = "up" /\ service' = "down"
  /\ UNCHANGED <<fields, timers, flows, worker, hidden, upset>>

Restored ==
  /\ service = "down" /\ service' = "up"
  /\ UNCHANGED <<fields, timers, flows, worker, hidden, upset>>

(* The challenge last scheduled for refresh expires.                       *)
Expire ==
  /\ expiry = "live" /\ expiry' = "expired"
  /\ UNCHANGED <<state, puzzle, tier, failover, pending, handle, token, timers,
                 flows, worker, world, upset>>

-----------------------------------------------------------------------------
SolveStep(i) ==
  \/ WorkerCreated(i) \/ VerifySolved(i) \/ RefreshSolved(i) \/ RecoverSolved(i)
  \/ VerifyFails(i) \/ RefreshSolveFails(i)

FetchStep(i) ==
  \/ InitFetched(i) \/ InitRetries(i) \/ InitUnreachable(i) \/ InitRefused(i)
  \/ RefreshFetched(i) \/ RefreshFetchFails(i)
  \/ RecoverFetched(i) \/ RecoverFails(i)

Next ==
  \/ \E i \in FlowIds : SolveStep(i) \/ FetchStep(i)
  \/ \E t \in TimerIds : RefreshDue(t) \/ RecoveryDue(t)
  \/ Click \/ Reset \/ Show \/ Hide \/ Outage \/ Restored \/ Expire

Spec == Init /\ [][Next]_vars

(* Requests and workers end, timers fire; a service that keeps being asked *)
(* by recoveries while it is up does not refuse for ever, and not every    *)
(* worker of theirs fails.                                                 *)
RecoverGoesOn(i) == WorkerCreated(i) /\ flows[i].kind = "recover"

Fairness ==
  /\ \A i \in FlowIds : WF_vars(SolveStep(i) \/ FetchStep(i))
  /\ \A t \in TimerIds : WF_vars(RefreshDue(t) \/ RecoveryDue(t))
  /\ SF_vars(\E i \in FlowIds : RecoverFetched(i))
  /\ SF_vars(\E i \in FlowIds : RecoverGoesOn(i))
  /\ SF_vars(\E i \in FlowIds : RecoverSolved(i))

LiveSpec == Spec /\ Fairness

-----------------------------------------------------------------------------
(* Properties                                                              *)

(* The one loop that keeps the form's token alive: a refresh or recovery   *)
(* that is scheduled, deferred to a hidden tab, or in flight.              *)
Chain ==
  Cardinality(Armed)
    + Cardinality({i \in Live : flows[i].kind \in {"refresh", "recover"}})
    + (IF pending THEN 1 ELSE 0)

(* As soon as the widget holds a challenge or a failover claim, exactly    *)
(* one such loop runs, whatever fails, is refused or is deferred, and      *)
(* however clicks overlap it: it never doubles, and it is lost only when a *)
(* solve's end has terminated its worker.  Only a reset() that left flows  *)
(* or timers behind is another matter.                                     *)
OneRefreshLoop ==
  "reset" \notin upset /\ (puzzle # None \/ failover)
    => Chain = (IF "loop" \in upset THEN 0 ELSE 1)

(* A solved token is given up for a failover claim only by a refresh whose *)
(* challenge has expired, or by a first fetch; and the latter finds a      *)
(* challenge in its way only when a reset() left another one behind.       *)
ClaimOnlyWhenExpired ==
  [][~failover /\ failover' =>
       \/ expiry = "expired"
       \/ /\ \E i \in Live : flows[i].kind = "init" /\ flows'[i] = None
          /\ puzzle # None => "reset" \in upset]_vars

(* The spinner stops: a solve ends in "verified" or "failed".  It turns    *)
(* for ever only when the solve it stands for has been terminated by       *)
(* another flow.                                                           *)
SolvingSettles ==
  state = "solving" ~>
    \/ state # "solving"
    \/ "solve" \in upset /\ \A i \in Live : flows[i].kind # "verify"

(* A widget in failover goes back to real tokens once the service stays up *)
(* and the tab stays visible, as long as no other flow has terminated its  *)
(* recovery and no reset() has left something behind.                      *)
FailoverEnds ==
  failover ~> \/ ~failover \/ hidden \/ service = "down"
              \/ {"loop", "reset"} \cap upset # {}

-----------------------------------------------------------------------------
(* What the documentation says and the code does not do                    *)


=============================================================================

---------------------------- MODULE WidgetProofs ----------------------------
(***************************************************************************)
(* Proofs about Widget, for pools of any size, any number of retries, and  *)
(* clicks and resets that come whenever they like.  The loop that keeps    *)
(* the widget's token alive is one thing that changes hands: the armed     *)
(* timer, a refresh deferred to a hidden tab, or a flow in flight.  That   *)
(* stays so until a reset() leaves flows or timers behind (then nothing is *)
(* claimed any more), and the loop ends only with its worker.              *)
(***************************************************************************)
EXTENDS Widget, FiniteSetTheorems, WellFoundedInduction, TLAPS

Looping(i) == flows[i] # None /\ flows[i].kind \in {"refresh", "recover"}
Starting(i) == flows[i] # None /\ flows[i].kind = "init"

(* Someone holds the loop.                                                 *)
Held == pending \/ Armed # {} \/ \E i \in FlowIds : Looping(i)

(* Every field holds a value of its type; `this.worker' is the worker of a *)
(* flow that runs, and a first fetch has none.                             *)
TypeInv ==
  /\ timers \in [TimerIds -> Callbacks \cup {None}]
  /\ flows \in [FlowIds -> Flow \cup {None}]
  /\ puzzle \in Puzzles \cup {None}
  /\ pending \in BOOLEAN /\ failover \in BOOLEAN
  /\ worker \in FlowIds \cup {None}
  /\ worker # None => flows[worker] # None /\ flows[worker].at = "run"
  /\ \A i \in FlowIds : Starting(i) => flows[i].at = "fetch"

(* The loop is in one pair of hands at most.                               *)
OneInv ==
  /\ \A t \in Armed : t = handle /\ ~pending
  /\ \A i, j \in FlowIds : Looping(i) /\ Looping(j) => i = j
  /\ \A i \in FlowIds : Looping(i) => ~pending /\ Armed = {}

(* A first fetch is alone, and has nothing to lose.                        *)
StartInv == \A i \in FlowIds : Starting(i) =>
  /\ puzzle = None /\ ~failover /\ ~pending /\ Armed = {}
  /\ \A j \in FlowIds : j # i => flows[j] = None

(* Only a widget in failover recovers.                                     *)
ClaimInv ==
  /\ \A t \in TimerIds : timers[t] = "recovery" => failover
  /\ \A i \in FlowIds : flows[i] # None /\ flows[i].kind = "recover" => failover

(* The loop exists exactly with a challenge or a claim, unless its worker  *)
(* was terminated.                                                         *)
KeptInv ==
  /\ \A i \in FlowIds : Looping(i) /\ flows[i].at # "fetch" => puzzle # None
  /\ Held <=> (puzzle # None \/ failover) /\ "loop" \notin upset
  /\ "loop" \in upset => puzzle # None \/ failover

Calm == OneInv /\ StartInv /\ ClaimInv /\ KeptInv

Inv == TypeInv /\ ("reset" \notin upset => Calm)

-----------------------------------------------------------------------------
(* Pools                                                                   *)

LEMMA LeastNatural ==
  ASSUME NEW T, T \subseteq Nat, T # {}
  PROVE  Min(T) \in T
  <1>1. PICK x \in T : \A y \in T : ~(<<y, x>> \in OpToRel(<, Nat))
    BY NatLessThanWellFounded, WFMin
  <1>2. \A y \in T : ~(y < x)
    BY <1>1 DEF OpToRel
  <1>3. \A y \in T : x <= y
    BY <1>2
  <1> QED BY <1>3 DEF Min

LEMMA FreeTimerIsFree ==
  ASSUME NEW ts, \E t \in TimerIds : ts[t] = None
  PROVE  FreeTimer(ts) \in TimerIds /\ ts[FreeTimer(ts)] = None
  <1> DEFINE Free == {i \in TimerIds : ts[i] = None}
  <1>1. Free \subseteq Nat /\ Free # {}
    BY WidgetAssumption
  <1>2. Min(Free) \in Free
    BY <1>1, LeastNatural
  <1> QED BY <1>2 DEF FreeTimer

LEMMA FreeFlowIsFree ==
  ASSUME Room
  PROVE  FreeFlow \in FlowIds /\ flows[FreeFlow] = None
  <1> DEFINE Free == {i \in FlowIds : flows[i] = None}
  <1>1. Free \subseteq Nat /\ Free # {}
    BY WidgetAssumption DEF Room
  <1>2. Min(Free) \in Free
    BY <1>1, LeastNatural
  <1> QED BY <1>2 DEF FreeFlow

LEMMA OneLess ==
  ASSUME NEW S, IsFiniteSet(S), NEW x
  PROVE  /\ IsFiniteSet(S \ {x}) /\ Cardinality(S \ {x}) \in Nat
         /\ Cardinality(S \ {x}) >= Cardinality(S) - 1
  <1>1. Cardinality(S) \in Nat
    BY FS_CardinalityType
  <1>2. IsFiniteSet(S \ {x})
    BY FS_RemoveElement
  <1>3. Cardinality(S \ {x}) = IF x \in S THEN Cardinality(S) - 1 ELSE Cardinality(S)
    BY FS_RemoveElement
  <1>4. Cardinality(S \ {x}) \in Nat
    BY <1>2, FS_CardinalityType
  <1> QED BY <1>1, <1>2, <1>3, <1>4

(* There is always a challenge id that nothing refers to any more.         *)
LEMMA FreshIsFresh ==
  /\ Fresh \in Puzzles /\ Fresh # puzzle
  /\ Fresh # token.challenge /\ Fresh # token.nonce
  /\ \A i \in FlowIds : flows[i] # None => flows[i].puzzle # Fresh
  <1> DEFINE Rest == ((Puzzles \ {puzzle}) \ {token.challenge}) \ {token.nonce}
             Free == Puzzles \ ({puzzle, token.challenge, token.nonce}
                                  \cup {flows[i].puzzle : i \in Live})
  <1>1. /\ IsFiniteSet(FlowIds) /\ Cardinality(FlowIds) \in Nat
        /\ IsFiniteSet(Puzzles) /\ Cardinality(Puzzles) \in Nat
        /\ Cardinality(Puzzles) > Cardinality(FlowIds) + 3
    BY WidgetAssumption, FS_CardinalityType
  <1>2. IsFiniteSet(Rest) /\ Cardinality(Rest) \in Nat /\ Cardinality(FlowIds) < Cardinality(Rest)
    <2> DEFINE One == Puzzles \ {puzzle}
               Two == One \ {token.challenge}
    <2>1. IsFiniteSet(One) /\ Cardinality(One) \in Nat /\ Cardinality(One) >= Cardinality(Puzzles) - 1
      BY <1>1, OneLess
    <2> HIDE DEF One
    <2>2. IsFiniteSet(Two) /\ Cardinality(Two) \in Nat /\ Cardinality(Two) >= Cardinality(One) - 1
      BY <2>1, OneLess
    <2> HIDE DEF Two
    <2>3. LET Three == Two \ {token.nonce} IN
          /\ IsFiniteSet(Three) /\ Cardinality(Three) \in Nat
          /\ Cardinality(Three) >= Cardinality(Two) - 1
      BY <2>2, OneLess
    <2>4. Rest = Two \ {token.nonce}
      BY DEF One, Two
    <2> HIDE DEF Rest
    <2> QED BY <1>1, <2>1, <2>2, <2>3, <2>4
  <1>3. Free # {}
    <2> SUFFICES ASSUME Free = {} PROVE FALSE
      OBVIOUS
    <2>1. \A p \in Rest : \E i \in FlowIds : flows[i].puzzle = p
      BY DEF Live
    <2> DEFINE f == [p \in Rest |-> CHOOSE i \in FlowIds : flows[i].puzzle = p]
    <2>2. f \in [Rest -> FlowIds] /\ \A p \in Rest : flows[f[p]].puzzle = p
      BY <2>1
    <2>3. \E p, q \in Rest : p # q /\ f[p] = f[q]
      <3> HIDE DEF f, Rest
      <3> QED BY <1>1, <1>2, <2>2, FS_PigeonHole
    <2> QED BY <2>2, <2>3
  <1>4. Free \subseteq Nat
    BY WidgetAssumption
  <1>5. Min(Free) \in Free
    BY <1>3, <1>4, LeastNatural
  <1>6. Min(Free) = Fresh
    BY DEF Fresh
  <1> QED BY <1>5, <1>6 DEF Live

(* Arming leaves one timer armed, the one of the handle.                   *)
LEMMA ArmLeavesOne ==
  ASSUME NEW ts \in [TimerIds -> Callbacks \cup {None}],
         \A t \in TimerIds : ts[t] = None,
         NEW callback \in Callbacks, Arm(ts, callback)
  PROVE  /\ timers' \in [TimerIds -> Callbacks \cup {None}] /\ handle' \in TimerIds
         /\ timers'[handle'] = callback /\ callback # None
         /\ \A t \in TimerIds : t # handle' => timers'[t] = None
  <1>1. TimerIds # {} /\ callback # None
    BY WidgetAssumption
  <1>2. FreeTimer(ts) \in TimerIds
    BY <1>1, FreeTimerIsFree
  <1> QED BY <1>1, <1>2 DEF Arm

-----------------------------------------------------------------------------
(* Flows                                                                   *)

LEMMA NewFlow ==
  /\ \A k \in {"init", "refresh", "recover"} : Fetching(k) \in Flow
  /\ \A k \in {"verify", "refresh", "recover"}, p \in Puzzles : Solving(k, p) \in Flow
  /\ \A f \in Flow : f # None
  BY WidgetAssumption DEF Flow, Fetching, Solving

(* Flow i ends, or goes on as the flow f; the flow of the current worker   *)
(* may be terminated with it.                                              *)
LEMMA FlowMoves ==
  ASSUME TypeInv, NEW i \in FlowIds, flows[i] # None,
         \/ flows' = [flows EXCEPT ![i] = None] \/ flows' = Without(i)
         \/ \E f \in Flow : flows' = [flows EXCEPT ![i] = f]
  PROVE  /\ flows' \in [FlowIds -> Flow \cup {None}]
         /\ \A j \in FlowIds : j # i => flows'[j] \in {None, flows[j]}
         /\ flows' # Without(i) => \A j \in FlowIds : j # i => flows'[j] = flows[j]
         /\ flows' = Without(i) => flows'[i] = None
  BY DEF TypeInv, Without

LEMMA ArmTypes ==
  ASSUME TypeInv, NEW ts \in [TimerIds -> Callbacks \cup {None}],
         NEW callback \in Callbacks, Arm(ts, callback)
  PROVE  timers' \in [TimerIds -> Callbacks \cup {None}]
  BY DEF Arm

LEMMA TimerSets ==
  ASSUME TypeInv
  PROVE  /\ Cleared \in [TimerIds -> Callbacks \cup {None}]
         /\ \A t \in TimerIds : Spent(t) \in [TimerIds -> Callbacks \cup {None}]
         /\ \A p : SchedulePuzzleRefresh(p) => timers' \in [TimerIds -> Callbacks \cup {None}]
         /\ "refresh" \in Callbacks /\ "recovery" \in Callbacks
  BY DEF TypeInv, Cleared, Spent, SchedulePuzzleRefresh, Arm, Callbacks

(* A step of flow i that keeps the types.                                  *)
LEMMA FlowKeepsTypes ==
  ASSUME TypeInv, NEW i \in FlowIds, flows[i] # None,
         timers' \in [TimerIds -> Callbacks \cup {None}],
         puzzle' \in Puzzles \cup {None},
         pending' \in BOOLEAN, failover' \in BOOLEAN,
         \/ /\ flows' = Without(i) /\ worker' = None
         \/ /\ flows' = [flows EXCEPT ![i] = None] /\ flows[i].at # "run"
            /\ worker' = worker
         \/ /\ \E f \in Flow : /\ flows' = [flows EXCEPT ![i] = f]
                               /\ f.kind = "init" => f.at = "fetch"
                               /\ \/ worker' = i /\ f.at = "run"
                                  \/ worker' = worker /\ flows[i].at # "run"
  PROVE  TypeInv'
  <1>1. flows' \in [FlowIds -> Flow \cup {None}]
    BY FlowMoves
  <1>2. ASSUME NEW j \in FlowIds, Starting(j)' PROVE flows'[j].at = "fetch"
    BY <1>2, WidgetAssumption DEF TypeInv, Starting, Without
  <1>3. worker' # None => worker' \in FlowIds /\ flows'[worker'] # None /\ flows'[worker'].at = "run"
    BY NewFlow DEF TypeInv
  <1> QED BY <1>1, <1>2, <1>3 DEF TypeInv

LEMMA SolveKeepsTypes ==
  ASSUME TypeInv, NEW i \in FlowIds, SolveStep(i)
  PROVE  TypeInv'
  <1>1. ASSUME NEW kind, Solved(i, kind) \/ SolveFails(i, kind)
        PROVE  /\ flows[i] # None
               /\ \/ flows' = Without(i) /\ worker' = None
                  \/ /\ flows' = [flows EXCEPT ![i] = None] /\ flows[i].at # "run"
                     /\ worker' = worker
    BY <1>1 DEF Solved, SolveFails
  <1>2. CASE WorkerCreated(i)
    <2>1. /\ flows[i] \in Flow /\ flows[i].at = "create" /\ flows[i].kind # "init"
          /\ flows' = [flows EXCEPT ![i].at = "run"] /\ worker' = i /\ flows[i] # None
          /\ UNCHANGED <<fields, timers>>
      BY <1>2 DEF WorkerCreated, TypeInv, Starting
    <2> DEFINE f == [flows[i] EXCEPT !.at = "run"]
    <2>2. f \in Flow /\ f.at = "run" /\ f.kind # "init"
      BY <2>1 DEF Flow
    <2>3. flows' = [flows EXCEPT ![i] = f]
      BY <2>1
    <2> HIDE DEF f
    <2> QED BY <2>1, <2>2, <2>3, FlowKeepsTypes DEF fields, TypeInv
  <1>3. CASE VerifySolved(i) \/ VerifyFails(i)
    BY <1>1, <1>3, FlowKeepsTypes DEF VerifySolved, VerifyFails, TypeInv
  <1>4. CASE RefreshSolved(i) \/ RecoverSolved(i)
    BY <1>1, <1>4, FlowKeepsTypes, TimerSets DEF RefreshSolved, RecoverSolved, TypeInv
  <1>5. CASE RefreshSolveFails(i)
    <2>1. timers' \in [TimerIds -> Callbacks \cup {None}]
      BY <1>5, TimerSets, ArmTypes
         DEF RefreshSolveFails, RefreshGivesUp, EnterFailover, ScheduleFailoverRecovery, TypeInv
    <2>2. /\ puzzle' \in Puzzles \cup {None} /\ pending' \in BOOLEAN /\ failover' \in BOOLEAN
          /\ SolveFails(i, "refresh")
      BY <1>5 DEF RefreshSolveFails, RefreshGivesUp, EnterFailover, TypeInv
    <2> QED BY <1>1, <2>1, <2>2, FlowKeepsTypes
  <1> QED BY <1>2, <1>3, <1>4, <1>5 DEF SolveStep

LEMMA FetchKeepsTypes ==
  ASSUME TypeInv, NEW i \in FlowIds, FetchStep(i)
  PROVE  TypeInv'
  <1>1. Fresh \in Puzzles /\ \A k \in {"verify", "refresh", "recover"} :
          Solving(k, Fresh) \in Flow /\ Solving(k, Fresh).kind = k
    BY FreshIsFresh, NewFlow DEF Solving
  <1>2. CASE InitFetched(i)
    <2>1. /\ flows[i] # None /\ flows[i].at = "fetch" /\ worker' = worker
          /\ SchedulePuzzleRefresh(Fresh) /\ puzzle' = Fresh /\ UNCHANGED <<failover, pending>>
          /\ \/ flows' = [flows EXCEPT ![i] = Solving("verify", Fresh)]
             \/ flows' = [flows EXCEPT ![i] = None]
      BY <1>2 DEF InitFetched, Answered
    <2> QED BY <1>1, <2>1, FlowKeepsTypes, TimerSets DEF TypeInv
  <1>3. CASE InitRetries(i)
    <2>1. /\ flows[i] \in Flow /\ flows[i].at = "fetch" /\ flows[i] # None
          /\ flows' = [flows EXCEPT ![i].attempt = @ + 1] /\ worker' = worker
          /\ UNCHANGED <<fields, timers>>
      BY <1>3 DEF InitRetries, Answered, TypeInv
    <2> DEFINE f == [flows[i] EXCEPT !.attempt = @ + 1]
    <2>2. f \in Flow /\ f.at = "fetch"
      BY <2>1 DEF Flow
    <2>3. flows' = [flows EXCEPT ![i] = f]
      BY <2>1
    <2> HIDE DEF f
    <2> QED BY <2>1, <2>2, <2>3, FlowKeepsTypes DEF fields, TypeInv
  <1>4. CASE InitUnreachable(i) \/ InitRefused(i)
    <2>1. /\ flows[i] # None /\ flows[i].at = "fetch" /\ worker' = worker
          /\ flows' = [flows EXCEPT ![i] = None] /\ UNCHANGED <<puzzle, pending>>
          /\ failover' \in BOOLEAN
      BY <1>4 DEF InitUnreachable, InitRefused, Answered, EnterFailover, TypeInv
    <2>2. timers' \in [TimerIds -> Callbacks \cup {None}]
      BY <1>4, TimerSets, ArmTypes
         DEF InitUnreachable, InitRefused, EnterFailover, ScheduleFailoverRecovery, TypeInv
    <2> QED BY <2>1, <2>2, FlowKeepsTypes DEF TypeInv
  <1>5. CASE RefreshFetched(i) \/ RecoverFetched(i)
    <2>1. /\ flows[i] # None /\ flows[i].at = "fetch" /\ worker' = worker
          /\ puzzle' = Fresh /\ UNCHANGED <<failover, pending>>
          /\ \/ UNCHANGED timers \/ SchedulePuzzleRefresh(Fresh)
          /\ \/ \E k \in {"refresh", "recover"} : flows' = [flows EXCEPT ![i] = Solving(k, Fresh)]
             \/ flows' = [flows EXCEPT ![i] = None]
      BY <1>5 DEF RefreshFetched, RecoverFetched, Answered
    <2> QED BY <1>1, <2>1, FlowKeepsTypes, TimerSets DEF TypeInv
  <1>6. CASE RefreshFetchFails(i)
    <2>1. /\ flows[i] # None /\ flows[i].at = "fetch" /\ worker' = worker
          /\ flows' = [flows EXCEPT ![i] = None] /\ UNCHANGED <<puzzle, pending>>
          /\ failover' \in BOOLEAN
      BY <1>6 DEF RefreshFetchFails, Answered, RefreshGivesUp, EnterFailover, TypeInv
    <2>2. timers' \in [TimerIds -> Callbacks \cup {None}]
      BY <1>6, TimerSets, ArmTypes
         DEF RefreshFetchFails, RefreshGivesUp, EnterFailover, ScheduleFailoverRecovery, TypeInv
    <2> QED BY <2>1, <2>2, FlowKeepsTypes DEF TypeInv
  <1>7. CASE RecoverFails(i)
    <2>1. timers' \in [TimerIds -> Callbacks \cup {None}] /\ UNCHANGED <<puzzle, pending, failover>>
      BY <1>7, TimerSets, ArmTypes DEF RecoverFails, ScheduleFailoverRecovery
    <2>2. /\ flows[i] # None
          /\ \/ flows' = Without(i) /\ worker' = None
             \/ /\ flows' = [flows EXCEPT ![i] = None] /\ flows[i].at # "run"
                /\ worker' = worker
      BY <1>7 DEF RecoverFails, Answered, SolveFails
    <2> QED BY <2>1, <2>2, FlowKeepsTypes DEF TypeInv
  <1> QED BY <1>2, <1>3, <1>4, <1>5, <1>6, <1>7 DEF FetchStep

-----------------------------------------------------------------------------
(* The loop changes hands                                                  *)

LEMMA WorkerRuns ==
  ASSUME TypeInv, worker \in FlowIds
  PROVE  flows[worker] # None /\ flows[worker].at = "run"
  BY WidgetAssumption DEF TypeInv

(* A flow that is not a first fetch goes on as what it was.                *)
LEMMA FlowGoesOn ==
  ASSUME TypeInv, Calm, NEW i \in FlowIds, flows[i] # None, ~Starting(i),
         flows' \in [FlowIds -> Flow \cup {None}],
         flows'[i] # None, flows'[i].kind = flows[i].kind,
         \A j \in FlowIds : j # i => flows'[j] = flows[j],
         puzzle' = puzzle \/ (puzzle' # None /\ Looping(i)),
         Looping(i) => flows[i].at # "fetch" \/ puzzle' # None,
         UNCHANGED <<failover, timers, handle, pending, upset>>
  PROVE  Calm'
  <1>1. \A j \in FlowIds : ~Starting(j)
    BY DEF Calm, StartInv, Starting
  <1>2. \A j \in FlowIds : (Looping(j)' <=> Looping(j)) /\ ~Starting(j)'
    BY <1>1 DEF Looping, Starting
  <1>3. Armed' = Armed /\ (Held' <=> Held)
    BY <1>2 DEF Armed, Held
  <1>4. OneInv' /\ StartInv' /\ ClaimInv'
    BY <1>2, <1>3 DEF Calm, OneInv, StartInv, ClaimInv
  <1>5. KeptInv'
    <2>1. \A j \in FlowIds : Looping(j)' /\ flows'[j].at # "fetch" => puzzle' # None
      BY <1>2 DEF Calm, KeptInv, OneInv
    <2>2. Looping(i) => Held
      BY DEF Held
    <2> QED BY <1>3, <2>1, <2>2 DEF Calm, KeptInv
  <1> QED BY <1>4, <1>5 DEF Calm

(* A visitor's solve ends, and may terminate the loop's worker.            *)
LEMMA VerifyEnds ==
  ASSUME TypeInv, Calm, NEW i \in FlowIds, flows[i] # None, flows[i].kind = "verify",
         \/ flows' = [flows EXCEPT ![i] = None] /\ UNCHANGED upset
         \/ flows' = Without(i) /\ upset' = Upset(i),
         UNCHANGED <<puzzle, failover, timers, handle, pending>>
  PROVE  Calm'
  <1>1. \A j \in FlowIds : ~Starting(j)
    BY DEF Calm, StartInv, Starting
  <1>2. \A j \in FlowIds : (Looping(j)' => Looping(j)) /\ ~Starting(j)'
    BY <1>1 DEF Looping, Starting, Without, TypeInv
  <1>3. Armed' = Armed
    BY DEF Armed
  <1>4. OneInv' /\ StartInv' /\ ClaimInv'
    BY <1>2, <1>3 DEF Calm, OneInv, StartInv, ClaimInv, Looping, Without, TypeInv
  <1>5. \A j \in FlowIds : Looping(j)' => flows'[j] = flows[j]
    BY DEF TypeInv, Without, Looping
  <1>6. CASE \A j \in FlowIds : Looping(j) => Looping(j)'
    <2>1. Held' <=> Held
      BY <1>2, <1>3, <1>6 DEF Held
    <2>2. "loop" \in upset' <=> "loop" \in upset
      <3>1. CASE flows' = Without(i) /\ upset' = Upset(i) /\ worker \in FlowIds /\ worker # i
        <4>1. flows[worker] # None /\ flows'[worker] = None
          BY <3>1, WorkerRuns DEF Without
        <4>2. flows[worker].kind \in {"init", "verify", "refresh", "recover"}
          BY <3>1, <4>1 DEF TypeInv, Flow
        <4>3. ~Looping(worker) /\ ~Starting(worker)
          BY <1>1, <1>6, <3>1, <4>1 DEF Looping
        <4>4. flows[worker].kind = "verify"
          BY <4>1, <4>2, <4>3 DEF Looping, Starting
        <4> QED BY <3>1, <4>4 DEF Upset
      <3>2. CASE flows' = Without(i) /\ upset' = Upset(i) /\ worker \in {i, None}
        BY <3>2 DEF Upset
      <3> QED BY <3>1, <3>2 DEF TypeInv
    <2> QED BY <1>2, <1>4, <1>5, <2>1, <2>2 DEF Calm, KeptInv
  <1>7. ASSUME NEW k \in FlowIds, Looping(k), ~Looping(k)'
        PROVE  Calm'
    <2>1. k = worker /\ k # i /\ flows' = Without(i) /\ upset' = Upset(i)
      BY <1>7 DEF Looping, Without, TypeInv
    <2>2. "loop" \in upset'
      BY <1>7, <2>1, WidgetAssumption DEF Upset, Looping
    <2>3. puzzle # None
      BY <1>7, <2>1, WorkerRuns DEF Calm, KeptInv
    <2>4. ~Held'
      BY <1>2, <1>3, <1>7 DEF Calm, OneInv, Held
    <2> QED BY <1>2, <1>4, <1>5, <2>2, <2>3, <2>4 DEF Calm, KeptInv
  <1> QED BY <1>6, <1>7

(* The flow that holds the loop, or is about to start it, hands it to the  *)
(* timer it arms.                                                          *)
LEMMA FlowArms ==
  ASSUME TypeInv, Calm, NEW i \in FlowIds, Looping(i) \/ Starting(i),
         flows' \in [FlowIds -> Flow \cup {None}],
         flows'[i] # None => flows'[i].kind = "verify",
         \A j \in FlowIds : j # i => flows'[j] \in {None, flows[j]},
         UNCHANGED upset \/ upset' = Upset(i), UNCHANGED pending,
         NEW ts \in {Cleared, timers}, NEW callback \in Callbacks, Arm(ts, callback),
         puzzle' # None \/ failover', callback = "recovery" => failover'
  PROVE  Calm'
  <1>1. Armed = {} /\ ~pending /\ \A j \in FlowIds : j # i => ~Looping(j) /\ ~Starting(j)
    BY DEF Calm, OneInv, StartInv, Looping, Starting
  <1>2. ts \in [TimerIds -> Callbacks \cup {None}] /\ \A t \in TimerIds : ts[t] = None
    BY <1>1 DEF TypeInv, Cleared, Armed
  <1>3. /\ handle' \in TimerIds /\ timers'[handle'] = callback /\ callback # None
        /\ \A t \in TimerIds : t # handle' => timers'[t] = None
    BY <1>2, ArmLeavesOne
  <1>4. Armed' = {handle'} /\ Held'
    BY <1>3 DEF Armed, Held
  <1>5. \A j \in FlowIds : ~Looping(j)' /\ ~Starting(j)'
    BY <1>1 DEF Looping, Starting
  <1>6. OneInv' /\ StartInv'
    BY <1>1, <1>4, <1>5 DEF OneInv, StartInv
  <1>7. ClaimInv'
    BY <1>3, <1>5, WidgetAssumption DEF ClaimInv, Looping, Callbacks
  <1>8. "loop" \notin upset'
    <2>1. "loop" \notin upset
      BY DEF Calm, KeptInv, StartInv, Held
    <2>2. worker \in FlowIds /\ worker # i => flows[worker].kind = "verify"
      <3> SUFFICES ASSUME worker \in FlowIds, worker # i PROVE flows[worker].kind = "verify"
        OBVIOUS
      <3>1. flows[worker] # None /\ flows[worker] \in Flow
        BY WorkerRuns DEF TypeInv
      <3>2. flows[worker].kind \in {"init", "verify", "refresh", "recover"}
        BY <3>1 DEF Flow
      <3> QED BY <1>1, <3>1, <3>2 DEF Looping, Starting
    <2> QED BY <2>1, <2>2 DEF Upset, TypeInv
  <1> QED BY <1>4, <1>5, <1>6, <1>7, <1>8 DEF Calm, KeptInv

(* A timer fires or the tab is shown: the loop is armed again, waits for   *)
(* the tab, or becomes a flow.                                             *)
LEMMA LoopMoves ==
  ASSUME TypeInv, Calm, Room, Armed # {} \/ pending,
         NEW ts \in [TimerIds -> Callbacks \cup {None}],
         \A t \in TimerIds : ts[t] = None,
         UNCHANGED <<puzzle, failover, upset>>,
         \/ /\ pending' = FALSE /\ flows' = flows
            /\ \E callback \in Callbacks :
                  Arm(ts, callback) /\ (callback = "recovery" => failover)
         \/ pending' = TRUE /\ flows' = flows /\ timers' = ts
         \/ /\ pending' = FALSE /\ timers' = ts
            /\ \E k \in {"refresh", "recover"} :
                  /\ flows' = [flows EXCEPT ![FreeFlow] = Fetching(k)]
                  /\ k = "recover" => failover
  PROVE  Calm'
  <1>1. \A i \in FlowIds : ~Looping(i) /\ ~Starting(i)
    BY DEF Calm, OneInv, StartInv
  <1>2. Held
    BY DEF Held
  <1>3. OneInv' /\ Held' /\ ClaimInv' /\ \A i \in FlowIds :
          ~Starting(i)' /\ (Looping(i)' => flows'[i].at = "fetch")
    <2>1. ASSUME NEW callback \in Callbacks, Arm(ts, callback), callback = "recovery" => failover,
                 pending' = FALSE, flows' = flows
          PROVE  /\ OneInv' /\ Held' /\ ClaimInv'
                 /\ \A i \in FlowIds : ~Starting(i)' /\ ~Looping(i)'
      <3>1. /\ handle' \in TimerIds /\ timers'[handle'] = callback /\ callback # None
            /\ \A t \in TimerIds : t # handle' => timers'[t] = None
        BY <2>1, ArmLeavesOne
      <3>2. Armed' = {handle'} /\ Held'
        BY <3>1 DEF Armed, Held
      <3>3. \A i \in FlowIds : ~Looping(i)' /\ ~Starting(i)'
        BY <1>1, <2>1 DEF Looping, Starting
      <3>4. OneInv'
        BY <2>1, <3>2, <3>3 DEF OneInv
      <3>5. ClaimInv'
        BY <2>1, <3>1, <3>3, WidgetAssumption DEF ClaimInv, Looping, Callbacks
      <3> QED BY <3>2, <3>3, <3>4, <3>5
    <2>2. ASSUME pending' = TRUE, flows' = flows, timers' = ts
          PROVE  /\ OneInv' /\ Held' /\ ClaimInv'
                 /\ \A i \in FlowIds : ~Starting(i)' /\ ~Looping(i)'
      <3>1. \A i \in FlowIds : ~Looping(i)' /\ ~Starting(i)'
        BY <1>1, <2>2 DEF Looping, Starting
      <3>2. Armed' = {}
        BY <2>2 DEF Armed
      <3> QED BY <2>2, <3>1, <3>2, WidgetAssumption
              DEF OneInv, Held, ClaimInv, Looping, Callbacks
    <2>3. ASSUME NEW k \in {"refresh", "recover"}, k = "recover" => failover,
                 pending' = FALSE, timers' = ts,
                 flows' = [flows EXCEPT ![FreeFlow] = Fetching(k)]
          PROVE  /\ OneInv' /\ Held' /\ ClaimInv'
                 /\ \A i \in FlowIds : ~Starting(i)' /\ (Looping(i)' => flows'[i].at = "fetch")
      <3>1. /\ FreeFlow \in FlowIds /\ Fetching(k) # None
            /\ Fetching(k).kind = k /\ Fetching(k).at = "fetch"
        BY FreeFlowIsFree, NewFlow DEF Fetching
      <3>2. /\ flows'[FreeFlow] = Fetching(k)
            /\ \A j \in FlowIds : j # FreeFlow => flows'[j] = flows[j]
        BY <2>3, <3>1 DEF TypeInv
      <3>3. \A i \in FlowIds : (Looping(i)' <=> i = FreeFlow) /\ ~Starting(i)'
        BY <1>1, <3>1, <3>2 DEF Looping, Starting
      <3>4. Armed' = {}
        BY <2>3 DEF Armed
      <3>5. OneInv' /\ Held'
        BY <2>3, <3>1, <3>3, <3>4 DEF OneInv, Held
      <3>6. ClaimInv'
        BY <1>1, <2>3, <3>1, <3>2, WidgetAssumption DEF ClaimInv, Looping, Callbacks
      <3> QED BY <3>1, <3>2, <3>3, <3>5, <3>6
    <2> QED BY <2>1, <2>2, <2>3
  <1> QED BY <1>2, <1>3 DEF Calm, StartInv, KeptInv

-----------------------------------------------------------------------------
(* The steps                                                               *)

LEMMA FlowOver ==
  ASSUME TypeInv, NEW i \in FlowIds, NEW kind, Solved(i, kind) \/ SolveFails(i, kind)
  PROVE  /\ flows[i] # None /\ flows[i].kind = kind /\ flows[i].at # "fetch"
         /\ flows' \in [FlowIds -> Flow \cup {None}] /\ flows'[i] = None
         /\ \A j \in FlowIds : j # i => flows'[j] \in {None, flows[j]}
         /\ \/ flows' = [flows EXCEPT ![i] = None] /\ UNCHANGED upset
            \/ flows' = Without(i) /\ upset' = Upset(i)
  BY DEF Solved, SolveFails, TypeInv, Without

LEMMA SolveKeepsCalm ==
  ASSUME TypeInv, Calm, NEW i \in FlowIds, SolveStep(i)
  PROVE  Calm'
  <1>1. /\ timers \in {Cleared, timers} /\ Cleared \in {Cleared, timers}
        /\ "refresh" \in Callbacks /\ "recovery" \in Callbacks
    BY DEF Callbacks
  <1>2. CASE WorkerCreated(i)
    <2>1. /\ flows[i] \in Flow /\ flows[i].at = "create" /\ ~Starting(i) /\ flows[i] # None
          /\ flows' = [flows EXCEPT ![i].at = "run"]
          /\ UNCHANGED <<puzzle, failover, timers, handle, pending, upset>>
      BY <1>2 DEF WorkerCreated, TypeInv, Starting, fields
    <2>2. flows'[i] = [flows[i] EXCEPT !.at = "run"] /\ \A j \in FlowIds : j # i => flows'[j] = flows[j]
      BY <2>1 DEF TypeInv
    <2>3. flows'[i] \in Flow /\ flows'[i].kind = flows[i].kind
      BY <2>1, <2>2 DEF Flow
    <2>4. flows' \in [FlowIds -> Flow \cup {None}]
      BY <2>1, <2>2, <2>3 DEF TypeInv
    <2> QED BY <2>1, <2>2, <2>3, <2>4, FlowGoesOn, NewFlow
  <1>3. CASE VerifySolved(i) \/ VerifyFails(i)
    <2>1. /\ Solved(i, "verify") \/ SolveFails(i, "verify")
          /\ UNCHANGED <<puzzle, failover, timers, handle, pending>>
      BY <1>3 DEF VerifySolved, VerifyFails
    <2> QED BY <2>1, FlowOver, VerifyEnds
  <1>4. ASSUME NEW kind \in {"refresh", "recover"}, Solved(i, kind) \/ SolveFails(i, kind)
        PROVE  Looping(i) /\ puzzle # None /\ (kind = "recover" => failover)
    BY <1>4, FlowOver DEF Looping, Calm, KeptInv, ClaimInv
  <1>5. ASSUME NEW kind \in {"refresh", "recover"}, Solved(i, kind) \/ SolveFails(i, kind),
               NEW ts \in {Cleared, timers}, NEW callback \in Callbacks, Arm(ts, callback),
               UNCHANGED <<puzzle, pending>>, callback = "recovery" => failover'
        PROVE  Calm'
    <2>1. Looping(i) /\ puzzle' # None
      BY <1>4, <1>5
    <2> QED BY <1>5, <2>1, FlowOver, FlowArms
  <1>6. CASE RefreshSolved(i) \/ RecoverSolved(i)
    <2>1. PICK kind \in {"refresh", "recover"} : Solved(i, kind)
      BY <1>6 DEF RefreshSolved, RecoverSolved
    <2>2. SchedulePuzzleRefresh(puzzle) /\ UNCHANGED <<puzzle, pending>>
      BY <1>6 DEF RefreshSolved, RecoverSolved
    <2>3. Arm(Cleared, "refresh")
      BY <1>4, <2>1, <2>2 DEF SchedulePuzzleRefresh
    <2> QED BY <1>1, <1>5, <2>1, <2>2, <2>3
  <1>7. CASE RefreshSolveFails(i)
    <2>1. SolveFails(i, "refresh") /\ UNCHANGED <<puzzle, pending>>
      BY <1>7 DEF RefreshSolveFails, RefreshGivesUp, EnterFailover
    <2>2. \/ Arm(Cleared, "recovery") /\ failover'
          \/ Arm(timers, "refresh")
      BY <1>7 DEF RefreshSolveFails, RefreshGivesUp, EnterFailover, ScheduleFailoverRecovery
    <2> QED BY <1>1, <1>5, <2>1, <2>2
  <1> QED BY <1>2, <1>3, <1>6, <1>7 DEF SolveStep

LEMMA FetchKeepsCalm ==
  ASSUME TypeInv, Calm, NEW i \in FlowIds, FetchStep(i)
  PROVE  Calm'
  <1>1. /\ timers \in {Cleared, timers} /\ Cleared \in {Cleared, timers}
        /\ "refresh" \in Callbacks /\ "recovery" \in Callbacks
        /\ Fresh \in Puzzles /\ Fresh # None
    BY FreshIsFresh, WidgetAssumption DEF Callbacks
  <1>2. \A k \in {"verify", "refresh", "recover"} :
          Solving(k, Fresh) \in Flow /\ Solving(k, Fresh).kind = k /\ Solving(k, Fresh) # None
    BY <1>1, NewFlow DEF Solving
  <1>3. CASE InitFetched(i)
    <2>1. /\ Starting(i) /\ flows[i] # None
          /\ Arm(Cleared, "refresh") /\ puzzle' = Fresh /\ UNCHANGED <<pending, upset>>
          /\ \/ flows' = [flows EXCEPT ![i] = Solving("verify", Fresh)]
             \/ flows' = [flows EXCEPT ![i] = None]
      BY <1>1, <1>3 DEF InitFetched, Answered, Starting, SchedulePuzzleRefresh
    <2>2. /\ flows' \in [FlowIds -> Flow \cup {None}]
          /\ flows'[i] # None => flows'[i].kind = "verify"
          /\ \A j \in FlowIds : j # i => flows'[j] = flows[j]
      BY <1>2, <2>1 DEF TypeInv
    <2> QED BY <1>1, <2>1, <2>2, FlowArms
  <1>4. CASE InitRetries(i)
    <2>1. /\ Starting(i) /\ flows[i] # None /\ flows[i] \in Flow
          /\ flows' = [flows EXCEPT ![i].attempt = @ + 1]
          /\ UNCHANGED <<puzzle, failover, timers, handle, pending, upset>>
      BY <1>4 DEF InitRetries, Answered, Starting, fields, TypeInv
    <2>2. /\ flows'[i] = [flows[i] EXCEPT !.attempt = @ + 1]
          /\ \A j \in FlowIds : j # i => flows'[j] = flows[j]
      BY <2>1 DEF TypeInv
    <2>3. flows'[i] \in Flow /\ flows'[i].kind = "init"
      BY <2>1, <2>2 DEF Flow, Starting
    <2>4. flows'[i] # None
      BY <2>3, NewFlow
    <2>5. \A j \in FlowIds : j # i => flows[j] = None
      BY <2>1 DEF Calm, StartInv
    <2>6. \A j \in FlowIds : ~Looping(j)' /\ ~Looping(j) /\ (Starting(j)' => j = i)
      BY <2>1, <2>2, <2>3, <2>4, <2>5 DEF Looping, Starting
    <2>7. Armed' = Armed /\ (Held' <=> Held)
      BY <2>1, <2>6 DEF Armed, Held
    <2>8. \A j \in FlowIds : flows'[j] # None => flows'[j].kind # "recover"
      BY <2>2, <2>3, <2>5
    <2> QED BY <2>1, <2>2, <2>5, <2>6, <2>7, <2>8
            DEF Calm, OneInv, StartInv, ClaimInv, KeptInv
  <1>5. CASE InitUnreachable(i)
    <2>1. /\ Starting(i) /\ Arm(Cleared, "recovery") /\ failover' /\ UNCHANGED <<pending, upset>>
          /\ flows' = [flows EXCEPT ![i] = None]
      BY <1>5 DEF InitUnreachable, Answered, Starting, EnterFailover, ScheduleFailoverRecovery
    <2>2. /\ flows' \in [FlowIds -> Flow \cup {None}] /\ flows'[i] = None
          /\ \A j \in FlowIds : j # i => flows'[j] = flows[j]
      BY <2>1 DEF TypeInv
    <2> QED BY <1>1, <2>1, <2>2, FlowArms
  <1>6. CASE InitRefused(i)
    <2>1. /\ Starting(i) /\ UNCHANGED <<puzzle, failover, timers, handle, pending, upset>>
          /\ flows' = [flows EXCEPT ![i] = None]
      BY <1>6 DEF InitRefused, Answered, Starting
    <2>2. \A j \in FlowIds : flows'[j] = None
      BY <2>1 DEF TypeInv, Calm, StartInv
    <2>3. \A j \in FlowIds : ~Looping(j)' /\ ~Starting(j)'
      BY <2>2 DEF Looping, Starting
    <2>4. Armed' = Armed /\ Armed = {} /\ puzzle = None /\ ~failover /\ ~pending
      BY <2>1 DEF Armed, Calm, StartInv
    <2>5. ~Held' /\ ~Held /\ \A t \in TimerIds : timers'[t] = timers[t]
      BY <2>1, <2>3, <2>4 DEF Held, Calm, KeptInv
    <2>6. OneInv' /\ StartInv' /\ ClaimInv'
      BY <2>1, <2>2, <2>3, <2>4, <2>5 DEF Calm, OneInv, StartInv, ClaimInv
    <2> QED BY <2>1, <2>3, <2>5, <2>6 DEF Calm, KeptInv
  <1>7. CASE RefreshFetched(i) \/ RecoverFetched(i)
    <2>1. /\ Looping(i) /\ flows[i] # None /\ puzzle' = Fresh /\ UNCHANGED <<failover, pending, upset>>
          /\ \/ /\ flows' = [flows EXCEPT ![i] = Solving(flows[i].kind, Fresh)]
                /\ UNCHANGED <<timers, handle>>
             \/ flows' = [flows EXCEPT ![i] = None] /\ Arm(Cleared, "refresh")
      BY <1>1, <1>7 DEF RefreshFetched, RecoverFetched, Answered, Looping, SchedulePuzzleRefresh
    <2>2. flows[i].kind \in {"refresh", "recover"}
      BY <2>1 DEF Looping
    <2>3. CASE flows' = [flows EXCEPT ![i] = None] /\ Arm(Cleared, "refresh")
      <3>1. /\ flows' \in [FlowIds -> Flow \cup {None}] /\ flows'[i] = None
            /\ \A j \in FlowIds : j # i => flows'[j] = flows[j]
        BY <2>3 DEF TypeInv
      <3> QED BY <1>1, <2>1, <2>3, <3>1, FlowArms
    <2>4. CASE /\ flows' = [flows EXCEPT ![i] = Solving(flows[i].kind, Fresh)]
               /\ UNCHANGED <<timers, handle>>
      <3>1. /\ flows' \in [FlowIds -> Flow \cup {None}] /\ flows'[i].kind = flows[i].kind
            /\ flows'[i] # None /\ \A j \in FlowIds : j # i => flows'[j] = flows[j]
        BY <1>2, <2>2, <2>4 DEF TypeInv
      <3>2. ~Starting(i)
        BY <2>2 DEF Starting
      <3> QED BY <1>1, <2>1, <2>4, <3>1, <3>2, FlowGoesOn
    <2> QED BY <2>1, <2>3, <2>4
  <1>8. CASE RefreshFetchFails(i) \/ RecoverFails(i)
    <2>1. /\ Looping(i) /\ UNCHANGED <<puzzle, pending>>
          /\ \/ flows' = [flows EXCEPT ![i] = None] /\ UNCHANGED upset
             \/ flows' = Without(i) /\ upset' = Upset(i)
      BY <1>8 DEF RefreshFetchFails, RecoverFails, Answered, Looping, SolveFails,
                  RefreshGivesUp, EnterFailover
    <2>2. /\ flows' \in [FlowIds -> Flow \cup {None}] /\ flows'[i] = None
          /\ \A j \in FlowIds : j # i => flows'[j] \in {None, flows[j]}
      BY <2>1 DEF TypeInv, Without
    <2>3. CASE RefreshFetchFails(i)
      <3>1. \/ Arm(Cleared, "recovery") /\ failover'
            \/ Arm(timers, "refresh") /\ UNCHANGED failover
        BY <2>3 DEF RefreshFetchFails, RefreshGivesUp, EnterFailover, ScheduleFailoverRecovery
      <3>2. puzzle # None \/ failover
        BY <2>1 DEF Calm, KeptInv, Held
      <3> QED BY <1>1, <2>1, <2>2, <3>1, <3>2, FlowArms
    <2>4. CASE RecoverFails(i)
      <3>1. Arm(Cleared, "recovery") /\ UNCHANGED failover
        BY <2>4 DEF RecoverFails, ScheduleFailoverRecovery
      <3>2. failover
        BY <2>4 DEF RecoverFails, Answered, SolveFails, Calm, ClaimInv
      <3> QED BY <1>1, <2>1, <2>2, <3>1, <3>2, FlowArms
    <2> QED BY <1>8, <2>3, <2>4
  <1> QED BY <1>3, <1>4, <1>5, <1>6, <1>7, <1>8 DEF FetchStep

LEMMA SameIsSame ==
  ASSUME TypeInv, UNCHANGED <<puzzle, failover, pending, handle, timers, flows, worker, upset>>
  PROVE  TypeInv' /\ (Calm => Calm')
  BY DEF TypeInv, Calm, OneInv, StartInv, ClaimInv, KeptInv, Held, Looping, Starting, Armed

LEMMA SpentIsEmpty ==
  ASSUME TypeInv, Calm, NEW t \in Armed
  PROVE  \A u \in TimerIds : Spent(t)[u] = None
  BY DEF TypeInv, Calm, OneInv, Armed, Spent

(* A flow starts in a free slot, or none does.                             *)
LEMMA NewFlowKeepsTypes ==
  ASSUME TypeInv, Room, timers' \in [TimerIds -> Callbacks \cup {None}],
         UNCHANGED <<puzzle, failover, worker>>, pending' \in BOOLEAN,
         \/ flows' = flows
         \/ \E k \in {"refresh", "recover"} : flows' = [flows EXCEPT ![FreeFlow] = Fetching(k)]
         \/ \E p \in Puzzles : flows' = [flows EXCEPT ![FreeFlow] = Solving("verify", p)]
  PROVE  TypeInv'
  <1>1. CASE flows' = flows
    BY <1>1 DEF TypeInv, Starting
  <1>2. ASSUME NEW f \in Flow, f.kind # "init", flows' = [flows EXCEPT ![FreeFlow] = f]
        PROVE  TypeInv'
    <2>1. FreeFlow \in FlowIds /\ flows[FreeFlow] = None
      BY FreeFlowIsFree
    <2>2. /\ flows' \in [FlowIds -> Flow \cup {None}] /\ flows'[FreeFlow] = f
          /\ \A j \in FlowIds : j # FreeFlow => flows'[j] = flows[j]
      BY <1>2, <2>1 DEF TypeInv
    <2>3. worker # None => worker # FreeFlow
      BY <2>1 DEF TypeInv
    <2> QED BY <1>2, <2>2, <2>3 DEF TypeInv, Starting
  <1>3. /\ \A k \in {"refresh", "recover"} : Fetching(k) \in Flow /\ Fetching(k).kind # "init"
        /\ \A p \in Puzzles : Solving("verify", p) \in Flow /\ Solving("verify", p).kind # "init"
    BY NewFlow DEF Fetching, Solving
  <1> QED BY <1>1, <1>2, <1>3

(* _refreshPuzzle, from its timer or when the tab is shown.                *)
LEMMA TimerMoves ==
  ASSUME TypeInv, Room, UNCHANGED <<puzzle, failover, worker, upset>>,
         NEW ts \in [TimerIds -> Callbacks \cup {None}], NEW isHidden, NEW wasPending,
         RefreshPuzzle(ts, isHidden, wasPending),
         \/ \E t \in Armed : ts = Spent(t) /\ wasPending = pending
         \/ pending /\ ts = timers /\ wasPending = FALSE
  PROVE  TypeInv' /\ (Calm => Calm')
  <1>1. /\ pending' \in BOOLEAN /\ "refresh" \in Callbacks
        /\ \/ Arm(ts, "refresh") /\ flows' = flows /\ pending' = wasPending
           \/ timers' = ts /\ flows' = flows /\ pending' = TRUE
           \/ /\ timers' = ts /\ pending' = wasPending
              /\ flows' = [flows EXCEPT ![FreeFlow] = Fetching("refresh")]
    BY DEF RefreshPuzzle, TypeInv, Callbacks
  <1>2. TypeInv'
    <2>1. timers' \in [TimerIds -> Callbacks \cup {None}]
      BY <1>1, ArmTypes
    <2> QED BY <1>1, <2>1, NewFlowKeepsTypes
  <1>3. ASSUME Calm PROVE Calm'
    <2>1. \A u \in TimerIds : ts[u] = None
      BY <1>3, SpentIsEmpty DEF Calm, OneInv, Armed
    <2>2. wasPending = FALSE /\ (Armed # {} \/ pending)
      BY <1>3 DEF Calm, OneInv, TypeInv
    <2> QED BY <1>1, <1>3, <2>1, <2>2, LoopMoves
  <1> QED BY <1>2, <1>3

LEMMA TimerSteps ==
  ASSUME TypeInv, NEW t \in TimerIds, RefreshDue(t) \/ RecoveryDue(t)
  PROVE  TypeInv' /\ (Calm => Calm')
  <1>1. /\ Room /\ t \in Armed /\ UNCHANGED <<puzzle, failover, upset, worker>>
        /\ Spent(t) \in [TimerIds -> Callbacks \cup {None}]
        /\ "refresh" \in Callbacks /\ "recovery" \in Callbacks
    BY TimerSets, WidgetAssumption DEF RefreshDue, RecoveryDue, Armed, Callbacks
  <1>2. CASE RefreshDue(t)
    <2>1. RefreshPuzzle(Spent(t), hidden, pending)
      BY <1>2 DEF RefreshDue
    <2> QED BY <1>1, <2>1, TimerMoves
  <1>3. CASE RecoveryDue(t)
    <2>1. timers[t] = "recovery"
      BY <1>3 DEF RecoveryDue
    <2>2. /\ UNCHANGED pending
          /\ \/ ~failover /\ timers' = Spent(t) /\ flows' = flows
             \/ failover /\ Arm(Spent(t), "recovery") /\ flows' = flows
             \/ /\ failover /\ timers' = Spent(t)
                /\ flows' = [flows EXCEPT ![FreeFlow] = Fetching("recover")]
      BY <1>3 DEF RecoveryDue, ScheduleFailoverRecovery
    <2>3. TypeInv'
      <3>1. timers' \in [TimerIds -> Callbacks \cup {None}]
        BY <1>1, <2>2, ArmTypes
      <3> QED BY <1>1, <2>2, <3>1, NewFlowKeepsTypes DEF TypeInv
    <2>4. ASSUME Calm PROVE Calm'
      <3>1. failover /\ pending = FALSE /\ \A u \in TimerIds : Spent(t)[u] = None
        BY <1>1, <2>1, <2>4, SpentIsEmpty DEF Calm, ClaimInv, OneInv, TypeInv
      <3> QED BY <1>1, <2>2, <2>4, <3>1, LoopMoves
    <2> QED BY <2>3, <2>4
  <1> QED BY <1>2, <1>3

LEMMA WorldSteps ==
  ASSUME TypeInv, Click \/ Show \/ Hide \/ Outage \/ Restored \/ Expire \/ UNCHANGED vars
  PROVE  TypeInv' /\ (Calm => Calm')
  <1>1. CASE Click
    <2>1. /\ Room /\ puzzle # None /\ puzzle \in Puzzles
          /\ flows' = [flows EXCEPT ![FreeFlow] = Solving("verify", puzzle)]
          /\ UNCHANGED <<puzzle, failover, pending, handle, timers, worker, upset>>
      BY <1>1 DEF Click, TypeInv
    <2>2. /\ Solving("verify", puzzle) \in Flow /\ Solving("verify", puzzle).kind = "verify"
          /\ FreeFlow \in FlowIds /\ flows[FreeFlow] = None
      BY <2>1, NewFlow, FreeFlowIsFree DEF Solving
    <2>3. TypeInv'
      BY <2>1, <2>2, NewFlowKeepsTypes DEF TypeInv
    <2>4. ASSUME Calm PROVE Calm'
      <3>1. /\ flows'[FreeFlow] = Solving("verify", puzzle)
            /\ \A j \in FlowIds : j # FreeFlow => flows'[j] = flows[j]
        BY <2>1, <2>2 DEF TypeInv
      <3>2. \A j \in FlowIds : ~Starting(j)
        BY <2>1, <2>4 DEF Calm, StartInv
      <3>3. \A j \in FlowIds : (Looping(j)' <=> Looping(j)) /\ ~Starting(j)'
        BY <2>2, <3>1, <3>2 DEF Looping, Starting
      <3>4. \A j \in FlowIds : /\ Looping(j)' => flows'[j] = flows[j]
                               /\ flows'[j] # None /\ flows'[j].kind = "recover" => flows'[j] = flows[j]
        BY <2>2, <3>1 DEF Looping
      <3>5. Armed' = Armed /\ (Held' <=> Held)
        BY <2>1, <3>3 DEF Armed, Held
      <3>6. OneInv' /\ StartInv' /\ ClaimInv'
        BY <2>1, <2>4, <3>3, <3>4, <3>5 DEF Calm, OneInv, StartInv, ClaimInv
      <3> QED BY <2>1, <2>4, <3>3, <3>4, <3>5, <3>6 DEF Calm, KeptInv
    <2> QED BY <2>3, <2>4
  <1>2. CASE Show
    <2>1. CASE pending
      <3>1. /\ Room /\ RefreshPuzzle(timers, FALSE, FALSE)
            /\ UNCHANGED <<puzzle, failover, worker, upset>>
        BY <1>2, <2>1 DEF Show
      <3>2. timers \in [TimerIds -> Callbacks \cup {None}]
        BY DEF TypeInv
      <3> QED BY <2>1, <3>1, <3>2, TimerMoves
    <2>2. CASE ~pending
      BY <1>2, <2>2, SameIsSame DEF Show
    <2> QED BY <2>1, <2>2
  <1>3. CASE Hide \/ Outage \/ Restored \/ Expire \/ UNCHANGED vars
    BY <1>3, SameIsSame DEF Hide, Outage, Restored, Expire, fields, vars
  <1> QED BY <1>1, <1>2, <1>3

LEMMA ResetStep ==
  ASSUME TypeInv, Reset
  PROVE  TypeInv' /\ ("reset" \notin upset' => Calm')
  <1> DEFINE rest == [j \in FlowIds |-> IF j = worker THEN None ELSE flows[j]]
             free == {j \in FlowIds : rest[j] = None}
  <1>1. /\ flows' = [rest EXCEPT ![Min(free)] = Fetching("init")] /\ worker' = None
        /\ timers' = Cleared /\ pending' = FALSE /\ failover' = FALSE /\ puzzle' = None
        /\ upset' = IF free = FlowIds /\ Armed \subseteq {handle} THEN {}
                    ELSE upset \cup {"reset"}
    BY DEF Reset
  <1>2. /\ Fetching("init") \in Flow /\ Fetching("init") # None
        /\ Fetching("init").kind = "init" /\ Fetching("init").at = "fetch"
    BY NewFlow DEF Fetching
  <1>3. rest \in [FlowIds -> Flow \cup {None}]
    BY DEF TypeInv
  <1>4. TypeInv'
    <2> HIDE DEF free
    <2>1. /\ flows' \in [FlowIds -> Flow \cup {None}]
          /\ \A j \in FlowIds : flows'[j] \in {rest[j], Fetching("init")}
      BY <1>1, <1>2, <1>3
    <2>2. \A j \in FlowIds : rest[j] \in {None, flows[j]}
      OBVIOUS
    <2>3. \A j \in FlowIds : Starting(j)' => flows'[j].at = "fetch"
      BY <1>2, <2>1, <2>2 DEF TypeInv, Starting
    <2> QED BY <1>1, <2>1, <2>3, TimerSets DEF TypeInv
  <1>5. ASSUME free = FlowIds, Armed \subseteq {handle} PROVE Calm'
    <2> DEFINE slot == Min(free)
    <2>1. slot \in FlowIds
      BY <1>5, LeastNatural, WidgetAssumption
    <2>2. /\ flows'[slot] = Fetching("init")
          /\ \A j \in FlowIds : j # slot => flows'[j] = None
      BY <1>1, <1>3, <1>5, <2>1
    <2> HIDE DEF slot, free, rest
    <2>3. \A j \in FlowIds : ~Looping(j)' /\ (Starting(j)' => j = slot)
      BY <1>2, <2>2 DEF Looping, Starting
    <2>4. Armed' = {} /\ \A t \in TimerIds : timers'[t] = None
      BY <1>1, <1>5 DEF Armed, Cleared
    <2>5. ~Held'
      BY <1>1, <2>3, <2>4 DEF Held
    <2>6. OneInv'
      BY <2>3, <2>4 DEF OneInv
    <2>7. StartInv'
      BY <1>1, <2>2, <2>3, <2>4 DEF StartInv
    <2>8. ClaimInv'
      BY <2>3, <2>4, WidgetAssumption DEF ClaimInv, Looping, Callbacks
    <2>9. upset' = {}
      BY <1>1, <1>5
    <2> QED BY <1>1, <2>3, <2>5, <2>6, <2>7, <2>8, <2>9 DEF Calm, KeptInv
  <1> QED BY <1>1, <1>4, <1>5

LEMMA InvInit == Init => Inv
  <1> SUFFICES ASSUME Init PROVE Inv
    OBVIOUS
  <1>1. /\ Fetching("init") \in Flow /\ Fetching("init") # None
        /\ Fetching("init").kind = "init" /\ Fetching("init").at = "fetch"
    BY NewFlow DEF Fetching
  <1>2. Min(FlowIds) \in FlowIds
    BY LeastNatural, WidgetAssumption
  <1>3. /\ flows \in [FlowIds -> Flow \cup {None}] /\ flows[Min(FlowIds)] = Fetching("init")
        /\ \A j \in FlowIds : j # Min(FlowIds) => flows[j] = None
    BY <1>1, <1>2 DEF Init
  <1>4. \A j \in FlowIds : ~Looping(j) /\ (Starting(j) => j = Min(FlowIds))
    BY <1>1, <1>3 DEF Looping, Starting
  <1>5. Armed = {} /\ \A t \in TimerIds : timers[t] = None
    BY DEF Init, Armed
  <1>6. ~Held
    BY <1>4, <1>5 DEF Init, Held
  <1>7. TypeInv
    BY <1>1, <1>3, <1>4 DEF Init, TypeInv
  <1>8. OneInv /\ StartInv
    BY <1>3, <1>4, <1>5 DEF Init, OneInv, StartInv
  <1>9. ClaimInv
    BY <1>4, <1>5, WidgetAssumption DEF ClaimInv, Looping, Callbacks
  <1> QED BY <1>4, <1>6, <1>7, <1>8, <1>9 DEF Init, Inv, Calm, KeptInv

(* Only a clean reset() forgets a reset() that left something behind.      *)
LEMMA ResetStays ==
  ASSUME [Next]_vars, ~Reset
  PROVE  "reset" \in upset => "reset" \in upset'
  <1>1. ASSUME NEW i \in FlowIds, SolveStep(i)
        PROVE  UNCHANGED upset \/ upset' = Upset(i)
    BY <1>1 DEF SolveStep, WorkerCreated, VerifySolved, RefreshSolved, RecoverSolved,
                VerifyFails, RefreshSolveFails, Solved, SolveFails
  <1>2. ASSUME NEW i \in FlowIds, FetchStep(i)
        PROVE  UNCHANGED upset \/ upset' = Upset(i)
    BY <1>2 DEF FetchStep, InitFetched, InitRetries, InitUnreachable, InitRefused,
                RefreshFetched, RefreshFetchFails, RecoverFetched, RecoverFails, SolveFails
  <1>3. \A i : upset \subseteq Upset(i)
    BY DEF Upset
  <1> QED BY <1>1, <1>2, <1>3
          DEF Next, RefreshDue, RecoveryDue, Click, Show, Hide, Outage, Restored, Expire, vars

LEMMA InvNext == Inv /\ [Next]_vars => Inv'
  <1> SUFFICES ASSUME Inv, [Next]_vars PROVE Inv'
    OBVIOUS
  <1>1. CASE Reset
    BY <1>1, ResetStep DEF Inv
  <1>2. CASE ~Reset
    <2>1. TypeInv' /\ (Calm => Calm')
      BY <1>2, SolveKeepsTypes, SolveKeepsCalm, FetchKeepsTypes, FetchKeepsCalm,
         TimerSteps, WorldSteps DEF Inv, Next
    <2> QED BY <1>2, <2>1, ResetStays DEF Inv
  <1> QED BY <1>1, <1>2

LEMMA Invariance == Spec => []Inv
  BY InvInit, InvNext, PTL DEF Spec

-----------------------------------------------------------------------------
(* Theorems                                                                *)

(* As soon as the widget holds a challenge or a claim, exactly one refresh *)
(* loop runs, for any number of retries, outages, refusals, failing        *)
(* workers and hidden tabs, and whatever clicks and resets overlap it; it  *)
(* is gone exactly when another flow's end has terminated its worker, and  *)
(* nothing is said while a reset() has left flows or timers behind.        *)
THEOREM OneRefreshLoopHolds == Spec => []OneRefreshLoop
  <1>1. Inv => OneRefreshLoop
    <2> DEFINE F == {i \in Live : flows[i].kind \in {"refresh", "recover"}}
    <2> SUFFICES ASSUME Inv, "reset" \notin upset, puzzle # None \/ failover
                 PROVE  Chain = (IF "loop" \in upset THEN 0 ELSE 1)
      BY DEF OneRefreshLoop
    <2>1. Chain = Cardinality(Armed) + Cardinality(F) + (IF pending THEN 1 ELSE 0)
      BY DEF Chain
    <2>2. Cardinality({}) = 0 /\ \A x : Cardinality({x}) = 1
      BY FS_EmptySet, FS_Singleton
    <2>3. Held <=> "loop" \notin upset
      BY DEF Inv, Calm, KeptInv
    <2>4. \A i : i \in F <=> i \in FlowIds /\ Looping(i)
      BY DEF Live, Looping
    <2> HIDE DEF F
    <2>5. CASE ~Held
      <3>1. Armed = {} /\ F = {} /\ ~pending
        BY <2>4, <2>5 DEF Held
      <3> QED BY <2>1, <2>2, <2>3, <2>5, <3>1
    <2>6. CASE pending
      <3>1. Armed = {} /\ F = {}
        BY <2>4, <2>6 DEF Inv, Calm, OneInv
      <3> QED BY <2>1, <2>2, <2>3, <2>6, <3>1 DEF Held
    <2>7. ASSUME NEW t \in Armed PROVE Chain = 1 /\ Held
      <3>1. Armed = {t} /\ F = {} /\ ~pending
        BY <2>4 DEF Inv, Calm, OneInv
      <3>2. Cardinality(Armed) = 1 /\ Cardinality(F) = 0
        BY <2>2, <3>1
      <3>3. Held
        BY DEF Held
      <3> QED BY <2>1, <3>1, <3>2, <3>3
    <2>8. ASSUME NEW i \in FlowIds, Looping(i) PROVE Chain = 1 /\ Held
      <3>1. Armed = {} /\ F = {i} /\ ~pending
        BY <2>4, <2>8 DEF Inv, Calm, OneInv
      <3>2. Cardinality(Armed) = 0 /\ Cardinality(F) = 1
        BY <2>2, <3>1
      <3>3. Held
        BY <2>8 DEF Held
      <3> QED BY <2>1, <3>1, <3>2, <3>3
    <2> QED BY <2>3, <2>5, <2>6, <2>7, <2>8 DEF Held
  <1> QED BY <1>1, Invariance, PTL

(* A token is given up for a failover claim only by a refresh whose        *)
(* challenge has expired or by a first fetch, whatever clicks and resets   *)
(* overlap; and that fetch finds no challenge in its way unless a reset()  *)
(* has left flows or timers behind.                                        *)
THEOREM ClaimOnlyWhenExpiredHolds == Spec => ClaimOnlyWhenExpired
  <1> DEFINE Allowed ==
        \/ expiry = "expired"
        \/ /\ \E i \in Live : flows[i].kind = "init" /\ flows'[i] = None
           /\ puzzle # None => "reset" \in upset
  <1>1. Inv /\ [Next]_vars => [~failover /\ failover' => Allowed]_vars
    <2> SUFFICES ASSUME Inv, Next, ~failover, failover'
                 PROVE  Allowed
      OBVIOUS
    <2>1. ASSUME NEW i \in FlowIds, InitUnreachable(i)
          PROVE  Allowed
      <3>1. i \in Live /\ flows[i].kind = "init" /\ flows'[i] = None /\ Starting(i)
        BY <2>1 DEF InitUnreachable, Answered, Live, Starting, Inv, TypeInv
      <3>2. puzzle # None => "reset" \in upset
        BY <3>1 DEF Inv, Calm, StartInv
      <3> QED BY <3>1, <3>2
    <2>2. ASSUME NEW i \in FlowIds, RefreshFetchFails(i) \/ RefreshSolveFails(i)
          PROVE  expiry = "expired"
      BY <2>2 DEF RefreshFetchFails, RefreshSolveFails, RefreshGivesUp, Expired
    <2>3. ASSUME NEW i \in FlowIds PROVE ~SolveStep(i) \/ RefreshSolveFails(i)
      BY DEF SolveStep, WorkerCreated, VerifySolved, RefreshSolved, RecoverSolved,
             VerifyFails, fields
    <2>4. ASSUME NEW i \in FlowIds
          PROVE  ~FetchStep(i) \/ InitUnreachable(i) \/ RefreshFetchFails(i)
      BY DEF FetchStep, InitFetched, InitRetries, InitRefused, RefreshFetched,
             RecoverFetched, RecoverFails, fields
    <2>5. ASSUME NEW t \in TimerIds PROVE ~RefreshDue(t) /\ ~RecoveryDue(t)
      BY DEF RefreshDue, RecoveryDue
    <2>6. /\ ~Click /\ ~Reset /\ ~Show /\ ~Hide
          /\ ~Outage /\ ~Restored /\ ~Expire
      BY DEF Click, Reset, Show, Hide, Outage, Restored, Expire, fields
    <2> QED BY <2>1, <2>2, <2>3, <2>4, <2>5, <2>6 DEF Next
  <1> QED BY <1>1, Invariance, PTL DEF Spec, ClaimOnlyWhenExpired

-----------------------------------------------------------------------------
(* The spinner                                                             *)

SpinInv ==
  state = "solving" /\ "solve" \notin upset
    => \E i \in FlowIds : flows[i] # None /\ flows[i].kind = "verify"

(* Flow i moves: a solve that it terminates is noted.                      *)
LEMMA FlowLeavesSpinner ==
  ASSUME TypeInv, SpinInv, NEW i \in FlowIds, flows[i] # None,
         state' = "solving" => state = "solving" /\ flows[i].kind # "verify",
         \/ flows' = Without(i) /\ upset' = Upset(i)
         \/ (\E f : flows' = [flows EXCEPT ![i] = f]) /\ UNCHANGED upset
  PROVE  SpinInv'
  <1> SUFFICES ASSUME state' = "solving", "solve" \notin upset'
               PROVE  \E k \in FlowIds : flows'[k] # None /\ flows'[k].kind = "verify"
    BY DEF SpinInv
  <1>1. upset \subseteq upset'
    BY DEF Upset
  <1>2. PICK k \in FlowIds : flows[k] # None /\ flows[k].kind = "verify"
    BY <1>1 DEF SpinInv
  <1>3. k # i
    BY <1>2
  <1>4. CASE flows' = Without(i) /\ upset' = Upset(i)
    <2>1. k # worker
      BY <1>2, <1>3, <1>4, WidgetAssumption DEF Upset
    <2> QED BY <1>2, <1>3, <1>4, <2>1 DEF Without
  <1>5. CASE \E f : flows' = [flows EXCEPT ![i] = f]
    BY <1>2, <1>3, <1>5 DEF TypeInv
  <1> QED BY <1>4, <1>5

LEMMA FlowSteps ==
  ASSUME TypeInv, SpinInv, NEW i \in FlowIds, SolveStep(i) \/ FetchStep(i)
  PROVE  SpinInv'
  <1>1. CASE WorkerCreated(i)
    <2>1. flows[i] \in Flow /\ flows' = [flows EXCEPT ![i].at = "run"] /\ UNCHANGED <<state, upset>>
      BY <1>1 DEF WorkerCreated, TypeInv, fields
    <2>2. /\ flows'[i] = [flows[i] EXCEPT !.at = "run"]
          /\ \A j \in FlowIds : j # i => flows'[j] = flows[j]
      BY <2>1 DEF TypeInv
    <2>3. flows'[i].kind = flows[i].kind /\ flows'[i] \in Flow
      BY <2>1, <2>2 DEF Flow
    <2> QED BY <2>1, <2>2, <2>3, NewFlow DEF SpinInv
  <1>2. CASE VerifySolved(i) \/ VerifyFails(i)
    BY <1>2 DEF VerifySolved, VerifyFails, SpinInv
  <1>3. CASE RefreshSolved(i) \/ RecoverSolved(i) \/ RefreshSolveFails(i)
    <2>1. PICK kind \in {"refresh", "recover"} : Solved(i, kind) \/ SolveFails(i, kind)
      BY <1>3 DEF RefreshSolved, RecoverSolved, RefreshSolveFails
    <2>2. state' = "solving" => state = "solving"
      BY <1>3 DEF RefreshSolved, RecoverSolved, RefreshSolveFails, RefreshGivesUp, EnterFailover
    <2> QED BY <2>1, <2>2, FlowOver, FlowLeavesSpinner
  <1>4. CASE InitFetched(i)
    <2>1. /\ flows[i] # None /\ flows[i].kind = "init" /\ UNCHANGED upset
          /\ \/ state' = "solving" /\ flows' = [flows EXCEPT ![i] = Solving("verify", Fresh)]
             \/ UNCHANGED state /\ flows' = [flows EXCEPT ![i] = None]
      BY <1>4 DEF InitFetched, Answered
    <2>2. Solving("verify", Fresh) # None /\ Solving("verify", Fresh).kind = "verify"
      BY FreshIsFresh, NewFlow DEF Solving
    <2>3. CASE flows' = [flows EXCEPT ![i] = Solving("verify", Fresh)]
      <3>1. flows'[i] = Solving("verify", Fresh)
        BY <2>3 DEF TypeInv
      <3> QED BY <2>2, <3>1 DEF SpinInv
    <2> QED BY <2>1, <2>3, FlowLeavesSpinner
  <1>5. CASE InitRetries(i) \/ RecoverFetched(i) \/ RefreshFetched(i)
    <2>1. flows[i] # None /\ flows[i].kind # "verify" /\ UNCHANGED <<state, upset>>
      BY <1>5 DEF InitRetries, RecoverFetched, RefreshFetched, Answered, fields
    <2>2. \E f : flows' = [flows EXCEPT ![i] = f]
      BY <1>5 DEF InitRetries, RecoverFetched, RefreshFetched
    <2> QED BY <2>1, <2>2, FlowLeavesSpinner
  <1>6. CASE InitUnreachable(i) \/ InitRefused(i)
    BY <1>6 DEF InitUnreachable, InitRefused, EnterFailover, SpinInv
  <1>7. CASE RefreshFetchFails(i) \/ RecoverFails(i)
    <2>1. /\ flows[i] # None /\ flows[i].kind # "verify"
          /\ \/ flows' = Without(i) /\ upset' = Upset(i)
             \/ flows' = [flows EXCEPT ![i] = None] /\ UNCHANGED upset
      BY <1>7 DEF RefreshFetchFails, RecoverFails, Answered, SolveFails
    <2>2. state' = "solving" => state = "solving"
      BY <1>7 DEF RefreshFetchFails, RecoverFails, RefreshGivesUp, EnterFailover
    <2> QED BY <2>1, <2>2, FlowLeavesSpinner
  <1> QED BY <1>1, <1>2, <1>3, <1>4, <1>5, <1>6, <1>7 DEF SolveStep, FetchStep

(* The spinner turns for a solve that is in flight, whatever overlaps it,  *)
(* unless another flow's end has terminated that solve's worker.           *)
THEOREM SpinnerHasItsSolve ==
  Spec => [](state = "solving" =>
               \/ "solve" \in upset
               \/ \E i \in FlowIds : flows[i] # None /\ flows[i].kind = "verify")
  <1>1. Init => SpinInv
    BY DEF Init, SpinInv
  <1>2. Inv /\ SpinInv /\ [Next]_vars => SpinInv'
    <2> SUFFICES ASSUME TypeInv, SpinInv, [Next]_vars PROVE SpinInv'
      BY DEF Inv
    <2>1. ASSUME flows' = flows \/ \E f : Room /\ flows' = [flows EXCEPT ![FreeFlow] = f],
                 UNCHANGED <<state, upset>>
          PROVE  SpinInv'
      <3>1. \A k \in FlowIds : flows[k] # None => flows'[k] = flows[k]
        BY <2>1, FreeFlowIsFree DEF TypeInv
      <3> QED BY <2>1, <3>1 DEF SpinInv
    <2>2. CASE Click
      <3>1. /\ Room /\ puzzle \in Puzzles /\ flows' = [flows EXCEPT ![FreeFlow] = Solving("verify", puzzle)]
        BY <2>2 DEF Click, TypeInv
      <3>2. Solving("verify", puzzle) # None /\ Solving("verify", puzzle).kind = "verify"
        BY <3>1, NewFlow DEF Solving
      <3>3. FreeFlow \in FlowIds /\ flows'[FreeFlow] = Solving("verify", puzzle)
        BY <3>1, FreeFlowIsFree DEF TypeInv
      <3> QED BY <3>2, <3>3 DEF SpinInv
    <2>3. CASE Reset
      BY <2>3 DEF Reset, SpinInv
    <2>4. ASSUME NEW t \in TimerIds, RefreshDue(t) \/ RecoveryDue(t)
          PROVE  SpinInv'
      BY <2>1, <2>4 DEF RefreshDue, RecoveryDue, RefreshPuzzle
    <2>5. CASE Show
      BY <2>1, <2>5 DEF Show, RefreshPuzzle
    <2>6. CASE Hide \/ Outage \/ Restored \/ Expire \/ UNCHANGED vars
      BY <2>1, <2>6 DEF Hide, Outage, Restored, Expire, fields, vars
    <2> QED BY <2>2, <2>3, <2>4, <2>5, <2>6, FlowSteps DEF Next
  <1>3. Spec => []SpinInv
    BY <1>1, <1>2, Invariance, PTL DEF Spec
  <1>4. SpinInv => (state = "solving" =>
               \/ "solve" \in upset
               \/ \E i \in FlowIds : flows[i] # None /\ flows[i].kind = "verify")
    BY DEF SpinInv
  <1> QED BY <1>3, <1>4, PTL

=============================================================================

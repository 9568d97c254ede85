------------------------------ MODULE Failover ------------------------------
(***************************************************************************)
(* Client failover: the guard attests outages (a gap in the persisted      *)
(* heartbeat found at boot, or a window an operator declares) and honours  *)
(* a visitor's failover claim only while one covers the present.  The      *)
(* heartbeat task and the handlers of POST /v1/admin/outages persist the   *)
(* same state file concurrently: each snapshots the state under its lock   *)
(* and then, without the lock, truncates and fills a temporary file all of *)
(* them share and renames it.  Files are modelled as inodes, because a     *)
(* writer that holds the temporary file open keeps writing to it after     *)
(* another has renamed it.  The process may stop between any two steps;    *)
(* the file system survives (losing the page cache is not modelled).       *)
(***************************************************************************)
EXTENDS Integers, FiniteSets, FiniteSetsExt

CONSTANTS
  Sites,
  Declarers,          \* concurrent POST /v1/admin/outages handlers (a bound)
  Heart,              \* the heartbeat task
  None,
  Torn,               \* contents that do not parse
  MinGap,             \* FAILOVER_MIN_GAP_SECS
  Grace,              \* FAILOVER_GRACE_SECS
  MaxPerMin,          \* FAILOVER_MAX_PER_MIN, 0 disables the cap
  HeartbeatInterval,  \* FAILOVER_HEARTBEAT_INTERVAL_SECS
  Minute,             \* the 60 s of the acceptance window
  Skew,               \* CLOCK_SKEW
  MaxDeclaredOutage,  \* MAX_DECLARED_OUTAGE_SECS
  EnabledChoices,     \* FAILOVER_ENABLED of each boot: a subset of BOOLEAN
  WritesMayFail,      \* whether a write to the state file may fail
  MaxTime,            \* the clock stops here (a bound)
  MaxDeclares,        \* windows an operator declares in a behaviour (a bound)
  MaxHonored          \* claims honoured per site and tick (a bound)

AcceptCounter == [window_start : Nat, count : Nat]

ASSUME FailoverAssumption ==
  /\ MinGap \in Nat /\ Grace \in Nat /\ MaxPerMin \in Nat /\ Skew \in Nat
  /\ HeartbeatInterval \in Nat \ {0} /\ Minute \in Nat \ {0}
  /\ MaxDeclaredOutage \in Nat \ {0}
  /\ MaxTime \in Nat /\ MaxDeclares \in Nat /\ MaxHonored \in Nat
  /\ EnabledChoices \subseteq BOOLEAN /\ WritesMayFail \in BOOLEAN
  /\ Heart \notin Declarers /\ IsFiniteSet(Declarers)
  /\ None \notin Nat /\ None \notin AcceptCounter

Writers == Declarers \cup {Heart}
Inodes == 1 .. Cardinality(Writers) + 2

(* What a file holds: a serialized FailoverState, or Torn.                 *)
DefaultState == [last_heartbeat |-> None, windows |-> {}]

VARIABLES
  phase,    \* "down", "boot" (load, before the listener binds), "up"
  now,
  enabled,  \* FAILOVER_ENABLED of the running process
  state,    \* the RwLock<FailoverState>
  accepts,  \* site -> AcceptCounter
  wpc, snap, fd,        \* persist(): step, serialized bytes, open file
  path, tmp, content,   \* the directory entries and the inodes
  \* history
  declared, \* windows declared so far
  ups,      \* seconds the process was running for
  restarted,\* when it last stopped or started again, None in the first run
  honored,  \* site -> <<second, number>> of the claims accepted since boot
  failed,   \* a write to the state file failed, once (a bound)
  mixed,    \* some persist of the present burst overlapped another
  settled   \* the last burst of persists was a single undisturbed one

files == <<path, tmp, content>>
persisting == <<wpc, snap, fd>>
history == <<declared, ups, restarted, honored, failed, mixed, settled>>
vars == <<phase, now, enabled, state, accepts, persisting, files, history>>

NoClaims == [s \in Sites |-> {}]
Idle == \A w \in Writers : wpc[w] = "idle"

Init ==
  /\ phase = "down" /\ now = 0 /\ enabled = FALSE
  /\ state = DefaultState
  /\ accepts = [s \in Sites |-> None]
  /\ wpc = [w \in Writers |-> "idle"]
  /\ snap = [w \in Writers |-> None] /\ fd = [w \in Writers |-> None]
  /\ path = None /\ tmp = None /\ content = [i \in Inodes |-> Torn]
  /\ declared = {} /\ ups = {} /\ restarted = None /\ honored = NoClaims
  /\ failed = FALSE /\ mixed = FALSE /\ settled = FALSE

-----------------------------------------------------------------------------
(* Fault: the grace tail is closed instead of half-open.                   *)
CoversLate(w, t) == t >= w.start /\ t <= w.end + Grace

(* OutageWindow::covers                                                    *)
Covers(w, t) == t >= w.start /\ t < w.end + Grace

Pruned(st, t) == [st EXCEPT !.windows = {w \in @ : Covers(w, t)}]

(* read_state: an absent or unreadable file attests nothing.               *)
ReadState ==
  IF path = None \/ content[path] = Torn THEN DefaultState ELSE content[path]

(* A persist() begins: the caller has just released the state lock.        *)
StartPersist(w) ==
  /\ wpc' = [wpc EXCEPT ![w] = "snapshot"]
  /\ mixed' = ~Idle
  /\ settled' = FALSE
  /\ UNCHANGED <<snap, fd, files, failed>>

(* Fault: any restart counts as an outage.                                 *)
GapWindowsAny(last) ==
  IF last # None /\ now > last
    THEN {[start |-> last, end |-> now, source |-> "heartbeat_gap"]} ELSE {}

(* The window load() attests for a gap in the heartbeat.                   *)
GapWindows(last) ==
  IF last # None /\ now - last >= MinGap
    THEN {[start |-> last, end |-> now, source |-> "heartbeat_gap"]} ELSE {}

(* FailoverGuard::load, up to its persist(), which the heartbeat task's    *)
(* slot carries out: nothing else runs until it has ended.                 *)
Boot ==
  LET st == ReadState IN
  /\ phase = "down"
  /\ phase' = "boot"
  /\ enabled' \in EnabledChoices
  /\ state' = Pruned([last_heartbeat |-> now,
                      windows |-> st.windows \cup GapWindows(st.last_heartbeat)],
                     now)
  /\ accepts' = [s \in Sites |-> None]
  /\ StartPersist(Heart)
  /\ restarted' = IF restarted = None THEN None ELSE now
  /\ honored' = NoClaims
  /\ UNCHANGED <<now, declared, ups>>

(* The process stops: killed, out of memory, or a deploy.                  *)
Crash ==
  /\ phase # "down"
  /\ phase' = "down"
  /\ enabled' = FALSE
  /\ state' = DefaultState
  /\ accepts' = [s \in Sites |-> None]
  /\ wpc' = [w \in Writers |-> "idle"]
  /\ snap' = [w \in Writers |-> None] /\ fd' = [w \in Writers |-> None]
  /\ restarted' = now
  /\ mixed' = FALSE /\ settled' = FALSE
  /\ UNCHANGED <<now, files, declared, ups, honored, failed>>

-----------------------------------------------------------------------------
(* The two writers of the state                                            *)

(* heartbeat(), at most once per tick.                                     *)
Heartbeat ==
  /\ phase = "up" /\ enabled /\ wpc[Heart] = "idle"
  /\ state.last_heartbeat < now
  /\ state' = Pruned([state EXCEPT !.last_heartbeat = now], now)
  /\ StartPersist(Heart)
  /\ UNCHANGED <<phase, now, enabled, accepts, declared, ups,
                 restarted, honored>>

(* declare_outage: `duration_secs' ends now, `start'/`end' may lie         *)
(* anywhere, the future included; prune then keeps only what covers now.   *)
DeclareOutage(d) == \E start \in 0 .. MaxTime, end \in 0 .. MaxTime :
  LET w == [start |-> start, end |-> end, source |-> "declared"] IN
  /\ phase = "up" /\ enabled /\ wpc[d] = "idle"
  /\ Cardinality(declared) < MaxDeclares
  /\ end > start /\ end - start <= MaxDeclaredOutage
  /\ state' = Pruned([state EXCEPT !.windows = @ \cup {w}], now)
  /\ declared' = declared \cup {w}
  /\ StartPersist(d)
  /\ UNCHANGED <<phase, now, enabled, accepts, ups, restarted, honored>>

-----------------------------------------------------------------------------
(* persist() and write_atomic                                              *)

Snapshot(w) ==
  /\ wpc[w] = "snapshot"
  /\ snap' = [snap EXCEPT ![w] = state]
  /\ wpc' = [wpc EXCEPT ![w] = "create"]
  /\ UNCHANGED <<phase, now, enabled, state, accepts, fd, files, history>>

FreeInode == Min({i \in Inodes : i # path /\ i # tmp
                                  /\ \A w \in Writers : fd[w] # i})

(* open(tmp, O_CREAT | O_TRUNC): an existing temporary file is emptied,    *)
(* whoever is writing it.                                                  *)
CreateTmp(w) ==
  LET i == IF tmp = None THEN FreeInode ELSE tmp IN
  /\ wpc[w] = "create"
  /\ tmp' = i
  /\ content' = [content EXCEPT ![i] = Torn]
  /\ fd' = [fd EXCEPT ![w] = i]
  /\ wpc' = [wpc EXCEPT ![w] = "write"]
  /\ UNCHANGED <<phase, now, enabled, state, accepts, snap, path, history>>

(* The bytes go to the start of the open file: over longer contents of     *)
(* another writer they leave a tail behind.                                *)
WriteTmp(w) ==
  /\ wpc[w] = "write"
  /\ \E bytes \in IF content[fd[w]] \in {Torn, snap[w]} THEN {snap[w]}
                                                        ELSE {snap[w], Torn} :
       content' = [content EXCEPT ![fd[w]] = bytes]
  /\ wpc' = [wpc EXCEPT ![w] = "rename"]
  /\ UNCHANGED <<phase, now, enabled, state, accepts, snap, fd, path, tmp,
                 history>>

EndPersist(w) ==
  /\ wpc' = [wpc EXCEPT ![w] = "idle"]
  /\ snap' = [snap EXCEPT ![w] = None]
  /\ fd' = [fd EXCEPT ![w] = None]
  /\ phase' = "up"
  /\ UNCHANGED <<now, enabled, state, accepts, declared, ups, restarted,
                 honored>>

OthersIdle(w) == \A x \in Writers \ {w} : wpc[x] = "idle"

(* Fault: the temporary file is left where it is.                          *)
RenameTmpSkipped(w) ==
  /\ wpc[w] = "rename"
  /\ UNCHANGED files
  /\ EndPersist(w)
  /\ settled' = (OthersIdle(w) /\ ~mixed)
  /\ mixed' = (mixed /\ ~OthersIdle(w))
  /\ UNCHANGED failed

(* rename(tmp, path); it fails when another writer has renamed the file.   *)
(* The file it replaces is unlinked.                                       *)
RenameTmp(w) ==
  /\ wpc[w] = "rename"
  /\ IF tmp = None THEN UNCHANGED files
     ELSE /\ path' = tmp /\ tmp' = None
          /\ content' = [i \in Inodes |-> IF i = path THEN Torn ELSE content[i]]
  /\ EndPersist(w)
  /\ settled' = (OthersIdle(w) /\ ~mixed)
  /\ mixed' = (mixed /\ ~OthersIdle(w))
  /\ UNCHANGED failed

(* A write error is logged and swallowed.                                  *)
PersistFails(w) ==
  /\ WritesMayFail /\ ~failed /\ wpc[w] \in {"create", "write", "rename"}
  /\ failed' = TRUE
  /\ EndPersist(w)
  /\ settled' = FALSE
  /\ mixed' = (mixed /\ ~OthersIdle(w))
  /\ UNCHANGED files

-----------------------------------------------------------------------------
(* POST /v1/verify with a failover claim                                   *)

(* Fault: the minute is measured from the last accepted claim's tick.      *)
CounterAtTick(s) ==
  IF accepts[s] = None \/ now - accepts[s].window_start >= 1
    THEN [window_start |-> now, count |-> 0] ELSE accepts[s]

(* admit(): the site's counter, opened or reset as the clock demands.      *)
Counter(s) ==
  IF accepts[s] = None \/ now - accepts[s].window_start >= Minute
    THEN [window_start |-> now, count |-> 0] ELSE accepts[s]

UnderCap(s) == Counter(s).count < MaxPerMin

Attested == \E w \in state.windows : Covers(w, now)

Stale(issued_at) == issued_at > now + Skew \/ issued_at < now - Grace - Skew

(* The history's name for one more claim of this second.                   *)
NewClaim(s) ==
  <<now, CHOOSE k \in 1 .. MaxHonored : <<now, k>> \notin honored[s]>>

(* evaluate() with verdict Accept, for a claim that names the caller's own *)
(* site.  The window look-up and admit() take different locks, but they    *)
(* share no state, so they are one step.  The budget is spent here,        *)
(* whatever the behaviour score then decides.                              *)
Honor(s) == \E issued_at \in 0 .. MaxTime :
  /\ phase = "up" /\ enabled
  /\ Attested /\ ~Stale(issued_at)
  /\ \E k \in 1 .. MaxHonored : <<now, k>> \notin honored[s]
  /\ IF MaxPerMin = 0 THEN UNCHANGED accepts
     ELSE /\ UnderCap(s)
          /\ accepts' = [accepts EXCEPT ![s] =
               [Counter(s) EXCEPT !.count = @ + 1]]
  /\ honored' = [honored EXCEPT ![s] = @ \cup {NewClaim(s)}]
  /\ UNCHANGED <<phase, now, enabled, state, persisting, files, declared,
                 ups, restarted, failed, mixed, settled>>

(* Verdict RateLimited: the counter is still opened or reset.              *)
RateLimited(s) == \E issued_at \in 0 .. MaxTime :
  /\ phase = "up" /\ enabled
  /\ Attested /\ ~Stale(issued_at)
  /\ MaxPerMin > 0 /\ ~UnderCap(s)
  /\ accepts' = [accepts EXCEPT ![s] = Counter(s)]
  /\ UNCHANGED <<phase, now, enabled, state, persisting, files, history>>

-----------------------------------------------------------------------------
(* A persist of a few hundred bytes is over within a tick, and a running   *)
(* heartbeat task is never more than one interval late.                    *)
Tick ==
  /\ now < MaxTime
  /\ Idle
  /\ phase = "up" /\ enabled => now - state.last_heartbeat < HeartbeatInterval
  /\ now' = now + 1
  /\ ups' = IF phase = "up" THEN ups \cup {now} ELSE ups
  /\ UNCHANGED <<phase, enabled, state, accepts, persisting, files, declared,
                 restarted, honored, failed, mixed, settled>>

Next ==
  \/ Boot \/ Crash \/ Heartbeat \/ Tick
  \/ \E d \in Declarers : DeclareOutage(d)
  \/ \E w \in Writers :
       Snapshot(w) \/ CreateTmp(w) \/ WriteTmp(w) \/ RenameTmp(w)
         \/ PersistFails(w)
  \/ \E s \in Sites : Honor(s) \/ RateLimited(s)

Spec == Init /\ [][Next]_vars

-----------------------------------------------------------------------------
(* Properties                                                              *)

(* A persist that no other overlapped leaves on disk exactly what the      *)
(* process holds in memory, until the next change of the state begins its  *)
(* own persist: an acknowledged declaration then survives a restart.       *)
DiskMatchesMemory ==
  settled => path # None /\ content[path] = state

(* Downtime the heartbeat evidence stands for: the gap is long enough, and *)
(* the process did not run in it but for its first two intervals.  Two     *)
(* heartbeats may be missing from the file, one not yet due and one        *)
(* overwritten by a concurrent declaration's older snapshot.               *)
WasDown(w) ==
  /\ w.end - w.start >= MinGap
  /\ \A u \in ups : u < w.start + 2 * HeartbeatInterval \/ u >= w.end

(* Attestation: every window the guard holds, across restarts, crash loops,*)
(* races of the two writers and torn files, is one an operator declared or *)
(* covers a time when the process really was not running, as long as every *)
(* write of the file succeeded.                                            *)
WindowsAreReal == ~failed =>
  \A w \in state.windows :
    IF w.source = "declared" THEN w \in declared ELSE WasDown(w)

(* Recency: a claim is honoured only inside a declared outage, or less     *)
(* than the grace period after its close or after a restart.  What the     *)
(* claim says of its own time never matters.                               *)
HonoredNearOutage ==
  [][\A s \in Sites : honored'[s] \ honored[s] # {} =>
       \/ \E w \in declared : w.start <= now /\ now < w.end + Grace
       \/ restarted # None /\ now < restarted + Grace]_vars

Within(s, t) ==
  Cardinality({c \in honored[s] : t <= c[1] /\ c[1] < t + Minute})

(* Rate cap, as far as it goes: the counter is a fixed window opened by    *)
(* its first claim and not the rolling minute the documentation speaks of, *)
(* so a burst on each side of its boundary passes nearly twice the cap     *)
(* within a minute: all of the new window and all but the opening claim of *)
(* the old one, and never more.                                            *)
HonoredPerMinute == MaxPerMin > 0 =>
  \A s \in Sites, t \in 0 .. MaxTime : Within(s, t) <= 2 * MaxPerMin - 1

-----------------------------------------------------------------------------
(* What the documentation says and the code does not do                    *)

(* write_atomic: "a crash mid-write can't leave a truncated state file".   *)
CrashLeavesNoTornFile ==
  phase = "down" /\ path # None => content[path] # Torn

=============================================================================

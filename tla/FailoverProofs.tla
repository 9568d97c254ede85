--------------------------- MODULE FailoverProofs ---------------------------
(***************************************************************************)
(* Proofs about Failover, for any number of sites and concurrent           *)
(* declarations and any gap, grace period and heartbeat interval: what an  *)
(* undisturbed persist leaves on disk, which windows the guard attests,    *)
(* and when it honours a claim.                                            *)
(***************************************************************************)
EXTENDS Failover, FiniteSetTheorems, WellFoundedInduction, TLAPS

Window == [start : Nat, end : Nat, source : {"declared", "heartbeat_gap"}]
FileState == [last_heartbeat : Nat, windows : SUBSET Window]

Busy == {"create", "write", "rename"}  \* past the snapshot
Open == {"write", "rename"}            \* with the temporary file open

Claims == (0 .. MaxTime) \X (1 .. MaxHonored)

TypeInv ==
  /\ phase \in {"down", "boot", "up"} /\ now \in 0 .. MaxTime /\ enabled \in BOOLEAN
  /\ IF phase = "down" THEN state = DefaultState ELSE state \in FileState
  /\ wpc \in [Writers -> {"idle", "snapshot"} \cup Busy]
  /\ DOMAIN snap = Writers /\ \A w \in Writers : wpc[w] \in Busy => snap[w] \in FileState
  /\ fd \in [Writers -> Inodes \cup {None}]
  /\ \A w \in Writers : wpc[w] \in Open => fd[w] \in Inodes
  /\ path \in Inodes \cup {None} /\ tmp \in Inodes \cup {None}
  /\ content \in [Inodes -> FileState \cup {Torn}]
  /\ declared \subseteq Window
  /\ ups \subseteq Nat /\ \A u \in ups : u < now
  /\ restarted \in 0 .. now \cup {None}
  /\ honored \in [Sites -> SUBSET Claims]
  /\ failed \in BOOLEAN /\ mixed \in BOOLEAN /\ settled \in BOOLEAN

(* Who runs in which phase, and that the file is not its own temporary.    *)
PhaseInv ==
  /\ phase = "down" => Idle
  /\ phase = "boot" => wpc[Heart] # "idle" /\ \A d \in Declarers : wpc[d] = "idle"
  /\ path # None => tmp # path
  /\ phase = "down" /\ restarted = None => path = None

-----------------------------------------------------------------------------
(* Inodes                                                                  *)

LEMMA LeastNatural ==
  ASSUME NEW T, T \subseteq Nat, T # {}
  PROVE  Min(T) \in T
  <1>1. PICK x \in T : \A y \in T : ~(<<y, x>> \in OpToRel(<, Nat))
    BY NatLessThanWellFounded, WFMin
  <1>2. \A y \in T : ~(y < x)
    BY <1>1 DEF OpToRel
  <1>3. \A y \in T : x <= y
    BY <1>2
  <1> QED BY <1>3 DEF Min

LEMMA WritersFinite == IsFiniteSet(Writers) /\ Cardinality(Writers) \in Nat
  BY FailoverAssumption, FS_AddElement, FS_CardinalityType DEF Writers

(* There is an inode to spare for a new temporary file.                    *)
LEMMA FreeInodeIsFree ==
  ASSUME TypeInv, tmp = None
  PROVE  /\ FreeInode \in Inodes /\ FreeInode # path
         /\ \A w \in Writers : fd[w] # FreeInode
  <1> DEFINE n == Cardinality(Writers)
             Rest == Inodes \ {path}
             Free == {i \in Inodes : i # path /\ i # tmp /\ \A w \in Writers : fd[w] # i}
  <1>1. n \in Nat
    BY WritersFinite
  <1>2. IsFiniteSet(Inodes) /\ Cardinality(Inodes) = n + 2 /\ Inodes \subseteq Nat
    <2>1. IsFiniteSet(1 .. n + 2) /\ Cardinality(1 .. n + 2) = n + 2
      BY <1>1, FS_Interval
    <2> QED BY <1>1, <2>1 DEF Inodes
  <1>3. IsFiniteSet(Rest) /\ Cardinality(Rest) > n
    BY <1>1, <1>2, FS_RemoveElement
  <1>4. None \notin Inodes
    BY <1>2, FailoverAssumption
  <1>5. Free # {}
    <2> SUFFICES ASSUME Free = {} PROVE FALSE
      OBVIOUS
    <2>1. \A i \in Rest : \E w \in Writers : fd[w] = i
      BY <1>4
    <2> DEFINE f == [i \in Rest |-> CHOOSE w \in Writers : fd[w] = i]
    <2>2. f \in [Rest -> Writers] /\ \A i \in Rest : fd[f[i]] = i
      BY <2>1
    <2>3. \E i, j \in Rest : i # j /\ f[i] = f[j]
      <3> HIDE DEF f, Rest
      <3>1. Cardinality(Rest) \in Nat
        BY <1>3, FS_CardinalityType
      <3>2. Cardinality(Writers) < Cardinality(Rest)
        BY <1>1, <1>3, <3>1
      <3> QED BY <1>3, <2>2, <3>2, WritersFinite, FS_PigeonHole
    <2> QED BY <2>2, <2>3
  <1>6. Free \subseteq Nat
    BY <1>2
  <1>7. Min(Free) \in Free
    BY <1>5, <1>6, LeastNatural
  <1> QED BY <1>7 DEF FreeInode

(* The inode a writer opens.                                               *)
LEMMA OpenedInode ==
  ASSUME TypeInv, PhaseInv, NEW w \in Writers, CreateTmp(w)
  PROVE  /\ tmp' \in Inodes /\ tmp' # path /\ tmp' # None
         /\ tmp # None => tmp' = tmp
         /\ tmp = None => \A x \in Writers : fd[x] # tmp'
         /\ content' = [content EXCEPT ![tmp'] = Torn]
         /\ fd' = [fd EXCEPT ![w] = tmp']
  <1>1. None \notin Inodes
    <2>1. Inodes \subseteq Nat
      BY WritersFinite DEF Inodes
    <2> QED BY <2>1, FailoverAssumption
  <1>2. CASE tmp = None
    BY <1>1, <1>2, FreeInodeIsFree DEF CreateTmp
  <1>3. CASE tmp # None
    BY <1>1, <1>3 DEF CreateTmp, TypeInv, PhaseInv
  <1> QED BY <1>2, <1>3

-----------------------------------------------------------------------------
(* Types and phases                                                        *)

LEMMA PrunedType ==
  ASSUME NEW st \in FileState, NEW t
  PROVE  /\ Pruned(st, t) \in FileState
         /\ Pruned(st, t).last_heartbeat = st.last_heartbeat
         /\ Pruned(st, t).windows \subseteq st.windows
         /\ \A w \in Pruned(st, t).windows : Covers(w, t)
  BY DEF Pruned, FileState

(* What load() finds on disk.                                              *)
LEMMA ReadStateType ==
  ASSUME TypeInv
  PROVE  /\ ReadState.windows \subseteq Window
         /\ ReadState.last_heartbeat \in Nat \cup {None}
         /\ \/ ReadState = DefaultState
            \/ path \in Inodes /\ content[path] # Torn /\ ReadState = content[path]
  <1>1. CASE path = None \/ content[path] = Torn
    BY <1>1 DEF ReadState, DefaultState
  <1>2. CASE ~(path = None \/ content[path] = Torn)
    BY <1>2 DEF ReadState, TypeInv, FileState
  <1> QED BY <1>1, <1>2

LEMMA BootState ==
  ASSUME TypeInv, Boot
  PROVE  /\ state' \in FileState /\ state'.last_heartbeat = now
         /\ state'.windows \subseteq
              ReadState.windows \cup GapWindows(ReadState.last_heartbeat)
  <1> DEFINE ws == ReadState.windows \cup GapWindows(ReadState.last_heartbeat)
             st == [last_heartbeat |-> now, windows |-> ws]
  <1>1. GapWindows(ReadState.last_heartbeat) \subseteq Window
    BY ReadStateType DEF GapWindows, Window, TypeInv
  <1>2. st \in FileState
    BY <1>1, ReadStateType DEF FileState, TypeInv
  <1>3. state' = Pruned(st, now)
    BY DEF Boot
  <1> QED BY <1>2, <1>3, PrunedType

LEMMA HeartbeatState ==
  ASSUME TypeInv, Heartbeat
  PROVE  /\ state' \in FileState /\ state'.last_heartbeat = now
         /\ state'.windows \subseteq state.windows
  <1> DEFINE st == [state EXCEPT !.last_heartbeat = now]
  <1>1. st \in FileState /\ st.last_heartbeat = now /\ st.windows = state.windows
    BY DEF Heartbeat, FileState, TypeInv
  <1>2. state' = Pruned(st, now)
    BY DEF Heartbeat
  <1> HIDE DEF st
  <1> QED BY <1>1, <1>2, PrunedType

LEMMA DeclaredState ==
  ASSUME TypeInv, NEW d \in Declarers, DeclareOutage(d)
  PROVE  /\ state' \in FileState /\ state'.last_heartbeat = state.last_heartbeat
         /\ \E w \in Window : /\ w.source = "declared"
                               /\ declared' = declared \cup {w}
                               /\ state'.windows \subseteq state.windows \cup {w}
  <1>1. PICK start \in 0 .. MaxTime, end \in 0 .. MaxTime :
          LET w == [start |-> start, end |-> end, source |-> "declared"] IN
          /\ state' = Pruned([state EXCEPT !.windows = @ \cup {w}], now)
          /\ declared' = declared \cup {w}
    BY DEF DeclareOutage
  <1> DEFINE w == [start |-> start, end |-> end, source |-> "declared"]
             st == [state EXCEPT !.windows = @ \cup {w}]
  <1>2. w \in Window /\ w.source = "declared"
    BY FailoverAssumption DEF Window
  <1>3. state \in FileState
    BY DEF DeclareOutage, TypeInv
  <1>4. /\ st \in FileState /\ st.last_heartbeat = state.last_heartbeat
        /\ st.windows = state.windows \cup {w}
    BY <1>2, <1>3 DEF FileState
  <1>5. state' = Pruned(st, now) /\ declared' = declared \cup {w}
    BY <1>1
  <1> HIDE DEF st, w
  <1> QED BY <1>2, <1>4, <1>5, PrunedType

LEMMA NewClaimIsNew ==
  ASSUME TypeInv, NEW s \in Sites, Honor(s)
  PROVE  /\ NewClaim(s) \in Claims /\ NewClaim(s)[1] = now
         /\ NewClaim(s) \notin honored[s]
  <1>1. \E k \in 1 .. MaxHonored : <<now, k>> \notin honored[s]
    BY DEF Honor
  <1> QED BY <1>1 DEF NewClaim, Claims, TypeInv

LEMMA TypeInit == Init => TypeInv /\ PhaseInv
  <1> SUFFICES ASSUME Init PROVE TypeInv /\ PhaseInv
    OBVIOUS
  <1>1. NoClaims \in [Sites -> SUBSET Claims]
    BY DEF NoClaims
  <1>2. TypeInv
    <2>1. /\ wpc \in [Writers -> {"idle", "snapshot"} \cup Busy]
          /\ \A w \in Writers : wpc[w] \notin Busy /\ wpc[w] \notin Open
      BY DEF Init, Busy, Open
    <2>2. /\ DOMAIN snap = Writers /\ fd \in [Writers -> Inodes \cup {None}]
          /\ content \in [Inodes -> FileState \cup {Torn}]
      BY DEF Init
    <2>3. /\ enabled \in BOOLEAN /\ failed \in BOOLEAN /\ mixed \in BOOLEAN
          /\ settled \in BOOLEAN /\ honored \in [Sites -> SUBSET Claims]
      BY <1>1 DEF Init
    <2>4. /\ phase = "down" /\ now \in 0 .. MaxTime /\ state = DefaultState
          /\ path = None /\ tmp = None /\ declared = {} /\ ups = {} /\ restarted = None
      BY FailoverAssumption DEF Init
    <2> QED BY <2>1, <2>2, <2>3, <2>4 DEF TypeInv
  <1>3. PhaseInv
    BY FailoverAssumption DEF Init, PhaseInv, Idle, Writers
  <1> QED BY <1>2, <1>3

LEMMA PersistType ==
  ASSUME TypeInv, PhaseInv, NEW w \in Writers,
         Snapshot(w) \/ CreateTmp(w) \/ WriteTmp(w) \/ RenameTmp(w) \/ PersistFails(w)
  PROVE  TypeInv' /\ PhaseInv'
  <1> USE DEF Busy, Open
  <1>0. phase # "down" /\ state \in FileState /\ (phase = "boot" => w = Heart)
    BY DEF TypeInv, PhaseInv, Idle, Snapshot, CreateTmp, WriteTmp, RenameTmp,
           PersistFails, Writers
  <1>1. CASE Snapshot(w)
    <2>1. TypeInv'
      BY <1>0, <1>1 DEF TypeInv, Snapshot, files, history
    <2>2. PhaseInv'
      BY <1>0, <1>1 DEF TypeInv, PhaseInv, Snapshot, Idle, files, history, Writers
    <2> QED BY <2>1, <2>2
  <1>2. CASE CreateTmp(w)
    <2>1. TypeInv'
      BY <1>0, <1>2, OpenedInode DEF TypeInv, CreateTmp, history
    <2>2. PhaseInv'
      BY <1>0, <1>2, OpenedInode DEF TypeInv, PhaseInv, CreateTmp, Idle, history, Writers
    <2> QED BY <2>1, <2>2
  <1>3. CASE WriteTmp(w)
    <2>1. PICK bytes \in {snap[w], Torn} : content' = [content EXCEPT ![fd[w]] = bytes]
      BY <1>3 DEF WriteTmp
    <2>2. bytes \in FileState \cup {Torn}
      BY <1>3, <2>1 DEF WriteTmp, TypeInv
    <2>3. TypeInv'
      BY <1>0, <1>3, <2>1, <2>2 DEF TypeInv, WriteTmp, history
    <2>4. PhaseInv'
      BY <1>0, <1>3 DEF TypeInv, PhaseInv, WriteTmp, Idle, history, Writers
    <2> QED BY <2>3, <2>4
  <1>4. CASE RenameTmp(w)
    <2>1. TypeInv'
      BY <1>0, <1>4 DEF TypeInv, RenameTmp, EndPersist, files
    <2>2. PhaseInv'
      BY <1>0, <1>4 DEF TypeInv, PhaseInv, RenameTmp, EndPersist, files
    <2> QED BY <2>1, <2>2
  <1>5. CASE PersistFails(w)
    <2>1. TypeInv'
      BY <1>0, <1>5 DEF TypeInv, PersistFails, EndPersist, files
    <2>2. PhaseInv'
      BY <1>0, <1>5 DEF TypeInv, PhaseInv, PersistFails, EndPersist, files
    <2> QED BY <2>1, <2>2
  <1> QED BY <1>1, <1>2, <1>3, <1>4, <1>5

LEMMA TypeNext ==
  ASSUME TypeInv, PhaseInv, [Next]_vars
  PROVE  TypeInv' /\ PhaseInv'
  <1> USE DEF Busy, Open
  <1>1. CASE Boot
    <2>1. state' \in FileState /\ NoClaims \in [Sites -> SUBSET Claims]
      BY <1>1, BootState DEF NoClaims
    <2>2. enabled' \in BOOLEAN /\ restarted' \in 0 .. now \cup {None}
      BY <1>1, FailoverAssumption DEF Boot, TypeInv
    <2>4. /\ wpc' \in [Writers -> {"idle", "snapshot"} \cup Busy]
          /\ \A w \in Writers : wpc'[w] \notin Busy /\ wpc'[w] \notin Open
      BY <1>1 DEF Boot, StartPersist, TypeInv, PhaseInv, Idle
    <2>5. TypeInv'
      BY <1>1, <2>1, <2>2, <2>4 DEF TypeInv, Boot, StartPersist, files
    <2>3. PhaseInv'
      BY <1>1, FailoverAssumption DEF TypeInv, PhaseInv, Idle, Boot, StartPersist, files, Writers
    <2> QED BY <2>3, <2>5
  <1>2. CASE Crash
    <2>0. now \in Nat /\ restarted' \in 0 .. now'
      BY <1>2, FailoverAssumption DEF TypeInv, Crash
    <2>1. TypeInv'
      BY <1>2, <2>0 DEF TypeInv, Crash, files
    <2>2. PhaseInv'
      BY <1>2, FailoverAssumption DEF TypeInv, PhaseInv, Idle, Crash, files, Writers
    <2> QED BY <2>1, <2>2
  <1>3. CASE Heartbeat
    <2>1. TypeInv'
      BY <1>3, HeartbeatState DEF TypeInv, Heartbeat, StartPersist, files
    <2>2. PhaseInv'
      BY <1>3 DEF TypeInv, PhaseInv, Heartbeat, StartPersist, files
    <2> QED BY <2>1, <2>2
  <1>4. ASSUME NEW d \in Declarers, DeclareOutage(d) PROVE TypeInv' /\ PhaseInv'
    <2>1. /\ phase = "up" /\ StartPersist(d)
          /\ UNCHANGED <<phase, now, enabled, accepts, ups, restarted, honored>>
      BY <1>4 DEF DeclareOutage
    <2>2. TypeInv'
      BY <1>4, <2>1, DeclaredState DEF TypeInv, StartPersist, files
    <2>3. PhaseInv'
      BY <2>1 DEF TypeInv, PhaseInv, StartPersist, files
    <2> QED BY <2>2, <2>3
  <1>5. CASE Tick
    <2>0. /\ now' \in 0 .. MaxTime /\ restarted' \in 0 .. now' \cup {None}
          /\ ups' \subseteq Nat /\ \A u \in ups' : u < now'
      <3>1. /\ now \in Nat /\ MaxTime \in Nat /\ now < MaxTime /\ now' = now + 1
            /\ ups \subseteq Nat /\ (\A u \in ups : u < now) /\ ups' \subseteq ups \cup {now}
            /\ restarted' = restarted /\ restarted \in 0 .. now \cup {None}
        BY <1>5, FailoverAssumption DEF TypeInv, Tick
      <3> QED BY <3>1
    <2>1. TypeInv'
      BY <1>5, <2>0 DEF TypeInv, Tick, files, persisting
    <2>2. PhaseInv'
      BY <1>5 DEF PhaseInv, Tick, Idle, files, persisting
    <2> QED BY <2>1, <2>2
  <1>6. ASSUME NEW s \in Sites, Honor(s) PROVE TypeInv' /\ PhaseInv'
    <2>1. /\ honored' = [honored EXCEPT ![s] = @ \cup {NewClaim(s)}]
          /\ UNCHANGED <<phase, now, enabled, state, persisting, files, declared,
                         ups, restarted, failed, mixed, settled>>
      BY <1>6 DEF Honor
    <2>2. honored' \in [Sites -> SUBSET Claims]
      BY <1>6, <2>1, NewClaimIsNew DEF TypeInv
    <2>3. TypeInv'
      BY <2>1, <2>2 DEF TypeInv, files, persisting
    <2>4. PhaseInv'
      BY <2>1 DEF PhaseInv, Idle, files, persisting
    <2> QED BY <2>3, <2>4
  <1>7. CASE UNCHANGED <<phase, now, enabled, state, persisting, files, history>>
    <2>1. TypeInv'
      BY <1>7 DEF TypeInv, files, persisting, history
    <2>2. PhaseInv'
      BY <1>7 DEF PhaseInv, Idle, files, persisting, history
    <2> QED BY <2>1, <2>2
  <1> QED BY <1>1, <1>2, <1>3, <1>4, <1>5, <1>6, <1>7, PersistType
          DEF Next, RateLimited, vars

-----------------------------------------------------------------------------
(* The state file after a persist no other overlapped                      *)

(* Without an overlap there is one writer at most, it works on the         *)
(* temporary file, and the state has not changed since its snapshot.       *)
SoloInv ==
  /\ ~mixed => \A w, x \in Writers : wpc[w] # "idle" /\ wpc[x] # "idle" => w = x
  /\ ~mixed => \A w \in Writers :
       /\ wpc[w] \in Busy => snap[w] = state
       /\ wpc[w] \in Open => tmp # None /\ fd[w] = tmp
       /\ wpc[w] = "write" => content[tmp] = Torn
       /\ wpc[w] = "rename" => content[tmp] = snap[w]
  /\ settled => Idle

(* A state change while others persist is an overlap.                      *)
LEMMA StartSolo ==
  ASSUME TypeInv, SoloInv, NEW w \in Writers, StartPersist(w)
  PROVE  SoloInv' /\ DiskMatchesMemory'
  <1> USE DEF Busy, Open
  <1>1. settled' = FALSE /\ (~mixed' => Idle)
    BY DEF StartPersist
  <1>2. Idle => \A x \in Writers : wpc'[x] # "idle" => x = w /\ wpc'[x] = "snapshot"
    BY DEF StartPersist, Idle, TypeInv
  <1>3. SoloInv'
    BY <1>1, <1>2 DEF SoloInv
  <1> QED BY <1>1, <1>3 DEF DiskMatchesMemory

LEMMA PersistSolo ==
  ASSUME TypeInv, PhaseInv, SoloInv, DiskMatchesMemory, NEW w \in Writers,
         Snapshot(w) \/ CreateTmp(w) \/ WriteTmp(w) \/ RenameTmp(w) \/ PersistFails(w)
  PROVE  SoloInv' /\ DiskMatchesMemory'
  <1> USE DEF Busy, Open
  <1>0. wpc[w] # "idle" /\ ~settled
    BY DEF SoloInv, Idle, Snapshot, CreateTmp, WriteTmp, RenameTmp, PersistFails
  <1>1. ~mixed => \A x \in Writers : x # w => wpc[x] = "idle"
    BY <1>0 DEF SoloInv
  <1>2. CASE Snapshot(w)
    <2>1. \A x \in Writers : x # w => wpc'[x] = wpc[x]
      BY <1>2 DEF Snapshot, TypeInv
    <2>2. /\ wpc'[w] = "create" /\ snap'[w] = state' /\ mixed' = mixed
          /\ settled' = settled
      BY <1>2 DEF Snapshot, TypeInv, history
    <2>3. SoloInv'
      BY <1>0, <1>1, <2>1, <2>2 DEF SoloInv
    <2> QED BY <1>0, <2>2, <2>3 DEF DiskMatchesMemory
  <1>3. CASE CreateTmp(w)
    <2>1. \A x \in Writers : x # w => wpc'[x] = wpc[x]
      BY <1>3 DEF CreateTmp, TypeInv
    <2>2. /\ wpc'[w] = "write" /\ wpc[w] = "create" /\ snap' = snap /\ state' = state
          /\ mixed' = mixed /\ settled' = settled
      BY <1>3 DEF CreateTmp, TypeInv, history
    <2>3. tmp' # None /\ fd'[w] = tmp' /\ content'[tmp'] = Torn
      BY <1>3, OpenedInode DEF TypeInv
    <2>4. SoloInv'
      BY <1>0, <1>1, <2>1, <2>2, <2>3 DEF SoloInv
    <2> QED BY <1>0, <2>2, <2>4 DEF DiskMatchesMemory
  <1>4. CASE WriteTmp(w)
    <2>1. \A x \in Writers : x # w => wpc'[x] = wpc[x]
      BY <1>4 DEF WriteTmp, TypeInv
    <2>2. /\ wpc'[w] = "rename" /\ wpc[w] = "write" /\ mixed' = mixed
          /\ settled' = settled /\ UNCHANGED <<snap, state, tmp, fd>>
      BY <1>4 DEF WriteTmp, TypeInv, history
    <2>3. ~mixed => content'[tmp] = snap[w]
      <3> SUFFICES ASSUME ~mixed PROVE content'[tmp] = snap[w]
        OBVIOUS
      <3>1. fd[w] = tmp /\ content[fd[w]] = Torn /\ fd[w] \in Inodes
        BY <2>2 DEF SoloInv, TypeInv
      <3>2. content' = [content EXCEPT ![fd[w]] = snap[w]]
        BY <1>4, <3>1 DEF WriteTmp
      <3> QED BY <3>1, <3>2 DEF TypeInv
    <2>4. SoloInv'
      BY <1>0, <1>1, <2>1, <2>2, <2>3 DEF SoloInv
    <2> QED BY <1>0, <2>2, <2>4 DEF DiskMatchesMemory
  <1>5. CASE RenameTmp(w)
    <2>1. \A x \in Writers : wpc'[x] = IF x = w THEN "idle" ELSE wpc[x]
      BY <1>5 DEF RenameTmp, EndPersist, TypeInv
    <2>2. /\ wpc[w] = "rename" /\ state' = state
          /\ settled' = (OthersIdle(w) /\ ~mixed) /\ mixed' = (mixed /\ ~OthersIdle(w))
      BY <1>5 DEF RenameTmp, EndPersist
    <2>3. ~mixed => path' # None /\ content'[path'] = state'
      <3> SUFFICES ASSUME ~mixed PROVE path' # None /\ content'[path'] = state'
        OBVIOUS
      <3>1. tmp # None /\ content[tmp] = state /\ tmp \in Inodes
        BY <2>2 DEF SoloInv, TypeInv
      <3>2. tmp # path
        BY <3>1 DEF PhaseInv
      <3> QED BY <1>5, <2>2, <3>1, <3>2 DEF RenameTmp
    <2>4. ~mixed' => \A x \in Writers : wpc'[x] = "idle"
      BY <1>1, <2>1, <2>2 DEF OthersIdle
    <2>5. SoloInv'
      BY <2>1, <2>2, <2>4 DEF SoloInv, Idle, OthersIdle
    <2> QED BY <2>2, <2>3, <2>5 DEF DiskMatchesMemory
  <1>6. CASE PersistFails(w)
    <2>1. \A x \in Writers : wpc'[x] = IF x = w THEN "idle" ELSE wpc[x]
      BY <1>6 DEF PersistFails, EndPersist, TypeInv
    <2>2. settled' = FALSE /\ mixed' = (mixed /\ ~OthersIdle(w))
      BY <1>6 DEF PersistFails
    <2>3. ~mixed' => \A x \in Writers : wpc'[x] = "idle"
      BY <1>1, <2>1, <2>2 DEF OthersIdle
    <2> QED BY <2>1, <2>2, <2>3 DEF SoloInv, DiskMatchesMemory
  <1> QED BY <1>2, <1>3, <1>4, <1>5, <1>6

LEMMA DiskNext ==
  ASSUME TypeInv, PhaseInv, SoloInv, DiskMatchesMemory, [Next]_vars
  PROVE  SoloInv' /\ DiskMatchesMemory'
  <1>1. CASE Boot \/ Heartbeat
    <2>1. StartPersist(Heart) /\ Heart \in Writers
      BY <1>1 DEF Boot, Heartbeat, Writers
    <2> QED BY <2>1, StartSolo
  <1>2. ASSUME NEW d \in Declarers, DeclareOutage(d) PROVE SoloInv' /\ DiskMatchesMemory'
    <2>1. StartPersist(d) /\ d \in Writers
      BY <1>2 DEF DeclareOutage, Writers
    <2> QED BY <2>1, StartSolo
  <1>3. CASE Crash
    BY <1>3 DEF Crash, SoloInv, DiskMatchesMemory, Busy, Open
  <1>4. CASE UNCHANGED <<state, persisting, files, mixed, settled>>
    BY <1>4 DEF SoloInv, DiskMatchesMemory, Idle, persisting, files
  <1> QED BY <1>1, <1>2, <1>3, <1>4, PersistSolo
          DEF Next, Tick, Honor, RateLimited, history, vars

(* An acknowledged state is on disk: for any number of writers, a persist  *)
(* that no other overlapped leaves there exactly what memory holds, until  *)
(* the next change.                                                        *)
THEOREM DiskMatchesMemoryHolds == Spec => []DiskMatchesMemory
  <1>1. Init => TypeInv /\ PhaseInv /\ SoloInv /\ DiskMatchesMemory
    <2> SUFFICES ASSUME Init PROVE SoloInv /\ DiskMatchesMemory
      BY TypeInit
    <2>1. settled = FALSE /\ \A w \in Writers : wpc[w] = "idle"
      BY DEF Init
    <2> QED BY <2>1 DEF SoloInv, DiskMatchesMemory, Busy, Open
  <1>2. TypeInv /\ PhaseInv /\ SoloInv /\ DiskMatchesMemory /\ [Next]_vars
          => (TypeInv /\ PhaseInv /\ SoloInv /\ DiskMatchesMemory)'
    BY TypeNext, DiskNext
  <1> QED BY <1>1, <1>2, PTL DEF Spec

-----------------------------------------------------------------------------
(* Where windows are, and where they come from                             *)

(* In memory, in a snapshot on its way to the file, or in some inode.      *)
Known(w) ==
  \/ w \in state.windows
  \/ \E x \in Writers : wpc[x] \in Busy /\ w \in snap[x].windows
  \/ \E i \in Inodes : content[i] # Torn /\ w \in content[i].windows

(* A window is new only as one that load() attests or an operator declares.*)
LEMMA KnownStep ==
  ASSUME TypeInv, PhaseInv, [Next]_vars, NEW w, Known(w)'
  PROVE  \/ Known(w)
         \/ w.source = "declared" /\ w \in declared'
         \/ /\ Boot /\ path \in Inodes /\ content[path] # Torn
            /\ w \in GapWindows(content[path].last_heartbeat)
  <1> USE DEF Busy
  <1>1. CASE Boot
    <2>1. w \in state'.windows => w \in ReadState.windows
                                 \/ w \in GapWindows(ReadState.last_heartbeat)
      BY <1>1, BootState
    <2>2. \A x \in Writers : wpc'[x] \notin Busy
      BY <1>1 DEF Boot, StartPersist, TypeInv, PhaseInv, Idle
    <2>3. content' = content
      BY <1>1 DEF Boot, StartPersist, files
    <2>4. \/ ReadState.windows = {} /\ GapWindows(ReadState.last_heartbeat) = {}
          \/ path \in Inodes /\ content[path] # Torn /\ ReadState = content[path]
      BY ReadStateType DEF DefaultState, GapWindows
    <2> QED BY <1>1, <2>1, <2>2, <2>3, <2>4 DEF Known
  <1>2. CASE Crash
    BY <1>2 DEF Crash, Known, files, DefaultState
  <1>3. CASE Heartbeat
    <2>1. state'.windows \subseteq state.windows
      BY <1>3, HeartbeatState
    <2>2. /\ \A x \in Writers : wpc'[x] \in Busy => wpc[x] \in Busy
          /\ snap' = snap /\ content' = content
      BY <1>3 DEF Heartbeat, StartPersist, TypeInv, files
    <2> QED BY <2>1, <2>2 DEF Known
  <1>4. ASSUME NEW d \in Declarers, DeclareOutage(d)
        PROVE  Known(w) \/ (w.source = "declared" /\ w \in declared')
    <2>1. PICK v \in Window : /\ v.source = "declared" /\ declared' = declared \cup {v}
                              /\ state'.windows \subseteq state.windows \cup {v}
      BY <1>4, DeclaredState
    <2>2. StartPersist(d)
      BY <1>4 DEF DeclareOutage
    <2>3. /\ \A x \in Writers : wpc'[x] \in Busy => wpc[x] \in Busy
          /\ snap' = snap /\ content' = content
      BY <2>2 DEF StartPersist, TypeInv, files
    <2> QED BY <2>1, <2>3 DEF Known
  <1>5. ASSUME NEW x \in Writers, Snapshot(x) PROVE Known(w)
    <2>1. /\ \A y \in Writers : y # x => wpc'[y] = wpc[y] /\ snap'[y] = snap[y]
          /\ snap'[x] = state /\ UNCHANGED <<state, content>>
      BY <1>5 DEF Snapshot, TypeInv, files
    <2> QED BY <2>1 DEF Known
  <1>6. ASSUME NEW x \in Writers, CreateTmp(x) PROVE Known(w)
    <2>1. /\ \A y \in Writers : wpc'[y] \in Busy => wpc[y] \in Busy
          /\ UNCHANGED <<state, snap>>
      BY <1>6 DEF CreateTmp, TypeInv
    <2>2. \A i \in Inodes : content'[i] = Torn \/ content'[i] = content[i]
      BY <1>6, OpenedInode DEF TypeInv
    <2> QED BY <2>1, <2>2 DEF Known
  <1>7. ASSUME NEW x \in Writers, WriteTmp(x) PROVE Known(w)
    <2>1. /\ \A y \in Writers : wpc'[y] \in Busy => wpc[y] \in Busy
          /\ wpc[x] \in Busy /\ UNCHANGED <<state, snap>>
      BY <1>7 DEF WriteTmp, TypeInv
    <2>2. \A i \in Inodes : content'[i] \in {Torn, content[i], snap[x]}
      BY <1>7 DEF WriteTmp, TypeInv
    <2> QED BY <2>1, <2>2 DEF Known
  <1>8. ASSUME NEW x \in Writers, RenameTmp(x) \/ PersistFails(x) PROVE Known(w)
    <2>1. /\ \A y \in Writers : wpc'[y] \in Busy => wpc[y] \in Busy /\ snap'[y] = snap[y]
          /\ state' = state
      BY <1>8 DEF RenameTmp, PersistFails, EndPersist, TypeInv
    <2>2. \A i \in Inodes : content'[i] = Torn \/ content'[i] = content[i]
      BY <1>8 DEF RenameTmp, PersistFails, TypeInv, files
    <2> QED BY <2>1, <2>2 DEF Known
  <1>9. CASE UNCHANGED <<state, persisting, files>>
    BY <1>9 DEF Known, persisting, files
  <1> QED BY <1>1, <1>2, <1>3, <1>4, <1>5, <1>6, <1>7, <1>8, <1>9
          DEF Next, Tick, Honor, RateLimited, vars

(* Declared windows were declared; the others end at a restart.            *)
SourceInv == \A w : Known(w) =>
  IF w.source = "declared" THEN w \in declared
  ELSE w.end \in Nat /\ restarted # None /\ w.end <= restarted

LEMMA SourceNext ==
  ASSUME TypeInv, PhaseInv, SourceInv, [Next]_vars
  PROVE  SourceInv'
  <1>1. now \in Nat /\ now' \in Nat /\ now <= now' /\ declared \subseteq declared'
    <2>1. now \in Nat /\ now' \in Nat
      BY TypeNext, FailoverAssumption DEF TypeInv
    <2>2. now' = now \/ now' = now + 1
      BY DEF Next, Boot, Crash, Heartbeat, Tick, DeclareOutage, Snapshot, CreateTmp,
             WriteTmp, RenameTmp, PersistFails, EndPersist, Honor, RateLimited, vars
    <2>3. declared \subseteq declared'
      BY DEF Next, Boot, Crash, Heartbeat, Tick, DeclareOutage, Snapshot, CreateTmp,
             WriteTmp, RenameTmp, PersistFails, EndPersist, Honor, RateLimited,
             history, vars
    <2> QED BY <2>1, <2>2, <2>3
  <1>2. \/ restarted' = restarted
        \/ restarted' = now
        \/ Boot /\ restarted' = IF restarted = None THEN None ELSE now
    BY DEF Next, Boot, Crash, Heartbeat, Tick, DeclareOutage, Snapshot, CreateTmp,
           WriteTmp, RenameTmp, PersistFails, EndPersist, Honor, RateLimited,
           history, vars
  <1> SUFFICES ASSUME NEW w, Known(w)'
               PROVE  IF w.source = "declared" THEN w \in declared'
                      ELSE w.end \in Nat /\ restarted' # None /\ w.end <= restarted'
    BY DEF SourceInv
  <1>3. CASE Known(w)
    <2>1. CASE w.source = "declared"
      BY <1>1, <1>3, <2>1 DEF SourceInv
    <2>2. CASE w.source # "declared"
      <3>1. w.end \in Nat /\ restarted # None /\ w.end <= restarted
        BY <1>3, <2>2 DEF SourceInv
      <3>2. restarted \in 0 .. now
        BY <3>1 DEF TypeInv
      <3> QED BY <1>1, <1>2, <2>2, <3>1, <3>2, FailoverAssumption
    <2> QED BY <2>1, <2>2
  <1>4. CASE w.source = "declared" /\ w \in declared'
    BY <1>4
  <1>5. CASE /\ Boot /\ path \in Inodes /\ content[path] # Torn
             /\ w \in GapWindows(content[path].last_heartbeat)
    <2>1. w.end = now /\ w.source = "heartbeat_gap"
      BY <1>5 DEF GapWindows
    <2>2. restarted # None
      <3>1. None \notin Inodes
        BY WritersFinite, FailoverAssumption DEF Inodes
      <3> QED BY <1>5, <3>1 DEF PhaseInv, Boot
    <2>3. restarted' = now /\ now' = now
      BY <1>5, <2>2 DEF Boot
    <2> QED BY <1>1, <2>1, <2>3, FailoverAssumption
  <1> QED BY <1>3, <1>4, <1>5, KnownStep

LEMMA SourceInvariant == Spec => [](TypeInv /\ PhaseInv /\ SourceInv)
  <1>1. Init => TypeInv /\ PhaseInv /\ SourceInv
    <2> SUFFICES ASSUME Init PROVE SourceInv
      BY TypeInit
    <2> QED BY DEF Init, SourceInv, Known, Busy, DefaultState
  <1>2. TypeInv /\ PhaseInv /\ SourceInv /\ [Next]_vars => (TypeInv /\ PhaseInv /\ SourceInv)'
    BY TypeNext, SourceNext
  <1> QED BY <1>1, <1>2, PTL DEF Spec

(* A claim is honoured only inside a declared outage or within the grace   *)
(* period of its close or of a restart: whatever the writers' races, torn  *)
(* files, failed writes and configuration of the runs before.              *)
THEOREM HonoredNearOutageHolds == Spec => HonoredNearOutage
  <1>1. TypeInv /\ PhaseInv /\ SourceInv /\ [Next]_vars =>
          [\A s \in Sites : honored'[s] \ honored[s] # {} =>
             \/ \E w \in declared : w.start <= now /\ now < w.end + Grace
             \/ restarted # None /\ now < restarted + Grace]_vars
    <2> SUFFICES ASSUME TypeInv, PhaseInv, SourceInv, Next,
                        NEW s \in Sites, honored'[s] \ honored[s] # {}
                 PROVE  \/ \E w \in declared : w.start <= now /\ now < w.end + Grace
                        \/ restarted # None /\ now < restarted + Grace
      OBVIOUS
    <2>1. honored' # honored /\ ~Boot
      BY DEF Boot, NoClaims
    <2>2. PICK x \in Sites : Honor(x)
      BY <2>1 DEF Next, Crash, Heartbeat, Tick, DeclareOutage, Snapshot,
                 CreateTmp, WriteTmp, RenameTmp, PersistFails, EndPersist, RateLimited,
                 history
    <2>3. PICK w \in state.windows : Covers(w, now)
      BY <2>2 DEF Honor, Attested
    <2>4. Known(w)
      BY DEF Known
    <2>5. CASE w.source = "declared"
      BY <2>3, <2>4, <2>5 DEF SourceInv, Covers
    <2>6. CASE w.source # "declared"
      <3>1. w.end \in Nat /\ restarted # None /\ w.end <= restarted
        BY <2>4, <2>6 DEF SourceInv
      <3>2. restarted \in Nat
        BY <3>1 DEF TypeInv
      <3> QED BY <2>3, <3>1, <3>2, FailoverAssumption DEF Covers, TypeInv
    <2> QED BY <2>5, <2>6
  <1> QED BY <1>1, SourceInvariant, PTL DEF Spec, HonoredNearOutage

-----------------------------------------------------------------------------
(* Heartbeats as evidence, while failover is enabled and no write fails    *)

(* At most one heartbeat behind memory.                                    *)
Behind(st) == state.last_heartbeat <= st.last_heartbeat + HeartbeatInterval

(* Taken in this second: before the second's heartbeat or after it.        *)
Recent(st) ==
  \/ st.last_heartbeat = state.last_heartbeat
  \/ state.last_heartbeat = now /\ Behind(st)

Holds(i) == content[i] # Torn => Recent(content[i])

(* The running process keeps its heartbeat.                                *)
BeatInv == phase # "down" =>
  /\ enabled
  /\ now <= state.last_heartbeat + HeartbeatInterval
  /\ \A u \in ups : u < state.last_heartbeat + HeartbeatInterval

(* What is on its way to the file is recent, and so is the file, except    *)
(* while the heartbeat task has not yet come to its rename.                *)
FileInv == phase # "down" =>
  /\ \A w \in Writers : wpc[w] \in Busy => Recent(snap[w])
  /\ \A w \in Writers : wpc[w] \in Open => Holds(fd[w])
  /\ (\E w \in Writers : wpc[w] \in Open) /\ tmp # None => Holds(tmp)
  /\ /\ path # None /\ content[path] # Torn
     /\ wpc[Heart] = "idle" \/ (wpc[Heart] \in Open /\ tmp = None)
     => Behind(content[path])

(* A readable file is never more than two intervals behind the last second *)
(* the process ran.                                                        *)
TwoBehind(st) == \A u \in ups : u < st.last_heartbeat + 2 * HeartbeatInterval

DiskEvidence == path # None /\ content[path] # Torn => TwoBehind(content[path])

EvidenceInv == ~failed => BeatInv /\ FileInv /\ DiskEvidence

LEMMA RecentIsEnough ==
  ASSUME TypeInv, BeatInv, phase # "down", NEW st \in FileState, Recent(st)
  PROVE  Behind(st) /\ TwoBehind(st)
  <1>1. /\ state.last_heartbeat \in Nat /\ st.last_heartbeat \in Nat
        /\ HeartbeatInterval \in Nat
    BY FailoverAssumption DEF TypeInv, FileState
  <1>2. Behind(st)
    BY <1>1 DEF Recent, Behind
  <1>3. ASSUME NEW u \in ups PROVE u < st.last_heartbeat + 2 * HeartbeatInterval
    <2>1. u \in Nat /\ u < state.last_heartbeat + HeartbeatInterval
      BY <1>3 DEF TypeInv, BeatInv
    <2> QED BY <1>1, <1>2, <2>1 DEF Behind
  <1> QED BY <1>2, <1>3 DEF TwoBehind

LEMMA NowIsNat == TypeInv => now \in Nat
  BY FailoverAssumption DEF TypeInv

LEMMA BootEvidence ==
  ASSUME TypeInv, PhaseInv, EvidenceInv, Boot, EnabledChoices = {TRUE}, ~failed'
  PROVE  BeatInv' /\ FileInv' /\ DiskEvidence'
  <1>1. /\ UNCHANGED <<now, ups, files, failed, snap, fd>> /\ enabled'
        /\ state'.last_heartbeat = now /\ now \in Nat
    BY BootState, NowIsNat DEF Boot, StartPersist
  <1>2. BeatInv'
    BY <1>1, FailoverAssumption DEF BeatInv, TypeInv
  <1>3. \A w \in Writers : wpc'[w] \notin Busy /\ wpc'[w] \notin Open
    BY DEF Boot, StartPersist, TypeInv, PhaseInv, Idle, Busy, Open
  <1>4. wpc'[Heart] = "snapshot" /\ Heart \in Writers
    BY DEF Boot, StartPersist, TypeInv, Writers
  <1>5. FileInv'
    BY <1>3, <1>4 DEF FileInv, Open
  <1>6. DiskEvidence'
    BY <1>1 DEF EvidenceInv, DiskEvidence, TwoBehind, files
  <1> QED BY <1>2, <1>5, <1>6

LEMMA HeartbeatEvidence ==
  ASSUME TypeInv, PhaseInv, EvidenceInv, Heartbeat, ~failed'
  PROVE  BeatInv' /\ FileInv' /\ DiskEvidence'
  <1>1. /\ UNCHANGED <<phase, now, enabled, ups, files, failed, snap, fd>>
        /\ state'.last_heartbeat = now /\ now \in Nat /\ phase = "up"
        /\ state.last_heartbeat < now /\ state.last_heartbeat \in Nat
    BY HeartbeatState, NowIsNat DEF Heartbeat, StartPersist, TypeInv, FileState
  <1>2. BeatInv /\ FileInv /\ DiskEvidence
    BY <1>1 DEF EvidenceInv
  <1>3. BeatInv'
    <2>1. \A u \in ups : u \in Nat /\ u < now
      BY DEF TypeInv
    <2>2. HeartbeatInterval \in Nat /\ now <= now + HeartbeatInterval
      BY <1>1, FailoverAssumption
    <2>3. \A u \in ups : u < now + HeartbeatInterval
      BY <1>1, <2>1, <2>2
    <2> QED BY <1>1, <1>2, <2>2, <2>3 DEF BeatInv
  <1>4. ASSUME NEW st \in FileState, Recent(st) PROVE Recent(st)'
    <2>1. st.last_heartbeat = state.last_heartbeat
      BY <1>1, <1>4 DEF Recent
    <2> QED BY <1>1, <1>2, <2>1 DEF Recent, Behind, BeatInv
  <1>5. ASSUME NEW i \in Inodes, Holds(i) PROVE Holds(i)'
    BY <1>1, <1>4, <1>5 DEF Holds, files, TypeInv
  <1>6. /\ \A w \in Writers : /\ wpc'[w] \in Busy => wpc[w] \in Busy
                              /\ wpc'[w] \in Open => wpc[w] \in Open
        /\ wpc'[Heart] = "snapshot"
    BY DEF Heartbeat, StartPersist, TypeInv, Busy, Open, Writers
  <1>7. FileInv'
    BY <1>1, <1>2, <1>4, <1>5, <1>6 DEF FileInv, TypeInv, files, Open
  <1>8. DiskEvidence'
    BY <1>1, <1>2 DEF DiskEvidence, TwoBehind, files
  <1> QED BY <1>3, <1>7, <1>8

LEMMA DeclareEvidence ==
  ASSUME TypeInv, PhaseInv, EvidenceInv, NEW d \in Declarers, DeclareOutage(d), ~failed'
  PROVE  BeatInv' /\ FileInv' /\ DiskEvidence'
  <1>1. /\ UNCHANGED <<phase, now, enabled, ups, files, failed, snap, fd>>
        /\ state'.last_heartbeat = state.last_heartbeat
    BY DeclaredState DEF DeclareOutage, StartPersist
  <1>2. BeatInv /\ FileInv /\ DiskEvidence
    BY <1>1 DEF EvidenceInv
  <1>3. /\ \A w \in Writers : /\ wpc'[w] \in Busy => wpc[w] \in Busy
                              /\ wpc'[w] \in Open => wpc[w] \in Open
        /\ wpc'[Heart] = wpc[Heart]
    BY FailoverAssumption DEF DeclareOutage, StartPersist, TypeInv, Busy, Open, Writers
  <1>4. BeatInv'
    BY <1>1, <1>2 DEF BeatInv
  <1>5. FileInv'
    BY <1>1, <1>2, <1>3 DEF FileInv, Holds, Recent, Behind, files
  <1>6. DiskEvidence'
    BY <1>1, <1>2 DEF DiskEvidence, TwoBehind, files
  <1> QED BY <1>4, <1>5, <1>6

(* A second that passes while the process runs finds the file at most one  *)
(* heartbeat behind.                                                       *)
LEMMA TickEvidence ==
  ASSUME TypeInv, PhaseInv, EvidenceInv, Tick, ~failed'
  PROVE  BeatInv' /\ FileInv' /\ DiskEvidence'
  <1>1. /\ UNCHANGED <<phase, enabled, state, files, failed, wpc, snap, fd>>
        /\ now' = now + 1 /\ now \in Nat /\ Idle
    BY NowIsNat DEF Tick, persisting
  <1>2. BeatInv /\ FileInv /\ DiskEvidence
    BY <1>1 DEF EvidenceInv
  <1>3. wpc[Heart] = "idle" /\ phase # "boot"
    BY <1>1 DEF Idle, Writers, PhaseInv
  <1>4. \A w \in Writers : wpc'[w] \notin Busy /\ wpc'[w] \notin Open
    BY <1>1 DEF Idle, Busy, Open
  <1>5. CASE phase = "down"
    <2>1. ups' = ups
      BY <1>5 DEF Tick
    <2> QED BY <1>1, <1>2, <1>5, <2>1 DEF BeatInv, FileInv, DiskEvidence, TwoBehind, files
  <1>6. CASE phase = "up"
    <2>1. /\ ups' = ups \cup {now} /\ state.last_heartbeat \in Nat
          /\ now - state.last_heartbeat < HeartbeatInterval /\ HeartbeatInterval \in Nat
      BY <1>2, <1>6, FailoverAssumption DEF Tick, BeatInv, TypeInv, FileState
    <2>2. now < state.last_heartbeat + HeartbeatInterval
      BY <1>1, <2>1
    <2>3. BeatInv'
      BY <1>1, <1>2, <2>1, <2>2 DEF BeatInv
    <2>4. path # None /\ content[path] # Torn => Behind(content[path])
      BY <1>2, <1>3, <1>6 DEF FileInv
    <2>5. FileInv'
      BY <1>1, <1>4, <2>4 DEF FileInv, Behind, files
    <2>6. ASSUME path # None, content[path] # Torn PROVE TwoBehind(content[path])'
      <3>1. content[path].last_heartbeat \in Nat
        BY <2>6 DEF TypeInv, FileState
      <3>2. now < content[path].last_heartbeat + 2 * HeartbeatInterval
        BY <1>1, <2>1, <2>2, <2>4, <2>6, <3>1 DEF Behind
      <3> QED BY <1>1, <1>2, <2>1, <2>6, <3>2 DEF DiskEvidence, TwoBehind, files
    <2>7. DiskEvidence'
      BY <1>1, <2>6 DEF DiskEvidence, files
    <2> QED BY <2>3, <2>5, <2>7
  <1> QED BY <1>3, <1>5, <1>6 DEF TypeInv

(* The steps of persist(); one that fails ends the evidence.               *)
LEMMA PersistEvidence ==
  ASSUME TypeInv, PhaseInv, EvidenceInv, NEW w \in Writers, ~failed',
         Snapshot(w) \/ CreateTmp(w) \/ WriteTmp(w) \/ RenameTmp(w) \/ PersistFails(w)
  PROVE  BeatInv' /\ FileInv' /\ DiskEvidence'
  <1> USE DEF Busy, Open
  <1>1. /\ UNCHANGED <<now, enabled, ups, state, failed>>
        /\ Snapshot(w) \/ CreateTmp(w) \/ WriteTmp(w) \/ RenameTmp(w)
        /\ phase # "down" /\ phase' # "down"
    <2>1. ~PersistFails(w)
      BY DEF PersistFails
    <2>2. wpc[w] # "idle"
      BY <2>1 DEF Snapshot, CreateTmp, WriteTmp, RenameTmp
    <2>3. phase # "down"
      BY <2>2 DEF PhaseInv, Idle
    <2> QED BY <2>1, <2>3 DEF Snapshot, CreateTmp, WriteTmp, RenameTmp, EndPersist, history
  <1>2. BeatInv /\ FileInv /\ DiskEvidence
    BY <1>1 DEF EvidenceInv
  <1>3. BeatInv'
    BY <1>1, <1>2 DEF BeatInv
  <1>4. \A st : (Recent(st)' <=> Recent(st)) /\ (Behind(st)' <=> Behind(st))
                /\ (TwoBehind(st)' <=> TwoBehind(st))
    BY <1>1 DEF Recent, Behind, TwoBehind
  <1>5. Heart \in Writers
    BY DEF Writers
  <1>6. CASE Snapshot(w)
    <2>1. /\ UNCHANGED <<fd, path, tmp, content>> /\ wpc[w] = "snapshot"
          /\ wpc' = [wpc EXCEPT ![w] = "create"] /\ snap' = [snap EXCEPT ![w] = state]
      BY <1>6 DEF Snapshot, files
    <2>2. Recent(state)
      BY DEF Recent
    <2>3. \A i \in Inodes : Holds(i)' <=> Holds(i)
      BY <1>4, <2>1 DEF Holds
    <2>4. \A x \in Writers : wpc'[x] \in Busy => Recent(snap'[x])
      BY <1>1, <1>2, <2>1, <2>2 DEF FileInv, TypeInv
    <2>5. \A x \in Writers : /\ wpc'[x] \in Open <=> wpc[x] \in Open
                             /\ wpc'[x] = "idle" <=> wpc[x] = "idle"
      BY <2>1 DEF TypeInv
    <2>6. FileInv'
      BY <1>1, <1>2, <1>4, <1>5, <2>1, <2>3, <2>4, <2>5 DEF FileInv, TypeInv
    <2>7. DiskEvidence'
      BY <1>2, <1>4, <2>1 DEF DiskEvidence
    <2> QED BY <1>3, <2>6, <2>7
  <1>7. CASE CreateTmp(w)
    <2>1. /\ UNCHANGED <<snap, path>> /\ wpc[w] = "create" /\ tmp' \in Inodes
          /\ wpc' = [wpc EXCEPT ![w] = "write"] /\ fd' = [fd EXCEPT ![w] = tmp']
          /\ content' = [content EXCEPT ![tmp'] = Torn] /\ tmp' # path /\ tmp' # None
      BY <1>7, OpenedInode DEF CreateTmp
    <2>2. \A i \in Inodes : content'[i] = IF i = tmp' THEN Torn ELSE content[i]
      BY <2>1 DEF TypeInv
    <2>3. Holds(tmp)' /\ \A i \in Inodes : Holds(i) => Holds(i)'
      BY <1>4, <2>1, <2>2 DEF Holds
    <2>4. \A x \in Writers : /\ x # w => wpc'[x] = wpc[x] /\ fd'[x] = fd[x]
                             /\ x = w => wpc'[x] = "write" /\ fd'[x] = tmp'
      BY <2>1 DEF TypeInv
    <2>5. \A x \in Writers : wpc'[x] \in Busy => Recent(snap'[x])
      BY <1>1, <1>2, <2>1, <2>4 DEF FileInv
    <2>6. \A x \in Writers : wpc'[x] \in Open => Holds(fd[x])'
      BY <1>1, <1>2, <2>3, <2>4 DEF FileInv, TypeInv, Holds
    <2>7. path # None => content'[path] = content[path]
      BY <2>1, <2>2 DEF TypeInv
    <2>8. FileInv'
      BY <1>1, <1>2, <1>4, <1>5, <2>1, <2>3, <2>4, <2>5, <2>6, <2>7 DEF FileInv
    <2>9. DiskEvidence'
      BY <1>2, <1>4, <2>1, <2>7 DEF DiskEvidence
    <2> QED BY <1>3, <2>8, <2>9
  <1>8. CASE WriteTmp(w)
    <2>1. /\ UNCHANGED <<snap, path, tmp, fd>> /\ wpc[w] = "write" /\ fd[w] \in Inodes
          /\ wpc' = [wpc EXCEPT ![w] = "rename"] /\ snap[w] \in FileState
      BY <1>8 DEF WriteTmp, TypeInv
    <2>2. \A i \in Inodes : \/ content'[i] = content[i]
                            \/ content'[i] = Torn \/ content'[i] = snap[w]
      BY <1>8 DEF WriteTmp, TypeInv
    <2>3. Recent(snap[w]) /\ Behind(snap[w]) /\ TwoBehind(snap[w])
      BY <1>1, <1>2, <2>1, RecentIsEnough DEF FileInv
    <2>4. \A i \in Inodes : Holds(i) => Holds(i)'
      BY <1>4, <2>2, <2>3 DEF Holds
    <2>5. \A x \in Writers : /\ wpc'[x] \in Busy <=> wpc[x] \in Busy
                             /\ wpc'[x] \in Open <=> wpc[x] \in Open
                             /\ wpc'[x] = "idle" <=> wpc[x] = "idle"
      BY <2>1 DEF TypeInv
    <2>6. path # None => path \in Inodes
      BY DEF TypeInv
    <2>7. FileInv'
      BY <1>1, <1>2, <1>4, <1>5, <2>1, <2>2, <2>3, <2>4, <2>5, <2>6 DEF FileInv, TypeInv
    <2>8. DiskEvidence'
      BY <1>2, <1>4, <2>1, <2>2, <2>3, <2>6 DEF DiskEvidence
    <2> QED BY <1>3, <2>7, <2>8
  <1>9. CASE RenameTmp(w)
    <2>1. /\ wpc[w] = "rename" /\ wpc' = [wpc EXCEPT ![w] = "idle"]
          /\ snap' = [snap EXCEPT ![w] = None] /\ fd' = [fd EXCEPT ![w] = None]
      BY <1>9 DEF RenameTmp, EndPersist
    <2>2. \A x \in Writers : /\ x # w => /\ wpc'[x] = wpc[x] /\ fd'[x] = fd[x]
                                        /\ snap'[x] = snap[x]
                             /\ x = w => wpc'[x] = "idle"
      BY <2>1 DEF TypeInv
    <2>3. CASE tmp = None
      <3>1. UNCHANGED <<path, tmp, content>>
        BY <1>9, <2>3 DEF RenameTmp, files
      <3>2. \A i \in Inodes : Holds(i)' <=> Holds(i)
        BY <1>4, <3>1 DEF Holds
      <3>3. \A x \in Writers : wpc'[x] \in Open => Holds(fd[x])'
        BY <1>1, <1>2, <2>2, <3>1, <3>2 DEF FileInv, TypeInv, Holds
      <3>4. FileInv'
        BY <1>1, <1>2, <1>4, <1>5, <2>1, <2>2, <2>3, <3>1, <3>3 DEF FileInv
      <3>5. DiskEvidence'
        BY <1>2, <1>4, <3>1 DEF DiskEvidence
      <3> QED BY <1>3, <3>4, <3>5
    <2>4. CASE tmp # None
      <3>1. /\ path' = tmp /\ tmp' = None /\ tmp \in Inodes /\ tmp # path
            /\ \A i \in Inodes : content'[i] = IF i = path THEN Torn ELSE content[i]
        BY <1>9, <2>4 DEF RenameTmp, TypeInv, PhaseInv
      <3>2. Holds(tmp)
        BY <1>1, <1>2, <2>1, <2>4 DEF FileInv
      <3>3. content[tmp] # Torn => Behind(content[tmp]) /\ TwoBehind(content[tmp])
        BY <1>1, <1>2, <3>1, <3>2, RecentIsEnough DEF Holds, TypeInv
      <3>4. \A i \in Inodes : Holds(i) => Holds(i)'
        BY <1>4, <3>1 DEF Holds
      <3>5. \A x \in Writers : wpc'[x] \in Open => Holds(fd[x])'
        BY <1>1, <1>2, <2>2, <3>4 DEF FileInv, TypeInv, Holds
      <3>6. FileInv'
        BY <1>1, <1>2, <1>4, <2>2, <3>1, <3>3, <3>5 DEF FileInv
      <3>7. DiskEvidence'
        BY <1>4, <3>1, <3>3 DEF DiskEvidence
      <3> QED BY <1>3, <3>6, <3>7
    <2> QED BY <2>3, <2>4
  <1> QED BY <1>1, <1>6, <1>7, <1>8, <1>9

LEMMA EvidenceNext ==
  ASSUME TypeInv, PhaseInv, EvidenceInv, EnabledChoices = {TRUE}, [Next]_vars
  PROVE  EvidenceInv'
  <1> SUFFICES ASSUME ~failed' PROVE BeatInv' /\ FileInv' /\ DiskEvidence'
    BY DEF EvidenceInv
  <1>1. CASE Crash
    <2>1. UNCHANGED <<files, ups, failed>> /\ phase' = "down"
      BY <1>1 DEF Crash
    <2> QED BY <2>1 DEF EvidenceInv, BeatInv, FileInv, DiskEvidence, TwoBehind, files
  <1>2. CASE UNCHANGED <<phase, now, enabled, state, persisting, files, ups, failed>>
    BY <1>2 DEF EvidenceInv, BeatInv, FileInv, DiskEvidence, TwoBehind, Holds, Recent,
                Behind, files, persisting
  <1> QED BY <1>1, <1>2, BootEvidence, HeartbeatEvidence, DeclareEvidence, TickEvidence,
             PersistEvidence
          DEF Next, Honor, RateLimited, history, vars

(* Every attested gap was downtime.                                        *)
GapInv == ~failed => \A w : Known(w) /\ w.source # "declared" => WasDown(w)

LEMMA GapNext ==
  ASSUME TypeInv, PhaseInv, SourceInv, EvidenceInv, GapInv, [Next]_vars
  PROVE  GapInv'
  <1> SUFFICES ASSUME ~failed', NEW w, Known(w)', w.source # "declared"
               PROVE  WasDown(w)'
    BY DEF GapInv
  <1>1. ~failed
    BY DEF Next, Boot, StartPersist, Crash, Heartbeat, Tick, DeclareOutage, Snapshot,
           CreateTmp, WriteTmp, RenameTmp, PersistFails, Honor, RateLimited, history, vars
  <1>2. ups' \subseteq ups \cup {now}
    BY DEF Next, Boot, Crash, Heartbeat, Tick, DeclareOutage, Snapshot, CreateTmp,
           WriteTmp, RenameTmp, PersistFails, EndPersist, Honor, RateLimited,
           history, vars
  <1>3. CASE Known(w)
    <2>1. w.end \in Nat /\ restarted # None /\ w.end <= restarted
      BY <1>3 DEF SourceInv
    <2>2. now >= w.end
      BY <2>1, NowIsNat DEF TypeInv
    <2>3. WasDown(w)
      BY <1>1, <1>3 DEF GapInv
    <2> QED BY <1>2, <2>2, <2>3 DEF WasDown
  <1>4. CASE /\ Boot /\ path \in Inodes /\ content[path] # Torn
             /\ w \in GapWindows(content[path].last_heartbeat)
    <2>1. /\ w.start = content[path].last_heartbeat /\ w.end = now
          /\ now - content[path].last_heartbeat >= MinGap
      BY <1>4 DEF GapWindows
    <2>2. path # None
      BY <1>4, WritersFinite, FailoverAssumption DEF Inodes
    <2>3. TwoBehind(content[path]) /\ ups' = ups
      BY <1>1, <1>4, <2>2 DEF EvidenceInv, DiskEvidence, Boot
    <2> QED BY <2>1, <2>3 DEF WasDown, TwoBehind
  <1> QED BY <1>3, <1>4, KnownStep

(* With failover enabled, every window the guard holds was declared, or is *)
(* a gap of at least MinGap in which the process did not run but for its   *)
(* first two heartbeat intervals: whatever the races of any number of      *)
(* declarations with the heartbeat, and through crash loops.               *)
THEOREM WindowsAreRealHolds ==
  ASSUME EnabledChoices = {TRUE}
  PROVE  Spec => []WindowsAreReal
  <1> DEFINE I == TypeInv /\ PhaseInv /\ SourceInv /\ EvidenceInv /\ GapInv
  <1>1. Init => I
    <2> SUFFICES ASSUME Init PROVE I
      OBVIOUS
    <2>1. /\ phase = "down" /\ path = None /\ state.windows = {}
          /\ \A i \in Inodes : content[i] = Torn
          /\ \A w \in Writers : wpc[w] \notin Busy
      BY DEF Init, DefaultState, Busy
    <2>2. \A w : ~Known(w)
      BY <2>1 DEF Known
    <2> QED BY <2>1, <2>2, TypeInit
            DEF SourceInv, GapInv, EvidenceInv, BeatInv, FileInv, DiskEvidence
  <1>2. I /\ [Next]_vars => I'
    BY TypeNext, SourceNext, EvidenceNext, GapNext
  <1>3. I => WindowsAreReal
    BY DEF GapInv, SourceInv, WindowsAreReal, Known
  <1> QED BY <1>1, <1>2, <1>3, PTL DEF Spec

-----------------------------------------------------------------------------
(* The per-site budget                                                     *)

(* The claims of site s from second a until before second b.               *)
Span(s, a, b) == {c \in honored[s] : a <= c[1] /\ c[1] < b}

(* A counter covers the claims since it was opened, the first of them in   *)
(* the second it was opened; of the minute before that, the counter before *)
(* it covered all, and its first claim is already too old.                 *)
Counts(s, a) ==
  /\ a \in AcceptCounter /\ a.window_start <= now /\ a.count <= MaxPerMin
  /\ \A c \in honored[s] : c[1] <= now /\ c[1] < a.window_start + Minute
  /\ Cardinality(Span(s, a.window_start, a.window_start + Minute)) <= a.count
  /\ a.count > 0 =>
       Cardinality(Span(s, a.window_start + 1, a.window_start + Minute)) <= a.count - 1
  /\ a.count = 0 => a.window_start = now
  /\ Cardinality(Span(s, a.window_start - Minute + 1, a.window_start)) <= MaxPerMin - 1

SiteCap(s) ==
  IF accepts[s] = None THEN honored[s] = {}
                       ELSE accepts[s].count > 0 /\ Counts(s, accepts[s])

CapInv ==
  /\ DOMAIN accepts = Sites
  /\ MaxPerMin > 0 /\ phase # "down" => \A s \in Sites : SiteCap(s)

LEMMA SpanFinite ==
  ASSUME TypeInv, NEW s \in Sites, NEW S, S \subseteq honored[s]
  PROVE  IsFiniteSet(S) /\ Cardinality(S) \in Nat
  <1>1. IsFiniteSet(0 .. MaxTime) /\ IsFiniteSet(1 .. MaxHonored)
    BY FailoverAssumption, FS_Interval
  <1>2. IsFiniteSet(Claims)
    BY <1>1, FS_Product DEF Claims
  <1>3. S \subseteq Claims
    BY DEF TypeInv
  <1> QED BY <1>2, <1>3, FS_Subset, FS_CardinalityType

LEMMA FewerClaims ==
  ASSUME TypeInv, NEW s \in Sites, NEW S, S \subseteq honored[s], NEW T, T \subseteq S
  PROVE  Cardinality(T) <= Cardinality(S)
  BY SpanFinite, FS_Subset

(* The counter admit() goes by, kept or opened anew.                       *)
LEMMA CounterCounts ==
  ASSUME TypeInv, MaxPerMin > 0, NEW s \in Sites, SiteCap(s)
  PROVE  Counts(s, Counter(s)) /\ now < Counter(s).window_start + Minute
  <1> USE FailoverAssumption, NowIsNat
  <1>0. /\ now \in Nat /\ Minute \in Nat /\ Minute > 0 /\ MaxPerMin \in Nat
        /\ \A c \in honored[s] : c[1] \in Nat
    BY DEF TypeInv, Claims
  <1> DEFINE new == [window_start |-> now, count |-> 0]
  <1>1. ASSUME honored[s] = {}, Counter(s) = new
        PROVE  Counts(s, Counter(s)) /\ now < Counter(s).window_start + Minute
    <2>1. /\ Span(s, now, now + Minute) = {} /\ Span(s, now - Minute + 1, now) = {}
      BY <1>1 DEF Span
    <2>2. Cardinality({}) = 0
      BY FS_EmptySet
    <2>3. new \in AcceptCounter /\ new.window_start = now /\ new.count = 0
      BY <1>0 DEF AcceptCounter
    <2>4. /\ now <= now /\ now < now + Minute
          /\ 0 <= MaxPerMin /\ 0 <= MaxPerMin - 1 /\ 0 <= 0 /\ ~(0 > 0)
      BY <1>0
    <2> HIDE DEF new
    <2>5. Counts(s, new)
      BY <1>1, <2>1, <2>2, <2>3, <2>4 DEF Counts
    <2> QED BY <1>1, <2>3, <2>4, <2>5
  <1>2. CASE accepts[s] = None
    BY <1>1, <1>2 DEF Counter, SiteCap
  <1>3. CASE accepts[s] # None /\ now - accepts[s].window_start >= Minute
    <2> DEFINE start == accepts[s].window_start
               Old == Span(s, start, start + Minute)
    <2>1. Counts(s, accepts[s]) /\ Counter(s) = new /\ start \in Nat
      BY <1>3 DEF SiteCap, Counter, Counts, AcceptCounter
    <2>2. \A c \in honored[s] : c[1] <= now /\ c[1] < start + Minute
      BY <2>1 DEF Counts
    <2>3. Span(s, now, now + Minute) = {}
      BY <1>0, <1>3, <2>1, <2>2 DEF Span
    <2> DEFINE Later == Span(s, start + 1, start + Minute)
    <2>4. Span(s, now - Minute + 1, now) \subseteq Later /\ Later \subseteq honored[s]
      BY <1>0, <1>3, <2>1, <2>2 DEF Span
    <2>5. Cardinality(Span(s, now - Minute + 1, now)) <= Cardinality(Later)
      BY <2>4, FewerClaims
    <2>6. Cardinality(Later) <= MaxPerMin - 1
      <3>1. accepts[s].count \in Nat /\ accepts[s].count <= MaxPerMin
        BY <2>1 DEF Counts, AcceptCounter
      <3>2. Cardinality(Later) \in Nat
        BY <2>4, SpanFinite
      <3>3. Cardinality(Later) <= accepts[s].count - 1
        BY <1>3, <2>1 DEF Counts, SiteCap
      <3> QED BY <1>0, <3>1, <3>2, <3>3
    <2>7. Cardinality(Span(s, now - Minute + 1, now)) <= MaxPerMin - 1
      <3>1. Cardinality(Later) \in Nat
        BY <2>4, SpanFinite
      <3>2. Cardinality(Span(s, now - Minute + 1, now)) \in Nat
        <4>1. Span(s, now - Minute + 1, now) \subseteq honored[s]
          BY <2>4
        <4> QED BY <4>1, SpanFinite
      <3> QED BY <1>0, <2>5, <2>6, <3>1, <3>2
    <2>8. Cardinality(Span(s, now, now + Minute)) = 0
      BY <2>3, FS_EmptySet
    <2> QED BY <1>0, <2>1, <2>2, <2>7, <2>8 DEF Counts, AcceptCounter
  <1>4. CASE accepts[s] # None /\ ~(now - accepts[s].window_start >= Minute)
    <2>1. Counts(s, accepts[s]) /\ Counter(s) = accepts[s]
      BY <1>4 DEF SiteCap, Counter
    <2>2. accepts[s].window_start \in Nat
      BY <2>1 DEF Counts, AcceptCounter
    <2> QED BY <1>0, <1>4, <2>1, <2>2
  <1> QED BY <1>2, <1>3, <1>4

(* One more claim is within the cap, and within nearly twice the cap over  *)
(* any minute.                                                             *)
LEMMA HonorCap ==
  ASSUME TypeInv, CapInv, HonoredPerMinute, MaxPerMin > 0, NEW s \in Sites, Honor(s)
  PROVE  SiteCap(s)' /\ \A t \in 0 .. MaxTime : Within(s, t)' <= 2 * MaxPerMin - 1
  <1>0. PICK a, n, start : a = Counter(s) /\ n = NewClaim(s) /\ start = a.window_start
    OBVIOUS
  <1> DEFINE A == Span(s, start - Minute + 1, start)
             B == Span(s, start, start + Minute)
             Later == Span(s, start + 1, start + Minute)
  <1>1. /\ now' = now /\ honored'[s] = honored[s] \cup {n} /\ a.count < MaxPerMin
        /\ accepts'[s] = [a EXCEPT !.count = @ + 1]
    BY <1>0 DEF Honor, UnderCap, CapInv, TypeInv
  <1>2. Counts(s, a) /\ now < start + Minute
    BY <1>0, CounterCounts DEF CapInv, Honor
  <1>3. /\ now \in Nat /\ Minute \in Nat /\ MaxPerMin \in Nat /\ MaxTime \in Nat
        /\ \A c \in honored[s] : c[1] \in Nat
    BY NowIsNat, FailoverAssumption DEF TypeInv, Claims
  <1>4. n[1] = now /\ n \notin honored[s]
    BY <1>0, NewClaimIsNew
  <1>5. /\ start \in Nat /\ a.count \in Nat /\ start <= now /\ a \in AcceptCounter
        /\ \A c \in honored[s] : c[1] <= now /\ c[1] < start + Minute
        /\ Cardinality(B) <= a.count /\ Cardinality(A) <= MaxPerMin - 1
    BY <1>0, <1>2 DEF Counts, AcceptCounter
  <1>6. /\ accepts'[s] \in AcceptCounter /\ accepts'[s].window_start = start
        /\ accepts'[s].count = a.count + 1 /\ accepts'[s] # None
    BY <1>0, <1>1, <1>5, FailoverAssumption DEF AcceptCounter
  <1>7. /\ Span(s, start, start + Minute)' = B \cup {n}
        /\ Span(s, start - Minute + 1, start)' = A
    BY <1>1, <1>2, <1>3, <1>4, <1>5 DEF Span
  <1>8. /\ A \subseteq honored[s] /\ B \subseteq honored[s]
        /\ IsFiniteSet(A) /\ IsFiniteSet(B) /\ Cardinality(A) \in Nat /\ Cardinality(B) \in Nat
    BY SpanFinite DEF Span
  <1>9. IsFiniteSet(B \cup {n}) /\ Cardinality(B \cup {n}) = Cardinality(B) + 1
    BY <1>4, <1>8, FS_AddElement
  <1>10. SiteCap(s)'
    <2>1. a.count + 1 <= MaxPerMin /\ Cardinality(B) + 1 <= a.count + 1
      BY <1>1, <1>3, <1>5, <1>8
    <2>2. \A c \in honored'[s] : c[1] <= now /\ c[1] < start + Minute
      BY <1>1, <1>2, <1>3, <1>4, <1>5
    <2>3. Cardinality(Span(s, start + 1, start + Minute)') <= a.count
      <3>1. Later \subseteq B /\ Later \subseteq honored[s] /\ n \notin Later
        BY <1>3, <1>4, <1>5 DEF Span
      <3>2. IsFiniteSet(Later) /\ Cardinality(Later) \in Nat
        BY <3>1, SpanFinite
      <3>3. CASE a.count = 0
        <4>1. start = now /\ Cardinality(B) = 0
          BY <1>0, <1>2, <1>5, <1>8, <3>3 DEF Counts
        <4>2. B = {}
          BY <1>8, <4>1, FS_EmptySet
        <4>3. Span(s, start + 1, start + Minute)' = {}
          BY <1>1, <1>3, <1>4, <4>1, <4>2 DEF Span
        <4> QED BY <3>3, <4>3, FS_EmptySet
      <3>4. CASE a.count > 0
        <4>1. Cardinality(Later) <= a.count - 1
          BY <1>2, <1>0, <3>4 DEF Counts
        <4>2. Span(s, start + 1, start + Minute)' \subseteq Later \cup {n}
          BY <1>1 DEF Span
        <4>3. IsFiniteSet(Later \cup {n}) /\ Cardinality(Later \cup {n}) = Cardinality(Later) + 1
          BY <3>1, <3>2, FS_AddElement
        <4>4. Cardinality(Span(s, start + 1, start + Minute)') <= Cardinality(Later \cup {n})
          BY <4>2, <4>3, FS_Subset
        <4>5. Cardinality(Span(s, start + 1, start + Minute)') \in Nat
          BY <4>2, <4>3, FS_Subset, FS_CardinalityType
        <4> QED BY <1>5, <3>2, <4>1, <4>3, <4>4, <4>5
      <3> QED BY <1>5, <3>3, <3>4
    <2>4. a.count + 1 > 0 /\ (a.count + 1) - 1 = a.count /\ a.count + 1 # 0
      BY <1>5
    <2>5. Counts(s, accepts[s])'
      BY <1>1, <1>5, <1>6, <1>7, <1>9, <2>1, <2>2, <2>3, <2>4 DEF Counts
    <2> QED BY <1>6, <2>4, <2>5 DEF SiteCap
  <1>11. ASSUME NEW t \in 0 .. MaxTime PROVE Within(s, t)' <= 2 * MaxPerMin - 1
    <2> DEFINE Old == {c \in honored[s] : t <= c[1] /\ c[1] < t + Minute}
               New == {c \in honored'[s] : t <= c[1] /\ c[1] < t + Minute}
    <2>1. Within(s, t)' = Cardinality(New) /\ Cardinality(Old) <= 2 * MaxPerMin - 1
      BY DEF Within, HonoredPerMinute
    <2>2. CASE ~(t <= now /\ now < t + Minute)
      <3>1. New = Old
        BY <1>1, <1>4, <2>2
      <3> QED BY <2>1, <3>1
    <2>3. CASE t <= now /\ now < t + Minute
      <3>1. New \subseteq A \cup (B \cup {n})
        BY <1>1, <1>3, <1>5, <2>3 DEF Span
      <3>2. /\ IsFiniteSet(A \cup (B \cup {n}))
            /\ Cardinality(A \cup (B \cup {n})) <= Cardinality(A) + Cardinality(B) + 1
        <4>1. /\ IsFiniteSet(A \cup (B \cup {n}))
              /\ Cardinality(A \cup (B \cup {n}))
                   = Cardinality(A) + Cardinality(B \cup {n}) - Cardinality(A \cap (B \cup {n}))
          BY <1>8, <1>9, FS_Union
        <4>2. Cardinality(A \cap (B \cup {n})) \in Nat
          BY <1>8, FS_Subset, FS_CardinalityType
        <4> QED BY <1>8, <1>9, <4>1, <4>2
      <3>3. IsFiniteSet(New) /\ Cardinality(New) <= Cardinality(A \cup (B \cup {n}))
        BY <3>1, <3>2, FS_Subset
      <3>4. Cardinality(New) \in Nat /\ Cardinality(A \cup (B \cup {n})) \in Nat
        BY <3>2, <3>3, FS_CardinalityType
      <3> HIDE DEF New
      <3> QED BY <1>1, <1>3, <1>5, <1>8, <2>1, <3>2, <3>3, <3>4
    <2> QED BY <2>2, <2>3
  <1> QED BY <1>10, <1>11

LEMMA CapNext ==
  ASSUME TypeInv, PhaseInv, CapInv, HonoredPerMinute, [Next]_vars
  PROVE  CapInv' /\ HonoredPerMinute'
  <1> USE FailoverAssumption
  <1>1. CASE Boot
    <2>1. accepts' = [s \in Sites |-> None] /\ honored' = [s \in Sites |-> {}]
      BY <1>1 DEF Boot, NoClaims
    <2>2. \A s \in Sites, t \in 0 .. MaxTime : Within(s, t)' = 0
      <3>1. \A s \in Sites : \A t : {c \in honored'[s] : t <= c[1] /\ c[1] < t + Minute} = {}
        BY <2>1
      <3> QED BY <3>1, FS_EmptySet DEF Within
    <2>3. HonoredPerMinute'
      BY <2>2 DEF HonoredPerMinute
    <2> QED BY <2>1, <2>3 DEF CapInv, SiteCap
  <1>2. CASE Crash
    BY <1>2 DEF Crash, CapInv, HonoredPerMinute, Within
  <1>3. CASE Tick
    <2>1. UNCHANGED <<phase, accepts, honored>> /\ now' = now + 1 /\ now \in Nat
      BY <1>3, NowIsNat DEF Tick
    <2>2. HonoredPerMinute'
      BY <2>1 DEF HonoredPerMinute, Within
    <2>3. ASSUME NEW s \in Sites, SiteCap(s) PROVE SiteCap(s)'
      <3>1. CASE accepts[s] = None
        BY <2>1, <2>3, <3>1 DEF SiteCap
      <3>2. CASE accepts[s] # None
        <4>1. Counts(s, accepts[s])
          BY <2>3, <3>2 DEF SiteCap
        <4>0. accepts[s].count > 0 /\ accepts[s].count \in Nat
          BY <2>3, <3>2, <4>1 DEF SiteCap, Counts, AcceptCounter
        <4>2. /\ accepts[s].window_start \in Nat
              /\ \A c \in honored[s] : c[1] \in Nat
          BY <4>1 DEF Counts, AcceptCounter, TypeInv, Claims
        <4>3. /\ accepts[s].window_start <= now + 1
              /\ \A c \in honored[s] : c[1] <= now + 1
          BY <2>1, <4>1, <4>2 DEF Counts
        <4>4. Counts(s, accepts[s])'
          BY <2>1, <4>0, <4>1, <4>3 DEF Counts, Span
        <4> QED BY <2>1, <3>2, <4>0, <4>4 DEF SiteCap
      <3> QED BY <3>1, <3>2
    <2> QED BY <2>1, <2>2, <2>3 DEF CapInv
  <1>4. ASSUME NEW s \in Sites, Honor(s) PROVE CapInv' /\ HonoredPerMinute'
    <2>1. CASE MaxPerMin = 0
      BY <1>4, <2>1 DEF Honor, CapInv, HonoredPerMinute
    <2>2. CASE MaxPerMin > 0
      <3>1. /\ UNCHANGED <<phase, now>> /\ DOMAIN accepts' = Sites
            /\ \A x \in Sites : x # s => accepts'[x] = accepts[x] /\ honored'[x] = honored[x]
        BY <1>4, <2>2 DEF Honor, CapInv, TypeInv
      <3>2. \A x \in Sites : x # s /\ SiteCap(x) => SiteCap(x)'
        BY <3>1 DEF SiteCap, Counts, Span
      <3>3. \A x \in Sites, t \in 0 .. MaxTime : x # s => Within(x, t)' = Within(x, t)
        BY <3>1 DEF Within
      <3> QED BY <1>4, <2>2, <3>1, <3>2, <3>3, HonorCap DEF CapInv, HonoredPerMinute
    <2> QED BY <2>1, <2>2
  <1>5. ASSUME NEW s \in Sites, RateLimited(s) PROVE CapInv' /\ HonoredPerMinute'
    <2>1. /\ UNCHANGED <<phase, now, honored>> /\ phase # "down" /\ MaxPerMin > 0
          /\ accepts' = [accepts EXCEPT ![s] = Counter(s)]
      BY <1>5 DEF RateLimited, history
    <2>2. PICK a : a = Counter(s)
      OBVIOUS
    <2>3. Counts(s, a) /\ a # None /\ a.count > 0
      <3>1. ~(a.count < MaxPerMin)
        BY <1>5, <2>2 DEF RateLimited, UnderCap
      <3>2. Counts(s, a)
        BY <2>1, <2>2, CounterCounts DEF CapInv
      <3> QED BY <2>1, <3>1, <3>2 DEF Counts, AcceptCounter
    <2>4. accepts'[s] = a /\ \A x \in Sites : x # s => accepts'[x] = accepts[x]
      BY <2>1, <2>2 DEF CapInv
    <2>5. SiteCap(s)'
      BY <2>1, <2>3, <2>4 DEF SiteCap, Counts, Span
    <2>6. \A x \in Sites : x # s /\ SiteCap(x) => SiteCap(x)'
      BY <2>1, <2>4 DEF SiteCap, Counts, Span
    <2>7. HonoredPerMinute'
      BY <2>1 DEF HonoredPerMinute, Within
    <2> QED BY <2>1, <2>5, <2>6, <2>7 DEF CapInv
  <1>6. CASE UNCHANGED <<now, accepts, honored>> /\ (phase = "down" => phase' = "down")
    BY <1>6 DEF CapInv, SiteCap, Counts, Span, HonoredPerMinute, Within
  <1>7. \A w \in Writers : Snapshot(w) \/ CreateTmp(w) \/ WriteTmp(w) \/ RenameTmp(w)
                             \/ PersistFails(w) => phase # "down"
    BY DEF PhaseInv, Idle, Snapshot, CreateTmp, WriteTmp, RenameTmp, PersistFails
  <1> QED BY <1>1, <1>2, <1>3, <1>4, <1>5, <1>6, <1>7
          DEF Next, Heartbeat, DeclareOutage, Snapshot, CreateTmp, WriteTmp, RenameTmp,
              PersistFails, EndPersist, history, vars

(* Over any minute of one process a site passes at most twice the cap less *)
(* one, for every cap and every length of the window: a burst on each side *)
(* of the counter's boundary but for the claim that opened it, and never a *)
(* third.                                                                  *)
THEOREM HonoredPerMinuteHolds == Spec => []HonoredPerMinute
  <1>1. Init => TypeInv /\ PhaseInv /\ CapInv /\ HonoredPerMinute
    <2> SUFFICES ASSUME Init PROVE CapInv /\ HonoredPerMinute
      BY TypeInit
    <2>1. /\ phase = "down" /\ DOMAIN accepts = Sites
          /\ \A s \in Sites : honored[s] = {}
      BY DEF Init, NoClaims
    <2>2. \A s \in Sites : \A t : {c \in honored[s] : t <= c[1] /\ c[1] < t + Minute} = {}
      BY <2>1
    <2>3. \A s \in Sites, t \in 0 .. MaxTime : Within(s, t) = 0
      BY <2>2, FS_EmptySet DEF Within
    <2>4. HonoredPerMinute
      BY <2>3, FailoverAssumption DEF HonoredPerMinute
    <2> QED BY <2>1, <2>4 DEF CapInv
  <1>2. TypeInv /\ PhaseInv /\ CapInv /\ HonoredPerMinute /\ [Next]_vars
          => (TypeInv /\ PhaseInv /\ CapInv /\ HonoredPerMinute)'
    BY TypeNext, CapNext
  <1> QED BY <1>1, <1>2, PTL DEF Spec

=============================================================================

----------------------- MODULE TrainingExportProofs -----------------------
(***************************************************************************)
(* Proofs about TrainingExport, for any number of challenges and any page  *)
(* size: ids name one sample for good, and a pull that ends has them all.  *)
(* What they need of the writer is only how it numbers what it inserts;    *)
(* that the writer itself is DecisionLog is a theorem of its own.          *)
(***************************************************************************)
EXTENDS TrainingExport, DecisionLogProofs, FiniteSetTheorems, WellFoundedInduction

(* The id of a sample is in use, and below the sequence.                   *)
IdsInv ==
  /\ sample_id \in [Challenges -> Nat \cup {None}] /\ sequence \in Nat
  /\ \A c \in Challenges :
       /\ samples[c] # None => sample_id[c] # None
       /\ sample_id[c] # None => 1 <= sample_id[c] /\ sample_id[c] <= sequence
  /\ \A c, d \in Challenges : sample_id[c] # None /\ sample_id[c] = sample_id[d] => c = d

(* What was pulled keeps its id for itself.                                *)
MirrorInv ==
  /\ mirror \subseteq [challenge : Challenges, id : Nat]
  /\ \A r \in mirror : r.id <= sequence
  /\ \A r, s \in mirror : r.id = s.id => r.challenge = s.challenge
  /\ \A r \in mirror : \A c \in Challenges : sample_id[c] = r.id => c = r.challenge

(* Nothing appears behind the cursor.                                      *)
CursorInv ==
  /\ after_id \in Nat /\ after_id <= sequence
  /\ \A c \in Challenges : sample_id[c] # None /\ sample_id[c] <= after_id =>
       [challenge |-> c, id |-> sample_id[c]] \in mirror

ExportInv == IdsInv /\ MirrorInv /\ CursorInv

-----------------------------------------------------------------------------
(* Least and greatest numbers                                              *)

LEMMA LeastNatural ==
  ASSUME NEW T, T \subseteq Nat, T # {}
  PROVE  \E x \in T : \A y \in T : x <= y
  <1>1. PICK x \in T : \A y \in T : ~(<<y, x>> \in OpToRel(<, Nat))
    BY NatLessThanWellFounded, WFMin
  <1>2. \A y \in T : ~(y < x)
    BY <1>1 DEF OpToRel
  <1> QED BY <1>2

LEMMA GreatestNatural ==
  ASSUME NEW T, T \subseteq Nat, T # {}, NEW b \in Nat, \A y \in T : y <= b
  PROVE  Max(T) \in T /\ \A y \in T : y <= Max(T)
  <1> DEFINE U == {u \in Nat : b - u \in T}
  <1>1. PICK t \in T : TRUE
    OBVIOUS
  <1>2. b - t \in U
    BY <1>1
  <1>3. PICK u \in U : \A v \in U : u <= v
    BY <1>2, LeastNatural
  <1>4. b - u \in T /\ \A y \in T : b - u >= y
    <2>1. ASSUME NEW y \in T PROVE b - u >= y
      <3>1. b - y \in U
        OBVIOUS
      <3>2. u <= b - y /\ u \in Nat /\ y \in Nat
        BY <1>3, <3>1
      <3> HIDE DEF U
      <3> QED BY <3>2
    <2> QED BY <1>3, <2>1
  <1>5. \E x \in T : \A y \in T : x >= y
    BY <1>4
  <1>6. Max(T) \in T /\ \A y \in T : Max(T) >= y
    BY <1>5 DEF Max
  <1> QED BY <1>6

LEMMA FiniteChallenges ==
  ASSUME NEW S, S \subseteq Challenges
  PROVE  IsFiniteSet(S) /\ Cardinality(S) \in Nat
  BY LimitAssumption, FS_Subset, FS_CardinalityType

LEMMA FewerChallenges ==
  ASSUME NEW S, S \subseteq Challenges, NEW T, T \subseteq S
  PROVE  Cardinality(T) <= Cardinality(S)
  BY FiniteChallenges, FS_Subset

-----------------------------------------------------------------------------
(* The writer's numbers                                                    *)

(* New ids are beyond every id ever given, and no two are the same.        *)
LEMMA NumberedStep ==
  ASSUME sequence \in Nat, Numbered
  PROVE  /\ sequence' \in Nat /\ sequence' >= sequence
         /\ \E n : /\ \A c \in Inserted : /\ n[c] \in Nat /\ n[c] > sequence
                                          /\ n[c] <= sequence'
                   /\ \A c, d \in Inserted : n[c] = n[d] => c = d
                   /\ sample_id' = [c \in Challenges |->
                        IF samples'[c] = None THEN None
                        ELSE IF c \in Inserted THEN n[c] ELSE sample_id[c]]
  <1> DEFINE k == Cardinality(Inserted)
  <1>1. k \in Nat
    BY FiniteChallenges DEF Inserted
  <1>2. PICK n \in [Inserted -> FirstId .. FirstId + k - 1] :
          /\ \A c, d \in Inserted : n[c] = n[d] => c = d
          /\ sample_id' = [c \in Challenges |->
               IF samples'[c] = None THEN None
               ELSE IF c \in Inserted THEN n[c] ELSE sample_id[c]]
          /\ sequence' = Max({sequence} \cup {n[c] : c \in Inserted})
    BY DEF Numbered
  <1>3. \A c \in Inserted : n[c] \in Nat /\ n[c] > sequence /\ n[c] <= sequence + k
    BY <1>1 DEF FirstId
  <1> DEFINE T == {sequence} \cup {n[c] : c \in Inserted}
  <1>4. /\ T \subseteq Nat /\ T # {} /\ \A y \in T : y <= sequence + k
        /\ sequence + k \in Nat
    BY <1>1, <1>3
  <1>5. Max(T) \in T /\ \A y \in T : y <= Max(T)
    BY <1>4, GreatestNatural
  <1>6. Max(T) \in Nat /\ sequence <= Max(T) /\ \A c \in Inserted : n[c] <= Max(T)
    BY <1>4, <1>5
  <1> QED BY <1>2, <1>3, <1>6

LEMMA LogStepInv ==
  ASSUME ExportInv, LogStep
  PROVE  ExportInv'
  <1>1. sequence \in Nat /\ Numbered /\ UNCHANGED <<after_id, pulling, mirror>>
    BY DEF LogStep, ExportInv, IdsInv
  <1>2. sequence' \in Nat /\ sequence' >= sequence
    BY <1>1, NumberedStep
  <1>3. PICK n : /\ \A c \in Inserted : /\ n[c] \in Nat /\ n[c] > sequence
                                        /\ n[c] <= sequence'
                 /\ \A c, d \in Inserted : n[c] = n[d] => c = d
                 /\ sample_id' = [c \in Challenges |->
                      IF samples'[c] = None THEN None
                      ELSE IF c \in Inserted THEN n[c] ELSE sample_id[c]]
    BY <1>1, NumberedStep
  <1>4. ASSUME NEW c \in Challenges, sample_id'[c] # None
        PROVE  \/ c \in Inserted /\ sample_id'[c] = n[c]
               \/ c \notin Inserted /\ sample_id'[c] = sample_id[c]
    BY <1>3, <1>4
  <1>5. \A c \in Challenges : sample_id'[c] \in Nat \cup {None}
    BY <1>3 DEF ExportInv, IdsInv
  <1>6. ASSUME NEW c \in Challenges, samples'[c] # None PROVE sample_id'[c] # None
    <2>1. CASE c \in Inserted
      BY <1>3, <1>6, <2>1, LimitAssumption
    <2>2. CASE c \notin Inserted
      BY <1>3, <1>6, <2>2 DEF Inserted, ExportInv, IdsInv
    <2> QED BY <2>1, <2>2
  <1>7. \A c \in Challenges : sample_id'[c] # None =>
          1 <= sample_id'[c] /\ sample_id'[c] <= sequence'
    BY <1>1, <1>2, <1>3, <1>4 DEF ExportInv, IdsInv
  <1>8. \A c, d \in Challenges :
          sample_id'[c] # None /\ sample_id'[c] = sample_id'[d] => c = d
    BY <1>1, <1>3, <1>4 DEF ExportInv, IdsInv
  <1>9. sample_id' \in [Challenges -> Nat \cup {None}]
    BY <1>3, <1>5
  <1>10. IdsInv'
    BY <1>2, <1>6, <1>7, <1>8, <1>9 DEF IdsInv
  <1>11. MirrorInv'
    <2>1. ASSUME NEW r \in mirror, NEW c \in Challenges, sample_id'[c] = r.id
          PROVE  c = r.challenge
      <3>1. r.id \in Nat /\ r.id <= sequence /\ r.id # None
        BY LimitAssumption DEF ExportInv, MirrorInv
      <3> QED BY <1>1, <1>3, <1>4, <2>1, <3>1 DEF ExportInv, MirrorInv
    <2>2. \A r \in mirror : r.id \in Nat /\ r.id <= sequence'
      BY <1>1, <1>2 DEF ExportInv, MirrorInv
    <2> QED BY <1>1, <2>1, <2>2 DEF ExportInv, MirrorInv
  <1>12. CursorInv'
    BY <1>1, <1>2, <1>3, <1>4 DEF ExportInv, CursorInv
  <1> QED BY <1>10, <1>11, <1>12 DEF ExportInv

-----------------------------------------------------------------------------
(* The puller                                                              *)

Between(after, c) == {d \in Challenges :
  sample_id[d] # None /\ after < sample_id[d] /\ sample_id[d] < sample_id[c]}

LEMMA PageMember ==
  ASSUME NEW c \in Challenges, NEW after
  PROVE  c \in Page(after) <=> /\ sample_id[c] # None /\ sample_id[c] > after
                               /\ Cardinality(Between(after, c)) < Limit
  BY DEF Page, Between

(* A page has no gaps.                                                     *)
LEMMA PageIsPrefix ==
  ASSUME ExportInv, NEW after \in Nat, NEW d \in Page(after), NEW c \in Challenges,
         sample_id[c] # None, sample_id[c] > after, sample_id[c] <= sample_id[d]
  PROVE  c \in Page(after)
  <1>0. d \in Challenges
    BY DEF Page
  <1>1. /\ sample_id[d] # None /\ sample_id[d] > after
        /\ Cardinality(Between(after, d)) < Limit
    BY <1>0, PageMember
  <1>2. /\ \A e \in Challenges : sample_id[e] # None => sample_id[e] \in Nat
    BY DEF ExportInv, IdsInv
  <1>3. Between(after, c) \subseteq Between(after, d) /\ Between(after, d) \subseteq Challenges
    BY <1>0, <1>1, <1>2 DEF Between
  <1>4. Cardinality(Between(after, c)) <= Cardinality(Between(after, d))
    BY <1>3, FewerChallenges
  <1>5. Cardinality(Between(after, c)) \in Nat /\ Cardinality(Between(after, d)) \in Nat
    BY <1>3, FiniteChallenges
  <1>6. Cardinality(Between(after, c)) < Limit
    BY <1>1, <1>4, <1>5, LimitAssumption
  <1> QED BY <1>6, PageMember

(* A page with room to spare is the last one.                              *)
LEMMA LastPage ==
  ASSUME ExportInv, NEW after \in Nat, ~HasNext(Page(after)), NEW c \in Challenges,
         sample_id[c] # None, sample_id[c] > after
  PROVE  c \in Page(after)
  <1> SUFFICES ASSUME c \notin Page(after) PROVE FALSE
    OBVIOUS
  <1> DEFINE Left == {d \in Challenges \ Page(after) :
                        sample_id[d] # None /\ sample_id[d] > after}
             T == {sample_id[d] : d \in Left}
  <1>1. \A e \in Challenges : sample_id[e] # None => sample_id[e] \in Nat
    BY DEF ExportInv, IdsInv
  <1>2. T \subseteq Nat /\ T # {}
    BY <1>1
  <1>3. PICK x \in T : \A y \in T : x <= y
    BY <1>2, LeastNatural
  <1>4. PICK d \in Left : sample_id[d] = x
    BY <1>3
  <1>5. \A e \in Left : sample_id[d] <= sample_id[e]
    BY <1>3, <1>4
  <1>6. Between(after, d) \subseteq Page(after) /\ Page(after) \subseteq Challenges
    <2>1. ASSUME NEW e \in Between(after, d), e \notin Page(after) PROVE FALSE
      <3>1. e \in Left /\ sample_id[e] < sample_id[d]
        BY <1>1, <2>1 DEF Between
      <3>2. sample_id[e] \in Nat /\ sample_id[d] \in Nat
        BY <1>1, <3>1
      <3> QED BY <1>5, <3>1, <3>2
    <2> QED BY <2>1 DEF Page
  <1>7. /\ Cardinality(Between(after, d)) <= Cardinality(Page(after))
        /\ Cardinality(Page(after)) \in Nat /\ Cardinality(Between(after, d)) \in Nat
    <2>1. Between(after, d) \subseteq Challenges
      BY DEF Between
    <2> QED BY <1>6, <2>1, FewerChallenges, FiniteChallenges
  <1>8. Cardinality(Between(after, d)) < Limit
    BY <1>7, LimitAssumption DEF HasNext
  <1> QED BY <1>4, <1>8, PageMember

LEMMA BeginPullInv ==
  ASSUME ExportInv, BeginPull
  PROVE  ExportInv'
  <1>1. IdsInv'
    BY DEF ExportInv, IdsInv, BeginPull, vars, tables
  <1>2. CASE UNCHANGED <<after_id, mirror>>
    BY <1>1, <1>2 DEF ExportInv, IdsInv, MirrorInv, CursorInv, BeginPull
  <1>3. CASE after_id' = 0 /\ mirror' = {}
    BY <1>1, <1>3 DEF ExportInv, IdsInv, MirrorInv, CursorInv, BeginPull
  <1> QED BY <1>2, <1>3 DEF BeginPull

(* The cursor comes to the greatest id of the page, or stays.              *)
LEMMA PullPageCursor ==
  ASSUME ExportInv, PullPage
  PROVE  /\ after_id' \in Nat /\ after_id' >= after_id /\ after_id' <= sequence
         /\ \A c \in Page(after_id) : sample_id[c] <= after_id'
         /\ after_id' = after_id \/ \E d \in Page(after_id) : after_id' = sample_id[d]
  <1> DEFINE T == {after_id} \cup {sample_id[c] : c \in Page(after_id)}
  <1>1. \A c \in Page(after_id) : sample_id[c] \in Nat /\ sample_id[c] <= sequence
    BY DEF Page, ExportInv, IdsInv
  <1>2. after_id \in Nat /\ after_id <= sequence /\ sequence \in Nat
    BY DEF ExportInv, IdsInv, CursorInv
  <1>3. T \subseteq Nat /\ T # {} /\ \A y \in T : y <= sequence
    BY <1>1, <1>2
  <1>4. Max(T) \in T /\ \A y \in T : y <= Max(T)
    BY <1>2, <1>3, GreatestNatural
  <1>5. after_id' = Max(T)
    BY DEF PullPage
  <1> QED BY <1>2, <1>3, <1>4, <1>5

LEMMA PullPageInv ==
  ASSUME ExportInv, PullPage
  PROVE  ExportInv'
  <1> DEFINE Row(c) == [challenge |-> c, id |-> sample_id[c]]
             page == Page(after_id)
  <1>1. /\ UNCHANGED <<samples, sample_id, sequence>>
        /\ mirror' = mirror \cup {Row(c) : c \in page}
    BY DEF PullPage, vars, tables
  <1>2. \A c \in page : /\ c \in Challenges /\ sample_id[c] # None
                       /\ sample_id[c] \in Nat /\ sample_id[c] <= sequence
    BY DEF Page, ExportInv, IdsInv
  <1>3. IdsInv'
    BY <1>1 DEF ExportInv, IdsInv
  <1>4. MirrorInv'
    <2>1. \A r \in mirror' : r \in mirror \/ \E c \in page : r = Row(c)
      BY <1>1
    <2>2. mirror' \subseteq [challenge : Challenges, id : Nat]
      BY <1>1, <1>2 DEF ExportInv, MirrorInv
    <2>3. \A r \in mirror' : r.id <= sequence'
      BY <1>1, <1>2, <2>1 DEF ExportInv, MirrorInv
    <2>4. ASSUME NEW r \in mirror', NEW c \in Challenges, sample_id[c] = r.id
          PROVE  c = r.challenge
      <3>1. CASE r \in mirror
        BY <2>4, <3>1 DEF ExportInv, MirrorInv
      <3>2. CASE \E d \in page : r = Row(d)
        BY <1>2, <2>4, <3>2 DEF ExportInv, IdsInv
      <3> QED BY <2>1, <3>1, <3>2
    <2>5. ASSUME NEW r \in mirror', NEW s \in mirror', r.id = s.id
          PROVE  r.challenge = s.challenge
      <3>1. CASE r \in mirror /\ s \in mirror
        BY <2>5, <3>1 DEF ExportInv, MirrorInv
      <3>2. CASE \E d \in page : r = Row(d)
        BY <1>2, <2>4, <2>5, <3>2
      <3>3. CASE \E d \in page : s = Row(d)
        BY <1>2, <2>4, <2>5, <3>3
      <3> QED BY <2>1, <3>1, <3>2, <3>3
    <2> QED BY <1>1, <2>2, <2>3, <2>4, <2>5 DEF MirrorInv
  <1>5. CursorInv'
    <2>1. ASSUME NEW c \in Challenges, sample_id[c] # None, sample_id[c] <= after_id'
          PROVE  Row(c) \in mirror'
      <3>0. after_id \in Nat /\ sample_id[c] \in Nat /\ after_id' \in Nat
        BY <2>1, PullPageCursor DEF ExportInv, IdsInv, CursorInv
      <3>1. CASE sample_id[c] <= after_id
        BY <1>1, <2>1, <3>1 DEF ExportInv, CursorInv
      <3>2. CASE sample_id[c] > after_id
        <4>1. PICK d \in page : after_id' = sample_id[d]
          BY <2>1, <3>0, <3>2, PullPageCursor
        <4>2. c \in page
          BY <2>1, <3>0, <3>2, <4>1, PageIsPrefix
        <4> QED BY <1>1, <4>2
      <3> QED BY <3>0, <3>1, <3>2
    <2> QED BY <1>1, <2>1, PullPageCursor DEF CursorInv
  <1> QED BY <1>3, <1>4, <1>5 DEF ExportInv

-----------------------------------------------------------------------------
(* Theorems                                                                *)

(* Ids and cursor are consistent in every reachable state.                 *)
LEMMA ExportInvariant == ExportSpec => []ExportInv
  <1>1. ExportInit => ExportInv
    <2> SUFFICES ASSUME ExportInit PROVE ExportInv
      OBVIOUS
    <2>1. samples = [c \in Challenges |-> None]
      BY DEF ExportInit, Init
    <2> QED BY <2>1 DEF ExportInit, ExportInv, IdsInv, MirrorInv, CursorInv
  <1>2. ExportInv /\ [ExportNext]_allvars => ExportInv'
    <2> SUFFICES ASSUME ExportInv, [ExportNext]_allvars PROVE ExportInv'
      OBVIOUS
    <2>1. CASE UNCHANGED allvars
      BY <2>1 DEF ExportInv, IdsInv, MirrorInv, CursorInv, allvars, evars, vars, tables
    <2> QED BY <2>1, LogStepInv, BeginPullInv, PullPageInv DEF ExportNext
  <1> QED BY <1>1, <1>2, PTL DEF ExportSpec

(* An id of training_samples names one decision for good: for any number   *)
(* of challenges, and whatever is folded, erased, expired or cleared, no   *)
(* id pulled or in the table stands for two samples.                       *)
THEOREM IdsAreForGoodHolds == ExportSpec => []IdsAreForGood
  <1>1. ExportInv => IdsAreForGood
    <2> SUFFICES ASSUME ExportInv PROVE IdsAreForGood
      OBVIOUS
    <2> DEFINE Live == {d \in Challenges : sample_id[d] # None}
               Row(c) == [challenge |-> c, id |-> sample_id[c]]
               known == mirror \cup {Row(c) : c \in Live}
    <2>1. ASSUME NEW r \in known, NEW s \in known, r.id = s.id
          PROVE  r.challenge = s.challenge
      <3>1. CASE r \in mirror /\ s \in mirror
        BY <2>1, <3>1 DEF ExportInv, MirrorInv
      <3>2. ASSUME NEW c \in Live, r = Row(c), s \in mirror PROVE r.challenge = s.challenge
        BY <2>1, <3>2 DEF ExportInv, MirrorInv
      <3>3. ASSUME NEW c \in Live, s = Row(c), r \in mirror PROVE r.challenge = s.challenge
        BY <2>1, <3>3 DEF ExportInv, MirrorInv
      <3>4. ASSUME NEW c \in Live, r = Row(c), NEW d \in Live, s = Row(d)
            PROVE  r.challenge = s.challenge
        BY <2>1, <3>4 DEF ExportInv, IdsInv
      <3> QED BY <3>1, <3>2, <3>3, <3>4
    <2> QED BY <2>1 DEF IdsAreForGood
  <1> QED BY <1>1, ExportInvariant, PTL

(* A pull that ends has every sample then in the table, for any page size  *)
(* and however the writer's commits fall between the pages.                *)
THEOREM PullIsCompleteHolds == ExportSpec => PullIsComplete
  <1>1. ExportInv /\ [ExportNext]_allvars =>
          [pulling /\ ~pulling' =>
             \A c \in Challenges : samples[c] # None =>
               [challenge |-> c, id |-> sample_id[c]] \in mirror']_allvars
    <2> SUFFICES ASSUME ExportInv, ExportNext, pulling, ~pulling',
                        NEW c \in Challenges, samples[c] # None
                 PROVE  [challenge |-> c, id |-> sample_id[c]] \in mirror'
      OBVIOUS
    <2>1. PullPage
      BY DEF ExportNext, LogStep, BeginPull
    <2>2. /\ sample_id[c] # None /\ sample_id[c] \in Nat /\ after_id \in Nat
      BY DEF ExportInv, IdsInv, CursorInv
    <2>3. CASE sample_id[c] <= after_id
      BY <2>1, <2>2, <2>3 DEF ExportInv, CursorInv, PullPage
    <2>4. CASE sample_id[c] > after_id
      <3>1. ~HasNext(Page(after_id))
        BY <2>1 DEF PullPage
      <3>2. c \in Page(after_id)
        BY <2>2, <2>4, <3>1, LastPage
      <3> QED BY <2>1, <3>2 DEF PullPage
    <2> QED BY <2>2, <2>3, <2>4
  <1> QED BY <1>1, ExportInvariant, PTL DEF ExportSpec, PullIsComplete

(* The export only reads: seen without the puller and the row ids, every   *)
(* behaviour is one of the decision log, whose theorems therefore hold     *)
(* while samples are pulled.                                               *)
THEOREM ExportKeepsLog == ExportSpec => Spec
  <1>1. ExportInit => Init
    BY DEF ExportInit
  <1>2. [ExportNext]_allvars => [Next]_vars
    <2> SUFFICES ASSUME [ExportNext]_allvars PROVE [Next]_vars
      OBVIOUS
    <2>1. CASE UNCHANGED allvars
      BY <2>1 DEF allvars
    <2> QED BY <2>1 DEF ExportNext, LogStep, BeginPull, PullPage
  <1> QED BY <1>1, <1>2, PTL DEF ExportSpec, Spec

=============================================================================

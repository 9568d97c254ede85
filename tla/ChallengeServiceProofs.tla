----------------------- MODULE ChallengeServiceProofs -----------------------
(***************************************************************************)
(* Proofs about ChallengeService, for every number of sites, challenges    *)
(* and handlers and for both algorithms.                                   *)
(***************************************************************************)
EXTENDS ChallengeService, FiniteSetTheorems, TLAPS

(* Where an id can be: minted but still in its handler's hands, in the     *)
(* map, or consumed, and never in two of these places.  SingleUse is not   *)
(* inductive without it: an id must not be stored again after it was       *)
(* consumed.                                                               *)
StoreInv ==
  /\ \A p \in Issuers : ipc[p] = "store" =>
       /\ born[ireq[p].id] # None
       /\ challenges[ireq[p].id] = None
       /\ solved[ireq[p].id] = 0
  /\ \A p, q \in Issuers :
       ipc[p] = "store" /\ ipc[q] = "store" /\ ireq[p].id = ireq[q].id => p = q
  /\ \A c \in Ids : challenges[c] # None => born[c] # None /\ solved[c] = 0
  /\ \A c \in Ids : solved[c] <= 1 /\ (solved[c] = 1 => born[c] # None)

Inv == TypeOK /\ StoreInv

-----------------------------------------------------------------------------
(* A part of the type invariant survives every step that leaves its        *)
(* variables alone.                                                        *)
LEMMA Frame ==
  /\ SitesOK /\ UNCHANGED sites => SitesOK'
  /\ MapOK /\ UNCHANGED challenges => MapOK'
  /\ ClockOK /\ UNCHANGED clock => ClockOK'
  /\ VerifyOK /\ UNCHANGED vvars => VerifyOK'
  /\ IssueOK /\ UNCHANGED ivars => IssueOK'
  /\ SemaOK /\ UNCHANGED sema => SemaOK'
  /\ HistoryOK /\ UNCHANGED history => HistoryOK'
  /\ StoreInv /\ UNCHANGED <<challenges, ivars, history>> => StoreInv'
  BY DEF SitesOK, sites, MapOK, ClockOK, clock, VerifyOK, vvars, IssueOK, ivars,
         SemaOK, sema, HistoryOK, history, StoreInv

LEMMA InitInv == Init => Inv
  <1> SUFFICES ASSUME Init PROVE Inv
    OBVIOUS
  <1>1. SitesOK
    BY DEF Init, SitesOK
  <1>2. VerifyOK
    BY DEF Init, VerifyOK, VerifyPc, NoVerify
  <1>3. IssueOK
    BY DEF Init, IssueOK, IssuePc, NoIssue
  <1>4. MapOK /\ ClockOK /\ SemaOK /\ HistoryOK
    BY ParametersAssumption DEF Init, MapOK, ClockOK, SemaOK, HistoryOK
  <1>5. StoreInv
    BY DEF Init, StoreInv
  <1> QED
    BY <1>1, <1>2, <1>3, <1>4, <1>5 DEF Inv, TypeOK

LEMMA InvSites ==
  ASSUME Inv, NEW k \in SiteKeys, RotateSecret(k) \/ DeleteSite(k)
  PROVE  Inv'
  <1>1. UNCHANGED <<challenges, clock, vvars, ivars, sema, history>>
    BY DEF RotateSecret, DeleteSite
  <1>2. SitesOK'
    BY NoneAssumption DEF Inv, TypeOK, SitesOK, RotateSecret, DeleteSite
  <1> QED
    BY <1>1, <1>2, Frame DEF Inv, TypeOK

-----------------------------------------------------------------------------
(* Issuance                                                                *)

LEMMA InvPuzzle ==
  ASSUME Inv, NEW p \in Issuers, PuzzleLookup(p) \/ PuzzleStep(p)
  PROVE  Inv'
  <1> USE DEF Inv, TypeOK
  <1>1. CASE PuzzleLookup(p)
    <2>1. UNCHANGED <<sites, challenges, clock, vvars, sema, history>>
      BY <1>1 DEF PuzzleLookup
    <2>2. PICK k \in SiteKeys :
            /\ ipc' = [ipc EXCEPT ![p] = "admit"]
            /\ ireq' = [ireq EXCEPT ![p] =
                 [site_key |-> k, id |-> None, challenge |-> None]]
      BY <1>1 DEF PuzzleLookup
    <2>3. IssueOK'
      BY <2>2 DEF IssueOK, IssuePc
    <2>4. StoreInv'
      BY <2>1, <2>2 DEF StoreInv, IssueOK, history
    <2> QED
      BY <2>1, <2>3, <2>4, Frame
  <1>2. CASE PuzzleAdmit(p)
    <2>1. UNCHANGED <<sites, challenges, clock, vvars, ireq, sema, history>>
      BY <1>2 DEF PuzzleAdmit
    <2>2. IssueOK'
      BY <1>2 DEF PuzzleAdmit, IssueOK, IssuePc
    <2>3. StoreInv'
      BY <1>2, <2>1 DEF PuzzleAdmit, StoreInv, IssueOK, history
    <2> QED
      BY <2>1, <2>2, <2>3, Frame
  <1>3. CASE PuzzleRefuse(p)
    <2>1. UNCHANGED <<sites, challenges, clock, vvars, sema, history>>
      BY <1>3 DEF PuzzleRefuse
    <2>2. IssueOK'
      BY <1>3 DEF PuzzleRefuse, Decline, IssueOK, IssuePc, NoIssue
    <2>3. StoreInv'
      BY <1>3, <2>1 DEF PuzzleRefuse, Decline, StoreInv, IssueOK, history
    <2> QED
      BY <2>1, <2>2, <2>3, Frame
  <1>4. CASE PuzzleGenerate(p)
    <2> DEFINE k == ireq[p].site_key
               Ch(r) == [site_key |-> k, dwell_since |-> DwellSince(k, r),
                         expires_at |-> now + TTL, attempts |-> 0]
    <2>1. PICK c \in Ids, r \in Ids \cup {None} :
            /\ ipc[p] = "generate" /\ born[c] = None
            /\ ipc' = [ipc EXCEPT ![p] = "store"]
            /\ ireq' = [ireq EXCEPT ![p] = [site_key |-> k, id |-> c,
                                            challenge |-> Ch(r)]]
            /\ born' = [born EXCEPT ![c] =
                 [site_key |-> k, created_at |-> now,
                  root |-> IF Inherits(k, r) THEN born[r].root ELSE c]]
            /\ UNCHANGED <<sites, challenges, clock, vvars, sema, solved,
                           invalid>>
      BY <1>4 DEF PuzzleGenerate
    <2> DEFINE ch == Ch(r)
    <2>2. k \in SiteKeys /\ r \in Ids \cup {None} /\ now \in Nat /\ TTL \in Nat
      BY <2>1, ParametersAssumption DEF IssueOK, ClockOK
    <2>3. Inherits(k, r) => /\ challenges[r] \in Challenge /\ born[r] \in Birth
      BY <2>2 DEF Inherits, MapOK, HistoryOK, StoreInv
    <2>4. DwellSince(k, r) \in Nat
      BY <2>2, <2>3 DEF DwellSince, Challenge
    <2>5. ch \in Challenge
      BY <2>2, <2>4 DEF Challenge
    <2>6. IssueOK'
      <3> HIDE DEF Ch, k
      <3> QED BY <2>1, <2>2, <2>5 DEF IssueOK, IssuePc
    <2>7. HistoryOK' /\ born'[c] \in Birth
      <3>1. (IF Inherits(k, r) THEN born[r].root ELSE c) \in Ids
        BY <2>3 DEF Birth
      <3> HIDE DEF k
      <3> QED BY <2>1, <2>2, <3>1 DEF HistoryOK, Birth
    <2>8. StoreInv'
      <3> HIDE DEF Ch
      <3>1. challenges[c] = None /\ solved[c] = 0
        BY <2>1 DEF StoreInv, HistoryOK
      <3>2. \A q \in Issuers \ {p} : ipc'[q] = ipc[q] /\ ireq'[q] = ireq[q]
        BY <2>1 DEF IssueOK
      <3>3. ipc'[p] = "store" /\ ireq'[p].id = c
        BY <2>1 DEF IssueOK
      <3>4. \A d \in Ids \ {c} : born'[d] = born[d]
        BY <2>1 DEF HistoryOK
      <3>5. born'[c] # None
        BY <2>7, NoneAssumption
      <3> QED BY <2>1, <3>1, <3>2, <3>3, <3>4, <3>5 DEF StoreInv, IssueOK
    <2> QED
      BY <2>1, <2>6, <2>7, <2>8, Frame
  <1>5. CASE PuzzleStore(p)
    <2>1. UNCHANGED <<sites, clock, vvars, sema, history>>
      BY <1>5 DEF PuzzleStore
    <2>2. IssueOK'
      BY <1>5 DEF PuzzleStore, Decline, IssueOK, IssuePc, NoIssue
    <2>3. MapOK'
      BY <1>5 DEF PuzzleStore, MapOK, IssueOK
    <2>4. StoreInv'
      BY <1>5, <2>1 DEF PuzzleStore, Decline, StoreInv, IssueOK, MapOK, history
    <2> QED
      BY <2>1, <2>2, <2>3, <2>4, Frame
  <1> QED
    BY <1>1, <1>2, <1>3, <1>4, <1>5 DEF PuzzleStep

-----------------------------------------------------------------------------
(* Verification                                                            *)

(* What the three removing operations of the store do to the map: they     *)
(* keep its type and never add an entry.                                   *)
Shrinks(m) == /\ m \in [Ids -> Challenge \cup {None}]
              /\ \A d \in Ids : m[d] # None => challenges[d] # None

LEMMA StoreOpsShrink ==
  ASSUME MapOK, NEW c \in Ids, NEW t
  PROVE  /\ Shrinks(Removed(c))
         /\ Shrinks(AfterFailedAttempt(c))
         /\ Shrinks(AfterCleanup(t))
  <1>1. Shrinks(Removed(c))
    BY DEF MapOK, Shrinks, Removed
  <1>2. Shrinks(AfterFailedAttempt(c))
    <2>1. CASE MaxAttempts = 0 \/ challenges[c] = None
      BY <2>1 DEF AfterFailedAttempt, Shrinks, MapOK
    <2>2. CASE /\ ~(MaxAttempts = 0 \/ challenges[c] = None)
               /\ challenges[c].attempts + 1 >= MaxAttempts
      BY <1>1, <2>2 DEF AfterFailedAttempt
    <2>3. CASE /\ ~(MaxAttempts = 0 \/ challenges[c] = None)
               /\ ~(challenges[c].attempts + 1 >= MaxAttempts)
      <3> DEFINE new == [challenges[c] EXCEPT !.attempts = @ + 1]
      <3>1. AfterFailedAttempt(c) = [challenges EXCEPT ![c] = new]
        BY <2>3 DEF AfterFailedAttempt
      <3>2. new \in Challenge
        BY <2>3 DEF MapOK, Challenge
      <3> HIDE DEF new
      <3> QED BY <2>3, <3>1, <3>2 DEF Shrinks, MapOK
    <2> QED BY <2>1, <2>2, <2>3
  <1>3. Shrinks(AfterCleanup(t))
    BY DEF MapOK, Shrinks, AfterCleanup
  <1> QED BY <1>1, <1>2, <1>3

LEMMA ShrinkStoreInv ==
  ASSUME IssueOK, StoreInv, Shrinks(challenges'), UNCHANGED <<ivars, born, solved>>
  PROVE  StoreInv' /\ MapOK'
  BY DEF IssueOK, StoreInv, Shrinks, ivars, MapOK

LEMMA AnswerOK ==
  ASSUME VerifyOK, NEW v \in Verifiers, Answer(v)
  PROVE  VerifyOK'
  BY DEF VerifyOK, VerifyPc, Answer, Goto, NoVerify

LEMMA GotoOK ==
  ASSUME VerifyOK, NEW v \in Verifiers, NEW l \in VerifyPc,
         vpc[v] # "idle", Goto(v, l), UNCHANGED vreq,
         l \in {"by_key", "fetch"} \/ vpc[v] \notin {"by_key", "fetch"}
  PROVE  VerifyOK'
  BY DEF VerifyOK, Goto

LEMMA InvVerify ==
  ASSUME Inv, NEW v \in Verifiers,
         BySecret(v) \/ VerifyStep(v) \/ HashDone(v) \/ HashPanics(v) \/ Abandon(v)
  PROVE  Inv'
  <1> USE DEF Inv, TypeOK
  <1> DEFINE c == vreq[v].id
  <1>c. vpc[v] \notin {"idle", "by_key", "fetch"} => c \in Ids
    BY DEF VerifyOK
  <1>1. CASE BySecret(v)
    <2>1. UNCHANGED <<sites, challenges, clock, ivars, sema, history>>
      BY <1>1 DEF BySecret, BySecretOf
    <2>2. PICK s \in Secrets :
            /\ sites_by_secret[s] # None
            /\ vpc' = [vpc EXCEPT ![v] = "by_key"]
            /\ vreq' = [vreq EXCEPT ![v] = [secret |-> s, id |-> None,
                 key |-> sites_by_secret[s], expires_at |-> 0]]
      BY <1>1 DEF BySecret, BySecretOf, Goto
    <2>3. sites_by_secret[s] \in SiteKeys
      BY <2>2 DEF SitesOK
    <2>4. VerifyOK'
      BY <2>2, <2>3 DEF VerifyOK, VerifyPc
    <2> QED BY <2>1, <2>4, Frame
  <1>2. CASE ByKey(v)
    <2>1. UNCHANGED <<sites, challenges, clock, ivars, sema, history>>
      BY <1>2 DEF ByKey
    <2>2. VerifyOK'
      BY <1>2, AnswerOK, GotoOK DEF ByKey, VerifyPc
    <2> QED BY <2>1, <2>2, Frame
  <1>3. CASE GetChallenge(v)
    <2>1. UNCHANGED <<sites, challenges, clock, ivars, sema, history>>
      BY <1>3 DEF GetChallenge, GetChallengeOf
    <2>2. CASE Answer(v)
      BY <2>1, <2>2, AnswerOK, Frame
    <2>3. CASE ~Answer(v)
      <3>1. PICK d \in Ids :
              /\ vpc[v] = "fetch" /\ challenges[d] # None
              /\ vpc' = [vpc EXCEPT ![v] = "expiry"]
              /\ vreq' = [vreq EXCEPT ![v].id = d,
                          ![v].expires_at = challenges[d].expires_at]
        BY <1>3, <2>3 DEF GetChallenge, GetChallengeOf, Goto
      <3>2. challenges[d].expires_at \in Nat
        BY <3>1 DEF MapOK, Challenge
      <3>3. VerifyOK'
        BY <3>1, <3>2 DEF VerifyOK, VerifyPc
      <3> QED BY <2>1, <3>3, Frame
    <2> QED BY <2>2, <2>3
  <1>4. CASE CheckExpiry(v)
    <2>1. UNCHANGED <<sites, clock, ivars, sema, history>>
      BY <1>4 DEF CheckExpiry
    <2>2. c \in Ids
      BY <1>4, <1>c DEF CheckExpiry
    <2>3. VerifyOK'
      BY <1>4, AnswerOK, GotoOK DEF CheckExpiry, VerifyPc
    <2>4. StoreInv' /\ MapOK'
      <3>1. Shrinks(challenges')
        BY <1>4, <2>2, StoreOpsShrink DEF CheckExpiry, Shrinks, MapOK
      <3> QED BY <2>1, <3>1, ShrinkStoreInv DEF history
    <2>5. HistoryOK'
      BY <2>1 DEF HistoryOK, history
    <2> QED BY <2>1, <2>3, <2>4, <2>5, Frame
  <1>5. CASE AcquirePermit(v)
    <2>1. UNCHANGED <<sites, challenges, clock, ivars, history>>
      BY <1>5 DEF AcquirePermit
    <2>2. VerifyOK'
      BY <1>5, GotoOK DEF AcquirePermit, VerifyPc
    <2>3. SemaOK'
      BY <1>5 DEF AcquirePermit, SemaOK
    <2> QED BY <2>1, <2>2, <2>3, Frame
  <1>6. CASE RejectNonce(v)
    <2>1. UNCHANGED <<sites, clock, ivars, sema, born, solved>>
      BY <1>6 DEF RejectNonce
    <2>2. c \in Ids
      BY <1>6, <1>c DEF RejectNonce
    <2>3. VerifyOK'
      BY <1>6, AnswerOK DEF RejectNonce
    <2>4. StoreInv' /\ MapOK'
      <3>1. Shrinks(challenges')
        BY <1>6, <2>2, StoreOpsShrink DEF RejectNonce
      <3> QED BY <2>1, <3>1, ShrinkStoreInv
    <2>5. HistoryOK'
      BY <1>6, <2>1, <2>2 DEF RejectNonce, HistoryOK
    <2> QED BY <2>1, <2>3, <2>4, <2>5, Frame
  <1>7. CASE Consume(v)
    <2>1. UNCHANGED <<sites, clock, ivars, sema, born, invalid>>
      BY <1>7 DEF Consume
    <2>2. c \in Ids
      BY <1>7, <1>c DEF Consume
    <2>3. VerifyOK'
      BY <1>7, AnswerOK, GotoOK DEF Consume, VerifyPc
    <2>4. CASE Consumable(c)
      <3>1. challenges' = Removed(c) /\ solved' = [solved EXCEPT ![c] = @ + 1]
        BY <1>7, <2>4 DEF Consume
      <3>2. Shrinks(challenges')
        BY <2>2, <3>1, StoreOpsShrink
      <3>3. solved[c] = 0 /\ born[c] # None
        BY <2>2, <2>4 DEF StoreInv, Consumable
      <3>4. HistoryOK' /\ MapOK'
        BY <2>1, <2>2, <3>1, <3>2 DEF HistoryOK, MapOK, Shrinks
      <3>5. StoreInv'
        <4>1. /\ challenges'[c] = None /\ solved'[c] = 1
              /\ \A d \in Ids \ {c} : /\ challenges'[d] = challenges[d]
                                       /\ solved'[d] = solved[d]
          BY <2>2, <3>1, <3>3 DEF Removed, MapOK, HistoryOK
        <4>2. \A p \in Issuers : ipc[p] = "store" =>
                ireq[p].id \in Ids \ {c}
          BY <2>4 DEF Consumable, StoreInv, IssueOK
        <4> QED BY <2>1, <3>3, <4>1, <4>2 DEF StoreInv, ivars
      <3> QED BY <2>1, <2>3, <3>4, <3>5, Frame
    <2>5. CASE ~Consumable(c)
      <3>1. UNCHANGED <<challenges, solved>>
        BY <1>7, <2>5 DEF Consume
      <3> QED BY <2>1, <2>3, <3>1, Frame DEF history
    <2> QED BY <2>4, <2>5
  <1>8. CASE Score(v)
    BY <1>8, AnswerOK, Frame DEF Score
  <1>9. CASE HashDone(v)
    <2>1. VerifyOK'
      BY <1>9, GotoOK DEF HashDone, VerifyPc
    <2>2. SemaOK'
      BY <1>9 DEF HashDone, SemaOK
    <2> QED BY <1>9, <2>1, <2>2, Frame DEF HashDone
  <1>10. CASE HashPanics(v)
    <2>1. SemaOK'
      BY <1>10 DEF HashPanics, SemaOK
    <2> QED BY <1>10, <2>1, AnswerOK, Frame DEF HashPanics
  <1>11. CASE Abandon(v)
    <2>1. SemaOK'
      BY <1>11 DEF Abandon, SemaOK, sema
    <2> QED BY <1>11, <2>1, AnswerOK, Frame DEF Abandon
  <1> QED
    BY <1>1, <1>2, <1>3, <1>4, <1>5, <1>6, <1>7, <1>8, <1>9, <1>10, <1>11
       DEF VerifyStep

-----------------------------------------------------------------------------
(* Background                                                              *)

LEMMA InvBackground ==
  ASSUME Inv, DetachedHashDone \/ SweepStart \/ SweepRetain \/ Tick
  PROVE  Inv'
  <1> USE DEF Inv, TypeOK
  <1>1. CASE DetachedHashDone
    <2>1. SemaOK'
      BY <1>1 DEF DetachedHashDone, SemaOK
    <2> QED BY <1>1, <2>1, Frame DEF DetachedHashDone
  <1>2. CASE SweepStart
    <2>1. ClockOK'
      BY <1>2 DEF SweepStart, ClockOK
    <2> QED BY <1>2, <2>1, Frame DEF SweepStart
  <1>3. CASE SweepRetain
    <2>1. ClockOK'
      BY <1>3 DEF SweepRetain, ClockOK
    <2>2. Shrinks(challenges')
      <3>1. Shrinks(AfterCleanup(sweepAt))
        BY DEF MapOK, Shrinks, AfterCleanup
      <3> QED BY <1>3, <3>1 DEF SweepRetain
    <2>3. StoreInv' /\ MapOK'
      BY <1>3, <2>2, ShrinkStoreInv DEF SweepRetain, history
    <2> QED BY <1>3, <2>1, <2>3, Frame DEF SweepRetain
  <1>4. CASE Tick
    <2>1. ClockOK'
      BY <1>4 DEF Tick, ClockOK
    <2> QED BY <1>4, <2>1, Frame DEF Tick
  <1> QED BY <1>1, <1>2, <1>3, <1>4

LEMMA InvNext == Inv /\ [Next]_vars => Inv'
  <1> SUFFICES ASSUME Inv, [Next]_vars PROVE Inv'
    OBVIOUS
  <1>1. CASE UNCHANGED vars
    BY <1>1, Frame DEF Inv, TypeOK, vars
  <1>2. CASE Next
    BY <1>2, InvSites, InvPuzzle, InvVerify, InvBackground DEF Next
  <1> QED BY <1>1, <1>2

LEMMA InvAlways == Spec => []Inv
  BY InitInv, InvNext, PTL DEF Spec

(* Type correctness of the challenge service.                              *)
THEOREM TypeCorrect == Spec => []TypeOK
  <1>1. Inv => TypeOK
    BY DEF Inv
  <1> QED BY <1>1, InvAlways, PTL

(* A challenge is consumed by at most one request, in every interleaving   *)
(* of any number of verify, puzzle and cleanup steps.                      *)
THEOREM SingleUseHolds == Spec => []SingleUse
  <1>1. Inv => SingleUse
    BY DEF Inv, TypeOK, HistoryOK, StoreInv, SingleUse
  <1> QED BY <1>1, InvAlways, PTL

-----------------------------------------------------------------------------
(* Permits                                                                 *)

(* Every permit is free, held by a handler that waits for its hash, or     *)
(* held by a detached hash.                                                *)
PermitInv ==
  /\ available >= 0
  /\ available + detached + Cardinality(Hashing) = Permits

LEMMA HashingFinite == IsFiniteSet(Hashing) /\ Cardinality(Hashing) \in Nat
  <1>1. Hashing \in SUBSET Verifiers
    BY DEF Hashing
  <1> QED BY <1>1, FiniteAssumption, FS_Subset, FS_CardinalityType

(* How a handler's step moves the set of handlers that hash.               *)
LEMMA HashingStep ==
  ASSUME VerifyOK, NEW v \in Verifiers, NEW l \in VerifyPc, Goto(v, l)
  PROVE  /\ vpc[v] # "hashing" /\ l # "hashing" =>
              Cardinality(Hashing') = Cardinality(Hashing)
         /\ vpc[v] # "hashing" /\ l = "hashing" =>
              Cardinality(Hashing') = Cardinality(Hashing) + 1
         /\ vpc[v] = "hashing" /\ l # "hashing" =>
              Cardinality(Hashing') = Cardinality(Hashing) - 1
  <1>1. CASE vpc[v] # "hashing" /\ l # "hashing"
    <2>1. Hashing' = Hashing
      BY <1>1 DEF VerifyOK, Hashing, Goto
    <2> QED BY <1>1, <2>1
  <1>2. CASE vpc[v] # "hashing" /\ l = "hashing"
    <2>1. Hashing' = Hashing \cup {v} /\ v \notin Hashing
      BY <1>2 DEF VerifyOK, Hashing, Goto
    <2> QED BY <1>2, <2>1, HashingFinite, FS_AddElement
  <1>3. CASE vpc[v] = "hashing" /\ l # "hashing"
    <2>1. Hashing' = Hashing \ {v} /\ v \in Hashing
      BY <1>3 DEF VerifyOK, Hashing, Goto
    <2> QED BY <1>3, <2>1, HashingFinite, FS_RemoveElement
  <1> QED BY <1>1, <1>2, <1>3

LEMMA PermitNext == Inv /\ PermitInv /\ [Next]_vars => PermitInv'
  <1> SUFFICES ASSUME Inv, PermitInv, [Next]_vars PROVE PermitInv'
    OBVIOUS
  <1> USE HashingFinite, ParametersAssumption DEF Inv, TypeOK, SemaOK, PermitInv
  <1>1. ASSUME UNCHANGED <<vpc, available, detached>> PROVE PermitInv'
    BY <1>1 DEF Hashing
  <1>2. ASSUME NEW v \in Verifiers, NEW l \in VerifyPc, Goto(v, l),
               vpc[v] # "hashing", l # "hashing", UNCHANGED <<available, detached>>
        PROVE  PermitInv'
    BY <1>2, HashingStep
  <1>3. ASSUME NEW v \in Verifiers,
               BySecret(v) \/ ByKey(v) \/ GetChallenge(v) \/ CheckExpiry(v)
                 \/ RejectNonce(v) \/ Consume(v) \/ Score(v)
        PROVE  PermitInv'
    <2>1. vpc[v] # "hashing" /\ UNCHANGED <<available, detached>>
      BY <1>3 DEF BySecret, BySecretOf, ByKey, GetChallenge, GetChallengeOf, CheckExpiry, RejectNonce,
                  Consume, Score, sema
    <2>2. \E l \in VerifyPc \ {"hashing"} : Goto(v, l)
      BY <1>3 DEF BySecret, BySecretOf, ByKey, GetChallenge, GetChallengeOf, CheckExpiry, RejectNonce,
                  Consume, Score, Answer, VerifyPc
    <2> QED BY <2>1, <2>2, <1>2
  <1>4. ASSUME NEW v \in Verifiers, AcquirePermit(v) PROVE PermitInv'
    <2>1. Cardinality(Hashing') = Cardinality(Hashing) + 1
      BY <1>4, HashingStep DEF AcquirePermit, VerifyPc
    <2> QED BY <1>4, <2>1 DEF AcquirePermit
  <1>5. ASSUME NEW v \in Verifiers, HashDone(v) \/ HashPanics(v) PROVE PermitInv'
    <2>1. \E l \in VerifyPc \ {"hashing"} : Goto(v, l)
      BY <1>5 DEF HashDone, HashPanics, Answer, VerifyPc
    <2>2. vpc[v] = "hashing" /\ available' = available + 1 /\ UNCHANGED detached
      BY <1>5 DEF HashDone, HashPanics
    <2>3. Cardinality(Hashing') = Cardinality(Hashing) - 1
      BY <2>1, <2>2, HashingStep
    <2> QED BY <2>2, <2>3
  <1>6. ASSUME NEW v \in Verifiers, Abandon(v) PROVE PermitInv'
    <2>1. Goto(v, "idle") /\ "idle" \in VerifyPc
      BY <1>6 DEF Abandon, Answer, VerifyPc
    <2>2. CASE vpc[v] = "hashing"
      <3>1. detached' = detached + 1 /\ UNCHANGED available
        BY <1>6, <2>2 DEF Abandon
      <3>2. Cardinality(Hashing') = Cardinality(Hashing) - 1
        BY <2>1, <2>2, HashingStep
      <3> QED BY <3>1, <3>2
    <2>3. CASE vpc[v] # "hashing"
      BY <1>2, <1>6, <2>1, <2>3 DEF Abandon, sema
    <2> QED BY <2>2, <2>3
  <1>7. CASE DetachedHashDone
    <2>1. UNCHANGED vpc
      BY <1>7 DEF DetachedHashDone, vvars
    <2>2. Hashing' = Hashing
      BY <2>1 DEF Hashing
    <2> QED BY <1>7, <2>2 DEF DetachedHashDone
  <1>8. ASSUME \/ \E k \in SiteKeys : RotateSecret(k) \/ DeleteSite(k)
               \/ \E p \in Issuers : PuzzleLookup(p) \/ PuzzleStep(p)
               \/ SweepStart \/ SweepRetain \/ Tick \/ UNCHANGED vars
        PROVE  UNCHANGED <<vpc, available, detached>>
    BY <1>8 DEF RotateSecret, DeleteSite, PuzzleLookup, PuzzleStep, PuzzleAdmit,
                PuzzleRefuse, PuzzleGenerate, PuzzleStore, SweepStart,
                SweepRetain, Tick, vars, vvars, sema
  <1> QED BY <1>1, <1>3, <1>4, <1>5, <1>6, <1>7, <1>8 DEF Next, VerifyStep

(* Memory-hard hashes, detached ones included, never exceed the permits.   *)
THEOREM HashMemoryHolds == Spec => []HashMemoryBounded
  <1>1. Init => PermitInv
    <2> SUFFICES ASSUME Init PROVE PermitInv
      OBVIOUS
    <2>1. Hashing = {}
      BY DEF Init, Hashing
    <2> QED BY <2>1, FS_EmptySet, ParametersAssumption DEF Init, PermitInv
  <1>2. Inv /\ PermitInv => HashMemoryBounded
    BY HashingFinite, ParametersAssumption
       DEF Inv, TypeOK, SemaOK, PermitInv, HashMemoryBounded
  <1> QED BY <1>1, <1>2, PermitNext, InvAlways, PTL DEF Spec

-----------------------------------------------------------------------------
(* Refinement of OneTimeChallenge                                          *)

(* A step that only removes entries is a Drop of the removed ones (of none *)
(* of them, when it removes nothing).                                      *)
LEMMA ShrinkIsDrop ==
  ASSUME Inv, Shrinks(challenges'), UNCHANGED <<ivars, born, solved>>
  PROVE  OneTime!Next
  <1> DEFINE S == {c \in Ids : challenges[c] # None /\ challenges'[c] = None}
  <1>1. \A c \in S : Status[c] = "live"
    BY DEF Status
  <1>2. \A c \in Ids : Pending(c)' <=> Pending(c)
    BY DEF Pending, ivars
  <1>3. \A c \in S : ~Pending(c) /\ born[c] # None /\ solved[c] = 0
    BY DEF Inv, StoreInv, Pending
  <1>4. Status' = [c \in Ids |-> IF c \in S THEN "dropped" ELSE Status[c]]
    BY <1>2, <1>3 DEF Status, Shrinks
  <1>5. OneTime!Drop(S) /\ S \in SUBSET Ids
    BY <1>1, <1>4 DEF OneTime!Drop
  <1> QED BY <1>5 DEF OneTime!Next

LEMMA StoreIsIssue ==
  ASSUME Inv, NEW p \in Issuers, PuzzleStore(p)
  PROVE  OneTime!Next
  <1> DEFINE c == ireq[p].id
  <1> USE DEF Inv, TypeOK
  <1>1. /\ c \in Ids /\ challenges[c] = None /\ solved[c] = 0
        /\ ipc[p] = "store" /\ ireq[p].challenge \in Challenge
    BY DEF PuzzleStore, IssueOK, StoreInv
  <1>2. Status[c] = "unissued"
    BY <1>1 DEF Status, Pending
  <1>3. /\ challenges'[c] # None
        /\ \A d \in Ids \ {c} : challenges'[d] = challenges[d]
        /\ UNCHANGED <<born, solved>>
    BY <1>1, NoneAssumption DEF PuzzleStore, MapOK, history
  <1>4. \A d \in Ids \ {c} : Pending(d)' <=> Pending(d)
    BY <1>1 DEF Pending, PuzzleStore, Decline, NoIssue, IssueOK
  <1>5. Status' = [Status EXCEPT ![c] = "live"]
    <2> HIDE DEF c
    <2>1. Status'[c] = "live"
      BY <1>1, <1>3 DEF Status
    <2>2. \A d \in Ids \ {c} : Status'[d] = Status[d]
      BY <1>3, <1>4 DEF Status
    <2> QED BY <2>1, <2>2 DEF Status
  <1> QED BY <1>1, <1>2, <1>5 DEF OneTime!Next, OneTime!Issue

LEMMA ConsumeIsRedeem ==
  ASSUME Inv, NEW v \in Verifiers, Consume(v)
  PROVE  OneTime!Next \/ UNCHANGED Status
  <1> DEFINE c == vreq[v].id
  <1> USE DEF Inv, TypeOK
  <1>1. c \in Ids /\ UNCHANGED <<ipc, ireq, born>>
    BY DEF Consume, VerifyOK, ivars
  <1>2. \A d \in Ids : Pending(d)' <=> Pending(d)
    BY <1>1 DEF Pending
  <1>3. CASE Consumable(c)
    <2>1. Status[c] = "live"
      BY <1>1, <1>3 DEF Status, Consumable
    <2>2. challenges' = Removed(c) /\ solved' = [solved EXCEPT ![c] = @ + 1]
      BY <1>3 DEF Consume
    <2>3. /\ challenges'[c] = None /\ solved'[c] > 0
          /\ \A d \in Ids \ {c} : /\ challenges'[d] = challenges[d]
                                   /\ solved'[d] = solved[d]
      BY <1>1, <2>2 DEF Removed, MapOK, HistoryOK
    <2>4. Status' = [Status EXCEPT ![c] = "redeemed"]
      BY <1>1, <1>2, <2>3 DEF Status
    <2> QED BY <1>1, <2>1, <2>4 DEF OneTime!Next, OneTime!Redeem
  <1>4. CASE ~Consumable(c)
    <2>1. UNCHANGED <<challenges, solved>>
      BY <1>4 DEF Consume
    <2> QED BY <1>1, <1>2, <2>1 DEF Status
  <1> QED BY <1>3, <1>4

(* Minting an id does not publish it: it is unissued until it is stored.   *)
LEMMA PuzzleKeepsStatus ==
  ASSUME Inv, NEW p \in Issuers,
         PuzzleLookup(p) \/ PuzzleAdmit(p) \/ PuzzleRefuse(p) \/ PuzzleGenerate(p)
  PROVE  UNCHANGED Status
  <1> USE DEF Inv, TypeOK
  <1>1. UNCHANGED <<challenges, solved>>
    BY DEF PuzzleLookup, PuzzleAdmit, PuzzleRefuse, PuzzleGenerate, history
  <1>2. CASE PuzzleLookup(p) \/ PuzzleAdmit(p) \/ PuzzleRefuse(p)
    <2>1. UNCHANGED born
      BY <1>2 DEF PuzzleLookup, PuzzleAdmit, PuzzleRefuse, history
    <2>2. ipc[p] # "store" /\ ipc'[p] # "store"
      BY <1>2 DEF PuzzleLookup, PuzzleAdmit, PuzzleRefuse, Decline, IssueOK
    <2>3. \A q \in Issuers \ {p} : ipc'[q] = ipc[q] /\ ireq'[q] = ireq[q]
      BY <1>2 DEF PuzzleLookup, PuzzleAdmit, PuzzleRefuse, Decline, IssueOK
    <2>4. \A d \in Ids : Pending(d)' <=> Pending(d)
      BY <2>2, <2>3 DEF Pending
    <2> QED BY <1>1, <2>1, <2>4 DEF Status
  <1>3. CASE PuzzleGenerate(p)
    <2>1. PICK c \in Ids :
            /\ ipc[p] = "generate" /\ born[c] = None
            /\ ipc'[p] = "store" /\ ireq'[p].id = c
            /\ \A q \in Issuers \ {p} : ipc'[q] = ipc[q] /\ ireq'[q] = ireq[q]
            /\ \A d \in Ids \ {c} : born'[d] = born[d]
      BY <1>3 DEF PuzzleGenerate, IssueOK, HistoryOK
    <2>2. Pending(c)'
      BY <2>1 DEF Pending
    <2>3. \A d \in Ids \ {c} : Pending(d)' <=> Pending(d)
      BY <2>1 DEF Pending
    <2> QED BY <1>1, <2>1, <2>2, <2>3 DEF Status
  <1> QED BY <1>2, <1>3

LEMMA StatusNext == Inv /\ [Next]_vars => [OneTime!Next]_Status
  <1> SUFFICES ASSUME Inv, [Next]_vars PROVE OneTime!Next \/ UNCHANGED Status
    OBVIOUS
  <1>1. ASSUME UNCHANGED <<challenges, ivars, history>>
        PROVE  UNCHANGED Status
    BY <1>1 DEF Status, Pending, ivars, history
  <1>3. CASE \E k \in SiteKeys : RotateSecret(k) \/ DeleteSite(k)
    BY <1>1, <1>3 DEF RotateSecret, DeleteSite
  <1>4. CASE \E p \in Issuers : PuzzleLookup(p) \/ PuzzleStep(p)
    BY <1>4, StoreIsIssue, PuzzleKeepsStatus DEF PuzzleStep
  <1>5. ASSUME NEW v \in Verifiers,
               BySecret(v) \/ VerifyStep(v) \/ HashDone(v) \/ HashPanics(v)
                 \/ Abandon(v)
        PROVE  OneTime!Next \/ UNCHANGED Status
    <2>1. CASE CheckExpiry(v) \/ RejectNonce(v)
      <3>1. vreq[v].id \in Ids
        BY <2>1 DEF CheckExpiry, RejectNonce, Inv, TypeOK, VerifyOK
      <3>2. Shrinks(challenges') /\ UNCHANGED <<ivars, born, solved>>
        BY <2>1, <3>1, StoreOpsShrink
           DEF CheckExpiry, RejectNonce, Inv, TypeOK, MapOK, Shrinks, history
      <3> QED BY <3>2, ShrinkIsDrop
    <2>2. CASE Consume(v)
      BY <2>2, ConsumeIsRedeem
    <2>3. CASE BySecret(v) \/ ByKey(v) \/ GetChallenge(v) \/ AcquirePermit(v)
                 \/ Score(v) \/ HashDone(v) \/ HashPanics(v) \/ Abandon(v)
      BY <1>1, <2>3 DEF BySecret, BySecretOf, ByKey, GetChallenge, GetChallengeOf, AcquirePermit, Score,
                        HashDone, HashPanics, Abandon
    <2> QED BY <1>5, <2>1, <2>2, <2>3 DEF VerifyStep
  <1>6. CASE SweepRetain
    <2>1. Shrinks(challenges') /\ UNCHANGED <<ivars, born, solved>>
      BY <1>6 DEF SweepRetain, AfterCleanup, Shrinks, Inv, TypeOK, MapOK, history
    <2> QED BY <2>1, ShrinkIsDrop
  <1>7. CASE DetachedHashDone \/ SweepStart \/ Tick
    BY <1>1, <1>7 DEF DetachedHashDone, SweepStart, Tick
  <1>8. CASE UNCHANGED vars
    BY <1>1, <1>8 DEF vars
  <1> QED BY <1>3, <1>4, <1>5, <1>6, <1>7, <1>8 DEF Next

(* The challenge service implements the one-time challenge.                *)
THEOREM Refinement == Spec => ImplementsOneTime
  <1>1. Init => OneTime!Init
    <2> SUFFICES ASSUME Init PROVE OneTime!Init
      OBVIOUS
    <2>1. \A c \in Ids : challenges[c] = None /\ solved[c] = 0 /\ born[c] = None
      BY DEF Init
    <2> QED BY <2>1 DEF OneTime!Init, Status
  <1> QED BY <1>1, StatusNext, InvAlways, PTL
          DEF Spec, ImplementsOneTime, OneTime!Spec

-----------------------------------------------------------------------------
(***************************************************************************)
(* Where challenges and callers come from: tenant isolation, the dwell     *)
(* anchor of refresh chains, what a rotation revokes and when a challenge  *)
(* may leave the map.  All four rest on one observation: what a mint and   *)
(* an issued secret are for is written once, so a copy that a handler, a   *)
(* request or a map entry carries stays right however late it is used.     *)
(***************************************************************************)

(* The secret index agrees with the sites, and a caller that got in holds  *)
(* the key its secret was issued for.                                      *)
AuthInv ==
  /\ \A s \in Secrets : sites_by_secret[s] # None =>
       /\ owner[s] = sites_by_secret[s]
       /\ sites_by_key[sites_by_secret[s]] = s
  /\ \A v \in Verifiers : vpc[v] # "idle" =>
       owner[vreq[v].secret] = vreq[v].key

(* What an entry carries is what its mint says, and its dwell anchor is    *)
(* the mint of its root.                                                   *)
Minted(c, ch) ==
  LET root == born[c].root IN
  /\ born[c] # None /\ born[root] # None
  /\ born[c].created_at <= now
  /\ ch.site_key = born[c].site_key
  /\ ch.expires_at = born[c].created_at + TTL
  /\ ch.site_key = born[root].site_key
  /\ ch.dwell_since = born[root].created_at
  /\ born[root].created_at <= born[c].created_at

Busy == {"expiry", "permit", "hashing", "settle", "score"}

(* Entries, challenges on their way to the map, and the snapshots that     *)
(* verify handlers took all agree with the mint; a sweep's clock is past.  *)
EntriesInv == \A c \in Ids : challenges[c] # None => Minted(c, challenges[c])

MintsInv == \A p \in Issuers : ipc[p] = "store" =>
              Minted(ireq[p].id, ireq[p].challenge)

SnapshotsInv == \A v \in Verifiers : vpc[v] \in Busy =>
  /\ born[vreq[v].id] # None /\ ~Pending(vreq[v].id)
  /\ born[vreq[v].id].site_key = vreq[v].key
  /\ vreq[v].expires_at = born[vreq[v].id].created_at + TTL

SweepInv == sweepAt # None => sweepAt <= now

OriginInv == AuthInv /\ EntriesInv /\ MintsInv /\ SnapshotsInv /\ SweepInv

-----------------------------------------------------------------------------
(* What a step may do to each part of the state                            *)

(* A mint is written once; the clock does not go back.                     *)
LEMMA HistoryStep ==
  ASSUME Inv, [Next]_vars
  PROVE  /\ \A c \in Ids : born[c] # None => born'[c] = born[c]
         /\ now' \in Nat /\ now <= now'
         /\ sweepAt' \in {sweepAt, None, now}
  <1> USE DEF Inv, TypeOK
  <1>1. ASSUME UNCHANGED <<born, now, sweepAt>>
        PROVE  /\ \A c \in Ids : born'[c] = born[c]
               /\ now' \in Nat /\ now <= now'
               /\ sweepAt' \in {sweepAt, None, now}
    BY <1>1 DEF ClockOK
  <1>2. CASE \E k \in SiteKeys : RotateSecret(k) \/ DeleteSite(k)
    BY <1>1, <1>2 DEF RotateSecret, DeleteSite, history, clock
  <1>3. ASSUME NEW p \in Issuers,
               PuzzleLookup(p) \/ PuzzleAdmit(p) \/ PuzzleRefuse(p) \/ PuzzleStore(p)
        PROVE  UNCHANGED <<born, now, sweepAt>>
    BY <1>3 DEF PuzzleLookup, PuzzleAdmit, PuzzleRefuse, PuzzleStore, history, clock
  <1>4. ASSUME NEW p \in Issuers, PuzzleGenerate(p)
        PROVE  /\ \A c \in Ids : born[c] # None => born'[c] = born[c]
               /\ now' \in Nat /\ now <= now' /\ sweepAt' = sweepAt
    BY <1>4 DEF PuzzleGenerate, HistoryOK, ClockOK, clock
  <1>5. ASSUME NEW v \in Verifiers,
               BySecret(v) \/ VerifyStep(v) \/ HashDone(v) \/ HashPanics(v)
                 \/ Abandon(v)
        PROVE  UNCHANGED <<born, now, sweepAt>>
    BY <1>5 DEF BySecret, BySecretOf, VerifyStep, ByKey, GetChallenge,
                GetChallengeOf, CheckExpiry, AcquirePermit, RejectNonce, Consume,
                Score, HashDone, HashPanics, Abandon, history, clock
  <1>6. CASE DetachedHashDone \/ UNCHANGED vars
    BY <1>1, <1>6 DEF DetachedHashDone, vars, history, clock
  <1>7. CASE SweepStart \/ SweepRetain \/ Tick
    BY <1>7 DEF SweepStart, SweepRetain, Tick, history, ClockOK
  <1> QED
    BY <1>1, <1>2, <1>3, <1>4, <1>5, <1>6, <1>7 DEF Next, PuzzleStep

(* An entry of the map came from the entry before, with at most another    *)
(* count of attempts, or from the handler that stores it.                  *)
Carried(c, ch) ==
  /\ challenges'[c].site_key = ch.site_key
  /\ challenges'[c].dwell_since = ch.dwell_since
  /\ challenges'[c].expires_at = ch.expires_at

LEMMA FailedAttemptCarries ==
  ASSUME MapOK, NEW c \in Ids, challenges' = AfterFailedAttempt(c), NEW d \in Ids
  PROVE  challenges'[d] # None => challenges[d] # None /\ Carried(d, challenges[d])
  <1>1. CASE MaxAttempts = 0 \/ challenges[c] = None
    BY <1>1 DEF AfterFailedAttempt, Carried
  <1>2. CASE /\ ~(MaxAttempts = 0 \/ challenges[c] = None)
             /\ challenges[c].attempts + 1 >= MaxAttempts
    BY <1>2 DEF AfterFailedAttempt, Carried, Removed, MapOK
  <1>3. CASE /\ ~(MaxAttempts = 0 \/ challenges[c] = None)
             /\ ~(challenges[c].attempts + 1 >= MaxAttempts)
    <2> DEFINE new == [challenges[c] EXCEPT !.attempts = @ + 1]
    <2>1. challenges' = [challenges EXCEPT ![c] = new]
      BY <1>3 DEF AfterFailedAttempt
    <2>2. challenges[c] \in Challenge
      BY <1>3 DEF MapOK
    <2>3. /\ new.site_key = challenges[c].site_key
          /\ new.dwell_since = challenges[c].dwell_since
          /\ new.expires_at = challenges[c].expires_at
      BY <2>2 DEF Challenge
    <2> HIDE DEF new
    <2> QED BY <1>3, <2>1, <2>3 DEF Carried, MapOK
  <1> QED BY <1>1, <1>2, <1>3

LEMMA EntryStep ==
  ASSUME Inv, [Next]_vars, NEW c \in Ids, challenges'[c] # None
  PROVE  \/ challenges[c] # None /\ Carried(c, challenges[c])
         \/ \E p \in Issuers : /\ ipc[p] = "store" /\ ireq[p].id = c
                               /\ challenges'[c] = ireq[p].challenge
  <1> USE DEF Inv, TypeOK
  <1>1. CASE challenges'[c] = challenges[c]
    BY <1>1 DEF Carried
  <1>2. ASSUME NEW p \in Issuers, PuzzleStore(p), challenges'[c] # challenges[c]
        PROVE  /\ ipc[p] = "store" /\ ireq[p].id = c
               /\ challenges'[c] = ireq[p].challenge
    BY <1>2 DEF PuzzleStore, MapOK
  <1>3. ASSUME NEW v \in Verifiers, RejectNonce(v)
        PROVE  challenges[c] # None /\ Carried(c, challenges[c])
    <2>1. vreq[v].id \in Ids /\ challenges' = AfterFailedAttempt(vreq[v].id)
      BY <1>3 DEF RejectNonce, VerifyOK
    <2> QED BY <2>1, FailedAttemptCarries
  <1>4. ASSUME NEW v \in Verifiers, CheckExpiry(v) \/ Consume(v)
        PROVE  challenges'[c] = challenges[c]
    <2>1. UNCHANGED challenges \/ challenges' = Removed(vreq[v].id)
      BY <1>4 DEF CheckExpiry, Consume
    <2> QED BY <2>1 DEF Removed, MapOK
  <1>5. CASE SweepRetain
    BY <1>1, <1>5 DEF SweepRetain, AfterCleanup
  <1>6. ASSUME \/ \E k \in SiteKeys : RotateSecret(k) \/ DeleteSite(k)
               \/ \E p \in Issuers : \/ PuzzleLookup(p) \/ PuzzleAdmit(p)
                                     \/ PuzzleRefuse(p) \/ PuzzleGenerate(p)
               \/ \E v \in Verifiers :
                    \/ BySecret(v) \/ ByKey(v) \/ GetChallenge(v)
                    \/ AcquirePermit(v) \/ Score(v) \/ HashDone(v)
                    \/ HashPanics(v) \/ Abandon(v)
               \/ DetachedHashDone \/ SweepStart \/ Tick \/ UNCHANGED vars
        PROVE  UNCHANGED challenges
    BY <1>6 DEF RotateSecret, DeleteSite, PuzzleLookup, PuzzleAdmit, PuzzleRefuse,
                PuzzleGenerate, BySecret, BySecretOf, ByKey, GetChallenge,
                GetChallengeOf, AcquirePermit, Score, HashDone, HashPanics, Abandon,
                DetachedHashDone, SweepStart, Tick, vars
  <1> QED
    BY <1>1, <1>2, <1>3, <1>4, <1>5, <1>6 DEF Next, PuzzleStep, VerifyStep

(* A verify handler keeps what it holds, begins with a secret that opens a *)
(* site, or takes a snapshot of an entry of its own site.                  *)
Begins(v) == \E s \in Secrets :
  /\ sites_by_secret[s] # None /\ UNCHANGED sites
  /\ vpc'[v] = "by_key"
  /\ vreq'[v].secret = s /\ vreq'[v].key = sites_by_secret[s]

Fetches(v) == \E c \in Ids :
  /\ vpc[v] = "fetch" /\ vpc'[v] = "expiry" /\ UNCHANGED challenges
  /\ challenges[c] # None /\ challenges[c].site_key = vreq[v].key
  /\ vreq'[v] = [vreq[v] EXCEPT !.id = c, !.expires_at = challenges[c].expires_at]

Keeps(v) ==
  /\ vpc[v] # "idle" /\ vreq'[v] = vreq[v]
  /\ vpc'[v] \in Busy => vpc[v] \in Busy
  /\ vpc'[v] \in Busy \ {"score"} => vpc[v] \in Busy \ {"score"}

LEMMA OneHandler ==
  ASSUME Inv, NEW v \in Verifiers, NEW w \in Verifiers, w # v,
         BySecret(w) \/ VerifyStep(w) \/ HashDone(w) \/ HashPanics(w) \/ Abandon(w)
  PROVE  vpc'[v] = vpc[v] /\ vreq'[v] = vreq[v]
  BY DEF BySecret, BySecretOf, VerifyStep, ByKey, GetChallenge, GetChallengeOf,
         CheckExpiry, AcquirePermit, RejectNonce, Consume, Score, HashDone,
         HashPanics, Abandon, Answer, Goto, Inv, TypeOK, VerifyOK

LEMMA HandlerStep ==
  ASSUME Inv, [Next]_vars, NEW v \in Verifiers, vpc'[v] # "idle"
  PROVE  Keeps(v) \/ Begins(v) \/ Fetches(v)
  <1> USE DEF Inv, TypeOK
  <1>1. ASSUME UNCHANGED vvars PROVE Keeps(v)
    BY <1>1 DEF Keeps, vvars
  <1>2. ASSUME BySecret(v) PROVE Begins(v)
    <2>1. PICK s \in Secrets : BySecretOf(v, s)
      BY <1>2 DEF BySecret
    <2> QED BY <2>1 DEF BySecretOf, Begins, Goto, VerifyOK
  <1>3. ASSUME GetChallenge(v) PROVE Fetches(v)
    <2>1. PICK c \in Ids : GetChallengeOf(v, c)
      BY <1>3 DEF GetChallenge
    <2>2. ~Answer(v)
      BY DEF Answer, Goto, VerifyOK
    <2>3. /\ vpc[v] = "fetch" /\ challenges[c] # None /\ UNCHANGED challenges
          /\ challenges[c].site_key = vreq[v].key
          /\ Goto(v, "expiry")
          /\ vreq' = [vreq EXCEPT ![v].id = c,
                      ![v].expires_at = challenges[c].expires_at]
      BY <2>1, <2>2 DEF GetChallengeOf, OwnChallenge
    <2> QED BY <2>3 DEF Fetches, Goto, VerifyOK
  <1>4. ASSUME ByKey(v) \/ CheckExpiry(v) \/ AcquirePermit(v) \/ Consume(v)
                 \/ HashDone(v)
        PROVE  Keeps(v)
    <2>1. ~Answer(v)
      BY DEF Answer, Goto, VerifyOK
    <2> QED BY <1>4, <2>1 DEF ByKey, CheckExpiry, AcquirePermit, Consume, HashDone,
                              Goto, VerifyOK, Keeps, Busy
  <1>5. ASSUME RejectNonce(v) \/ Score(v) \/ HashPanics(v) \/ Abandon(v)
        PROVE  FALSE
    BY <1>5 DEF RejectNonce, Score, HashPanics, Abandon, Answer, Goto, VerifyOK
  <1>6. ASSUME \/ \E k \in SiteKeys : RotateSecret(k) \/ DeleteSite(k)
               \/ \E p \in Issuers : PuzzleLookup(p) \/ PuzzleStep(p)
               \/ DetachedHashDone \/ SweepStart \/ SweepRetain \/ Tick
               \/ UNCHANGED vars
        PROVE  UNCHANGED vvars
    BY <1>6 DEF RotateSecret, DeleteSite, PuzzleLookup, PuzzleStep, PuzzleAdmit,
                PuzzleRefuse, PuzzleGenerate, PuzzleStore, DetachedHashDone,
                SweepStart, SweepRetain, Tick, vars
  <1>7. ASSUME NEW w \in Verifiers,
               BySecret(w) \/ VerifyStep(w) \/ HashDone(w) \/ HashPanics(w)
                 \/ Abandon(w)
        PROVE  Keeps(v) \/ Begins(v) \/ Fetches(v)
    <2>1. CASE w = v
      BY <1>2, <1>3, <1>4, <1>5, <1>7, <2>1 DEF VerifyStep
    <2>2. CASE w # v
      BY <1>7, <2>2, OneHandler DEF Keeps
    <2> QED BY <2>1, <2>2
  <1> QED BY <1>1, <1>6, <1>7 DEF Next

(* A puzzle handler about to store got there by a mint and holds it since. *)
LEMMA IssueStep ==
  ASSUME Inv, [Next]_vars, NEW q \in Issuers, ipc'[q] = "store"
  PROVE  \/ ipc[q] = "store" /\ ireq'[q] = ireq[q]
         \/ PuzzleGenerate(q)
  <1> USE DEF Inv, TypeOK
  <1>1. ASSUME NEW p \in Issuers, PuzzleLookup(p) \/ PuzzleStep(p), ~PuzzleGenerate(q)
        PROVE  ipc[q] = "store" /\ ireq'[q] = ireq[q]
    <2>1. ASSUME p = q PROVE FALSE
      BY <1>1, <2>1 DEF PuzzleLookup, PuzzleStep, PuzzleAdmit, PuzzleRefuse,
                        PuzzleStore, Decline, IssueOK
    <2>2. p # q
      BY <2>1
    <2> QED BY <1>1, <2>2 DEF PuzzleLookup, PuzzleStep, PuzzleAdmit, PuzzleRefuse,
                              PuzzleGenerate, PuzzleStore, Decline, IssueOK
  <1>2. ASSUME ~\E p \in Issuers : PuzzleLookup(p) \/ PuzzleStep(p)
        PROVE  UNCHANGED ivars
    BY <1>2 DEF Next, RotateSecret, DeleteSite, BySecret, BySecretOf, VerifyStep,
                ByKey, GetChallenge, GetChallengeOf, CheckExpiry, AcquirePermit,
                RejectNonce, Consume, Score, HashDone, HashPanics, Abandon,
                DetachedHashDone, SweepStart, SweepRetain, Tick, vars
  <1> QED BY <1>1, <1>2 DEF ivars

(* A mint draws an id that was never in use and has no attempt counted.    *)
LEMMA GenerateFresh ==
  ASSUME Inv, NEW p \in Issuers, PuzzleGenerate(p)
  PROVE  /\ ireq'[p].id \in Ids /\ born[ireq'[p].id] = None
         /\ ireq'[p].challenge.attempts = 0
         /\ UNCHANGED invalid
  BY DEF PuzzleGenerate, Inv, TypeOK, IssueOK

(* Once stored, a challenge is never on its way to the map again.          *)
LEMMA StoredOnce ==
  ASSUME Inv, [Next]_vars, NEW c \in Ids, born[c] # None, ~Pending(c)
  PROVE  ~Pending(c)'
  <1> SUFFICES ASSUME NEW q \in Issuers, ipc'[q] = "store", ireq'[q].id = c
               PROVE  FALSE
    BY DEF Pending
  <1>1. CASE ipc[q] = "store" /\ ireq'[q] = ireq[q]
    BY <1>1 DEF Pending
  <1>2. CASE PuzzleGenerate(q)
    BY <1>2, GenerateFresh
  <1> QED BY <1>1, <1>2, IssueStep

(* What an issued secret is for is written once; a site's secret changes   *)
(* only to one that was never issued.                                      *)
LEMMA SitesStep ==
  ASSUME Inv, [Next]_vars
  PROVE  \/ UNCHANGED sites
         \/ \E k \in SiteKeys : RotateSecret(k) \/ DeleteSite(k)
  BY DEF Next, PuzzleLookup, PuzzleStep, PuzzleAdmit, PuzzleRefuse, PuzzleGenerate,
         PuzzleStore, BySecret, BySecretOf, VerifyStep, ByKey, GetChallenge,
         GetChallengeOf, CheckExpiry, AcquirePermit, RejectNonce, Consume, Score,
         HashDone, HashPanics, Abandon, DetachedHashDone, SweepStart, SweepRetain,
         Tick, vars

LEMMA OwnerStays ==
  ASSUME Inv, [Next]_vars, NEW s \in Secrets, owner[s] # None
  PROVE  owner'[s] = owner[s]
  BY SitesStep DEF RotateSecret, DeleteSite, sites, Inv, TypeOK, SitesOK

-----------------------------------------------------------------------------
(* The invariant                                                           *)

LEMMA AuthNext ==
  ASSUME Inv, AuthInv, [Next]_vars
  PROVE  AuthInv'
  <1> USE DEF Inv, TypeOK
  <1>1. ASSUME NEW s \in Secrets, sites_by_secret'[s] # None
        PROVE  /\ owner'[s] = sites_by_secret'[s]
               /\ sites_by_key'[sites_by_secret'[s]] = s
    <2>1. CASE UNCHANGED sites
      BY <1>1, <2>1 DEF AuthInv, sites
    <2>2. ASSUME NEW k \in SiteKeys, RotateSecret(k)
          PROVE  /\ owner'[s] = sites_by_secret'[s]
                 /\ sites_by_key'[sites_by_secret'[s]] = s
      <3>1. PICK t \in Secrets :
              /\ sites_by_key[k] # None /\ owner[t] = None
              /\ sites_by_secret' = [sites_by_secret EXCEPT ![sites_by_key[k]] = None,
                                                            ![t] = k]
              /\ sites_by_key' = [sites_by_key EXCEPT ![k] = t]
              /\ owner' = [owner EXCEPT ![t] = k]
        BY <2>2 DEF RotateSecret
      <3>2. CASE s = t
        BY <3>1, <3>2 DEF SitesOK
      <3>3. CASE s # t
        <4>1. sites_by_secret'[s] = sites_by_secret[s] /\ s # sites_by_key[k]
          BY <1>1, <3>1, <3>3 DEF SitesOK
        <4>2. sites_by_secret[s] # k
          BY <1>1, <4>1 DEF AuthInv
        <4> QED BY <1>1, <3>1, <3>3, <4>1, <4>2 DEF AuthInv, SitesOK
      <3> QED BY <3>2, <3>3
    <2>3. ASSUME NEW k \in SiteKeys, DeleteSite(k)
          PROVE  /\ owner'[s] = sites_by_secret'[s]
                 /\ sites_by_key'[sites_by_secret'[s]] = s
      <3>1. sites_by_secret'[s] = sites_by_secret[s] /\ s # sites_by_key[k]
        BY <1>1, <2>3 DEF DeleteSite, SitesOK
      <3>2. sites_by_secret[s] # k
        BY <1>1, <3>1 DEF AuthInv
      <3> QED BY <1>1, <2>3, <3>1, <3>2 DEF AuthInv, DeleteSite, SitesOK
    <2> QED BY <2>1, <2>2, <2>3, SitesStep
  <1>2. ASSUME NEW v \in Verifiers, vpc'[v] # "idle"
        PROVE  owner'[vreq'[v].secret] = vreq'[v].key
    <2>1. ASSUME vpc[v] # "idle"
          PROVE  owner'[vreq[v].secret] = vreq[v].key
      BY <2>1, OwnerStays, NoneAssumption DEF AuthInv, VerifyOK
    <2>2. CASE Keeps(v)
      BY <2>1, <2>2 DEF Keeps
    <2>3. CASE Begins(v)
      BY <2>3 DEF Begins, AuthInv, sites
    <2>4. CASE Fetches(v)
      <3>1. vreq'[v].secret = vreq[v].secret /\ vreq'[v].key = vreq[v].key
        BY <2>4 DEF Fetches, VerifyOK
      <3> QED BY <2>1, <2>4, <3>1 DEF Fetches
    <2> QED BY <1>2, <2>2, <2>3, <2>4, HandlerStep
  <1> QED BY <1>1, <1>2 DEF AuthInv

(* A copy that agreed with its mint agrees with it after every step.       *)
LEMMA MintedStays ==
  ASSUME Inv, [Next]_vars, NEW c \in Ids, NEW ch, Minted(c, ch)
  PROVE  Minted(c, ch)'
  <1>1. born[c] \in Birth /\ born[c].root \in Ids
    BY DEF Minted, Inv, TypeOK, HistoryOK, Birth
  <1>2. born'[c] = born[c] /\ born'[born[c].root] = born[born[c].root]
    BY <1>1, HistoryStep DEF Minted
  <1>3. born[c].created_at <= now'
    BY <1>1, HistoryStep DEF Minted, Birth, Inv, TypeOK, ClockOK
  <1> QED BY <1>2, <1>3 DEF Minted

LEMMA EntriesNext ==
  ASSUME Inv, EntriesInv, MintsInv, [Next]_vars
  PROVE  EntriesInv'
  <1> SUFFICES ASSUME NEW c \in Ids, challenges'[c] # None
               PROVE  Minted(c, challenges[c])'
    BY DEF EntriesInv
  <1>1. ASSUME NEW ch, Minted(c, ch), Carried(c, ch)
        PROVE  Minted(c, challenges[c])'
    <2>1. Minted(c, ch)'
      BY <1>1, MintedStays
    <2> QED BY <1>1, <2>1 DEF Minted, Carried
  <1>2. CASE challenges[c] # None /\ Carried(c, challenges[c])
    BY <1>1, <1>2 DEF EntriesInv
  <1>3. ASSUME NEW p \in Issuers, ipc[p] = "store", ireq[p].id = c,
               challenges'[c] = ireq[p].challenge
        PROVE  Minted(c, challenges[c])'
    BY <1>1, <1>3 DEF MintsInv, Carried
  <1> QED BY <1>2, <1>3, EntryStep

(* A mint inherits its anchor from an entry of its own site or starts one. *)
LEMMA GenerateMints ==
  ASSUME Inv, EntriesInv, NEW p \in Issuers, PuzzleGenerate(p)
  PROVE  ipc'[p] = "store" /\ Minted(ireq[p].id, ireq[p].challenge)'
  <1> USE DEF Inv, TypeOK
  <1> DEFINE k == ireq[p].site_key
             Ch(r) == [site_key |-> k, dwell_since |-> DwellSince(k, r),
                       expires_at |-> now + TTL, attempts |-> 0]
             Root(c, r) == IF Inherits(k, r) THEN born[r].root ELSE c
  <1>1. PICK c \in Ids, r \in Ids \cup {None} :
          /\ ipc[p] = "generate" /\ born[c] = None
          /\ ipc' = [ipc EXCEPT ![p] = "store"]
          /\ ireq' = [ireq EXCEPT ![p] = [site_key |-> k, id |-> c,
                                          challenge |-> Ch(r)]]
          /\ born' = [born EXCEPT ![c] = [site_key |-> k, created_at |-> now,
                                          root |-> Root(c, r)]]
          /\ UNCHANGED now
    BY DEF PuzzleGenerate, clock
  <1> DEFINE b == [site_key |-> k, created_at |-> now, root |-> Root(c, r)]
  <1>2. ireq'[p].id = c /\ ireq'[p].challenge = Ch(r) /\ ipc'[p] = "store"
    BY <1>1 DEF IssueOK
  <1>3. born'[c] = b /\ \A d \in Ids \ {c} : born'[d] = born[d]
    BY <1>1 DEF HistoryOK
  <1>4. k \in SiteKeys /\ now \in Nat /\ TTL \in Nat
    BY <1>1, ParametersAssumption DEF IssueOK, ClockOK
  <1>5. b \in Birth
    <2>1. Inherits(k, r) => r \in Ids /\ born[r] \in Birth
      BY DEF Inherits, EntriesInv, Minted, HistoryOK
    <2>2. Root(c, r) \in Ids
      BY <2>1 DEF Birth
    <2> HIDE DEF k, Root
    <2> QED BY <1>4, <2>2 DEF Birth
  <1>6. b # None
    BY <1>5, NoneAssumption
  <1>7. CASE ~Inherits(k, r)
    <2>1. b.root = c /\ Ch(r).dwell_since = now
      BY <1>7 DEF DwellSince
    <2> QED BY <1>1, <1>2, <1>3, <1>4, <1>6, <2>1 DEF Minted
  <1>8. CASE Inherits(k, r)
    <2>1. r \in Ids /\ Minted(r, challenges[r]) /\ challenges[r].site_key = k
      BY <1>8 DEF Inherits, EntriesInv
    <2>2. /\ born[r] \in Birth /\ born[r].root \in Ids \ {c}
          /\ born[born[r].root] \in Birth
      BY <1>1, <2>1 DEF Minted, HistoryOK, Birth
    <2>3. /\ b.root = born[r].root /\ Ch(r).dwell_since = challenges[r].dwell_since
          /\ born'[born[r].root] = born[born[r].root]
      BY <1>3, <1>8, <2>2 DEF DwellSince
    <2>4. born[born[r].root].created_at <= now
      BY <1>4, <2>1, <2>2 DEF Minted, Birth
    <2>5. /\ born'[b.root] # None /\ born'[b.root].site_key = k
          /\ born'[b.root].created_at = Ch(r).dwell_since
          /\ born'[b.root].created_at <= now
      BY <2>1, <2>3, <2>4 DEF Minted
    <2> QED BY <1>1, <1>2, <1>3, <1>4, <1>6, <2>5 DEF Minted
  <1> QED BY <1>7, <1>8

LEMMA MintsNext ==
  ASSUME Inv, EntriesInv, MintsInv, [Next]_vars
  PROVE  MintsInv'
  <1> USE DEF Inv, TypeOK
  <1> SUFFICES ASSUME NEW q \in Issuers, ipc'[q] = "store"
               PROVE  Minted(ireq[q].id, ireq[q].challenge)'
    BY DEF MintsInv
  <1>1. CASE ipc[q] = "store" /\ ireq'[q] = ireq[q]
    <2>1. /\ ireq[q].id \in Ids /\ ireq[q].challenge \in Challenge
          /\ Minted(ireq[q].id, ireq[q].challenge)
      BY <1>1 DEF MintsInv, IssueOK
    <2>2. PICK id \in Ids, ch \in Challenge : id = ireq[q].id /\ ch = ireq[q].challenge
      BY <2>1
    <2>3. Minted(id, ch)
      BY <2>1, <2>2
    <2>4. Minted(id, ch)'
      BY <2>3, MintedStays
    <2>5. id = ireq'[q].id /\ ch = ireq'[q].challenge
      BY <1>1, <2>2
    <2> QED BY <2>4, <2>5 DEF Minted
  <1>2. CASE PuzzleGenerate(q)
    BY <1>2, GenerateMints
  <1> QED BY <1>1, <1>2, IssueStep

LEMMA SnapshotsNext ==
  ASSUME Inv, EntriesInv, SnapshotsInv, [Next]_vars
  PROVE  SnapshotsInv'
  <1> USE DEF Inv, TypeOK
  <1> SUFFICES ASSUME NEW v \in Verifiers, vpc'[v] \in Busy
               PROVE  /\ born'[vreq'[v].id] # None
                      /\ ~Pending(vreq[v].id)'
                      /\ born'[vreq'[v].id].site_key = vreq'[v].key
                      /\ vreq'[v].expires_at = born'[vreq'[v].id].created_at + TTL
    BY DEF SnapshotsInv
  <1>1. CASE Keeps(v)
    <2>1. vpc[v] \in Busy /\ vreq'[v] = vreq[v] /\ vreq[v].id \in Ids
      BY <1>1 DEF Keeps, VerifyOK, Busy
    <2>2. PICK c \in Ids : c = vreq[v].id
      BY <2>1
    <2>3. ~Pending(c)'
      BY <2>1, <2>2, StoredOnce DEF SnapshotsInv
    <2> QED BY <2>1, <2>2, <2>3, HistoryStep DEF SnapshotsInv, Pending
  <1>2. CASE Begins(v)
    BY <1>2 DEF Begins, Busy
  <1>3. CASE Fetches(v)
    <2>1. PICK c \in Ids :
            /\ challenges[c] # None /\ challenges[c].site_key = vreq[v].key
            /\ UNCHANGED challenges
            /\ vreq'[v] = [vreq[v] EXCEPT !.id = c,
                                          !.expires_at = challenges[c].expires_at]
      BY <1>3 DEF Fetches
    <2>2. /\ vreq'[v].id = c /\ vreq'[v].key = vreq[v].key
          /\ vreq'[v].expires_at = challenges[c].expires_at
      BY <2>1 DEF VerifyOK
    <2>3. Minted(c, challenges[c])
      BY <2>1 DEF EntriesInv
    <2>4. ~Pending(vreq[v].id)'
      <3>1. StoreInv'
        BY InvNext DEF Inv
      <3> QED BY <2>1, <2>2, <3>1 DEF StoreInv, Pending
    <2> QED BY <2>1, <2>2, <2>3, <2>4, HistoryStep DEF Minted
  <1> QED BY <1>1, <1>2, <1>3, HandlerStep DEF Busy

LEMMA OriginNext == Inv /\ OriginInv /\ [Next]_vars => OriginInv'
  <1> SUFFICES ASSUME Inv, OriginInv, [Next]_vars PROVE OriginInv'
    OBVIOUS
  <1>1. SweepInv'
    BY HistoryStep DEF OriginInv, SweepInv, Inv, TypeOK, ClockOK
  <1> QED BY <1>1, AuthNext, EntriesNext, MintsNext, SnapshotsNext DEF OriginInv

LEMMA OriginAlways == Spec => [](Inv /\ OriginInv)
  <1>1. Init => OriginInv
    <2> SUFFICES ASSUME Init PROVE OriginInv
      OBVIOUS
    <2>1. ASSUME NEW s \in Secrets, sites_by_secret[s] # None
          PROVE  sites_by_key[sites_by_secret[s]] = s
      BY <2>1 DEF Init
    <2>2. AuthInv
      BY <2>1 DEF Init, AuthInv
    <2>3. EntriesInv /\ MintsInv /\ SnapshotsInv /\ SweepInv
      BY DEF Init, EntriesInv, MintsInv, SnapshotsInv, Busy, SweepInv
    <2> QED BY <2>2, <2>3 DEF OriginInv
  <1> QED BY <1>1, OriginNext, InvAlways, PTL DEF Spec

-----------------------------------------------------------------------------
(* A verify handler only ever works on a challenge of the site its secret  *)
(* was issued to, whatever rotations and deletions overtake it.            *)
THEOREM TenantIsolationHolds == Spec => []TenantIsolation
  <1>1. Inv /\ OriginInv => TenantIsolation
    BY DEF OriginInv, AuthInv, SnapshotsInv, Busy, TenantIsolation
  <1> QED BY <1>1, OriginAlways, PTL

(* A refresh chain of any length passes on the arrival of its visitor, and *)
(* only within one site.                                                   *)
THEOREM DwellIsArrivalHolds == Spec => []DwellIsArrival
  <1>1. Inv /\ OriginInv => DwellIsArrival
    BY DEF OriginInv, EntriesInv, Minted, Live, DwellIsArrival
  <1> QED BY <1>1, OriginAlways, PTL

(* A revoked secret is out of the index, so no further call gets in.       *)
LEMMA RevokedStaysOut ==
  ASSUME Inv, OriginInv, [Next]_vars, NEW s \in Secrets, NEW v \in Verifiers,
         Revoked(s), vreq[v].secret # s
  PROVE  vreq'[v].secret # s
  <1> USE DEF Inv, TypeOK
  <1>1. sites_by_secret[s] = None
    BY DEF OriginInv, AuthInv, Revoked
  <1>2. CASE vpc'[v] = "idle"
    <2>1. vreq'[v] \in {vreq[v], NoVerify}
      BY <1>2 DEF Next, RotateSecret, DeleteSite, PuzzleLookup, PuzzleStep,
           PuzzleAdmit, PuzzleRefuse, PuzzleGenerate, PuzzleStore, BySecret,
           BySecretOf, VerifyStep, ByKey, GetChallenge, GetChallengeOf, CheckExpiry,
           AcquirePermit, RejectNonce, Consume, Score, HashDone, HashPanics, Abandon,
           DetachedHashDone, SweepStart, SweepRetain, Tick, vars, vvars, Answer,
           Goto, VerifyOK
    <2> QED BY <2>1, NoneAssumption DEF NoVerify
  <1>3. CASE Keeps(v)
    BY <1>3 DEF Keeps
  <1>4. CASE Begins(v)
    BY <1>1, <1>4 DEF Begins
  <1>5. CASE Fetches(v)
    BY <1>5 DEF Fetches, VerifyOK
  <1> QED BY <1>2, <1>3, <1>4, <1>5, HandlerStep

(* From the step that rotates or deletes it on, no request authenticates   *)
(* with the old secret.                                                    *)
THEOREM RotationHolds == Spec => RotationTakesHold
  <1>1. Inv /\ OriginInv /\ [Next]_vars =>
          [\A s \in Secrets, v \in Verifiers :
             Revoked(s) /\ vreq[v].secret # s => vreq[v].secret' # s]_vars
    BY RevokedStaysOut
  <1> QED BY <1>1, OriginAlways, PTL DEF Spec, RotationTakesHold

(* Every way out of the map.                                               *)
LEMMA LossStep ==
  ASSUME Inv, OriginInv, [Next]_vars, NEW c \in Ids,
         challenges[c] # None, challenges'[c] = None
  PROVE  \/ solved'[c] > solved[c]
         \/ challenges[c].expires_at <= now
         \/ /\ MaxAttempts > 0 /\ challenges[c].attempts >= MaxAttempts - 1
            /\ invalid'[c] = invalid[c] + 1
  <1> USE DEF Inv, TypeOK
  <1>0. challenges[c] \in Challenge /\ Minted(c, challenges[c])
    BY DEF MapOK, OriginInv, EntriesInv
  <1>1. ASSUME NEW v \in Verifiers, CheckExpiry(v)
        PROVE  challenges[c].expires_at <= now
    <2>1. c = vreq[v].id /\ vreq[v].expires_at < now
      BY <1>1 DEF CheckExpiry, Removed, MapOK
    <2>2. vreq[v].expires_at = challenges[c].expires_at
      BY <1>0, <1>1, <2>1 DEF CheckExpiry, OriginInv, SnapshotsInv, Busy, Minted
    <2> QED BY <2>1, <2>2, <1>0 DEF Challenge, ClockOK
  <1>2. ASSUME NEW v \in Verifiers, RejectNonce(v)
        PROVE  /\ MaxAttempts > 0 /\ challenges[c].attempts >= MaxAttempts - 1
               /\ invalid'[c] = invalid[c] + 1
    <2> DEFINE d == vreq[v].id
    <2>1. d \in Ids /\ challenges' = AfterFailedAttempt(d)
      BY <1>2 DEF RejectNonce, VerifyOK
    <2>2. MaxAttempts # 0 /\ challenges[d] # None
      BY <2>1 DEF AfterFailedAttempt
    <2>3. challenges[d].attempts + 1 >= MaxAttempts
      <3>1. SUFFICES ASSUME ~(challenges[d].attempts + 1 >= MaxAttempts) PROVE FALSE
        OBVIOUS
      <3> DEFINE new == [challenges[d] EXCEPT !.attempts = @ + 1]
      <3>2. challenges' = [challenges EXCEPT ![d] = new]
        BY <2>1, <2>2, <3>1 DEF AfterFailedAttempt
      <3>3. new \in Challenge
        BY <2>1, <2>2 DEF MapOK, Challenge
      <3> HIDE DEF new, d
      <3> QED BY <2>1, <3>2, <3>3, NoneAssumption DEF MapOK
    <2>4. c = d
      BY <2>1, <2>2, <2>3 DEF AfterFailedAttempt, Removed, MapOK
    <2>5. invalid'[c] = invalid[c] + 1
      BY <1>2, <2>2, <2>4 DEF RejectNonce, HistoryOK
    <2> HIDE DEF d
    <2> QED BY <1>0, <2>2, <2>3, <2>4, <2>5, ParametersAssumption DEF Challenge
  <1>3. ASSUME NEW v \in Verifiers, Consume(v)
        PROVE  solved'[c] > solved[c]
    <2>1. c = vreq[v].id /\ solved' = [solved EXCEPT ![c] = @ + 1]
      BY <1>3 DEF Consume, Removed, MapOK
    <2> QED BY <2>1 DEF HistoryOK
  <1>4. ASSUME SweepRetain
        PROVE  challenges[c].expires_at <= now
    <2>1. sweepAt \in Nat /\ sweepAt <= now
      BY <1>4 DEF SweepRetain, OriginInv, SweepInv, ClockOK
    <2>2. ~(challenges[c].expires_at > sweepAt)
      BY <1>4 DEF SweepRetain, AfterCleanup
    <2> QED BY <1>0, <2>1, <2>2 DEF Challenge, ClockOK
  <1>5. ASSUME NEW p \in Issuers, PuzzleStore(p)
        PROVE  FALSE
    BY <1>5, NoneAssumption DEF PuzzleStore, MapOK, IssueOK
  <1>6. ASSUME \/ \E k \in SiteKeys : RotateSecret(k) \/ DeleteSite(k)
               \/ \E p \in Issuers : \/ PuzzleLookup(p) \/ PuzzleAdmit(p)
                                     \/ PuzzleRefuse(p) \/ PuzzleGenerate(p)
               \/ \E v \in Verifiers :
                    \/ BySecret(v) \/ ByKey(v) \/ GetChallenge(v)
                    \/ AcquirePermit(v) \/ Score(v) \/ HashDone(v)
                    \/ HashPanics(v) \/ Abandon(v)
               \/ DetachedHashDone \/ SweepStart \/ Tick \/ UNCHANGED vars
        PROVE  FALSE
    BY <1>6 DEF RotateSecret, DeleteSite, PuzzleLookup, PuzzleAdmit, PuzzleRefuse,
                PuzzleGenerate, BySecret, BySecretOf, ByKey, GetChallenge,
                GetChallengeOf, AcquirePermit, Score, HashDone, HashPanics, Abandon,
                DetachedHashDone, SweepStart, Tick, vars
  <1> QED
    BY <1>1, <1>2, <1>3, <1>4, <1>5, <1>6 DEF Next, PuzzleStep, VerifyStep

(* A challenge leaves the map redeemed, expired or worn out, never because *)
(* a handler or the sweeper acted on an old snapshot or an old clock.      *)
THEOREM NoPrematureLossHolds == Spec => NoPrematureLoss
  <1>1. Inv /\ OriginInv /\ [Next]_vars =>
          [\A c \in Ids : challenges[c] # None /\ challenges'[c] = None =>
             \/ solved'[c] > solved[c]
             \/ challenges[c].expires_at <= now
             \/ MaxAttempts > 0 /\ challenges[c].attempts >= MaxAttempts - 1]_vars
    BY LossStep
  <1> QED BY <1>1, OriginAlways, PTL DEF Spec, NoPrematureLoss

-----------------------------------------------------------------------------
(***************************************************************************)
(* Counting proofs about ChallengeService: by how much the map overshoots  *)
(* its ceiling, how often one challenge is answered, and that a challenge  *)
(* that is gone was used up.                                               *)
(***************************************************************************)

(* Cardinality of the sets the bounds are about.                           *)
LEMMA SubsetCardinality ==
  ASSUME NEW T, IsFiniteSet(T), NEW S, S \subseteq T
  PROVE  /\ IsFiniteSet(S)
         /\ Cardinality(S) \in Nat /\ Cardinality(T) \in Nat
         /\ Cardinality(S) <= Cardinality(T)
  <1>1. S \in SUBSET T
    OBVIOUS
  <1> QED BY <1>1, FS_Subset, FS_CardinalityType

LEMMA RemoveOne ==
  ASSUME NEW T, IsFiniteSet(T), NEW x \in T, NEW S, S \subseteq T \ {x}
  PROVE  Cardinality(S) <= Cardinality(T) - 1
  <1>1. IsFiniteSet(T \ {x}) /\ Cardinality(T \ {x}) = Cardinality(T) - 1
    BY FS_RemoveElement
  <1> QED BY <1>1, SubsetCardinality

LEMMA AddOne ==
  ASSUME NEW T, IsFiniteSet(T), NEW x, NEW S, S \subseteq T \cup {x}
  PROVE  Cardinality(S) <= Cardinality(T) + 1
  <1>1. /\ IsFiniteSet(T \cup {x}) /\ Cardinality(T) \in Nat
        /\ Cardinality(T \cup {x}) <= Cardinality(T) + 1
    BY FS_AddElement, FS_CardinalityType
  <1> QED BY <1>1, SubsetCardinality

-----------------------------------------------------------------------------
(* Capacity                                                                *)

(* Handlers past the capacity check that have not stored yet.              *)
Admitted == {p \in Issuers : ipc[p] \in {"generate", "store"}}

(* The entries and the handlers on their way to one: OvershootBounded      *)
(* alone says nothing of how many may still store.                         *)
CapacityInv == MaxActive > 0 =>
  Cardinality(Live) + Cardinality(Admitted)
    <= MaxActive - 1 + Cardinality(Issuers)

LEMMA CapacityFinite ==
  /\ IsFiniteSet(Live) /\ Cardinality(Live) \in Nat
  /\ IsFiniteSet(Admitted) /\ Cardinality(Admitted) \in Nat
  /\ Cardinality(Issuers) \in Nat /\ Cardinality(Admitted) <= Cardinality(Issuers)
  <1>1. Live \subseteq Ids /\ Admitted \subseteq Issuers
    BY DEF Live, Admitted
  <1> QED BY <1>1, FiniteAssumption, SubsetCardinality

(* Only store_challenge adds an entry.                                     *)
LEMMA OnlyStoreAdds ==
  ASSUME Inv, [Next]_vars, ~\E p \in Issuers : PuzzleStore(p)
  PROVE  Live' \subseteq Live
  <1> USE DEF Inv, TypeOK
  <1> SUFFICES ASSUME NEW c \in Ids, challenges'[c] # None, challenges[c] = None
               PROVE  FALSE
    BY DEF Live
  <1>1. ASSUME NEW v \in Verifiers, CheckExpiry(v) \/ RejectNonce(v) \/ Consume(v)
        PROVE  FALSE
    <2>1. vreq[v].id \in Ids
      BY <1>1 DEF CheckExpiry, RejectNonce, Consume, VerifyOK
    <2>2. Shrinks(challenges')
      BY <1>1, <2>1, StoreOpsShrink
         DEF CheckExpiry, RejectNonce, Consume, MapOK, Shrinks
    <2> QED BY <2>2 DEF Shrinks
  <1>2. CASE SweepRetain
    BY <1>2 DEF SweepRetain, AfterCleanup
  <1>3. ASSUME \/ \E k \in SiteKeys : RotateSecret(k) \/ DeleteSite(k)
               \/ \E p \in Issuers : \/ PuzzleLookup(p) \/ PuzzleAdmit(p)
                                     \/ PuzzleRefuse(p) \/ PuzzleGenerate(p)
               \/ \E v \in Verifiers :
                    \/ BySecret(v) \/ ByKey(v) \/ GetChallenge(v)
                    \/ AcquirePermit(v) \/ Score(v) \/ HashDone(v)
                    \/ HashPanics(v) \/ Abandon(v)
               \/ DetachedHashDone \/ SweepStart \/ Tick \/ UNCHANGED vars
        PROVE  FALSE
    BY <1>3 DEF RotateSecret, DeleteSite, PuzzleLookup, PuzzleAdmit, PuzzleRefuse,
                PuzzleGenerate, BySecret, BySecretOf, ByKey, GetChallenge,
                GetChallengeOf, AcquirePermit, Score, HashDone, HashPanics, Abandon,
                DetachedHashDone, SweepStart, Tick, vars
  <1> QED BY <1>1, <1>2, <1>3 DEF Next, PuzzleStep, VerifyStep

LEMMA CapacityNext == Inv /\ CapacityInv /\ [Next]_vars => CapacityInv'
  <1> SUFFICES ASSUME Inv, CapacityInv, [Next]_vars, MaxActive > 0
               PROVE  Cardinality(Live') + Cardinality(Admitted')
                        <= MaxActive - 1 + Cardinality(Issuers)
    BY DEF CapacityInv
  <1> USE CapacityFinite DEF Inv, TypeOK
  <1>0. /\ MaxActive \in Nat
        /\ IsFiniteSet(Live') /\ Cardinality(Live') \in Nat
        /\ IsFiniteSet(Admitted') /\ Cardinality(Admitted') \in Nat
        /\ Cardinality(Admitted') <= Cardinality(Issuers)
    <2>1. Live' \subseteq Ids /\ Admitted' \subseteq Issuers
      BY DEF Live, Admitted
    <2> QED BY <2>1, ParametersAssumption, FiniteAssumption, SubsetCardinality
  <1>1. ASSUME NEW p \in Issuers, PuzzleAdmit(p)
        PROVE  Cardinality(Live') + Cardinality(Admitted')
                 <= MaxActive - 1 + Cardinality(Issuers)
    <2>1. Live' = Live /\ Cardinality(Live) < MaxActive
      BY <1>0, <1>1 DEF PuzzleAdmit, OverCapacity, Live
    <2> QED BY <1>0, <2>1
  <1>2. ASSUME NEW p \in Issuers, PuzzleStore(p)
        PROVE  Cardinality(Live') + Cardinality(Admitted')
                 <= MaxActive - 1 + Cardinality(Issuers)
    <2>1. p \in Admitted /\ Admitted' \subseteq Admitted \ {p}
      BY <1>2 DEF PuzzleStore, Decline, Admitted, IssueOK
    <2>2. Cardinality(Admitted') <= Cardinality(Admitted) - 1
      BY <2>1, RemoveOne
    <2>3. Live' \subseteq Live \cup {ireq[p].id}
      BY <1>2 DEF PuzzleStore, Live, MapOK
    <2>4. Cardinality(Live') <= Cardinality(Live) + 1
      BY <2>3, AddOne
    <2> QED BY <1>0, <2>2, <2>4 DEF CapacityInv
  <1>3. ASSUME ~\E p \in Issuers : PuzzleStore(p) \/ PuzzleAdmit(p)
        PROVE  Cardinality(Live') + Cardinality(Admitted')
                 <= MaxActive - 1 + Cardinality(Issuers)
    <2>1. Cardinality(Live') <= Cardinality(Live)
      BY <1>3, OnlyStoreAdds, SubsetCardinality
    <2>2. Admitted' \subseteq Admitted
      <3>1. ASSUME NEW p \in Issuers,
                   PuzzleLookup(p) \/ PuzzleRefuse(p) \/ PuzzleGenerate(p)
            PROVE  Admitted' \subseteq Admitted
        BY <3>1 DEF PuzzleLookup, PuzzleRefuse, Decline, PuzzleGenerate, Admitted,
                    IssueOK
      <3>2. ASSUME ~\E p \in Issuers : PuzzleLookup(p) \/ PuzzleStep(p)
            PROVE  UNCHANGED ipc
        BY <3>2 DEF Next, RotateSecret, DeleteSite, BySecret, BySecretOf, VerifyStep,
                ByKey, GetChallenge, GetChallengeOf, CheckExpiry, AcquirePermit,
                RejectNonce, Consume, Score, HashDone, HashPanics, Abandon,
                DetachedHashDone, SweepStart, SweepRetain, Tick, vars, ivars
      <3> QED BY <1>3, <3>1, <3>2 DEF PuzzleStep, Admitted
    <2>3. Cardinality(Admitted') <= Cardinality(Admitted)
      BY <2>2, SubsetCardinality
    <2> QED BY <1>0, <2>1, <2>3 DEF CapacityInv
  <1> QED BY <1>1, <1>2, <1>3

(* However many puzzle requests pass the capacity check together, the map  *)
(* overshoots its ceiling by less than their number.                       *)
THEOREM OvershootHolds == Spec => []OvershootBounded
  <1>1. Init => CapacityInv
    <2> SUFFICES ASSUME Init, MaxActive > 0 PROVE CapacityInv
      BY DEF CapacityInv
    <2>1. Live = {} /\ Admitted = {}
      BY DEF Init, Live, Admitted
    <2> QED BY <2>1, FS_EmptySet, CapacityFinite, ParametersAssumption DEF CapacityInv
  <1>2. CapacityInv => OvershootBounded
    BY CapacityFinite, ParametersAssumption DEF CapacityInv, OvershootBounded
  <1> QED BY <1>1, <1>2, CapacityNext, InvAlways, PTL DEF Spec

-----------------------------------------------------------------------------
(* Attempts                                                                *)

(* The count in an entry is the number of pow_invalid answers, below the   *)
(* cap; a challenge that is not in the map yet has none.                   *)
AttemptsInv == MaxAttempts > 0 =>
  /\ \A c \in Ids : challenges[c] # None =>
       /\ invalid[c] = challenges[c].attempts
       /\ challenges[c].attempts < MaxAttempts
  /\ \A c \in Ids : born[c] = None => invalid[c] = 0
  /\ \A p \in Issuers : ipc[p] = "store" =>
       ireq[p].challenge.attempts = 0 /\ invalid[ireq[p].id] = 0

(* Only a wrong nonce changes the count of an entry, and of answers.       *)
LEMMA OnlyRejectCounts ==
  ASSUME Inv, [Next]_vars, ~\E v \in Verifiers : RejectNonce(v)
  PROVE  /\ UNCHANGED invalid
         /\ \A c \in Ids : challenges'[c] # None =>
              \/ challenges'[c] = challenges[c]
              \/ \E p \in Issuers : /\ ipc[p] = "store" /\ ireq[p].id = c
                                    /\ challenges'[c] = ireq[p].challenge
  <1> USE DEF Inv, TypeOK
  <1>1. ASSUME NEW v \in Verifiers, CheckExpiry(v) \/ Consume(v)
        PROVE  /\ UNCHANGED invalid
               /\ \A c \in Ids : challenges'[c] # None => challenges'[c] = challenges[c]
    <2>1. UNCHANGED challenges \/ challenges' = Removed(vreq[v].id)
      BY <1>1 DEF CheckExpiry, Consume
    <2>2. UNCHANGED invalid
      BY <1>1 DEF CheckExpiry, Consume, history
    <2> QED BY <2>1, <2>2 DEF Removed, MapOK
  <1>2. CASE SweepRetain
    BY <1>2 DEF SweepRetain, AfterCleanup, history
  <1>3. ASSUME NEW p \in Issuers, PuzzleStore(p)
        PROVE  /\ UNCHANGED invalid
               /\ \A c \in Ids : \/ challenges'[c] = challenges[c]
                                 \/ /\ ipc[p] = "store" /\ ireq[p].id = c
                                    /\ challenges'[c] = ireq[p].challenge
    BY <1>3 DEF PuzzleStore, MapOK, history
  <1>4. ASSUME \/ \E k \in SiteKeys : RotateSecret(k) \/ DeleteSite(k)
               \/ \E p \in Issuers : \/ PuzzleLookup(p) \/ PuzzleAdmit(p)
                                     \/ PuzzleRefuse(p) \/ PuzzleGenerate(p)
               \/ \E v \in Verifiers :
                    \/ BySecret(v) \/ ByKey(v) \/ GetChallenge(v)
                    \/ AcquirePermit(v) \/ Score(v) \/ HashDone(v)
                    \/ HashPanics(v) \/ Abandon(v)
               \/ DetachedHashDone \/ SweepStart \/ Tick \/ UNCHANGED vars
        PROVE  UNCHANGED <<challenges, invalid>>
    BY <1>4 DEF RotateSecret, DeleteSite, PuzzleLookup, PuzzleAdmit, PuzzleRefuse,
                PuzzleGenerate, BySecret, BySecretOf, ByKey, GetChallenge,
                GetChallengeOf, AcquirePermit, Score, HashDone, HashPanics, Abandon,
                DetachedHashDone, SweepStart, Tick, vars, history
  <1> QED BY <1>1, <1>2, <1>3, <1>4 DEF Next, PuzzleStep, VerifyStep

(* What a wrong nonce does: one more answer, and the entry follows it.     *)
LEMMA RejectCounts ==
  ASSUME Inv, NEW v \in Verifiers, RejectNonce(v), MaxAttempts > 0
  PROVE  LET c == vreq[v].id IN
         /\ c \in Ids /\ invalid'[c] = invalid[c] + 1
         /\ \A d \in Ids \ {c} : /\ invalid'[d] = invalid[d]
                                  /\ challenges'[d] = challenges[d]
         /\ challenges'[c] # None =>
              /\ challenges[c] # None
              /\ challenges'[c].attempts = challenges[c].attempts + 1
              /\ challenges'[c].attempts < MaxAttempts
  <1> USE DEF Inv, TypeOK
  <1> DEFINE c == vreq[v].id
  <1>1. c \in Ids /\ MaxAttempts # 0 /\ challenges' = AfterFailedAttempt(c)
    BY DEF RejectNonce, VerifyOK
  <1>2. /\ invalid'[c] = invalid[c] + 1
        /\ \A d \in Ids \ {c} : invalid'[d] = invalid[d]
    BY <1>1 DEF RejectNonce, HistoryOK
  <1> HIDE DEF c
  <1>3. CASE challenges[c] = None
    BY <1>1, <1>2, <1>3 DEF AfterFailedAttempt, c
  <1>4. CASE challenges[c] # None /\ challenges[c].attempts + 1 >= MaxAttempts
    BY <1>1, <1>2, <1>4 DEF AfterFailedAttempt, Removed, MapOK, c
  <1>5. CASE challenges[c] # None /\ ~(challenges[c].attempts + 1 >= MaxAttempts)
    <2> DEFINE new == [challenges[c] EXCEPT !.attempts = @ + 1]
    <2>1. challenges' = [challenges EXCEPT ![c] = new]
      BY <1>1, <1>5 DEF AfterFailedAttempt
    <2>2. challenges[c] \in Challenge
      BY <1>1, <1>5 DEF MapOK
    <2>3. new.attempts = challenges[c].attempts + 1 /\ new.attempts < MaxAttempts
      BY <1>5, <2>2, ParametersAssumption DEF Challenge
    <2> HIDE DEF new
    <2> QED BY <1>1, <1>2, <1>5, <2>1, <2>3 DEF MapOK, c
  <1> QED BY <1>3, <1>4, <1>5

LEMMA AttemptsNext == Inv /\ OriginInv /\ AttemptsInv /\ [Next]_vars => AttemptsInv'
  <1> SUFFICES ASSUME Inv, OriginInv, AttemptsInv, [Next]_vars, MaxAttempts > 0
               PROVE  AttemptsInv'
    BY DEF AttemptsInv
  <1> USE DEF Inv, TypeOK
  <1>1. ASSUME NEW c \in Ids, challenges'[c] # None
        PROVE  invalid'[c] = challenges'[c].attempts /\ challenges'[c].attempts < MaxAttempts
    <2>1. ASSUME NEW v \in Verifiers, RejectNonce(v)
          PROVE  invalid'[c] = challenges'[c].attempts
                   /\ challenges'[c].attempts < MaxAttempts
      BY <1>1, <2>1, RejectCounts DEF AttemptsInv
    <2>2. ASSUME ~\E v \in Verifiers : RejectNonce(v)
          PROVE  invalid'[c] = challenges'[c].attempts
                   /\ challenges'[c].attempts < MaxAttempts
      BY <1>1, <2>2, OnlyRejectCounts, ParametersAssumption DEF AttemptsInv
    <2> QED BY <2>1, <2>2
  <1>2. ASSUME NEW c \in Ids, born[c] = None \/ Pending(c), invalid[c] = 0
        PROVE  invalid'[c] = 0
    <2>1. ASSUME NEW v \in Verifiers, RejectNonce(v)
          PROVE  invalid'[c] = invalid[c]
      <3>1. c # vreq[v].id
        BY <1>2, <2>1 DEF RejectNonce, OriginInv, SnapshotsInv, Busy
      <3> QED BY <2>1, <3>1, RejectCounts
    <2> QED BY <1>2, <2>1, OnlyRejectCounts
  <1>3. ASSUME NEW c \in Ids, born'[c] = None PROVE invalid'[c] = 0
    <2>1. born[c] = None
      BY <1>3, HistoryStep
    <2> QED BY <1>2, <2>1 DEF AttemptsInv
  <1>4. ASSUME NEW q \in Issuers, ipc'[q] = "store"
        PROVE  ireq'[q].challenge.attempts = 0 /\ invalid'[ireq'[q].id] = 0
    <2>1. CASE ipc[q] = "store" /\ ireq'[q] = ireq[q]
      BY <1>2, <2>1 DEF AttemptsInv, IssueOK, Pending
    <2>2. CASE PuzzleGenerate(q)
      BY <2>2, GenerateFresh DEF AttemptsInv
    <2> QED BY <1>4, <2>1, <2>2, IssueStep
  <1> QED BY <1>1, <1>3, <1>4 DEF AttemptsInv

-----------------------------------------------------------------------------
(* Answers                                                                 *)

Answers(c) == invalid[c] + solved[c] + Cardinality(Engaged(c))

LEMMA EngagedFinite ==
  ASSUME NEW c
  PROVE  /\ IsFiniteSet(Engaged(c)) /\ Cardinality(Engaged(c)) \in Nat
         /\ Cardinality(Engaged(c)) <= Cardinality(Verifiers)
         /\ Cardinality(Verifiers) \in Nat
  <1>1. Engaged(c) \subseteq Verifiers
    BY DEF Engaged
  <1> QED BY <1>1, FiniteAssumption, SubsetCardinality

(* Nobody takes up a challenge that is not in the map.                     *)
LEMMA NoNewcomers ==
  ASSUME Inv, [Next]_vars, NEW c \in Ids, challenges'[c] = None
  PROVE  Engaged(c)' \subseteq Engaged(c)
  <1> SUFFICES ASSUME NEW v \in Verifiers, vpc'[v] \in Busy \ {"score"},
                      vreq'[v].id = c
               PROVE  vpc[v] \in Busy \ {"score"} /\ vreq[v].id = c
    BY DEF Engaged, Busy
  <1>1. CASE Keeps(v)
    BY <1>1 DEF Keeps
  <1>2. CASE Begins(v)
    BY <1>2 DEF Begins, Busy
  <1>3. CASE Fetches(v)
    BY <1>3 DEF Fetches, Inv, TypeOK, VerifyOK
  <1> QED BY <1>1, <1>2, <1>3, HandlerStep DEF Busy

(* For a challenge that is out of the map after the step, every new answer *)
(* takes one handler out of the engaged ones.                              *)
LEMMA AnswersStep ==
  ASSUME Inv, [Next]_vars, MaxAttempts > 0, NEW c \in Ids, challenges'[c] = None
  PROVE  Answers(c)' <= Answers(c)
  <1> USE DEF Inv, TypeOK
  <1>1. /\ invalid[c] \in Nat /\ solved[c] \in Nat
        /\ Cardinality(Engaged(c)) \in Nat /\ IsFiniteSet(Engaged(c))
    BY EngagedFinite DEF HistoryOK
  <1>2. Engaged(c)' \subseteq Engaged(c) /\ Cardinality(Engaged(c)') \in Nat
    BY <1>1, NoNewcomers, SubsetCardinality
  <1>3. ASSUME invalid'[c] = invalid[c], solved'[c] = solved[c]
        PROVE  Answers(c)' <= Answers(c)
    <2>1. Cardinality(Engaged(c)') <= Cardinality(Engaged(c))
      BY <1>1, <1>2, SubsetCardinality
    <2> QED BY <1>1, <1>2, <1>3, <2>1 DEF Answers
  <1>4. ASSUME NEW v \in Verifiers, RejectNonce(v) \/ Consume(v), vreq[v].id = c
        PROVE  Cardinality(Engaged(c)') <= Cardinality(Engaged(c)) - 1
    <2>1. v \in Engaged(c) /\ v \notin Engaged(c)'
      BY <1>4 DEF RejectNonce, Consume, Answer, Goto, Engaged, VerifyOK
    <2> QED BY <1>1, <1>2, <2>1, RemoveOne
  <1>5. ASSUME NEW v \in Verifiers, RejectNonce(v)
        PROVE  Answers(c)' <= Answers(c)
    <2>1. solved'[c] = solved[c]
      BY <1>5 DEF RejectNonce
    <2>2. CASE vreq[v].id = c
      <3>1. invalid'[c] = invalid[c] + 1
        BY <1>5, <2>2, RejectCounts
      <3> QED BY <1>1, <1>2, <1>4, <1>5, <2>1, <2>2, <3>1 DEF Answers
    <2>3. CASE vreq[v].id # c
      <3>1. invalid'[c] = invalid[c]
        BY <1>5, <2>3, RejectCounts
      <3> QED BY <1>3, <2>1, <3>1
    <2> QED BY <2>2, <2>3
  <1>6. ASSUME NEW v \in Verifiers, Consume(v)
        PROVE  Answers(c)' <= Answers(c)
    <2>1. invalid'[c] = invalid[c]
      BY <1>6 DEF Consume
    <2>2. CASE vreq[v].id = c
      <3>1. solved'[c] \in {solved[c], solved[c] + 1}
        BY <1>6, <2>2 DEF Consume, HistoryOK
      <3> QED BY <1>1, <1>2, <1>4, <1>6, <2>1, <2>2, <3>1 DEF Answers
    <2>3. CASE vreq[v].id # c
      <3>1. solved'[c] = solved[c]
        BY <1>6, <2>3 DEF Consume, HistoryOK
      <3> QED BY <1>3, <2>1, <3>1
    <2> QED BY <2>2, <2>3
  <1>7. ASSUME ~\E v \in Verifiers : RejectNonce(v) \/ Consume(v)
        PROVE  UNCHANGED <<invalid, solved>>
    BY <1>7 DEF Next, RotateSecret, DeleteSite, PuzzleLookup, PuzzleStep, PuzzleAdmit,
                PuzzleRefuse, PuzzleGenerate, PuzzleStore, BySecret, BySecretOf,
                VerifyStep, ByKey, GetChallenge, GetChallengeOf, CheckExpiry,
                AcquirePermit, Score, HashDone, HashPanics, Abandon,
                DetachedHashDone, SweepStart, SweepRetain, Tick, vars, history
  <1> QED BY <1>3, <1>5, <1>6, <1>7

LEMMA AnswersNext ==
  ASSUME Inv, OriginInv, AttemptsInv, AnswersBounded, [Next]_vars
  PROVE  AnswersBounded'
  <1> SUFFICES ASSUME MaxAttempts > 0, NEW c \in Ids
               PROVE  Answers(c)' <= MaxAttempts - 1 + Cardinality(Verifiers)
    BY DEF AnswersBounded, Answers
  <1>0. /\ MaxAttempts \in Nat /\ Cardinality(Verifiers) \in Nat
        /\ Answers(c) \in Nat /\ Answers(c)' \in Nat
        /\ Cardinality(Engaged(c)') \in Nat
        /\ Cardinality(Engaged(c)') <= Cardinality(Verifiers)
    <2>1. Inv'
      BY InvNext
    <2>2. Engaged(c)' \subseteq Verifiers
      BY DEF Engaged
    <2> QED BY <2>1, <2>2, EngagedFinite, ParametersAssumption, FiniteAssumption,
               SubsetCardinality DEF Inv, TypeOK, HistoryOK, Answers
  <1>1. CASE challenges'[c] = None
    BY <1>0, <1>1, AnswersStep DEF AnswersBounded, Answers
  <1>2. CASE challenges'[c] # None
    <2>1. /\ invalid'[c] = challenges'[c].attempts
          /\ challenges'[c].attempts < MaxAttempts
      BY <1>2, AttemptsNext DEF AttemptsInv
    <2>2. solved'[c] = 0 /\ invalid'[c] \in Nat
      BY <1>2, InvNext DEF Inv, TypeOK, StoreInv, HistoryOK
    <2> QED BY <1>0, <2>1, <2>2 DEF Answers
  <1> QED BY <1>1, <1>2

LEMMA AttemptsAlways == Spec => [](Inv /\ OriginInv /\ AttemptsInv)
  <1>1. Init => AttemptsInv
    BY DEF Init, AttemptsInv
  <1> QED BY <1>1, AttemptsNext, OriginAlways, PTL DEF Spec

(* One challenge is answered at most MaxAttempts times, plus the handlers  *)
(* that had read it before it was evicted, for any number of handlers.     *)
THEOREM AnswersHold == Spec => []AnswersBounded
  <1>1. Init => AnswersBounded
    <2> SUFFICES ASSUME Init, MaxAttempts > 0, NEW c \in Ids
                 PROVE  Answers(c) <= MaxAttempts - 1 + Cardinality(Verifiers)
      BY DEF AnswersBounded, Answers
    <2>1. Engaged(c) = {} /\ invalid[c] = 0 /\ solved[c] = 0
      BY DEF Init, Engaged
    <2>2. Answers(c) = 0
      BY <2>1, FS_EmptySet DEF Answers
    <2> QED BY <2>2, EngagedFinite, ParametersAssumption
  <1>2. (Inv /\ OriginInv /\ AttemptsInv) /\ AnswersBounded /\ [Next]_vars
          => AnswersBounded'
    BY AnswersNext
  <1> QED BY <1>1, <1>2, AttemptsAlways, PTL DEF Spec

-----------------------------------------------------------------------------
(* Loss                                                                    *)

(* Redeemed, worn out or expired.                                          *)
UsedUp(c) ==
  \/ solved[c] > 0
  \/ MaxAttempts > 0 /\ invalid[c] >= MaxAttempts
  \/ born[c].created_at + TTL <= now

(* A challenge that was stored and is no longer in the map is used up.     *)
GoneIsUsedUp == \A c \in Ids :
  born[c] # None /\ ~Pending(c) /\ challenges[c] = None => UsedUp(c)

(* No step takes back that a challenge is used up.                         *)
LEMMA UsedUpStays ==
  ASSUME Inv, [Next]_vars, NEW c \in Ids, born[c] # None, UsedUp(c)
  PROVE  UsedUp(c)'
  <1> USE DEF Inv, TypeOK
  <1>1. solved'[c] >= solved[c] /\ invalid'[c] >= invalid[c]
    <2>1. ASSUME NEW v \in Verifiers, RejectNonce(v) \/ Consume(v)
          PROVE  solved'[c] >= solved[c] /\ invalid'[c] >= invalid[c]
      BY <2>1 DEF RejectNonce, Consume, HistoryOK
    <2>2. ASSUME ~\E v \in Verifiers : RejectNonce(v) \/ Consume(v)
          PROVE  UNCHANGED <<invalid, solved>>
      BY <2>2 DEF Next, RotateSecret, DeleteSite, PuzzleLookup, PuzzleStep,
                  PuzzleAdmit, PuzzleRefuse, PuzzleGenerate, PuzzleStore, BySecret,
                  BySecretOf, VerifyStep, ByKey, GetChallenge, GetChallengeOf,
                  CheckExpiry, AcquirePermit, Score, HashDone, HashPanics, Abandon,
                  DetachedHashDone, SweepStart, SweepRetain, Tick, vars, history
    <2> QED BY <2>1, <2>2 DEF HistoryOK
  <1>2. born'[c] = born[c] /\ born[c] \in Birth /\ now <= now' /\ now' \in Nat
    BY HistoryStep DEF HistoryOK
  <1>3. solved'[c] \in Nat /\ invalid'[c] \in Nat
    BY InvNext DEF HistoryOK
  <1> QED BY <1>1, <1>2, <1>3, ParametersAssumption
          DEF UsedUp, HistoryOK, ClockOK, Birth

LEMMA GoneNext ==
  ASSUME Inv, OriginInv, AttemptsInv, GoneIsUsedUp, [Next]_vars
  PROVE  GoneIsUsedUp'
  <1> USE DEF Inv, TypeOK
  <1> SUFFICES ASSUME NEW c \in Ids, born'[c] # None, ~Pending(c)',
                      challenges'[c] = None
               PROVE  UsedUp(c)'
    BY DEF GoneIsUsedUp
  <1>1. CASE challenges[c] # None
    <2>1. challenges[c] \in Challenge /\ Minted(c, challenges[c]) /\ born[c] \in Birth
      BY <1>1 DEF MapOK, HistoryOK, OriginInv, EntriesInv, Minted
    <2>2. born'[c] = born[c] /\ now <= now' /\ now' \in Nat /\ now \in Nat
      BY <2>1, HistoryStep DEF Minted, ClockOK
    <2>3. solved'[c] \in Nat /\ solved[c] \in Nat
      BY InvNext DEF HistoryOK
    <2>4. CASE solved'[c] > solved[c]
      BY <2>3, <2>4 DEF UsedUp
    <2>5. CASE challenges[c].expires_at <= now
      <3>1. born[c].created_at + TTL <= now'
        BY <2>1, <2>2, <2>5, ParametersAssumption DEF Minted, Challenge, Birth
      <3> QED BY <2>2, <3>1 DEF UsedUp
    <2>6. CASE /\ MaxAttempts > 0 /\ challenges[c].attempts >= MaxAttempts - 1
               /\ invalid'[c] = invalid[c] + 1
      <3>1. invalid[c] = challenges[c].attempts
        BY <1>1, <2>6 DEF AttemptsInv
      <3> QED BY <2>1, <2>6, <3>1, ParametersAssumption DEF UsedUp, Challenge
    <2> QED BY <1>1, <2>4, <2>5, <2>6, LossStep
  <1>2. CASE challenges[c] = None /\ born[c] # None /\ ~Pending(c)
    BY <1>2, UsedUpStays DEF GoneIsUsedUp
  <1>3. ASSUME challenges[c] = None, born[c] = None PROVE FALSE
    <2>1. PICK p \in Issuers : PuzzleGenerate(p)
      BY <1>3 DEF Next, RotateSecret, DeleteSite, PuzzleLookup, PuzzleStep,
                  PuzzleAdmit, PuzzleRefuse, PuzzleStore, BySecret,
                  BySecretOf, VerifyStep, ByKey, GetChallenge, GetChallengeOf,
                  CheckExpiry, AcquirePermit, RejectNonce, Consume, Score, HashDone,
                  HashPanics, Abandon, DetachedHashDone, SweepStart, SweepRetain,
                  Tick, vars, history
    <2>2. ipc'[p] = "store" /\ ireq'[p].id = c
      BY <1>3, <2>1 DEF PuzzleGenerate, IssueOK, HistoryOK
    <2> QED BY <2>2 DEF Pending
  <1>4. ASSUME NEW p \in Issuers, ipc[p] = "store", ireq[p].id = c PROVE FALSE
    <2>1. ~(ipc'[p] = "store" /\ ireq'[p].id = c)
      BY DEF Pending
    <2>2. PuzzleStore(p)
      <3>1. ASSUME NEW q \in Issuers, PuzzleLookup(q) \/ PuzzleStep(q),
                   ~PuzzleStore(p)
            PROVE  ipc'[p] = ipc[p] /\ ireq'[p] = ireq[p]
        <4>1. q # p
          BY <1>4, <3>1 DEF PuzzleLookup, PuzzleStep, PuzzleAdmit, PuzzleRefuse,
                            PuzzleGenerate
        <4> QED BY <3>1, <4>1 DEF PuzzleLookup, PuzzleStep, PuzzleAdmit, PuzzleRefuse,
                            PuzzleGenerate, PuzzleStore, Decline, IssueOK
      <3>2. ASSUME ~\E q \in Issuers : PuzzleLookup(q) \/ PuzzleStep(q)
            PROVE  UNCHANGED ivars
        BY <3>2 DEF Next, RotateSecret, DeleteSite, BySecret, BySecretOf, VerifyStep,
                ByKey, GetChallenge, GetChallengeOf, CheckExpiry, AcquirePermit,
                RejectNonce, Consume, Score, HashDone, HashPanics, Abandon,
                DetachedHashDone, SweepStart, SweepRetain, Tick, vars
      <3> QED BY <1>4, <2>1, <3>1, <3>2 DEF ivars
    <2> QED BY <1>4, <2>2, NoneAssumption DEF PuzzleStore, IssueOK, MapOK
  <1> QED BY <1>1, <1>2, <1>3, <1>4 DEF Pending

(* Whatever is missing from the map was redeemed, worn out or has expired: *)
(* the reason for every 404 on an issued challenge.                        *)
THEOREM GoneHolds == Spec => []GoneIsUsedUp
  <1>1. Init => GoneIsUsedUp
    BY DEF Init, GoneIsUsedUp
  <1>2. (Inv /\ OriginInv /\ AttemptsInv) /\ GoneIsUsedUp /\ [Next]_vars
          => GoneIsUsedUp'
    BY GoneNext
  <1> QED BY <1>1, <1>2, AttemptsAlways, PTL DEF Spec

=============================================================================

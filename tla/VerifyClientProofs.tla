------------------------- MODULE VerifyClientProofs -------------------------
(***************************************************************************)
(* Proofs about the verify client and the service together.  Every step of *)
(* the composition is a step of ChallengeService, so what is proved there  *)
(* holds here; what is new relates a form post to the handler that answers *)
(* it.                                                                     *)
(***************************************************************************)
EXTENDS VerifyClient, ChallengeServiceProofs

CallOK ==
  /\ call \in [Verifiers -> [id : Ids \cup {None}, waiting : BOOLEAN]]
  /\ accepted \in [Ids -> Nat] /\ replayed \subseteq Ids
  /\ \A v \in Verifiers : vpc[v] # "idle" => call[v].id \in Ids

(* The token of a post in flight was issued, and its handler works on the  *)
(* challenge the token names.                                              *)
LinkInv == \A v \in Verifiers :
  /\ vpc[v] # "idle" => born[call[v].id] # None /\ ~Pending(call[v].id)
  /\ vpc[v] \in Busy => call[v].id = vreq[v].id

(* Every pass is a redemption of its own, and a handler that scores is the *)
(* one that redeemed the challenge, which has passed nobody so far.        *)
PassInv ==
  /\ \A c \in Ids : accepted[c] <= solved[c]
  /\ \A v \in Verifiers : vpc[v] = "score" =>
       accepted[vreq[v].id] = 0 /\ solved[vreq[v].id] = 1
  /\ \A v, w \in Verifiers :
       vpc[v] = "score" /\ vpc[w] = "score" /\ vreq[v].id = vreq[w].id => v = w

ReplayInv == \A c \in replayed : born[c] # None /\ UsedUp(c)

-----------------------------------------------------------------------------
(* Answers                                                                 *)

LEMMA Verdicts ==
  /\ Verdict(SecretRefused) = "Unauthorized"
  /\ Verdict(ChallengeNotFound) = "Replayed"
  /\ Verdict(ChallengeExpired) = "Expired"
  /\ Verdict(StorageError) = "Unexpected"
  /\ Verdict(RequestTimeout) = "Unexpected"
  /\ Verdict(Reply(200, FALSE)) = "Blocked"
  /\ Verdict(Reply(200, TRUE)) = "Passed"
  BY DEF Verdict, SecretRefused, ChallengeNotFound, ChallengeExpired, StorageError,
         RequestTimeout, Reply

(* The post is over; nobody passes but on "Passed", and "Replayed" is said *)
(* only on that verdict.                                                   *)
LEMMA Delivered ==
  ASSUME NEW v \in Verifiers, NEW r, Deliver(v, r)
  PROVE  /\ call' = [call EXCEPT ![v] = NoCall]
         /\ \/ UNCHANGED accepted
            \/ /\ Verdict(r) = "Passed"
               /\ accepted' = [accepted EXCEPT ![call[v].id] = @ + 1]
         /\ \/ UNCHANGED replayed
            \/ /\ Verdict(r) = "Replayed"
               /\ replayed' = replayed \cup {call[v].id}
  BY DEF Deliver, Extracted

(* How a handler's step ends or goes on, seen from the post.               *)
Quiet(v) == UNCHANGED cvars /\ vpc[v] # "idle"

Ends(v) ==
  /\ vpc[v] # "idle" /\ vpc'[v] = "idle"
  /\ call' = [call EXCEPT ![v] = NoCall]

Silent(v) == Ends(v) /\ UNCHANGED history_c

Passes(v) ==
  /\ Ends(v) /\ Score(v) /\ UNCHANGED replayed
  /\ accepted' = [accepted EXCEPT ![call[v].id] = @ + 1]

Replays(v) ==
  /\ Ends(v) /\ UNCHANGED accepted
  /\ replayed' = replayed \cup {call[v].id}
  /\ challenges[call[v].id] = None

LEMMA AnswersEnd ==
  ASSUME Inv, CallOK, LinkInv, NEW v \in Verifiers,
         Handle(v) \/ HandlerCut(v) \/ HandlerPanics(v) \/ HashReturns(v)
  PROVE  Quiet(v) \/ Silent(v) \/ Passes(v) \/ Replays(v)
  <1> USE DEF Inv, TypeOK
  <1>1. ASSUME NEW r, Deliver(v, r), vpc[v] # "idle", vpc'[v] = "idle",
               Verdict(r) \notin {"Passed", "Replayed"}
        PROVE  Silent(v)
    BY <1>1, Delivered DEF Silent, Ends, history_c
  <1>2. CASE ByKey(v) /\ Responds(v, SecretRefused)
    BY <1>1, <1>2, Verdicts DEF ByKey, Responds, Quiet
  <1>3. ASSUME GetChallengeOf(v, call[v].id),
               Responds(v, IF challenges[call[v].id] = None THEN ChallengeNotFound
                                                            ELSE SecretRefused)
        PROVE  Quiet(v) \/ Silent(v) \/ Replays(v)
    <2>1. vpc[v] # "idle"
      BY <1>3 DEF GetChallengeOf
    <2>2. CASE vpc'[v] # "idle"
      BY <1>3, <2>1, <2>2 DEF Responds, Quiet
    <2>3. CASE vpc'[v] = "idle" /\ challenges[call[v].id] # None
      BY <1>1, <1>3, <2>1, <2>3, Verdicts DEF Responds
    <2>4. CASE vpc'[v] = "idle" /\ challenges[call[v].id] = None
      <3>1. Deliver(v, ChallengeNotFound)
        BY <1>3, <2>4 DEF Responds
      <3> QED BY <2>1, <2>4, <3>1, Delivered, Verdicts
              DEF Silent, Replays, Ends, history_c
    <2> QED BY <2>2, <2>3, <2>4
  <1>4. CASE CheckExpiry(v) /\ Responds(v, ChallengeExpired)
    BY <1>1, <1>4, Verdicts DEF CheckExpiry, Responds, Quiet
  <1>5. CASE AcquirePermit(v) /\ UNCHANGED cvars
    BY <1>5 DEF AcquirePermit, Quiet
  <1>6. CASE RejectNonce(v) /\ Deliver(v, Reply(200, FALSE))
    <2>1. vpc[v] # "idle" /\ vpc'[v] = "idle"
      BY <1>6 DEF RejectNonce, Answer, Goto, VerifyOK
    <2> QED BY <1>1, <1>6, <2>1, Verdicts
  <1>7. ASSUME Consume(v), Responds(v, ChallengeNotFound)
        PROVE  Quiet(v) \/ Silent(v) \/ Replays(v)
    <2>1. vpc[v] = "settle" /\ call[v].id = vreq[v].id
      BY <1>7 DEF Consume, LinkInv, Busy
    <2>2. CASE vpc'[v] # "idle"
      BY <1>7, <2>1, <2>2 DEF Responds, Quiet
    <2>3. CASE vpc'[v] = "idle"
      <3>1. challenges[call[v].id] = None
        BY <1>7, <2>1, <2>3 DEF Consume, Consumable, Goto, VerifyOK
      <3>2. Deliver(v, ChallengeNotFound)
        BY <1>7, <2>3 DEF Responds
      <3> QED BY <2>1, <2>3, <3>1, <3>2, Delivered, Verdicts
              DEF Silent, Replays, Ends, history_c
    <2> QED BY <2>2, <2>3
  <1>8. ASSUME Score(v), NEW success \in BOOLEAN, Deliver(v, Reply(200, success))
        PROVE  Silent(v) \/ Passes(v)
    <2>1. vpc[v] # "idle" /\ vpc'[v] = "idle"
      BY <1>8 DEF Score, Answer, Goto, VerifyOK
    <2>2. Verdict(Reply(200, success)) # "Replayed"
      BY Verdicts
    <2> QED BY <1>8, <2>1, <2>2, Delivered DEF Silent, Passes, Ends, history_c
  <1>9. CASE HandlerCut(v)
    <2>1. vpc[v] # "idle" /\ vpc'[v] = "idle"
      BY <1>9 DEF HandlerCut, Abandon, Answer, Goto, VerifyOK
    <2> QED BY <1>1, <1>9, <2>1, Verdicts DEF HandlerCut
  <1>10. CASE HandlerPanics(v)
    <2>1. vpc[v] # "idle" /\ vpc'[v] = "idle"
      BY <1>10 DEF HandlerPanics, HashPanics, Answer, Goto, VerifyOK
    <2> QED BY <1>1, <1>10, <2>1, Verdicts DEF HandlerPanics
  <1>11. CASE HashReturns(v)
    BY <1>11 DEF HashReturns, HashDone, Quiet
  <1> QED BY <1>2, <1>3, <1>4, <1>5, <1>6, <1>7, <1>8, <1>9, <1>10, <1>11
          DEF Handle

-----------------------------------------------------------------------------
(* The composition takes only steps of the service                         *)

LEMMA HandlerIsService ==
  ASSUME Inv, CallOK, NEW v \in Verifiers,
         Handle(v) \/ HandlerCut(v) \/ HandlerPanics(v) \/ HashReturns(v)
  PROVE  VerifyStep(v) \/ HashDone(v) \/ HashPanics(v) \/ Abandon(v)
  <1>1. ASSUME GetChallengeOf(v, call[v].id) PROVE GetChallenge(v)
    BY <1>1 DEF GetChallengeOf, GetChallenge, CallOK
  <1> QED BY <1>1 DEF Handle, HandlerCut, HandlerPanics, HashReturns, VerifyStep

LEMMA ServiceStep ==
  ASSUME Inv, CallOK, [ClientNext]_allvars
  PROVE  [Next]_vars
  <1>1. ASSUME NEW v \in Verifiers, Submit(v) PROVE Next
    BY <1>1 DEF Submit, BySecret, Next
  <1>2. ASSUME NEW v \in Verifiers, ClientTimeout(v) PROVE UNCHANGED vars
    BY <1>2 DEF ClientTimeout
  <1>3. ASSUME NEW v \in Verifiers,
               Handle(v) \/ HandlerCut(v) \/ HandlerPanics(v) \/ HashReturns(v)
        PROVE  Next
    BY <1>3, HandlerIsService DEF Next
  <1>4. CASE DetachedReturns \/ SweepBegins \/ SweepEnds \/ Background
    BY <1>4 DEF DetachedReturns, SweepBegins, SweepEnds, Background, Next
  <1>5. CASE UNCHANGED allvars
    BY <1>5 DEF allvars
  <1> QED BY <1>1, <1>2, <1>3, <1>4, <1>5 DEF ClientNext

(* A post's handler works on the challenge of the post's token.            *)
LEMMA HandledId ==
  ASSUME Inv, CallOK, LinkInv, NEW v \in Verifiers, vpc'[v] \in Busy,
         Handle(v) \/ HandlerCut(v) \/ HandlerPanics(v) \/ HashReturns(v)
  PROVE  vreq'[v].id = call[v].id
  <1> USE DEF Inv, TypeOK
  <1>0. ~Answer(v) /\ ~Goto(v, "fetch")
    BY DEF Answer, Goto, VerifyOK, Busy
  <1>1. CASE GetChallengeOf(v, call[v].id)
    BY <1>0, <1>1 DEF GetChallengeOf, VerifyOK
  <1>2. CASE CheckExpiry(v) \/ AcquirePermit(v) \/ Consume(v) \/ HashDone(v)
    <2>1. vpc[v] \in Busy /\ UNCHANGED vreq
      BY <1>0, <1>2 DEF CheckExpiry, AcquirePermit, Consume, HashDone, Busy
    <2> QED BY <2>1 DEF LinkInv
  <1>3. CASE ByKey(v) \/ RejectNonce(v) \/ Score(v) \/ Abandon(v) \/ HashPanics(v)
    BY <1>0, <1>3 DEF ByKey, RejectNonce, Score, Abandon, HashPanics
  <1> QED BY <1>1, <1>2, <1>3 DEF Handle, HandlerCut, HandlerPanics, HashReturns

LEMMA BackgroundStep ==
  ASSUME \/ DetachedReturns \/ SweepBegins \/ SweepEnds \/ Background
         \/ UNCHANGED allvars
  PROVE  UNCHANGED <<vvars, cvars>>
  BY DEF DetachedReturns, SweepBegins, SweepEnds, Background, DetachedHashDone,
         SweepStart, SweepRetain, RotateSecret, DeleteSite, PuzzleLookup, PuzzleStep,
         PuzzleAdmit, PuzzleRefuse, PuzzleGenerate, PuzzleStore, Tick, allvars, vars

LEMMA CallNext ==
  ASSUME Inv, CallOK, LinkInv, [ClientNext]_allvars
  PROVE  CallOK' /\ LinkInv'
  <1> USE DEF Inv, TypeOK
  <1>0. [Next]_vars
    BY ServiceStep
  <1>1. ASSUME NEW c \in Ids, born[c] # None, ~Pending(c)
        PROVE  born'[c] # None /\ ~Pending(c)'
    BY <1>0, <1>1, StoredOnce, HistoryStep
  <1>2. ASSUME NEW w \in Verifiers, vpc[w] # "idle", call'[w].id = call[w].id
        PROVE  /\ call'[w].id \in Ids
               /\ born'[call'[w].id] # None /\ ~Pending(call[w].id)'
    <2>1. PICK c \in Ids : c = call[w].id
      BY <1>2 DEF CallOK
    <2>2. born'[c] # None /\ ~Pending(c)'
      BY <1>1, <1>2, <2>1 DEF LinkInv
    <2> QED BY <1>2, <2>1, <2>2 DEF Pending
  <1>3. ASSUME NEW v \in Verifiers, Submit(v)
        PROVE  CallOK' /\ LinkInv'
    <2>1. PICK c \in Ids, s \in Secrets :
            /\ Issued(c) /\ BySecretOf(v, s)
            /\ call' = [call EXCEPT ![v] = [id |-> c, waiting |-> TRUE]]
            /\ UNCHANGED history_c
      BY <1>3 DEF Submit
    <2>2. /\ vpc'[v] = "by_key" /\ call'[v].id = c
          /\ born'[c] # None /\ ~Pending(c)'
      BY <1>1, <2>1 DEF BySecretOf, Goto, VerifyOK, CallOK, Issued
    <2>3. \A w \in Verifiers \ {v} :
            vpc'[w] = vpc[w] /\ vreq'[w] = vreq[w] /\ call'[w] = call[w]
      BY <2>1, OneHandler DEF BySecret, CallOK
    <2>4. CallOK'
      BY <2>1, <2>2, <2>3 DEF CallOK, history_c
    <2>5. LinkInv'
      BY <1>2, <2>2, <2>3 DEF LinkInv, Busy, Pending
    <2> QED BY <2>4, <2>5
  <1>4. ASSUME NEW v \in Verifiers, ClientTimeout(v)
        PROVE  CallOK' /\ LinkInv'
    <2>1. /\ UNCHANGED <<vpc, vreq, history_c>>
          /\ call' = [call EXCEPT ![v].waiting = FALSE]
      BY <1>4 DEF ClientTimeout, vars, vvars
    <2>2. \A w \in Verifiers : call'[w].id = call[w].id
      BY <2>1 DEF CallOK
    <2>3. CallOK'
      BY <2>1, <2>2 DEF CallOK, history_c
    <2>4. LinkInv'
      BY <1>2, <2>1, <2>2 DEF LinkInv
    <2> QED BY <2>3, <2>4
  <1>5. ASSUME NEW v \in Verifiers,
               Handle(v) \/ HandlerCut(v) \/ HandlerPanics(v) \/ HashReturns(v)
        PROVE  CallOK' /\ LinkInv'
    <2>1. \A w \in Verifiers \ {v} : vpc'[w] = vpc[w] /\ vreq'[w] = vreq[w]
      BY <1>5, HandlerIsService, OneHandler
    <2>2. CASE Quiet(v)
      <3>1. CallOK'
        BY <2>1, <2>2 DEF Quiet, CallOK, cvars, history_c
      <3>2. \A w \in Verifiers : call'[w] = call[w]
        BY <2>2 DEF Quiet, cvars
      <3>3. vpc'[v] \in Busy => vreq'[v].id = call'[v].id
        BY <1>5, <3>2, HandledId
      <3> QED BY <1>2, <2>1, <2>2, <3>1, <3>2, <3>3 DEF Quiet, LinkInv
    <2>3. CASE Ends(v) /\ accepted' \in [Ids -> Nat] /\ replayed' \subseteq Ids
      <3>1. \A w \in Verifiers \ {v} : call'[w] = call[w]
        BY <2>3 DEF Ends, CallOK
      <3>2. CallOK'
        BY <2>1, <2>3, <3>1 DEF Ends, CallOK, NoCall
      <3>3. LinkInv'
        BY <1>2, <2>1, <2>3, <3>1 DEF Ends, LinkInv, Busy
      <3> QED BY <3>2, <3>3
    <2>4. ASSUME Silent(v) \/ Passes(v) \/ Replays(v)
          PROVE  Ends(v) /\ accepted' \in [Ids -> Nat] /\ replayed' \subseteq Ids
      BY <2>4 DEF Silent, Passes, Replays, Ends, CallOK, history_c
    <2> QED BY <1>5, <2>2, <2>3, <2>4, AnswersEnd
  <1>6. ASSUME UNCHANGED <<vvars, cvars>>
        PROVE  CallOK' /\ LinkInv'
    <2>1. CallOK'
      BY <1>6 DEF CallOK, vvars, cvars, history_c
    <2> QED BY <1>2, <1>6, <2>1 DEF LinkInv, vvars, cvars
  <1> QED BY <1>3, <1>4, <1>5, <1>6, BackgroundStep DEF ClientNext

LEMMA ClientAlways == ClientSpec => Spec /\ [](Inv /\ CallOK /\ LinkInv)
  <1>1. ClientInit => Init /\ Inv /\ CallOK /\ LinkInv
    <2> SUFFICES ASSUME ClientInit PROVE CallOK /\ LinkInv
      BY InitInv DEF ClientInit
    <2>1. CallOK
      BY DEF ClientInit, Init, CallOK, NoCall
    <2>2. LinkInv
      BY DEF ClientInit, Init, LinkInv, Busy
    <2> QED BY <2>1, <2>2
  <1>2. (Inv /\ CallOK /\ LinkInv) /\ [ClientNext]_allvars
          => [Next]_vars /\ (Inv /\ CallOK /\ LinkInv)'
    BY ServiceStep, CallNext, InvNext
  <1> QED BY <1>1, <1>2, PTL DEF ClientSpec, Spec

(* The composed system implements the challenge service: the client adds   *)
(* no behaviour to it, so all that is proved of the service holds with any *)
(* number of form posts, timeouts and resubmissions around it.             *)
THEOREM ClientImplementsService == ClientSpec => Spec
  BY ClientAlways, PTL

-----------------------------------------------------------------------------
(* One pass per challenge                                                  *)

(* Whoever scores has just consumed the challenge, or scored it before.    *)
LEMMA ScoreStep ==
  ASSUME Inv, [Next]_vars, NEW v \in Verifiers, vpc'[v] = "score"
  PROVE  /\ vreq'[v] = vreq[v]
         /\ \/ vpc[v] = "score"
            \/ Consume(v) /\ Consumable(vreq[v].id)
  <1> USE DEF Inv, TypeOK
  <1>1. ASSUME NEW w \in Verifiers,
               BySecret(w) \/ VerifyStep(w) \/ HashDone(w) \/ HashPanics(w)
                 \/ Abandon(w)
        PROVE  /\ vreq'[v] = vreq[v]
               /\ \/ vpc[v] = "score"
                  \/ Consume(v) /\ Consumable(vreq[v].id)
    <2>1. CASE w # v
      BY <1>1, <2>1, OneHandler
    <2>2. CASE w = v
      <3>1. Consume(v) /\ ~Answer(v)
        BY <1>1, <2>2 DEF BySecret, BySecretOf, VerifyStep, ByKey, GetChallenge,
                 GetChallengeOf, CheckExpiry, AcquirePermit, RejectNonce, Score,
                 HashDone, HashPanics, Abandon, Answer, Goto, VerifyOK
      <3> QED BY <3>1 DEF Consume
    <2> QED BY <2>1, <2>2
  <1>2. ASSUME ~\E w \in Verifiers :
                  BySecret(w) \/ VerifyStep(w) \/ HashDone(w) \/ HashPanics(w)
                    \/ Abandon(w)
        PROVE  UNCHANGED vvars
    BY <1>2 DEF Next, RotateSecret, DeleteSite, PuzzleLookup, PuzzleStep, PuzzleAdmit,
                PuzzleRefuse, PuzzleGenerate, PuzzleStore, DetachedHashDone,
                SweepStart, SweepRetain, Tick, vars
  <1> QED BY <1>1, <1>2 DEF vvars

(* What scoring and redeeming do to the counters.                          *)
LEMMA SolvedStep ==
  ASSUME Inv, [Next]_vars
  PROVE  \/ UNCHANGED solved
         \/ \E v \in Verifiers :
              LET c == vreq[v].id IN
              /\ c \in Ids /\ solved[c] = 0 /\ vpc'[v] = "score"
              /\ Consume(v) /\ vreq'[v] = vreq[v]
              /\ solved' = [solved EXCEPT ![c] = 1]
  <1> USE DEF Inv, TypeOK
  <1>1. ASSUME NEW v \in Verifiers, Consume(v), solved' # solved
        PROVE  LET c == vreq[v].id IN
               /\ c \in Ids /\ solved[c] = 0 /\ vpc'[v] = "score"
               /\ vreq'[v] = vreq[v]
               /\ solved' = [solved EXCEPT ![c] = 1]
    <2>1. vreq[v].id \in Ids /\ Consumable(vreq[v].id)
      BY <1>1 DEF Consume, VerifyOK
    <2>2. solved[vreq[v].id] = 0
      BY <2>1 DEF Consumable, StoreInv
    <2> QED BY <1>1, <2>1, <2>2 DEF Consume, Goto, VerifyOK, HistoryOK
  <1>2. ASSUME ~\E v \in Verifiers : Consume(v)
        PROVE  UNCHANGED solved
    BY <1>2 DEF Next, RotateSecret, DeleteSite, PuzzleLookup, PuzzleStep, PuzzleAdmit,
                PuzzleRefuse, PuzzleGenerate, PuzzleStore, BySecret, BySecretOf,
                VerifyStep, ByKey, GetChallenge, GetChallengeOf, CheckExpiry,
                AcquirePermit, RejectNonce, Score, HashDone, HashPanics, Abandon,
                DetachedHashDone, SweepStart, SweepRetain, Tick, vars, history
  <1> QED BY <1>1, <1>2

LEMMA AcceptedStep ==
  ASSUME Inv, CallOK, LinkInv, [ClientNext]_allvars
  PROVE  \/ UNCHANGED accepted
         \/ \E v \in Verifiers :
              LET c == vreq[v].id IN
              /\ c \in Ids /\ vpc[v] = "score" /\ vpc'[v] = "idle"
              /\ UNCHANGED solved
              /\ \A w \in Verifiers \ {v} : vpc'[w] = vpc[w] /\ vreq'[w] = vreq[w]
              /\ accepted' = [accepted EXCEPT ![c] = @ + 1]
  <1>1. ASSUME NEW v \in Verifiers,
               Handle(v) \/ HandlerCut(v) \/ HandlerPanics(v) \/ HashReturns(v)
        PROVE  UNCHANGED accepted \/ Passes(v)
    BY <1>1, AnswersEnd DEF Quiet, Silent, Replays, cvars, history_c
  <1>2. ASSUME NEW v \in Verifiers, Passes(v)
        PROVE  LET c == vreq[v].id IN
               /\ c \in Ids /\ vpc[v] = "score" /\ vpc'[v] = "idle"
               /\ UNCHANGED solved
               /\ \A w \in Verifiers \ {v} : vpc'[w] = vpc[w] /\ vreq'[w] = vreq[w]
               /\ accepted' = [accepted EXCEPT ![c] = @ + 1]
    <2>1. vpc[v] = "score" /\ vreq[v].id = call[v].id /\ vreq[v].id \in Ids
      BY <1>2 DEF Passes, Score, LinkInv, CallOK, Busy
    <2>2. vpc'[v] = "idle" /\ UNCHANGED solved
      BY <1>2 DEF Passes, Ends, Score, history
    <2>3. \A w \in Verifiers \ {v} : vpc'[w] = vpc[w] /\ vreq'[w] = vreq[w]
      BY <1>2, OneHandler DEF Passes, VerifyStep
    <2> QED BY <1>2, <2>1, <2>2, <2>3 DEF Passes
  <1>3. ASSUME NEW v \in Verifiers, Submit(v) \/ ClientTimeout(v)
        PROVE  UNCHANGED accepted
    BY <1>3 DEF Submit, ClientTimeout, history_c
  <1> QED BY <1>1, <1>2, <1>3, BackgroundStep DEF ClientNext, cvars, history_c

LEMMA PassNext ==
  ASSUME Inv, CallOK, LinkInv, PassInv, [ClientNext]_allvars
  PROVE  PassInv'
  <1> USE DEF Inv, TypeOK
  <1>0. [Next]_vars /\ accepted \in [Ids -> Nat] /\ solved \in [Ids -> Nat]
    BY ServiceStep DEF CallOK, HistoryOK
  <1>1. \A v \in Verifiers : vpc[v] = "score" => vreq[v].id \in Ids
    BY DEF VerifyOK
  <1>2. ASSUME NEW v \in Verifiers, vpc'[v] = "score"
        PROVE  vreq'[v] = vreq[v] /\ (vpc[v] = "score" \/ Consume(v))
    BY <1>0, <1>2, ScoreStep
  <1>3. ASSUME NEW v \in Verifiers, Consume(v), NEW w \in Verifiers, w # v
        PROVE  vpc'[w] = vpc[w] /\ vreq'[w] = vreq[w]
    BY <1>3, OneHandler DEF VerifyStep
  <1>4. CASE UNCHANGED <<accepted, solved>>
    <2>1. \A v \in Verifiers : vpc'[v] = "score" => vpc[v] = "score"
      <3> SUFFICES ASSUME NEW v \in Verifiers, vpc'[v] = "score", vpc[v] # "score"
                   PROVE  FALSE
        OBVIOUS
      <3>1. Consume(v) /\ Consumable(vreq[v].id) /\ vreq[v].id \in Ids
        BY <1>0, ScoreStep DEF Consume, VerifyOK
      <3>2. solved' = [solved EXCEPT ![vreq[v].id] = @ + 1]
        BY <3>1 DEF Consume
      <3> QED BY <1>0, <1>4, <3>1, <3>2
    <2> QED BY <1>2, <1>4, <2>1 DEF PassInv
  <1>5. ASSUME UNCHANGED accepted, NEW v \in Verifiers, vreq[v].id \in Ids,
               solved[vreq[v].id] = 0, vpc'[v] = "score", Consume(v),
               vreq'[v] = vreq[v], solved' = [solved EXCEPT ![vreq[v].id] = 1]
        PROVE  PassInv'
    <2>1. accepted[vreq[v].id] = 0
      BY <1>0, <1>5 DEF PassInv
    <2>2. \A w \in Verifiers \ {v} : vpc'[w] = vpc[w] /\ vreq'[w] = vreq[w]
      BY <1>3, <1>5
    <2>3. \A w \in Verifiers : vpc[w] = "score" => vreq[w].id # vreq[v].id
      BY <1>5 DEF PassInv
    <2>4. /\ solved'[vreq[v].id] = 1
          /\ \A d \in Ids \ {vreq[v].id} : solved'[d] = solved[d]
      BY <1>0, <1>5
    <2>5. \A c \in Ids : accepted'[c] <= solved'[c]
      BY <1>0, <1>5, <2>1, <2>4 DEF PassInv
    <2>6. \A w \in Verifiers : vpc'[w] = "score" =>
            accepted'[vreq'[w].id] = 0 /\ solved'[vreq'[w].id] = 1
      BY <1>1, <1>5, <2>1, <2>2, <2>3, <2>4 DEF PassInv
    <2>7. \A w \in Verifiers : vpc'[w] = "score" /\ vreq'[w].id = vreq'[v].id => w = v
      BY <1>5, <2>2, <2>3
    <2> QED BY <2>2, <2>5, <2>6, <2>7 DEF PassInv
  <1>6. ASSUME NEW v \in Verifiers, vreq[v].id \in Ids, vpc[v] = "score",
               vpc'[v] = "idle", UNCHANGED solved,
               \A w \in Verifiers \ {v} : vpc'[w] = vpc[w] /\ vreq'[w] = vreq[w],
               accepted' = [accepted EXCEPT ![vreq[v].id] = @ + 1]
        PROVE  PassInv'
    <2>1. accepted[vreq[v].id] = 0 /\ solved[vreq[v].id] = 1
      BY <1>6 DEF PassInv
    <2>2. /\ accepted'[vreq[v].id] = 1
          /\ \A d \in Ids \ {vreq[v].id} : accepted'[d] = accepted[d]
      BY <1>0, <1>6, <2>1
    <2>3. \A c \in Ids : accepted'[c] <= solved'[c]
      BY <1>0, <1>6, <2>1, <2>2 DEF PassInv
    <2>4. \A w \in Verifiers : vpc'[w] = "score" =>
            /\ w # v /\ vpc[w] = "score" /\ vreq'[w] = vreq[w]
            /\ vreq[w].id \in Ids \ {vreq[v].id}
      BY <1>1, <1>6 DEF PassInv
    <2>5. \A w \in Verifiers : vpc'[w] = "score" =>
            accepted'[vreq'[w].id] = 0 /\ solved'[vreq'[w].id] = 1
      BY <1>6, <2>2, <2>4 DEF PassInv
    <2>6. \A u, w \in Verifiers : vpc'[u] = "score" /\ vpc'[w] = "score"
            /\ vreq'[u].id = vreq'[w].id => u = w
      BY <2>4 DEF PassInv
    <2> QED BY <2>3, <2>5, <2>6 DEF PassInv
  <1> QED BY <1>0, <1>4, <1>5, <1>6, SolvedStep, AcceptedStep

(* End to end, one challenge lets at most one form post through, and only  *)
(* after it was redeemed.                                                  *)
THEOREM AcceptedOnceHolds == ClientSpec => []AcceptedOnce
  <1>1. ClientInit => PassInv
    BY DEF ClientInit, Init, PassInv
  <1>2. (Inv /\ CallOK /\ LinkInv) /\ PassInv /\ [ClientNext]_allvars => PassInv'
    BY PassNext
  <1>3. (Inv /\ CallOK /\ LinkInv) /\ PassInv => AcceptedOnce
    <2> SUFFICES ASSUME Inv, CallOK, PassInv, NEW c \in Ids
                 PROVE  accepted[c] <= solved[c] /\ accepted[c] <= 1
      BY DEF AcceptedOnce
    <2>1. /\ accepted[c] \in Nat /\ solved[c] \in Nat
          /\ solved[c] <= 1 /\ accepted[c] <= solved[c]
      BY DEF Inv, TypeOK, HistoryOK, StoreInv, CallOK, PassInv
    <2> QED BY <2>1
  <1> QED BY <1>1, <1>2, <1>3, ClientAlways, PTL DEF ClientSpec

-----------------------------------------------------------------------------
(* No false replay                                                         *)

LEMMA ReplayNext ==
  ASSUME Inv, CallOK, LinkInv, GoneIsUsedUp, ReplayInv, [ClientNext]_allvars
  PROVE  ReplayInv'
  <1>0. [Next]_vars
    BY ServiceStep
  <1>1. ASSUME NEW c \in Ids, born[c] # None, UsedUp(c)
        PROVE  born'[c] # None /\ UsedUp(c)'
    BY <1>0, <1>1, UsedUpStays, HistoryStep
  <1>2. CASE UNCHANGED replayed
    BY <1>1, <1>2 DEF ReplayInv, CallOK
  <1>3. ASSUME NEW v \in Verifiers, Replays(v)
        PROVE  ReplayInv'
    <2>1. PICK c \in Ids : c = call[v].id
      BY <1>3 DEF Replays, Ends, CallOK
    <2>2. born[c] # None /\ UsedUp(c)
      BY <1>3, <2>1 DEF Replays, Ends, LinkInv, GoneIsUsedUp
    <2>3. \A d \in replayed' : d \in Ids /\ born[d] # None /\ UsedUp(d)
      BY <1>3, <2>1, <2>2 DEF Replays, ReplayInv, CallOK
    <2> QED BY <1>1, <2>3 DEF ReplayInv
  <1>4. ASSUME NEW v \in Verifiers,
               Handle(v) \/ HandlerCut(v) \/ HandlerPanics(v) \/ HashReturns(v)
        PROVE  UNCHANGED replayed \/ Replays(v)
    BY <1>4, AnswersEnd DEF Quiet, Silent, Passes, cvars, history_c
  <1>5. ASSUME NEW v \in Verifiers, Submit(v) \/ ClientTimeout(v)
        PROVE  UNCHANGED replayed
    BY <1>5 DEF Submit, ClientTimeout, history_c
  <1> QED BY <1>2, <1>3, <1>4, <1>5, BackgroundStep DEF ClientNext, cvars, history_c

(* "Replayed" is said only of a challenge that was redeemed, worn out or   *)
(* has expired.                                                            *)
THEOREM NoFalseReplayHolds == ClientSpec => []NoFalseReplay
  <1>1. ClientInit => ReplayInv
    BY DEF ClientInit, ReplayInv
  <1>2. (Inv /\ CallOK /\ LinkInv) /\ GoneIsUsedUp /\ ReplayInv /\ [ClientNext]_allvars
          => ReplayInv'
    BY ReplayNext
  <1>3. ReplayInv => NoFalseReplay
    BY DEF ReplayInv, UsedUp, NoFalseReplay
  <1> QED BY <1>1, <1>2, <1>3, ClientAlways, GoneHolds, PTL DEF ClientSpec

=============================================================================

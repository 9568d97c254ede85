---------------------------- MODULE VerifyClient ----------------------------
(***************************************************************************)
(* The bollwark-verify client crate composed with the verify pipeline of   *)
(* ChallengeService.  A form post reaches an integrator's backend, whose   *)
(* `Captcha' extractor takes the token from the body, asks POST /v1/verify *)
(* with the site's secret, and runs the form's handler only on a pass.     *)
(*                                                                         *)
(* The service answers in the step in which its handler ends; an answer    *)
(* that is lost or late is a client timeout just before it.  The timeout   *)
(* cuts the post from its handler and does not stop the handler.  Visitors *)
(* send tokens of challenges that were issued, with any nonce, any number  *)
(* of times.  Posts that never get to a handler leave no trace and are not *)
(* actions: no JSON or token in the body, an empty token ("Replayed"       *)
(* without a round trip), a request that is lost, does not decode (400),   *)
(* carries a secret no site owns (401) or an id never issued (404).        *)
(* Failover claims, which carry no challenge, are Failover's.              *)
(***************************************************************************)
EXTENDS ChallengeService

VARIABLES
  call,        \* verify handler -> [id, waiting]: the challenge its token
               \* names, and whether the form post still waits for the answer
  \* history
  accepted,    \* id -> how often a form handler ran on its token
  replayed     \* ids whose token was answered with Replayed

history_c == <<accepted, replayed>>
cvars == <<call, history_c>>
allvars == <<vars, cvars>>

NoCall == [id |-> None, waiting |-> FALSE]

(* Secrets are interchangeable: one assignment at boot stands for all.     *)
ClientInit ==
  /\ Init
  /\ sites_by_key = CHOOSE f \in [SiteKeys -> Secrets] :
                      \A j, k \in SiteKeys : f[j] = f[k] => j = k
  /\ call = [v \in Verifiers |-> NoCall]
  /\ accepted = [c \in Ids |-> 0] /\ replayed = {}

(* Its answer, and with it its token, has reached a visitor.               *)
Issued(c) == born[c] # None /\ ~Pending(c)

-----------------------------------------------------------------------------
(* What the crate makes of an answer                                       *)

Reply(status, success) == [status |-> status, success |-> success]

(* CaptchaError::into_response, and the timeout layer's answer             *)
ChallengeNotFound == Reply(404, FALSE)
ChallengeExpired == Reply(410, FALSE)
SecretRefused == Reply(401, FALSE)
StorageError == Reply(500, FALSE)
RequestTimeout == Reply(408, FALSE)

(* Fault: a 404 is taken for the repeat of a pass that was lost.           *)
VerdictIdempotent(r) ==
  CASE r.status = 200 -> IF r.success THEN "Passed" ELSE "Blocked"
    [] r.status = 404 -> "Passed"
    [] r.status = 410 -> "Expired"
    [] r.status = 400 -> "MalformedToken"
    [] r.status = 401 -> "Unauthorized"
    [] OTHER -> "Unexpected"

(* Client::verify_inner: four verdicts, and the errors that are none.      *)
Verdict(r) ==
  CASE r.status = 200 -> IF r.success THEN "Passed" ELSE "Blocked"
    [] r.status = 404 -> "Replayed"
    [] r.status = 410 -> "Expired"
    [] r.status = 400 -> "MalformedToken"
    [] r.status = 401 -> "Unauthorized"
    [] OTHER -> "Unexpected"

(* The extractor's outcome: a pass still needs a body of the form's type,  *)
(* which is only looked at now.                                            *)
Extracted(verdict, body_ok) ==
  IF verdict = "Passed" /\ ~body_ok THEN "InvalidBody" ELSE verdict

-----------------------------------------------------------------------------
(* Form posts                                                              *)

(* A backend posts the token; its Client was built with a secret that was  *)
(* once issued to its site and may since have been rotated.  The request   *)
(* decodes and begins to authenticate.                                     *)
Submit(v) == \E c \in Ids, s \in Secrets :
  /\ Issued(c) /\ owner[s] # None
  /\ BySecretOf(v, s)
  /\ call' = [call EXCEPT ![v] = [id |-> c, waiting |-> TRUE]]
  /\ UNCHANGED history_c

(* The crate's own timeout, five seconds unless configured: Unreachable.   *)
ClientTimeout(v) ==
  /\ call[v].waiting
  /\ call' = [call EXCEPT ![v].waiting = FALSE]
  /\ UNCHANGED <<vars, history_c>>

-----------------------------------------------------------------------------
(* The service's steps, with their answers                                 *)

(* The answer reaches the form post if that still waits for it.            *)
Deliver(v, reply) == \E body_ok \in BOOLEAN :
  LET c == call[v].id
      said == IF call[v].waiting THEN Extracted(Verdict(reply), body_ok)
                                 ELSE "Unreachable"
  IN /\ call' = [call EXCEPT ![v] = NoCall]
     /\ accepted' = IF said = "Passed"
                      THEN [accepted EXCEPT ![c] = @ + 1] ELSE accepted
     /\ replayed' = IF said = "Replayed" THEN replayed \cup {c} ELSE replayed

(* The handler goes on, or ends with this answer.                          *)
Responds(v, reply) ==
  IF vpc'[v] = "idle" THEN Deliver(v, reply) ELSE UNCHANGED cvars

(* A scored submission passes, or is refused on its score; pow_invalid is  *)
(* a refusal too.                                                          *)
Handle(v) ==
  LET c == call[v].id IN
  \/ ByKey(v) /\ Responds(v, SecretRefused)
  \/ GetChallengeOf(v, c) /\ Responds(v,
       IF challenges[c] = None THEN ChallengeNotFound ELSE SecretRefused)
  \/ CheckExpiry(v) /\ Responds(v, ChallengeExpired)
  \/ AcquirePermit(v) /\ UNCHANGED cvars
  \/ RejectNonce(v) /\ Deliver(v, Reply(200, FALSE))
  \/ Consume(v) /\ Responds(v, ChallengeNotFound)
  \/ Score(v) /\ \E success \in BOOLEAN : Deliver(v, Reply(200, success))

HandlerCut(v) == Abandon(v) /\ Deliver(v, RequestTimeout)

HandlerPanics(v) == HashPanics(v) /\ Deliver(v, StorageError)

HashReturns(v) == HashDone(v) /\ UNCHANGED cvars

Background ==
  /\ \/ \E k \in SiteKeys : RotateSecret(k) \/ DeleteSite(k)
     \/ \E p \in Issuers : PuzzleLookup(p) \/ PuzzleStep(p)
     \/ Tick
  /\ UNCHANGED cvars

DetachedReturns == DetachedHashDone /\ UNCHANGED cvars
SweepBegins == SweepStart /\ UNCHANGED cvars
SweepEnds == SweepRetain /\ UNCHANGED cvars

ClientNext ==
  \/ \E v \in Verifiers :
       \/ Submit(v) \/ ClientTimeout(v) \/ Handle(v)
       \/ HandlerCut(v) \/ HandlerPanics(v) \/ HashReturns(v)
  \/ DetachedReturns \/ SweepBegins \/ SweepEnds \/ Background

(* As in ChallengeService.  Nothing is asked of ClientTimeout: with        *)
(* with_http_client the crate may have no timeout at all.                  *)
ClientFairness ==
  /\ \A v \in Verifiers : /\ WF_allvars(Handle(v) \/ HandlerCut(v))
                          /\ WF_allvars(HashReturns(v))
  /\ WF_allvars(DetachedReturns)
  /\ WF_allvars(SweepBegins) /\ WF_allvars(SweepEnds)

ClientSpec == ClientInit /\ [][ClientNext]_allvars

ClientLiveSpec == ClientSpec /\ ClientFairness

-----------------------------------------------------------------------------
(* Properties                                                              *)

(* End to end, a challenge lets at most one form post through to its       *)
(* handler, and only a redeemed one does: not a resubmission after a       *)
(* client timeout whose handler went on and consumed the challenge, not    *)
(* two posts of one token in parallel, not a retry after an answer that    *)
(* the extractor turned into an error.                                     *)
AcceptedOnce == \A c \in Ids : accepted[c] <= solved[c] /\ accepted[c] <= 1

(* A visitor is told "Replayed" only of a challenge that was really used   *)
(* up, worn out or past its expiry: no interleaving with other posts or    *)
(* with the sweeper makes a fresh token look replayed.                     *)
NoFalseReplay == \A c \in replayed :
  \/ solved[c] > 0
  \/ MaxAttempts > 0 /\ invalid[c] >= MaxAttempts
  \/ born[c].created_at + TTL <= now

(* A form post that reached the service is answered even if the crate has  *)
(* no timeout: permits exhausted by slow or abandoned hashes delay it at   *)
(* most until the service's request timeout.                               *)
SubmissionsAnswered ==
  \A v \in Verifiers : call[v].waiting ~> ~call[v].waiting

=============================================================================

-------------------------- MODULE OneTimeChallenge --------------------------
(***************************************************************************)
(* What the challenge store promises its callers: a challenge is issued    *)
(* once, redeemed at most once, and one that was dropped (it expired, or   *)
(* too many wrong nonces were sent for it) never comes back.               *)
(* ChallengeService implements this specification.                         *)
(***************************************************************************)
CONSTANT Ids

VARIABLE status  \* id -> "unissued", "live", "redeemed" or "dropped"

Init == status = [c \in Ids |-> "unissued"]

Issue(c) ==
  /\ status[c] = "unissued"
  /\ status' = [status EXCEPT ![c] = "live"]

Redeem(c) ==
  /\ status[c] = "live"
  /\ status' = [status EXCEPT ![c] = "redeemed"]

(* A sweep drops several challenges in one step.                           *)
Drop(S) ==
  /\ \A c \in S : status[c] = "live"
  /\ status' = [c \in Ids |-> IF c \in S THEN "dropped" ELSE status[c]]

Next ==
  \/ \E c \in Ids : Issue(c) \/ Redeem(c)
  \/ \E S \in SUBSET Ids : Drop(S)

Spec == Init /\ [][Next]_status

=============================================================================

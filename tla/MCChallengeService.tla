------------------------- MODULE MCChallengeService -------------------------
(* Instances of ChallengeService for TLC.                                  *)
EXTENDS ChallengeService, TLC

(* Sites, secrets, ids and handlers are interchangeable for safety.        *)
Symmetry ==
  Permutations(Verifiers) \cup Permutations(Issuers)
    \cup Permutations(Ids) \cup Permutations(Secrets) \cup Permutations(SiteKeys)

=============================================================================

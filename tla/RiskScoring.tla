---------------------------- MODULE RiskScoring ----------------------------
(***************************************************************************)
(* The pure part of risk scoring: what a request is worth, which tier and  *)
(* difficulty that buys, and how a site's policy overlays the server's     *)
(* configuration.  A header, a behaviour blob or an address is the record  *)
(* of the facts the scorers test.                                          *)
(***************************************************************************)
EXTENDS Integers, Sequences, SequencesExt

CONSTANTS
  None,
  Weights,          \* SignalWeights: the points of every signal
  Bands,            \* rate thresholds [ip, sustained, site]
  Ladder,           \* LOAD_LADDER: set of [threshold, difficulty]
  TrustedProxies,   \* addresses of TRUSTED_PROXIES
  Reputation,       \* IP_REPUTATION_FILE: sequence of [net, category]
  BadFingerprints,  \* TLS fingerprint blocklist
  RequireBehavior,  \* VERIFY_REQUIRE_BEHAVIOR
  DuplicateMin      \* BEHAVIOR_DUPLICATE_MIN

Signals ==
  {"rate_ip_very_high", "rate_ip_high", "rate_ip_elevated",
   "rate_site_very_high", "rate_site_high", "ua_missing", "ua_suspicious",
   "accept_language_missing", "accept_encoding_missing", "sec_fetch_missing",
   "client_hints_missing", "tor", "datacenter", "vpn", "residential",
   "tls_fingerprint_bad", "honeypot_tripped", "time_very_short", "time_short",
   "remote_ip_mismatch", "behavior_flatline", "behavior_no_pointer",
   "behavior_instant_interaction", "behavior_automation", "behavior_headless",
   "behavior_impossible_timing", "behavior_duplicate"}

Points(fires, weight) == IF fires THEN weight ELSE 0
Larger(a, b) == IF a > b THEN a ELSE b
Smaller(a, b) == IF a < b THEN a ELSE b

-----------------------------------------------------------------------------
(* Addresses: net stands for the first 64 bits of IPv6.                    *)

Address == [net : Nat, host : Nat, v6 : BOOLEAN]

(* An IPv6 host owns its whole /64, an IPv4 address stands for itself.     *)
rate_key(ip) == IF ip.v6 THEN [ip EXCEPT !.host = 0] ELSE ip

(* X-Forwarded-For counts only behind a trusted proxy; the client is the   *)
(* rightmost hop that is not one itself, or else the leftmost.             *)
client_ip(peer, hops) ==
  LET untrusted == {i \in DOMAIN hops : hops[i] \notin TrustedProxies} IN
  IF peer \notin TrustedProxies \/ hops = <<>> THEN peer
  ELSE IF untrusted = {} THEN hops[1]
  ELSE hops[CHOOSE i \in untrusted : \A j \in untrusted : j <= i]

(* ReputationStore::lookup: the first entry that contains the address.     *)
lookup(ip) ==
  LET entry == SelectInSeq(Reputation, LAMBDA e : ip.net \in e.net) IN
  IF entry = 0 THEN None ELSE Reputation[entry].category

-----------------------------------------------------------------------------
(* Puzzle-time signals                                                     *)

ip_band(count, band) ==
  IF count > band.very_high THEN Weights.rate_ip_very_high
  ELSE IF count > band.high THEN Weights.rate_ip_high
  ELSE Points(count > band.elevated, Weights.rate_ip_elevated)

(* The worse of the two per-IP windows, plus the site's.                   *)
score_rate(ip_count, ip_count_sustained, site_count) ==
  Larger(ip_band(ip_count, Bands.ip),
         ip_band(ip_count_sustained, Bands.sustained))
    + (IF site_count > Bands.site.very_high THEN Weights.rate_site_very_high
       ELSE Points(site_count > Bands.site.high, Weights.rate_site_high))

(* h is the set of what the headers show.                                  *)
score_header_anomaly(h) ==
  Points("ua" \notin h, Weights.ua_missing)
    + Points({"ua", "bot_ua"} \subseteq h, Weights.ua_suspicious)
    + Points({"ua", "mozilla"} \subseteq h /\ "sec_fetch" \notin h,
             Weights.sec_fetch_missing)
    + Points({"ua", "chrome"} \subseteq h /\ "sec_ch_ua" \notin h,
             Weights.client_hints_missing)
    + Points("accept_language" \notin h, Weights.accept_language_missing)
    + Points("accept_encoding" \notin h, Weights.accept_encoding_missing)

score_ip_reputation(category) ==
  IF category = None THEN 0 ELSE Weights[category]

(* The header counts only when a trusted proxy set it.                     *)
score_tls_fingerprint(peer, fp) ==
  Points(peer \in TrustedProxies /\ fp \in BadFingerprints,
         Weights.tls_fingerprint_bad)

classify(tiers, score) ==
  IF score >= tiers.block THEN "block"
  ELSE IF score >= tiers.hard_pow THEN "hard_pow"
  ELSE IF score >= tiers.checkbox THEN "checkbox" ELSE "invisible_pass"

Bump == [invisible_pass |-> 0, checkbox |-> 2, hard_pow |-> 4]

(* Difficulty of a tier that is not "block"                                *)
difficulty_for(tier, policy) ==
  Smaller(policy.default_difficulty + Bump[tier], policy.max_difficulty)

(* LoadLadder::floor_for: the highest rung the site's count reaches.       *)
floor_for(site_count) ==
  LET met == {l \in Ladder : site_count >= l.threshold} IN
  IF met = {} THEN 0
  ELSE (CHOOSE l \in met : \A m \in met : m.threshold <= l.threshold).difficulty

-----------------------------------------------------------------------------
(* Verify-time signals.  A report b counts events; a dwell is in ms.       *)

claims_activity(b) == b.mouse_moves > 0 \/ b.touches > 0 \/ b.interactions > 0

score_time_on_page(dwell) ==
  IF dwell < 500 THEN Weights.time_very_short
  ELSE Points(dwell < 2000, Weights.time_short)

score_behavior(b) ==
  LET no_pointer == b.mouse_moves = 0 /\ b.touches = 0
      isolated == b.interactions <= 1
  IN (IF no_pointer /\ b.interactions = 0 THEN Weights.behavior_flatline
      ELSE Points(no_pointer /\ isolated, Weights.behavior_no_pointer))
       + Points(isolated /\ b.first_interaction_ms # None
                  /\ b.first_interaction_ms < 50,
                Weights.behavior_instant_interaction)
       + Points(b.webdriver \/ b.automation, Weights.behavior_automation)
       + Points(b.headless, Weights.behavior_headless)

(* An interaction later than the server-side dwell, with 30 s of slack.    *)
score_impossible_timing(b, dwell) ==
  Points(b.first_interaction_ms # None /\ b.first_interaction_ms > dwell + 30000,
         Weights.behavior_impossible_timing)

score_duplicate_blob(b, duplicate_count) ==
  Points(claims_activity(b) /\ duplicate_count >= DuplicateMin,
         Weights.behavior_duplicate)

(* VerifyScorer::score, b = None for a submission without a blob           *)
verify_total(honeypot, dwell, b, duplicate_count, mismatch) ==
  Points(honeypot, Weights.honeypot_tripped)
    + score_time_on_page(dwell)
    + (IF b = None THEN Points(RequireBehavior, Weights.behavior_flatline)
       ELSE score_behavior(b) + score_impossible_timing(b, dwell)
              + score_duplicate_blob(b, duplicate_count))
    + Points(mismatch, Weights.remote_ip_mismatch)

verify_decision(total, policy) ==
  IF total >= policy.verify_block_min THEN "block"
  ELSE IF total >= policy.verify_shadow_min THEN "shadow_fail" ELSE "pass"

-----------------------------------------------------------------------------
(* Policy                                                                  *)

Knobs == {"tier_checkbox_min", "tier_hard_pow_min", "tier_block_min",
          "verify_shadow_min", "verify_block_min", "default_difficulty",
          "max_difficulty"}

(* SitePolicy::resolve: what a site leaves None it inherits.               *)
resolve(policy, config) ==
  [k \in Knobs \cup {"mode"} |->
     IF k = "mode" THEN (IF policy.mode = None THEN "enforce" ELSE policy.mode)
     ELSE IF policy[k] = None THEN config[k] ELSE policy[k]]

tiers_of(e) == [checkbox |-> e.tier_checkbox_min,
                hard_pow |-> e.tier_hard_pow_min, block |-> e.tier_block_min]

MIN_DIFFICULTY == 1

(* Fault: only the base difficulty is checked, not what clamps it.         *)
validate_base_only(policy, config) ==
  LET e == resolve(policy, config) IN
  /\ e.default_difficulty >= MIN_DIFFICULTY
  /\ e.tier_checkbox_min <= e.tier_hard_pow_min
  /\ e.tier_hard_pow_min <= e.tier_block_min
  /\ e.verify_shadow_min <= e.verify_block_min
  /\ e.tier_block_min > 0 /\ e.verify_block_min > 0

(* SitePolicy::validate, on the values that would take effect              *)
validate(policy, config) ==
  LET e == resolve(policy, config) IN
  /\ e.default_difficulty >= MIN_DIFFICULTY
  /\ e.max_difficulty >= MIN_DIFFICULTY
  /\ e.default_difficulty <= e.max_difficulty
  /\ e.tier_checkbox_min <= e.tier_hard_pow_min
  /\ e.tier_hard_pow_min <= e.tier_block_min
  /\ e.verify_shadow_min <= e.verify_block_min
  /\ e.tier_block_min > 0 /\ e.verify_block_min > 0

(* AppConfig::validated: of these knobs the server only checks that no     *)
(* difficulty is 0; it refuses to boot otherwise.                          *)
validated(config) ==
  config.default_difficulty >= MIN_DIFFICULTY
    /\ config.max_difficulty >= MIN_DIFFICULTY

=============================================================================

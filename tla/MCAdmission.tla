---------------------------- MODULE MCAdmission ----------------------------
(* Instance of Admission for TLC: the weights and tier bands of the code,  *)
(* rate bands and windows scaled down.                                     *)
EXTENDS Admission, TLC

MCWeights == [
  rate_ip_very_high |-> 30, rate_ip_high |-> 15, rate_ip_elevated |-> 8,
  rate_site_very_high |-> 15, rate_site_high |-> 8,
  ua_missing |-> 30, ua_suspicious |-> 25, accept_language_missing |-> 10,
  accept_encoding_missing |-> 10, sec_fetch_missing |-> 15,
  client_hints_missing |-> 15,
  tor |-> 40, datacenter |-> 30, vpn |-> 20, residential |-> 0,
  tls_fingerprint_bad |-> 35, honeypot_tripped |-> 100,
  time_very_short |-> 50, time_short |-> 25, remote_ip_mismatch |-> 30,
  behavior_flatline |-> 30, behavior_no_pointer |-> 15,
  behavior_instant_interaction |-> 20, behavior_automation |-> 30,
  behavior_headless |-> 20, behavior_impossible_timing |-> 30,
  behavior_duplicate |-> 30]

MCBands == [ip |-> [elevated |-> 0, high |-> 0, very_high |-> 2],
            sustained |-> [elevated |-> 0, high |-> 2, very_high |-> 2],
            site |-> [high |-> 0, very_high |-> 2]]

MCLadder == {[threshold |-> 3, difficulty |-> 22]}

V6(net, host) == [net |-> net, host |-> host, v6 |-> TRUE]
V4(net) == [net |-> net, host |-> 0, v6 |-> FALSE]
Proxy == V4(9)

MCTrustedProxies == {Proxy}
MCReputation == <<[net |-> {2}, category |-> "tor"],
                  [net |-> {1, 2}, category |-> "residential"]>>
MCBadFingerprints == {"bad"}

Clean == {"ua", "mozilla", "sec_fetch", "accept_language", "accept_encoding"}

(* One IPv6 host: directly, and behind the proxy as a script, from two     *)
(* addresses of its /64 and with forged X-Forwarded-For headers.           *)
Request(visitor, via, forged, headers) ==
  [site |-> 1, visitor |-> visitor, via |-> via, claims |-> <<forged>>,
   headers |-> headers, tls |-> "bad"]

MCRequests == {Request(V6(1, 1), None, V4(2), Clean),
               Request(V6(1, 2), Proxy, V4(3), {})}

Moves == [mouse_moves |-> 1, touches |-> 0, interactions |-> 2,
          first_interaction_ms |-> 800, webdriver |-> FALSE,
          automation |-> FALSE, headless |-> FALSE]

MCSubmissions == {
  [site |-> 1, honeypot |-> FALSE, dwell |-> 5000, behavior |-> Moves,
   mismatch |-> FALSE],
  [site |-> 1, honeypot |-> TRUE, dwell |-> 400, behavior |-> None,
   mismatch |-> TRUE]}

(* One policy that may be stored, two that must not be.                    *)
MCPolicies == {
  [NoPolicy EXCEPT !.mode = "monitor", !.max_difficulty = 20],
  [NoPolicy EXCEPT !.max_difficulty = 0],
  [NoPolicy EXCEPT !.default_difficulty = 0]}

Default == [tier_checkbox_min |-> 20, tier_hard_pow_min |-> 40,
            tier_block_min |-> 85, verify_shadow_min |-> 30,
            verify_block_min |-> 60, default_difficulty |-> 18,
            max_difficulty |-> 24]

MCConfigs == {Default, [Default EXCEPT !.default_difficulty = 22, !.verify_shadow_min = 31],
              [Default EXCEPT !.max_difficulty = 0]}

(* A burst spans two windows, and a history is as long: ages 0 and 1.      *)
MCWindow == [ip |-> 1, sustained |-> 1, site |-> 1, blob |-> 2]
MCLimit == [ip |-> 2, sustained |-> 1, site |-> 1, blob |-> 1]

Open(m) == {k \in DOMAIN rates[m] : rates[m][k].age < Window[m]}

(* A map is at rest when no window is open and nothing is remembered.      *)
AtRest(m) == Open(m) = {} /\ \A s \in Subjects(m) : quiet[m][s] = {}
Busy == {h \in Handlers : handler[h] # Idle}
Usual == config = Default /\ \A k \in Sites : policy[k] = NoPolicy

(* The search is deep where the parts meet and shallow elsewhere: handlers *)
(* overlap and challenges are remembered while the map is under pressure,  *)
(* bursts come under the default configuration, and blobs, which share no  *)
(* counter with puzzle requests, come between requests.                    *)
Apart ==
  /\ AtRest("blob") \/ (AtRest("ip") /\ Busy = {})
  /\ active <= MaxActive
  /\ UnderPressure \/ (Cardinality(Busy) <= 1 /\ \A s \in Sources : taken[s] = {})
  /\ Usual \/ (/\ Cardinality(Busy) <= 1
               /\ \A s \in Sources : Cardinality(quiet["ip"][s]) <= 1)

(* What the future of a handler depends on: once counted, whom it answers, *)
(* whether it is past the per-IP cap and what it will say.                 *)
Ahead(d) ==
  LET answers == Verdict(d) # "block" \/ MonitoredBlock(d)
      costs(difficulty) == Smaller(difficulty, MIN_DIFFICULTY)
      past(n) == IF n > HardLimit THEN 1 ELSE 0
  IN CASE d.pc = "decide" ->
            [Idle EXCEPT !.pc = IF answers THEN "admit" ELSE "refuse",
                         !.req = Source(d.req), !.ip = past(d.ip),
                         !.difficulty = IF answers THEN costs(Difficulty(d)) ELSE 0]
       [] d.pc = "store" -> [d EXCEPT !.difficulty = costs(@)]
       [] OTHER -> [d EXCEPT !.ip = past(@), !.sustained = past(@)]

(* States with the same shape have the same future: handlers are alike, a  *)
(* window that is over is as good as none, and every band and the ladder   *)
(* have their threshold at the per-IP cap.                                 *)
Shape ==
  LET ahead == [h \in Handlers |-> Ahead(handler[h])]
  IN <<config, policy, active, quiet, taken,
       {<<ahead[h], Cardinality({g \in Handlers : ahead[g] = ahead[h]})>> : h \in Handlers},
       [m \in Maps |-> [k \in Open(m) |-> rates[m][k]]]>>

=============================================================================

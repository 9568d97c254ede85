----------------------------- MODULE Admission -----------------------------
(***************************************************************************)
(* What GET /v1/puzzle decides before a challenge exists, and what the     *)
(* scorer of POST /v1/verify counts: the four fixed-window counters of the *)
(* store, the per-IP cap, the shedding of flooders before the challenge    *)
(* map is full, the tier and the difficulty, under policies that operators *)
(* change and restarts with another configuration.                         *)
(*                                                                         *)
(* The clock is relative: a counter carries the age of its window, and a   *)
(* tick makes everything one second older.  The challenge map is its size  *)
(* (ChallengeService has its contents).                                    *)
(***************************************************************************)
EXTENDS RiskScoring, FiniteSets

CONSTANTS
  Sites,
  Requests,       \* puzzle requests: [site, visitor, via, claims, headers, tls]
  Submissions,    \* solved submissions: [site, honeypot, dwell, behavior, mismatch]
  Policies,       \* SitePolicy values operators write
  Configs,        \* configurations the server is started with
  Handlers,       \* concurrent puzzle handlers (a bound)
  Window,         \* window_secs of each map
  Limit,          \* of each map, the count that has no consequence yet
  HardLimit,      \* IP_HARD_LIMIT, 0 disables it
  MaxActive,      \* MAX_ACTIVE_CHALLENGES, 0 disables it
  MaxCount        \* counters stop here, past every threshold (a bound)

Maps == {"ip", "sustained", "site", "blob"}
SHED_PRESSURE_PERCENT == 80

NoPolicy == [x \in Knobs \cup {"mode"} |-> None]

ASSUME AdmissionAssumption ==
  /\ \A m \in Maps : Window[m] \in Nat \ {0} /\ Limit[m] \in Nat \ {0}
  /\ HardLimit \in Nat /\ MaxActive \in Nat /\ MaxCount \in Nat
  /\ MaxCount >= Bands.ip.very_high + 1 /\ MaxCount >= Bands.site.very_high + 1
  /\ MaxCount >= Bands.sustained.very_high + 1 /\ MaxCount >= DuplicateMin
  /\ MaxCount > HardLimit /\ \A m \in Maps : MaxCount > Limit[m]
  /\ HardLimit > 0 => Limit["ip"] = HardLimit
  /\ Limit["blob"] = DuplicateMin - 1
  /\ IsFiniteSet(Handlers)

(* Operators write natural numbers, and the server starts with some of     *)
(* the configurations.                                                     *)
ASSUME PolicyAssumption ==
  /\ None \notin Nat /\ Weights \in [Signals -> Nat] /\ DuplicateMin \in Nat
  /\ \A c \in Configs, k \in Knobs : c[k] \in Nat
  /\ \A p \in Policies, k \in Knobs : p[k] \in Nat \cup {None}
  /\ \A l \in Ladder : l.difficulty \in Nat /\ l.threshold \in 0 .. MaxCount
  /\ \E c \in Configs : validated(c)

(* Visitors are not proxies the operator trusts, and come directly or      *)
(* through one of those: a proxy nobody trusts is itself the visitor.      *)
(* What they claim in X-Forwarded-For is theirs to choose.                 *)
ASSUME RequestAssumption ==
  /\ \A r \in Requests :
       /\ r.site \in Sites /\ r.claims \in Seq(Address)
       /\ r.visitor \in Address \ TrustedProxies
       /\ r.via \in TrustedProxies \cup {None}
  /\ \A s \in Submissions : s.site \in Sites

VARIABLES
  config,
  policy,     \* site -> stored SitePolicy
  rates,      \* map -> key -> [count, age]; keys are added by requests
  active,     \* size of the challenge map
  handler,    \* puzzle handlers
  \* history of the last Window[m] seconds: sets of <<age, number>>
  quiet,      \* map -> subject -> requests its counter let through
  taken       \* source -> challenges decided while the map was under pressure

vars == <<config, policy, rates, active, handler, quiet, taken>>
counters == <<rates, quiet>>

Idle == [pc |-> "idle", req |-> None, policy |-> None, ip |-> 0,
         sustained |-> 0, site |-> 0, difficulty |-> 0]

(* Who really sends a request: an IPv6 host owns its /64.                  *)
Source(r) == [net |-> r.visitor.net, v6 |-> r.visitor.v6,
              host |-> IF r.visitor.v6 THEN 0 ELSE r.visitor.host]

Sources == {Source(r) : r \in Requests}

(* What a map counts by: who is to be limited.                             *)
Subjects(m) ==
  CASE m \in {"ip", "sustained"} -> Sources
    [] m = "site" -> Sites
    [] m = "blob" -> {<<s.site, s.behavior>> : s \in
                        {x \in Submissions : x.behavior # None}}

(* The history with one more event, and a second later.  Ages are whole    *)
(* seconds: any stretch of Window[m] seconds touches one second more.      *)
Noted(hits) ==
  hits \cup {<<0, CHOOSE n \in 0 .. Cardinality(hits) : <<0, n>> \notin hits>>}
Older(hits, m) == {<<e[1] + 1, e[2]>> : e \in {x \in hits : x[1] + 1 <= Window[m]}}

Fresh == /\ rates = [m \in Maps |-> <<>>]
         /\ active = 0
         /\ handler = [h \in Handlers |-> Idle]
         /\ quiet = [m \in Maps |-> [s \in Subjects(m) |-> {}]]
         /\ taken = [s \in Sources |-> {}]

Init ==
  /\ config \in {c \in Configs : validated(c)}
  /\ policy = [k \in Sites |-> NoPolicy]
  /\ Fresh

-----------------------------------------------------------------------------
(* ShardedRates                                                            *)

(* The window of key k after increment.                                    *)
Counted(m, k) ==
  LET w == IF k \in DOMAIN rates[m] THEN rates[m][k] ELSE [count |-> 0, age |-> 0]
  IN IF w.age >= Window[m] THEN [count |-> 1, age |-> 0]
     ELSE [count |-> Smaller(w.count + 1, MaxCount), age |-> w.age]

(* increment, under the lock of the key's shard.  The history notes a      *)
(* request that was let through against the subject s.                     *)
Increment(m, k, s, unnoticed) ==
  LET w == Counted(m, k) IN
  /\ rates' = [rates EXCEPT ![m] =
       [x \in DOMAIN rates[m] \cup {k} |-> IF x = k THEN w ELSE rates[m][x]]]
  /\ quiet' = IF unnoticed THEN [quiet EXCEPT ![m][s] = Noted(@)] ELSE quiet

(* Fault: windows are swept at half their length.                          *)
FreshKeysHalved(m) == {k \in DOMAIN rates[m] : rates[m][k].age < Window[m] \div 2}

(* retain_fresh: the windows that stay                                     *)
FreshKeys(m) == {k \in DOMAIN rates[m] : rates[m][k].age < 2 * Window[m]}

-----------------------------------------------------------------------------
(* GET /v1/puzzle                                                          *)

(* What the server sees of a request: the proxy appends whom it serves.    *)
Peer(r) == IF r.via = None THEN r.visitor ELSE r.via
Hops(r) == IF r.via = None THEN r.claims ELSE Append(r.claims, r.visitor)

ClientIp(r) == client_ip(Peer(r), Hops(r))

(* The site's policy is overlaid on the configuration once.  A request     *)
(* refused for its origin touches nothing.                                 *)
Arrive(h) == \E r \in Requests :
  /\ handler[h].pc = "idle"
  /\ handler' = [handler EXCEPT ![h] =
       [Idle EXCEPT !.pc = "ip", !.req = r,
                    !.policy = resolve(policy[r.site], config)]]
  /\ UNCHANGED <<config, policy, counters, active, taken>>

Count(h, m, k, s, next) ==
  LET n == Counted(m, k).count IN
  /\ handler[h].pc = m
  /\ Increment(m, k, s, n <= Limit[m])
  /\ handler' = [handler EXCEPT ![h][m] = n, ![h].pc = next]
  /\ UNCHANGED <<config, policy, active, taken>>

CountIp(h) ==
  LET r == handler[h].req IN
  Count(h, "ip", rate_key(ClientIp(r)), Source(r), "sustained")

CountSustained(h) ==
  LET r == handler[h].req IN
  Count(h, "sustained", rate_key(ClientIp(r)), Source(r), "site")

CountSite(h) ==
  LET k == handler[h].req.site IN Count(h, "site", k, k, "decide")

RequestScore(d) ==
  score_rate(d.ip, d.sustained, d.site)
    + score_header_anomaly(d.req.headers)
    + score_ip_reputation(lookup(ClientIp(d.req)))
    + score_tls_fingerprint(Peer(d.req), d.req.tls)

HardCapped(d) == HardLimit > 0 /\ d.ip > HardLimit
OverCapacity == MaxActive > 0 /\ active >= MaxActive
UnderPressure ==
  MaxActive > 0 /\ active * 100 >= MaxActive * SHED_PRESSURE_PERCENT

(* Fault: only a full map sheds.                                           *)
ShedsWhenFull(d) == OverCapacity

(* A full map refuses everyone, a map under pressure the flooders.         *)
Sheds(d) == OverCapacity \/ (UnderPressure /\ HardCapped(d))

(* The verdict of scoring; past the per-IP cap it is at least a throttle.  *)
Verdict(d) ==
  IF HardCapped(d) THEN "hard_pow"
  ELSE classify(tiers_of(d.policy), RequestScore(d))

MonitoredBlock(d) == d.policy.mode = "monitor" /\ Verdict(d) = "block"

(* Tier floor, load floor, throttle to the maximum, clamp.                 *)
Difficulty(d) ==
  LET tier == IF MonitoredBlock(d) THEN "hard_pow" ELSE Verdict(d)
      floored == Larger(difficulty_for(tier, d.policy), floor_for(d.site))
  IN Smaller(IF HardCapped(d) \/ MonitoredBlock(d)
               THEN Larger(floored, d.policy.max_difficulty) ELSE floored,
             d.policy.max_difficulty)

(* 429: load shedding, or a verdict that is enforced.                      *)
Refuse(h) ==
  LET d == handler[h] IN
  /\ d.pc = "decide"
  /\ Sheds(d) \/ (Verdict(d) = "block" /\ ~MonitoredBlock(d))
  /\ handler' = [handler EXCEPT ![h] = Idle]
  /\ UNCHANGED <<config, policy, counters, active, taken>>

Admit(h) ==
  LET d == handler[h] IN
  /\ d.pc = "decide"
  /\ ~Sheds(d) /\ (Verdict(d) # "block" \/ MonitoredBlock(d))
  /\ handler' = [handler EXCEPT ![h] =
       [Idle EXCEPT !.pc = "store", !.difficulty = Difficulty(d)]]
  /\ taken' = IF UnderPressure THEN [taken EXCEPT ![Source(d.req)] = Noted(@)]
                               ELSE taken
  /\ UNCHANGED <<config, policy, counters, active>>

Store(h) ==
  /\ handler[h].pc = "store"
  /\ active' = active + 1
  /\ handler' = [handler EXCEPT ![h] = Idle]
  /\ UNCHANGED <<config, policy, counters, taken>>

-----------------------------------------------------------------------------
(* POST /v1/verify, after the proof of work was found valid and its        *)
(* challenge consumed                                                      *)

VerifyDecision(s, duplicates) ==
  verify_decision(
    verify_total(s.honeypot, s.dwell, s.behavior, duplicates, s.mismatch),
    resolve(policy[s.site], config))

(* Under the policy in force a duplicate alone reaches the shadow band.    *)
(* Nothing in validate asks for that.                                      *)
FlagsDuplicates(k) ==
  resolve(policy[k], config).verify_shadow_min <= Weights.behavior_duplicate

(* Only a blob that claims activity is counted; what is let through is a   *)
(* verdict of "pass" of a policy that flags duplicates.                    *)
Score(s) ==
  LET k == <<s.site, s.behavior>>
      n == Counted("blob", k).count IN
  /\ active > 0 /\ active' = active - 1
  /\ IF s.behavior # None /\ claims_activity(s.behavior)
       THEN Increment("blob", k, k,
                      FlagsDuplicates(s.site) /\ VerifyDecision(s, n) = "pass")
       ELSE UNCHANGED counters
  /\ UNCHANGED <<config, policy, handler, taken>>

-----------------------------------------------------------------------------
(* Operators, cleanup task, restarts, time                                 *)

UpdatePolicy(k) == \E p \in Policies :
  /\ validate(p, config)
  /\ policy' = [policy EXCEPT ![k] = p]
  /\ UNCHANGED <<config, counters, active, handler, taken>>

(* cleanup_expired.  The maps share no key, so one step goes over all of   *)
(* them; a sweep that is slow sees a clock that is behind, hence smaller   *)
(* ages, and only keeps more.                                              *)
Sweep == \E n \in 0 .. active :
  /\ active' = active - n
  /\ rates' = [m \in Maps |-> [k \in FreshKeys(m) |-> rates[m][k]]]
  /\ UNCHANGED <<config, policy, handler, quiet, taken>>

(* The process starts again, perhaps with another environment; sites and   *)
(* their policies are on disk, counters and challenges are not.            *)
Restart ==
  /\ config' \in {c \in Configs : validated(c)}
  /\ rates' = [m \in Maps |-> <<>>]
  /\ active' = 0
  /\ handler' = [h \in Handlers |-> Idle]
  /\ quiet' = [m \in Maps |-> [s \in Subjects(m) |-> {}]]
  /\ taken' = [s \in Sources |-> {}]
  /\ UNCHANGED policy

(* One second passes.  An age past every comparison stays as it is.        *)
Tick ==
  /\ rates' = [m \in Maps |-> [k \in DOMAIN rates[m] |->
       [rates[m][k] EXCEPT !.age = Smaller(@ + 1, 2 * Window[m])]]]
  /\ quiet' = [m \in Maps |-> [s \in Subjects(m) |-> Older(quiet[m][s], m)]]
  /\ taken' = [s \in Sources |-> Older(taken[s], "ip")]
  /\ UNCHANGED <<config, policy, active, handler>>

Next ==
  \/ \E h \in Handlers : \/ Arrive(h) \/ CountIp(h) \/ CountSustained(h)
                         \/ CountSite(h) \/ Refuse(h) \/ Admit(h) \/ Store(h)
  \/ \E s \in Submissions : Score(s)
  \/ \E k \in Sites : UpdatePolicy(k)
  \/ Sweep \/ Restart \/ Tick

Spec == Init /\ [][Next]_vars

-----------------------------------------------------------------------------
(* Properties                                                              *)

(* Whatever the sweeper, restarts of a window, IPv6 rotation or forged     *)
(* X-Forwarded-For headers do, a subject gets at most twice the limit      *)
(* through unnoticed in any stretch of time as long as the window: the     *)
(* worst case of a fixed window, a burst on each side of its boundary.     *)
(* For behaviour blobs that means replays which still pass under a policy  *)
(* that flags duplicates.                                                  *)
FixedWindowBurst == \A m \in Maps : \A s \in Subjects(m) :
  Cardinality(quiet[m][s]) <= 2 * Limit[m]

(* The fifth of the map that is held back from flooders stays held back:   *)
(* in a stretch as long as the window a source gets at most twice          *)
(* HardLimit challenges while the map is under pressure, and one more for  *)
(* every handler that was counted earlier and decides late.                *)
ReservedHeadroom == HardLimit > 0 => \A s \in Sources :
  Cardinality(taken[s]) <= 2 * HardLimit + Cardinality(Handlers)

(* No challenge is free: whichever policy was validated under whichever    *)
(* configuration, an issued difficulty is never 0, which every nonce would *)
(* solve.                                                                  *)
NoFreeChallenge == \A h \in Handlers :
  handler[h].pc = "store" => handler[h].difficulty >= MIN_DIFFICULTY

=============================================================================

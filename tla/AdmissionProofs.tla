-------------------------- MODULE AdmissionProofs --------------------------
(***************************************************************************)
(* Proofs about Admission, for any number of sites, visitors and handlers, *)
(* any windows, limits, policies and configurations.                       *)
(***************************************************************************)
EXTENDS Admission, FiniteSetTheorems, FunctionTheorems, WellFoundedInduction, TLAPS

Effective == {resolve(p, c) : p \in Policies \cup {NoPolicy}, c \in Configs}
Working == {"ip", "sustained", "site", "decide"}
Hits(m) == (0 .. Window[m]) \X Nat

UpTo(hits, age) == {e \in hits : e[1] <= age}
Past(hits, age) == {e \in hits : e[1] > age}

HandlerState ==
  [pc : Working \cup {"idle", "store"}, req : Requests \cup {None},
   policy : Effective \cup {None}, ip : Nat, sustained : Nat, site : Nat,
   difficulty : Nat]

(* Every variable but the counters holds a value of its type.              *)
TypeInv ==
  /\ config \in Configs
  /\ policy \in [Sites -> Policies \cup {NoPolicy}]
  /\ handler \in [Handlers -> HandlerState]
  /\ \A h \in Handlers : handler[h].pc \in Working =>
       handler[h].req \in Requests /\ handler[h].policy \in Effective

(* The histories: finite sets of events of the last window.                *)
HistoryInv ==
  /\ DOMAIN rates = Maps /\ DOMAIN quiet = Maps
  /\ \A m \in Maps : /\ DOMAIN quiet[m] = Subjects(m)
                     /\ \A s \in Subjects(m) : quiet[m][s] \subseteq Hits(m)
                                                /\ IsFiniteSet(quiet[m][s])

TakenInv ==
  /\ DOMAIN taken = Sources
  /\ \A s \in Sources : taken[s] \subseteq Hits("ip") /\ IsFiniteSet(taken[s])

(* A window accounts for a history of its subject: the events since it     *)
(* opened are in its count, the ones before it filled one limit at most,   *)
(* and it was open when each was counted.                                  *)
Accounts(w, m, hits) ==
  /\ w \in [count : Nat, age : Nat]
  /\ \A e \in hits : w.age < e[1] + Window[m]
  /\ Cardinality(UpTo(hits, w.age)) <= w.count
  /\ Cardinality(UpTo(hits, w.age)) <= Limit[m]
  /\ Cardinality(Past(hits, w.age)) <= Limit[m]

WindowInv == \A m \in Maps : \A s \in Subjects(m) :
  IF s \in DOMAIN rates[m] THEN Accounts(rates[m][s], m, quiet[m][s])
                           ELSE quiet[m][s] = {}

(* Handlers of source s whose request was counted within the per-IP cap.   *)
Counts(d, s) ==
  d.pc \in {"sustained", "site", "decide"} /\ Source(d.req) = s /\ d.ip <= HardLimit

Counting(s) == {h \in Handlers : Counts(handler[h], s)}

(* Whatever part of the window one looks at, the challenges decided in it  *)
(* and the requests still on their way were let through in it, but for one *)
(* per handler.                                                            *)
PressureInv == HardLimit > 0 => \A s \in Sources : \A age \in 0 .. Window["ip"] :
  Cardinality(UpTo(taken[s], age)) + Cardinality(Counting(s))
    <= Cardinality(UpTo(quiet["ip"][s], age)) + Cardinality(Handlers)

(* No configuration, stored policy or policy in use has a difficulty of 0. *)
Positive(e) == e.default_difficulty \in Nat \ {0} /\ e.max_difficulty \in Nat \ {0}

PolicyInv ==
  /\ Positive(config)
  /\ \A k \in Sites : /\ policy[k].default_difficulty \in (Nat \ {0}) \cup {None}
                      /\ policy[k].max_difficulty \in (Nat \ {0}) \cup {None}
  /\ \A h \in Handlers : handler[h].pc \in Working => Positive(handler[h].policy)
  /\ NoFreeChallenge

Inv == TypeInv /\ HistoryInv /\ TakenInv /\ WindowInv /\ PressureInv /\ PolicyInv

-----------------------------------------------------------------------------
(* Addresses                                                               *)

(* Whatever a visitor puts into X-Forwarded-For, the server takes it for   *)
(* who it is: the hop a trusted proxy appended is the rightmost untrusted  *)
(* one.                                                                    *)
LEMMA ClientIpIsVisitor ==
  ASSUME NEW r \in Requests
  PROVE  ClientIp(r) = r.visitor
  <1>1. /\ r.claims \in Seq(Address) /\ r.visitor \notin TrustedProxies
        /\ r.via \in TrustedProxies \cup {None}
    BY RequestAssumption
  <1>2. CASE r.via = None
    BY <1>1, <1>2 DEF ClientIp, Peer, client_ip
  <1>3. CASE r.via # None
    <2> DEFINE hops == Append(r.claims, r.visitor)
               n == Len(r.claims) + 1
               untrusted == {i \in DOMAIN hops : hops[i] \notin TrustedProxies}
    <2>1. DOMAIN hops = 1 .. n /\ n \in Nat /\ n >= 1 /\ hops[n] = r.visitor /\ hops # <<>>
      BY <1>1
    <2> HIDE DEF hops, n
    <2>2. n \in untrusted /\ \A j \in untrusted : j <= n /\ j \in Nat
      BY <1>1, <2>1
    <2> HIDE DEF untrusted
    <2> DEFINE last == CHOOSE i \in untrusted : \A j \in untrusted : j <= i
    <2>3. last = n
      <3>1. last \in untrusted /\ \A j \in untrusted : j <= last
        BY <2>2
      <3> HIDE DEF last
      <3> QED BY <2>1, <2>2, <3>1
    <2>4. client_ip(r.via, hops) = r.visitor
      BY <1>1, <1>3, <2>1, <2>2, <2>3 DEF client_ip, untrusted
    <2> QED BY <1>3, <2>4 DEF ClientIp, Peer, Hops, hops
  <1> QED BY <1>2, <1>3

(* So every counter by address counts by who really sends: neither forged  *)
(* headers nor the addresses of an IPv6 /64 give a visitor another one.    *)
THEOREM CountedBySource ==
  \A r \in Requests : rate_key(ClientIp(r)) = Source(r)
  <1> SUFFICES ASSUME NEW r \in Requests PROVE rate_key(r.visitor) = Source(r)
    BY ClientIpIsVisitor
  <1>1. r.visitor \in Address
    BY RequestAssumption
  <1>2. rate_key(r.visitor) \in Address /\ Source(r) \in Address
    BY <1>1 DEF Address, rate_key, Source
  <1>3. /\ rate_key(r.visitor).net = Source(r).net /\ rate_key(r.visitor).v6 = Source(r).v6
        /\ rate_key(r.visitor).host = Source(r).host
    BY <1>1 DEF Address, rate_key, Source
  <1> QED BY <1>2, <1>3 DEF Address

-----------------------------------------------------------------------------
(* Histories                                                               *)

LEMMA Parts ==
  ASSUME NEW hits, IsFiniteSet(hits), hits \subseteq Nat \X Nat, NEW age \in Nat
  PROVE  /\ IsFiniteSet(UpTo(hits, age)) /\ Cardinality(UpTo(hits, age)) \in Nat
         /\ IsFiniteSet(Past(hits, age)) /\ Cardinality(Past(hits, age)) \in Nat
         /\ Cardinality(hits) = Cardinality(UpTo(hits, age)) + Cardinality(Past(hits, age))
  <1> DEFINE U == UpTo(hits, age)
             P == Past(hits, age)
  <1>1. U \in SUBSET hits /\ P \in SUBSET hits
    BY DEF UpTo, Past
  <1>2. U \cup P = hits /\ U \cap P = {}
    <2>1. \A e \in hits : e[1] \in Nat
      OBVIOUS
    <2> QED BY <2>1 DEF UpTo, Past
  <1> HIDE DEF U, P
  <1>3. IsFiniteSet(U) /\ IsFiniteSet(P) /\ Cardinality(U) \in Nat /\ Cardinality(P) \in Nat
    BY <1>1, FS_Subset, FS_CardinalityType
  <1>4. Cardinality(U \cup P) = Cardinality(U) + Cardinality(P) - Cardinality(U \cap P)
    BY <1>3, FS_Union
  <1>5. Cardinality(U \cap P) = 0
    BY <1>2, FS_EmptySet
  <1>6. Cardinality(hits) = Cardinality(U) + Cardinality(P)
    <2>1. Cardinality(U \cup P) = Cardinality(hits)
      BY <1>2
    <2> QED BY <1>3, <1>4, <1>5, <2>1
  <1> QED BY <1>3, <1>6 DEF U, P

LEMMA HitsAreNatural ==
  ASSUME NEW m \in Maps
  PROVE  /\ Window[m] \in Nat \ {0} /\ Limit[m] \in Nat \ {0}
         /\ \A e \in Hits(m) : /\ e = <<e[1], e[2]>> /\ e[1] \in Nat /\ e[2] \in Nat
                               /\ e[1] <= Window[m]
         /\ Hits(m) \subseteq Nat \X Nat
  BY AdmissionAssumption DEF Hits

(* A number that is free in this second.                                   *)
LEMMA NumberIsFree ==
  ASSUME NEW hits, IsFiniteSet(hits)
  PROVE  \E n \in 0 .. Cardinality(hits) : <<0, n>> \notin hits
  <1> DEFINE N == 0 .. Cardinality(hits)
  <1> SUFFICES ASSUME \A n \in N : <<0, n>> \in hits PROVE FALSE
    OBVIOUS
  <1>1. Cardinality(hits) \in Nat
    BY FS_CardinalityType
  <1>2. IsFiniteSet(N) /\ Cardinality(N) = Cardinality(hits) + 1
    BY <1>1, FS_Interval
  <1> DEFINE f == [n \in N |-> <<0, n>>]
  <1>3. f \in [N -> hits] /\ \A x, y \in N : f[x] = f[y] => x = y
    OBVIOUS
  <1> HIDE DEF f, N
  <1>4. Cardinality(hits) < Cardinality(N)
    BY <1>1, <1>2
  <1> QED BY <1>2, <1>3, <1>4, FS_PigeonHole

(* Noting adds one event of age 0.                                         *)
LEMMA NotedAddsOne ==
  ASSUME NEW m \in Maps, NEW hits, hits \subseteq Hits(m), IsFiniteSet(hits)
  PROVE  /\ Noted(hits) \subseteq Hits(m) /\ IsFiniteSet(Noted(hits))
         /\ \A e \in Noted(hits) : e \in hits \/ e[1] = 0
         /\ \A age \in Nat :
              /\ Cardinality(UpTo(Noted(hits), age)) = Cardinality(UpTo(hits, age)) + 1
              /\ Past(Noted(hits), age) = Past(hits, age)
  <1> DEFINE n == CHOOSE n \in 0 .. Cardinality(hits) : <<0, n>> \notin hits
             new == <<0, n>>
  <1>1. n \in 0 .. Cardinality(hits) /\ new \notin hits
    BY NumberIsFree
  <1>2. Noted(hits) = hits \cup {new}
    BY DEF Noted
  <1> HIDE DEF n
  <1>3. new \in Hits(m) /\ new[1] = 0
    BY <1>1, HitsAreNatural DEF Hits
  <1> HIDE DEF new
  <1>4. IsFiniteSet(Noted(hits))
    BY <1>2, FS_AddElement
  <1>5. ASSUME NEW age \in Nat
        PROVE  /\ Cardinality(UpTo(Noted(hits), age)) = Cardinality(UpTo(hits, age)) + 1
               /\ Past(Noted(hits), age) = Past(hits, age)
    <2>1. IsFiniteSet(UpTo(hits, age))
      BY HitsAreNatural, Parts
    <2>2. new \notin UpTo(hits, age) /\ UpTo(Noted(hits), age) = UpTo(hits, age) \cup {new}
      BY <1>1, <1>2, <1>3 DEF UpTo
    <2>3. Past(Noted(hits), age) = Past(hits, age)
      BY <1>2, <1>3 DEF Past
    <2> QED BY <2>1, <2>2, <2>3, FS_AddElement
  <1> QED BY <1>2, <1>3, <1>4, <1>5

(* A second later as many events are there, each a second older.           *)
LEMMA Shifted ==
  ASSUME NEW S, IsFiniteSet(S), S \subseteq Nat \X Nat
  PROVE  LET T == {<<e[1] + 1, e[2]>> : e \in S}
         IN IsFiniteSet(T) /\ Cardinality(T) = Cardinality(S)
  <1> DEFINE T == {<<e[1] + 1, e[2]>> : e \in S}
             f == [e \in S |-> <<e[1] + 1, e[2]>>]
  <1>1. \A e \in S : e = <<e[1], e[2]>> /\ e[1] \in Nat
    OBVIOUS
  <1>2. f \in [S -> T] /\ \A t \in T : \E e \in S : f[e] = t
    OBVIOUS
  <1>3. \A a, b \in S : f[a] = f[b] => a = b
    BY <1>1
  <1> HIDE DEF f, T
  <1>4. f \in Bijection(S, T)
    BY <1>2, <1>3, Fun_IsBij
  <1>5. ExistsBijection(S, T)
    BY <1>4 DEF ExistsBijection
  <1>6. IsFiniteSet(T) /\ Cardinality(T) = Cardinality(S)
    BY <1>5, FS_Bijection
  <1> QED BY <1>6 DEF T

(* What of the history is left a second later: no event of this second,    *)
(* and of the earlier ones those still within the window.                  *)
LEMMA OlderShifts ==
  ASSUME NEW m \in Maps, NEW hits, hits \subseteq Hits(m), IsFiniteSet(hits)
  PROVE  /\ Older(hits, m) \subseteq Hits(m) /\ IsFiniteSet(Older(hits, m))
         /\ UpTo(Older(hits, m), 0) = {}
         /\ \A age \in Nat :
              /\ Cardinality(UpTo(Older(hits, m), age + 1)) <= Cardinality(UpTo(hits, age))
              /\ Cardinality(Past(Older(hits, m), age + 1)) <= Cardinality(Past(hits, age))
              /\ age + 1 <= Window[m] =>
                   Cardinality(UpTo(Older(hits, m), age + 1)) = Cardinality(UpTo(hits, age))
  <1> DEFINE W == Window[m]
             Kept == {x \in hits : x[1] + 1 <= W}
  <1>1. /\ W \in Nat /\ W > 0
        /\ \A e \in hits : e = <<e[1], e[2]>> /\ e[1] \in Nat /\ e[2] \in Nat /\ e[1] <= W
        /\ hits \subseteq Nat \X Nat
    BY HitsAreNatural
  <1>2. Kept \subseteq Nat \X Nat /\ IsFiniteSet(Kept)
    <2>1. Kept \in SUBSET hits
      OBVIOUS
    <2> QED BY <1>1, <2>1, FS_Subset
  <1>3. Older(hits, m) = {<<e[1] + 1, e[2]>> : e \in Kept}
    BY DEF Older
  <1>4. Older(hits, m) \subseteq Hits(m)
    BY <1>1, <1>3 DEF Hits
  <1>5. UpTo(Older(hits, m), 0) = {}
    BY <1>1, <1>3 DEF UpTo
  <1>6. ASSUME NEW age \in Nat
        PROVE  /\ Cardinality(UpTo(Older(hits, m), age + 1)) <= Cardinality(UpTo(hits, age))
               /\ Cardinality(Past(Older(hits, m), age + 1)) <= Cardinality(Past(hits, age))
               /\ age + 1 <= W =>
                    Cardinality(UpTo(Older(hits, m), age + 1)) = Cardinality(UpTo(hits, age))
    <2> DEFINE U == {e \in Kept : e[1] <= age}
               P == {e \in Kept : e[1] > age}
    <2>1. UpTo(Older(hits, m), age + 1) = {<<e[1] + 1, e[2]>> : e \in U}
      BY <1>1, <1>3 DEF UpTo
    <2>2. Past(Older(hits, m), age + 1) = {<<e[1] + 1, e[2]>> : e \in P}
      BY <1>1, <1>3 DEF Past
    <2>3. U \in SUBSET UpTo(hits, age) /\ P \in SUBSET Past(hits, age)
      BY DEF UpTo, Past
    <2>4. age + 1 <= W => U = UpTo(hits, age)
      BY <1>1 DEF UpTo
    <2>5. U \subseteq Nat \X Nat /\ P \subseteq Nat \X Nat
      BY <1>2
    <2> HIDE DEF U, P
    <2>6. IsFiniteSet(UpTo(hits, age)) /\ IsFiniteSet(Past(hits, age))
      BY <1>1, Parts
    <2>7. /\ IsFiniteSet(U) /\ Cardinality(U) <= Cardinality(UpTo(hits, age))
          /\ IsFiniteSet(P) /\ Cardinality(P) <= Cardinality(Past(hits, age))
      BY <2>3, <2>6, FS_Subset
    <2> QED BY <2>1, <2>2, <2>4, <2>5, <2>7, Shifted
  <1>7. IsFiniteSet(Older(hits, m))
    BY <1>2, <1>3, Shifted
  <1> HIDE DEF Kept
  <1> QED BY <1>4, <1>5, <1>6, <1>7

-----------------------------------------------------------------------------
(* Windows                                                                 *)

(* No window and no history: as good as a window that counted nothing.     *)
LEMMA NothingAccounts ==
  ASSUME NEW m \in Maps
  PROVE  Accounts([count |-> 0, age |-> 0], m, {})
  <1>1. UpTo({}, 0) = {} /\ Past({}, 0) = {}
    BY DEF UpTo, Past
  <1>2. Cardinality({}) = 0
    BY FS_EmptySet
  <1> QED BY <1>1, <1>2, HitsAreNatural DEF Accounts

(* An increment opens a new window when the old one is over.  The history  *)
(* the old one accounted for is then the past of the new one.              *)
LEMMA IncrementAccounts ==
  ASSUME NEW m \in Maps, NEW hits, hits \subseteq Hits(m), IsFiniteSet(hits),
         NEW w, Accounts(w, m, hits),
         NEW v, v = IF w.age >= Window[m] THEN [count |-> 1, age |-> 0]
                    ELSE [count |-> Smaller(w.count + 1, MaxCount), age |-> w.age]
  PROVE  /\ Accounts(v, m, hits)
         /\ v.count <= Limit[m] => Accounts(v, m, Noted(hits))
         /\ v.count \in Nat
  <1>1. /\ Window[m] \in Nat \ {0} /\ Limit[m] \in Nat \ {0} /\ MaxCount \in Nat
        /\ MaxCount > Limit[m] /\ hits \subseteq Nat \X Nat
        /\ \A e \in hits : e[1] \in Nat /\ e[1] <= Window[m]
    BY HitsAreNatural, AdmissionAssumption
  <1>2. /\ w.count \in Nat /\ w.age \in Nat /\ \A e \in hits : w.age < e[1] + Window[m]
        /\ Cardinality(UpTo(hits, w.age)) <= w.count
        /\ Cardinality(UpTo(hits, w.age)) <= Limit[m]
        /\ Cardinality(Past(hits, w.age)) <= Limit[m]
    BY DEF Accounts
  <1>3. /\ Cardinality(UpTo(hits, w.age)) \in Nat
        /\ Cardinality(Past(hits, w.age)) \in Nat
        /\ Cardinality(hits) = Cardinality(UpTo(hits, w.age)) + Cardinality(Past(hits, w.age))
        /\ IsFiniteSet(Past(hits, 0))
    BY <1>1, <1>2, Parts
  <1>4. CASE w.age < Window[m]
    <2>1. /\ v = [count |-> Smaller(w.count + 1, MaxCount), age |-> w.age]
          /\ v.count = Smaller(w.count + 1, MaxCount) /\ v.age = w.age
      BY <1>1, <1>2, <1>4
    <2>2. /\ v.count \in Nat /\ Cardinality(UpTo(hits, w.age)) <= v.count
          /\ v.count <= Limit[m] => v.count = w.count + 1
      BY <1>1, <1>2, <1>3, <2>1 DEF Smaller
    <2>3. Accounts(v, m, hits)
      BY <1>1, <1>2, <1>3, <2>1, <2>2 DEF Accounts
    <2>4. ASSUME v.count <= Limit[m] PROVE Accounts(v, m, Noted(hits))
      <3>1. /\ Cardinality(UpTo(Noted(hits), v.age)) = Cardinality(UpTo(hits, w.age)) + 1
            /\ Past(Noted(hits), v.age) = Past(hits, w.age)
            /\ \A e \in Noted(hits) : e \in hits \/ e[1] = 0
        BY <1>2, <2>1, NotedAddsOne
      <3>2. \A e \in Noted(hits) : v.age < e[1] + Window[m]
        BY <1>1, <1>2, <1>4, <2>1, <3>1
      <3> QED BY <1>1, <1>2, <1>3, <2>1, <2>2, <2>4, <3>1, <3>2 DEF Accounts
    <2> QED BY <2>2, <2>3, <2>4
  <1>5. CASE w.age >= Window[m]
    <2>1. v = [count |-> 1, age |-> 0] /\ v.count = 1 /\ v.age = 0
      BY <1>5
    <2>2. UpTo(hits, 0) = {} /\ Past(hits, w.age) = {}
      BY <1>1, <1>2, <1>5 DEF UpTo, Past
    <2>3. Cardinality(UpTo(hits, 0)) = 0 /\ Cardinality(Past(hits, w.age)) = 0
      BY <2>2, FS_EmptySet
    <2>4. Cardinality(Past(hits, 0)) <= Limit[m]
      <3>1. Past(hits, 0) \in SUBSET hits
        BY DEF Past
      <3>2. Cardinality(Past(hits, 0)) <= Cardinality(hits)
        BY <3>1, FS_Subset
      <3>3. Cardinality(Past(hits, 0)) \in Nat /\ Cardinality(hits) \in Nat
        BY <1>3, FS_CardinalityType
      <3> QED BY <1>1, <1>2, <1>3, <2>3, <3>2, <3>3
    <2>5. Accounts(v, m, hits)
      BY <1>1, <2>1, <2>3, <2>4 DEF Accounts
    <2>6. Accounts(v, m, Noted(hits))
      <3>1. /\ Cardinality(UpTo(Noted(hits), 0)) = 1
            /\ Past(Noted(hits), 0) = Past(hits, 0)
            /\ \A e \in Noted(hits) : e \in hits \/ e[1] = 0
        BY <2>3, NotedAddsOne
      <3> QED BY <1>1, <2>1, <2>4, <3>1 DEF Accounts
    <2> QED BY <2>1, <2>5, <2>6
  <1> QED BY <1>1, <1>2, <1>4, <1>5

(* A second later.                                                         *)
LEMMA TickAccounts ==
  ASSUME NEW m \in Maps, NEW hits, hits \subseteq Hits(m), IsFiniteSet(hits),
         NEW w, Accounts(w, m, hits)
  PROVE  Accounts([w EXCEPT !.age = Smaller(@ + 1, 2 * Window[m])], m, Older(hits, m))
  <1> DEFINE v == [w EXCEPT !.age = Smaller(@ + 1, 2 * Window[m])]
  <1>1. /\ Window[m] \in Nat \ {0} /\ Limit[m] \in Nat \ {0} /\ hits \subseteq Nat \X Nat
        /\ \A e \in hits : e[1] \in Nat /\ e[1] <= Window[m]
    BY HitsAreNatural
  <1>2. /\ w \in [count : Nat, age : Nat] /\ \A e \in hits : w.age < e[1] + Window[m]
        /\ Cardinality(UpTo(hits, w.age)) <= w.count
        /\ Cardinality(UpTo(hits, w.age)) <= Limit[m]
        /\ Cardinality(Past(hits, w.age)) <= Limit[m]
    BY DEF Accounts
  <1>3. /\ v.count = w.count /\ v.age = Smaller(w.age + 1, 2 * Window[m])
        /\ v \in [count : Nat, age : Nat]
    BY <1>1, <1>2 DEF Smaller
  <1> HIDE DEF v
  <1>4. CASE w.age < 2 * Window[m]
    <2>1. v.age = w.age + 1
      BY <1>1, <1>2, <1>3, <1>4 DEF Smaller
    <2>2. /\ Older(hits, m) \subseteq Hits(m) /\ IsFiniteSet(Older(hits, m))
          /\ Cardinality(UpTo(Older(hits, m), w.age + 1)) <= Cardinality(UpTo(hits, w.age))
          /\ Cardinality(Past(Older(hits, m), w.age + 1)) <= Cardinality(Past(hits, w.age))
      BY <1>2, OlderShifts
    <2>3. /\ Cardinality(UpTo(hits, w.age)) \in Nat /\ Cardinality(Past(hits, w.age)) \in Nat
          /\ Cardinality(UpTo(Older(hits, m), w.age + 1)) \in Nat
          /\ Cardinality(Past(Older(hits, m), w.age + 1)) \in Nat
      BY <1>1, <1>2, <2>2, Parts, HitsAreNatural
    <2>4. \A e \in Older(hits, m) : v.age < e[1] + Window[m]
      BY <1>1, <1>2, <2>1 DEF Older
    <2> HIDE DEF Older
    <2> QED BY <1>1, <1>2, <1>3, <2>1, <2>2, <2>3, <2>4 DEF Accounts, v
  <1>5. CASE w.age >= 2 * Window[m]
    <2>1. hits = {}
      BY <1>1, <1>2, <1>5
    <2>2. Older(hits, m) = {}
      BY <2>1 DEF Older
    <2>3. UpTo({}, v.age) = {} /\ Past({}, v.age) = {}
      BY DEF UpTo, Past
    <2>4. Cardinality(UpTo({}, v.age)) = 0 /\ Cardinality(Past({}, v.age)) = 0
      BY <2>3, FS_EmptySet
    <2>5. Accounts(v, m, {})
      BY <1>1, <1>2, <1>3, <2>4 DEF Accounts
    <2> QED BY <2>2, <2>5 DEF v
  <1> QED BY <1>1, <1>2, <1>4, <1>5

(* A window that is swept accounts for nothing any more.                   *)
LEMMA SweptIsOver ==
  ASSUME NEW m \in Maps, NEW hits, hits \subseteq Hits(m), NEW w, Accounts(w, m, hits),
         ~(w.age < 2 * Window[m])
  PROVE  hits = {}
  BY HitsAreNatural DEF Accounts

(* The window the next increment finds.                                    *)
Found(m, k) ==
  IF k \in DOMAIN rates[m] THEN rates[m][k] ELSE [count |-> 0, age |-> 0]

LEMMA CountedAccounts ==
  ASSUME HistoryInv, WindowInv, NEW m \in Maps, NEW s \in Subjects(m)
  PROVE  /\ Accounts(Counted(m, s), m, quiet[m][s])
         /\ Counted(m, s).count <= Limit[m] => Accounts(Counted(m, s), m, Noted(quiet[m][s]))
         /\ Counted(m, s).count \in Nat
  <1>1. quiet[m][s] \subseteq Hits(m) /\ IsFiniteSet(quiet[m][s])
    BY DEF HistoryInv
  <1>2. Accounts(Found(m, s), m, quiet[m][s])
    BY NothingAccounts DEF WindowInv, Found
  <1>3. Counted(m, s) =
          IF Found(m, s).age >= Window[m] THEN [count |-> 1, age |-> 0]
          ELSE [count |-> Smaller(Found(m, s).count + 1, MaxCount), age |-> Found(m, s).age]
    BY DEF Counted, Found
  <1> QED BY <1>1, <1>2, <1>3, IncrementAccounts

(* A counter of the store goes up, for the subject it is meant to limit.   *)
LEMMA IncrementStep ==
  ASSUME HistoryInv, WindowInv, NEW m \in Maps, NEW s \in Subjects(m),
         NEW unnoticed \in BOOLEAN, unnoticed => Counted(m, s).count <= Limit[m],
         Increment(m, s, s, unnoticed)
  PROVE  /\ HistoryInv' /\ WindowInv'
         /\ \A n \in Maps : n # m => quiet'[n] = quiet[n]
         /\ \A t \in Subjects(m) : quiet'[m][t] =
              IF t = s /\ unnoticed THEN Noted(quiet[m][t]) ELSE quiet[m][t]
  <1> DEFINE w == Counted(m, s)
             bigger == [x \in DOMAIN rates[m] \cup {s} |-> IF x = s THEN w ELSE rates[m][x]]
  <1>1. /\ DOMAIN rates = Maps /\ DOMAIN quiet = Maps
        /\ \A n \in Maps : /\ DOMAIN quiet[n] = Subjects(n)
                           /\ \A t \in Subjects(n) : quiet[n][t] \subseteq Hits(n)
                                                      /\ IsFiniteSet(quiet[n][t])
    BY DEF HistoryInv
  <1>2. /\ Accounts(w, m, quiet[m][s])
        /\ unnoticed => Accounts(w, m, Noted(quiet[m][s]))
    BY CountedAccounts
  <1>3. /\ Noted(quiet[m][s]) \subseteq Hits(m) /\ IsFiniteSet(Noted(quiet[m][s]))
    BY <1>1, NotedAddsOne
  <1>4. /\ rates' = [rates EXCEPT ![m] = bigger]
        /\ quiet' = IF unnoticed THEN [quiet EXCEPT ![m][s] = Noted(@)] ELSE quiet
    BY DEF Increment
  <1> HIDE DEF w
  <1>5. /\ DOMAIN rates' = Maps /\ rates'[m] = bigger
        /\ \A n \in Maps : n # m => rates'[n] = rates[n]
    BY <1>1, <1>4
  <1>6. /\ DOMAIN quiet' = Maps /\ \A n \in Maps : n # m => quiet'[n] = quiet[n]
        /\ DOMAIN quiet'[m] = Subjects(m)
        /\ \A t \in Subjects(m) : quiet'[m][t] =
             IF t = s /\ unnoticed THEN Noted(quiet[m][t]) ELSE quiet[m][t]
    BY <1>1, <1>4
  <1>7. HistoryInv'
    <2>1. \A n \in Maps : (Subjects(n))' = Subjects(n)
      BY DEF Subjects, Sources
    <2> QED BY <1>1, <1>3, <1>5, <1>6, <2>1 DEF HistoryInv
  <1>8. WindowInv'
    <2> SUFFICES ASSUME NEW n \in Maps, NEW t \in Subjects(n)
                 PROVE  IF t \in DOMAIN rates'[n] THEN Accounts(rates'[n][t], n, quiet'[n][t])
                                                  ELSE quiet'[n][t] = {}
      BY DEF WindowInv
    <2>0. IF t \in DOMAIN rates[n] THEN Accounts(rates[n][t], n, quiet[n][t])
                                   ELSE quiet[n][t] = {}
      BY DEF WindowInv
    <2>1. CASE n # m
      BY <1>5, <1>6, <2>0, <2>1
    <2>2. CASE n = m /\ t # s
      BY <1>5, <1>6, <2>0, <2>2
    <2>3. CASE n = m /\ t = s
      BY <1>2, <1>5, <1>6, <2>3
    <2> QED BY <2>1, <2>2, <2>3
  <1> QED BY <1>6, <1>7, <1>8

LEMMA WindowsSwept ==
  ASSUME HistoryInv, WindowInv, UNCHANGED quiet,
         rates' = [m \in Maps |-> [k \in FreshKeys(m) |-> rates[m][k]]]
  PROVE  HistoryInv' /\ WindowInv'
  <1>1. HistoryInv'
    BY DEF HistoryInv
  <1>2. WindowInv'
    <2> SUFFICES ASSUME NEW m \in Maps, NEW s \in Subjects(m)
                 PROVE  IF s \in DOMAIN rates'[m] THEN Accounts(rates'[m][s], m, quiet[m][s])
                                                  ELSE quiet[m][s] = {}
      BY DEF WindowInv
    <2>1. /\ DOMAIN rates'[m] = FreshKeys(m)
          /\ s \in FreshKeys(m) => rates'[m][s] = rates[m][s]
      OBVIOUS
    <2>2. quiet[m][s] \subseteq Hits(m)
      BY DEF HistoryInv
    <2>3. IF s \in DOMAIN rates[m] THEN Accounts(rates[m][s], m, quiet[m][s])
                                   ELSE quiet[m][s] = {}
      BY DEF WindowInv
    <2> QED BY <2>1, <2>2, <2>3, SweptIsOver DEF FreshKeys
  <1> QED BY <1>1, <1>2

LEMMA WindowsAge ==
  ASSUME HistoryInv, WindowInv,
         rates' = [m \in Maps |-> [k \in DOMAIN rates[m] |->
                    [rates[m][k] EXCEPT !.age = Smaller(@ + 1, 2 * Window[m])]]],
         quiet' = [m \in Maps |-> [s \in Subjects(m) |-> Older(quiet[m][s], m)]]
  PROVE  HistoryInv' /\ WindowInv'
  <1>1. \A m \in Maps : \A s \in Subjects(m) :
          /\ quiet[m][s] \subseteq Hits(m) /\ IsFiniteSet(quiet[m][s])
          /\ quiet'[m][s] = Older(quiet[m][s], m)
    BY DEF HistoryInv
  <1>2. HistoryInv'
    <2>1. \A m \in Maps : \A s \in Subjects(m) :
            quiet'[m][s] \subseteq Hits(m) /\ IsFiniteSet(quiet'[m][s])
      BY <1>1, OlderShifts
    <2> QED BY <2>1 DEF HistoryInv
  <1>3. WindowInv'
    <2> SUFFICES ASSUME NEW m \in Maps, NEW s \in Subjects(m)
                 PROVE  IF s \in DOMAIN rates'[m] THEN Accounts(rates'[m][s], m, quiet'[m][s])
                                                  ELSE quiet'[m][s] = {}
      BY DEF WindowInv
    <2>1. IF s \in DOMAIN rates[m] THEN Accounts(rates[m][s], m, quiet[m][s])
                                   ELSE quiet[m][s] = {}
      BY DEF WindowInv
    <2>2. /\ DOMAIN rates'[m] = DOMAIN rates[m]
          /\ s \in DOMAIN rates[m] => rates'[m][s] =
               [rates[m][s] EXCEPT !.age = Smaller(@ + 1, 2 * Window[m])]
      OBVIOUS
    <2>3. CASE s \in DOMAIN rates[m]
      BY <1>1, <2>1, <2>2, <2>3, TickAccounts
    <2>4. CASE s \notin DOMAIN rates[m]
      BY <1>1, <2>1, <2>2, <2>4 DEF Older
    <2> QED BY <2>3, <2>4
  <1> QED BY <1>2, <1>3

(* What the invariant is for.                                              *)
LEMMA AccountedIsBounded ==
  ASSUME HistoryInv, WindowInv
  PROVE  FixedWindowBurst
  <1> SUFFICES ASSUME NEW m \in Maps, NEW s \in Subjects(m)
               PROVE  Cardinality(quiet[m][s]) <= 2 * Limit[m]
    BY DEF FixedWindowBurst
  <1>1. /\ quiet[m][s] \subseteq Nat \X Nat /\ IsFiniteSet(quiet[m][s])
        /\ Limit[m] \in Nat
    BY HitsAreNatural DEF HistoryInv
  <1>2. Accounts(Found(m, s), m, quiet[m][s])
    BY NothingAccounts DEF WindowInv, Found
  <1>3. /\ Found(m, s).age \in Nat
        /\ Cardinality(UpTo(quiet[m][s], Found(m, s).age)) <= Limit[m]
        /\ Cardinality(Past(quiet[m][s], Found(m, s).age)) <= Limit[m]
    BY <1>2 DEF Accounts
  <1>4. /\ Cardinality(UpTo(quiet[m][s], Found(m, s).age)) \in Nat
        /\ Cardinality(Past(quiet[m][s], Found(m, s).age)) \in Nat
        /\ Cardinality(quiet[m][s]) = Cardinality(UpTo(quiet[m][s], Found(m, s).age))
                                      + Cardinality(Past(quiet[m][s], Found(m, s).age))
    BY <1>1, <1>3, Parts
  <1> QED BY <1>1, <1>3, <1>4

-----------------------------------------------------------------------------
(* Verdicts on submissions                                                 *)

LEMMA PointsAreNatural ==
  ASSUME NEW fires, NEW signal \in Signals
  PROVE  Points(fires, Weights[signal]) \in Nat
  BY PolicyAssumption DEF Points

(* A replayed blob costs at least the weight of a duplicate.               *)
LEMMA DuplicateCosts ==
  ASSUME NEW honeypot, NEW dwell, NEW b, NEW count, NEW mismatch,
         b # None, claims_activity(b), count >= DuplicateMin
  PROVE  /\ verify_total(honeypot, dwell, b, count, mismatch) \in Nat
         /\ verify_total(honeypot, dwell, b, count, mismatch) >= Weights.behavior_duplicate
  <1>1. Points(honeypot, Weights.honeypot_tripped) \in Nat
    BY PointsAreNatural DEF Signals
  <1>2. score_time_on_page(dwell) \in Nat
    BY PolicyAssumption DEF score_time_on_page, Signals, Points
  <1>3. score_behavior(b) \in Nat
    <2> DEFINE no_pointer == b.mouse_moves = 0 /\ b.touches = 0
               isolated == b.interactions <= 1
               base == IF no_pointer /\ b.interactions = 0 THEN Weights.behavior_flatline
                       ELSE Points(no_pointer /\ isolated, Weights.behavior_no_pointer)
               instant == Points(isolated /\ b.first_interaction_ms # None
                                   /\ b.first_interaction_ms < 50,
                                 Weights.behavior_instant_interaction)
               driver == Points(b.webdriver \/ b.automation, Weights.behavior_automation)
               headless == Points(b.headless, Weights.behavior_headless)
    <2>1. base \in Nat
      BY PolicyAssumption DEF Signals, Points
    <2>2. instant \in Nat /\ driver \in Nat /\ headless \in Nat
      BY PolicyAssumption DEF Signals, Points
    <2>3. score_behavior(b) = base + instant + driver + headless
      BY DEF score_behavior
    <2> HIDE DEF base, instant, driver, headless
    <2> QED BY <2>1, <2>2, <2>3
  <1>4. score_impossible_timing(b, dwell) \in Nat
    BY PolicyAssumption DEF score_impossible_timing, Signals, Points
  <1>5. /\ score_duplicate_blob(b, count) = Weights.behavior_duplicate
        /\ Weights.behavior_duplicate \in Nat
    BY PolicyAssumption DEF score_duplicate_blob, Points, Signals
  <1>6. Points(mismatch, Weights.remote_ip_mismatch) \in Nat
    BY PointsAreNatural DEF Signals
  <1>7. verify_total(honeypot, dwell, b, count, mismatch) =
          Points(honeypot, Weights.honeypot_tripped) + score_time_on_page(dwell)
            + (score_behavior(b) + score_impossible_timing(b, dwell)
                 + score_duplicate_blob(b, count))
            + Points(mismatch, Weights.remote_ip_mismatch)
    BY DEF verify_total
  <1> QED BY <1>1, <1>2, <1>3, <1>4, <1>5, <1>6, <1>7

(* So where duplicates are flagged, a blob that still passes is below the  *)
(* count of a duplicate.                                                   *)
LEMMA PassingIsNoDuplicate ==
  ASSUME TypeInv, NEW sub \in Submissions, NEW n \in Nat, sub.behavior # None,
         claims_activity(sub.behavior), FlagsDuplicates(sub.site),
         VerifyDecision(sub, n) = "pass"
  PROVE  n <= Limit["blob"]
  <1> DEFINE p == policy[sub.site]
             total == verify_total(sub.honeypot, sub.dwell, sub.behavior, n, sub.mismatch)
  <1>1. p \in Policies \cup {NoPolicy} /\ config \in Configs
    BY RequestAssumption DEF TypeInv
  <1>2. resolve(p, config).verify_shadow_min <= Weights.behavior_duplicate
    BY DEF FlagsDuplicates, p
  <1> HIDE DEF p
  <1>3. resolve(p, config).verify_shadow_min \in Nat
    BY <1>1, PolicyAssumption DEF resolve, Knobs, NoPolicy
  <1>4. Weights.behavior_duplicate \in Nat /\ DuplicateMin \in Nat /\ Limit["blob"] = DuplicateMin - 1
    BY PolicyAssumption, AdmissionAssumption DEF Signals
  <1>5. verify_decision(total, resolve(p, config)) = "pass"
    BY DEF VerifyDecision, p
  <1>6. n >= DuplicateMin => total \in Nat /\ total >= Weights.behavior_duplicate
    BY DuplicateCosts
  <1> HIDE DEF total
  <1>7. ~(total >= resolve(p, config).verify_shadow_min)
    BY <1>5 DEF verify_decision
  <1> QED BY <1>2, <1>3, <1>4, <1>6, <1>7

-----------------------------------------------------------------------------
(* Difficulties                                                            *)

LEMMA GreatestExists ==
  ASSUME NEW T, T # {}, NEW bound \in Nat, T \subseteq 0 .. bound
  PROVE  \E x \in T : \A y \in T : y <= x
  <1> DEFINE D == {bound - x : x \in T}
  <1>0. \A x \in T : x \in Nat /\ x <= bound
    OBVIOUS
  <1>1. D \subseteq Nat /\ D # {}
    <2>1. \A x \in T : bound - x \in Nat
      BY <1>0
    <2>2. PICK x \in T : TRUE
      OBVIOUS
    <2>3. bound - x \in D
      OBVIOUS
    <2> QED BY <2>1, <2>3
  <1>2. PICK d \in D : \A e \in D : ~(<<e, d>> \in OpToRel(<, Nat))
    BY <1>1, NatLessThanWellFounded, WFMin
  <1>3. \A e \in D : ~(e < d)
    BY <1>1, <1>2 DEF OpToRel
  <1>4. PICK x \in T : d = bound - x
    OBVIOUS
  <1>5. ASSUME NEW y \in T PROVE y <= x
    <2>1. bound - y \in D
      OBVIOUS
    <2>2. ~(bound - y < bound - x) /\ x \in Nat /\ y \in Nat
      BY <1>0, <1>3, <1>4, <2>1
    <2> HIDE DEF D
    <2> QED BY <2>2
  <1> QED BY <1>5

(* The highest rung reached exists: thresholds are bounded.                *)
LEMMA FloorIsNatural ==
  ASSUME NEW count
  PROVE  floor_for(count) \in Nat
  <1> DEFINE met == {l \in Ladder : count >= l.threshold}
             T == {l.threshold : l \in met}
  <1>1. \A l \in met : l.difficulty \in Nat /\ l.threshold \in 0 .. MaxCount
    BY PolicyAssumption
  <1>2. MaxCount \in Nat
    BY AdmissionAssumption
  <1>3. CASE met = {}
    BY <1>3 DEF floor_for
  <1>4. CASE met # {}
    <2>1. T # {} /\ T \subseteq 0 .. MaxCount
      BY <1>1, <1>4
    <2>2. \E x \in T : \A y \in T : y <= x
      <3> HIDE DEF T
      <3> QED BY <1>2, <2>1, GreatestExists
    <2>3. \E l \in met : \A m \in met : m.threshold <= l.threshold
      BY <2>2
    <2> DEFINE top == CHOOSE l \in met : \A m \in met : m.threshold <= l.threshold
    <2>4. top \in met
      BY <2>3
    <2>5. floor_for(count) = top.difficulty
      BY <1>4 DEF floor_for
    <2> HIDE DEF top
    <2> QED BY <1>1, <2>4, <2>5
  <1> QED BY <1>3, <1>4

LEMMA ValidatedIsPositive ==
  ASSUME NEW c \in Configs, validated(c)
  PROVE  Positive(c)
  BY PolicyAssumption DEF validated, Positive, Knobs, MIN_DIFFICULTY

(* What may be stored has no difficulty of 0, and neither has what takes   *)
(* effect, under whichever configuration.                                  *)
LEMMA StoredIsPositive ==
  ASSUME NEW p \in Policies, NEW c \in Configs, validate(p, c)
  PROVE  /\ p.default_difficulty \in (Nat \ {0}) \cup {None}
         /\ p.max_difficulty \in (Nat \ {0}) \cup {None}
  <1>1. /\ p.default_difficulty \in Nat \cup {None} /\ p.max_difficulty \in Nat \cup {None}
    BY PolicyAssumption DEF Knobs
  <1>2. /\ resolve(p, c).default_difficulty >= 1 /\ resolve(p, c).max_difficulty >= 1
    BY DEF validate, MIN_DIFFICULTY
  <1>3. /\ p.default_difficulty # None => resolve(p, c).default_difficulty = p.default_difficulty
        /\ p.max_difficulty # None => resolve(p, c).max_difficulty = p.max_difficulty
    BY DEF resolve, Knobs
  <1> QED BY <1>1, <1>2, <1>3

LEMMA ResolvedIsPositive ==
  ASSUME NEW p, NEW c, Positive(c),
         p.default_difficulty \in (Nat \ {0}) \cup {None},
         p.max_difficulty \in (Nat \ {0}) \cup {None}
  PROVE  Positive(resolve(p, c))
  BY DEF resolve, Positive, Knobs

LEMMA DifficultyIsPositive ==
  ASSUME NEW d, Positive(d.policy), Verdict(d) # "block" \/ MonitoredBlock(d)
  PROVE  Difficulty(d) \in Nat /\ Difficulty(d) >= MIN_DIFFICULTY
  <1> DEFINE base == d.policy.default_difficulty
             max == d.policy.max_difficulty
             tier == IF MonitoredBlock(d) THEN "hard_pow" ELSE Verdict(d)
             floored == Larger(difficulty_for(tier, d.policy), floor_for(d.site))
  <1>1. base \in Nat /\ base >= 1 /\ max \in Nat /\ max >= 1
    BY DEF Positive
  <1>2. tier \in {"invisible_pass", "checkbox", "hard_pow"}
    BY DEF Verdict, classify
  <1> HIDE DEF tier
  <1>3. Bump[tier] \in Nat
    BY <1>2 DEF Bump
  <1>4. difficulty_for(tier, d.policy) = Smaller(base + Bump[tier], max)
    BY DEF difficulty_for
  <1> HIDE DEF base, max
  <1>5. difficulty_for(tier, d.policy) \in Nat /\ difficulty_for(tier, d.policy) >= 1
    BY <1>1, <1>3, <1>4 DEF Smaller
  <1>6. floored \in Nat /\ floored >= 1
    BY <1>5, FloorIsNatural DEF Larger
  <1> HIDE DEF floored
  <1>7. Difficulty(d) = Smaller(IF HardCapped(d) \/ MonitoredBlock(d)
                                  THEN Larger(floored, max) ELSE floored, max)
    BY DEF Difficulty, floored, tier, max
  <1> QED BY <1>1, <1>6, <1>7 DEF Larger, Smaller, MIN_DIFFICULTY

-----------------------------------------------------------------------------
(* Handlers                                                                *)

LEMMA IdleState == Idle \in HandlerState /\ Idle.pc = "idle"
  BY DEF Idle, HandlerState

(* One handler moves on.                                                   *)
LEMMA HandlerMoves ==
  ASSUME TypeInv, PolicyInv, NEW h \in Handlers, NEW new \in HandlerState,
         handler' = [handler EXCEPT ![h] = new], UNCHANGED <<config, policy>>,
         new.pc \in Working =>
           new.req \in Requests /\ new.policy \in Effective /\ Positive(new.policy),
         new.pc = "store" => new.difficulty >= MIN_DIFFICULTY
  PROVE  /\ TypeInv' /\ PolicyInv'
         /\ \A s : Counting(s)' = IF Counts(new, s) THEN Counting(s) \cup {h}
                                  ELSE Counting(s) \ {h}
  <1>1. /\ handler \in [Handlers -> HandlerState] /\ handler' \in [Handlers -> HandlerState]
        /\ handler'[h] = new /\ \A g \in Handlers : g # h => handler'[g] = handler[g]
    BY DEF TypeInv
  <1>2. TypeInv'
    BY <1>1 DEF TypeInv
  <1>3. PolicyInv'
    BY <1>1 DEF PolicyInv, NoFreeChallenge
  <1>4. ASSUME NEW s
        PROVE  Counting(s)' = IF Counts(new, s) THEN Counting(s) \cup {h} ELSE Counting(s) \ {h}
    <2>1. Counting(s)' = {g \in Handlers : Counts(handler'[g], s)}
      BY DEF Counting, Counts
    <2> QED BY <1>1, <2>1 DEF Counting
  <1> QED BY <1>2, <1>3, <1>4

LEMMA CountingIsFinite ==
  ASSUME NEW s
  PROVE  /\ IsFiniteSet(Counting(s)) /\ Cardinality(Counting(s)) \in Nat
         /\ Cardinality(Counting(s)) <= Cardinality(Handlers) /\ Cardinality(Handlers) \in Nat
  <1>1. Counting(s) \in SUBSET Handlers
    BY DEF Counting
  <1> QED BY <1>1, AdmissionAssumption, FS_Subset, FS_CardinalityType

(* What the two sides of PressureInv are.                                  *)
LEMMA PressureParts ==
  ASSUME HistoryInv, TakenInv, NEW s \in Sources, NEW age \in Nat
  PROVE  /\ Cardinality(UpTo(taken[s], age)) \in Nat
         /\ Cardinality(UpTo(quiet["ip"][s], age)) \in Nat
  <1>1. "ip" \in Maps /\ Subjects("ip") = Sources
    BY DEF Maps, Subjects
  <1>2. /\ taken[s] \subseteq Nat \X Nat /\ IsFiniteSet(taken[s])
        /\ quiet["ip"][s] \subseteq Nat \X Nat /\ IsFiniteSet(quiet["ip"][s])
    BY <1>1, HitsAreNatural DEF HistoryInv, TakenInv
  <1> QED BY <1>2, Parts

(* No request starts to count and no challenge is decided.                 *)
LEMMA PressureKept ==
  ASSUME HistoryInv, TakenInv, PressureInv, UNCHANGED taken, quiet'["ip"] = quiet["ip"],
         \A s \in Sources : Counting(s)' \subseteq Counting(s)
  PROVE  PressureInv'
  <1> SUFFICES ASSUME HardLimit > 0, NEW s \in Sources, NEW age \in 0 .. Window["ip"]
               PROVE  Cardinality(UpTo(taken[s], age)) + Cardinality(Counting(s)')
                        <= Cardinality(UpTo(quiet["ip"][s], age)) + Cardinality(Handlers)
    BY DEF PressureInv
  <1>1. Cardinality(UpTo(taken[s], age)) + Cardinality(Counting(s))
          <= Cardinality(UpTo(quiet["ip"][s], age)) + Cardinality(Handlers)
    BY DEF PressureInv
  <1>2. Counting(s)' \in SUBSET Counting(s)
    OBVIOUS
  <1>3. IsFiniteSet(Counting(s)') /\ Cardinality(Counting(s)') <= Cardinality(Counting(s))
    BY <1>2, CountingIsFinite, FS_Subset
  <1>4. Cardinality(Counting(s)') \in Nat
    BY <1>3, FS_CardinalityType
  <1>5. age \in Nat
    BY HitsAreNatural DEF Maps
  <1>6. /\ Cardinality(UpTo(taken[s], age)) \in Nat
        /\ Cardinality(UpTo(quiet["ip"][s], age)) \in Nat
    BY <1>5, PressureParts
  <1>7. Cardinality(Counting(s)) \in Nat /\ Cardinality(Handlers) \in Nat
    BY CountingIsFinite
  <1> QED BY <1>1, <1>3, <1>4, <1>6, <1>7

LEMMA ArriveStep ==
  ASSUME Inv, NEW h \in Handlers, Arrive(h)
  PROVE  Inv'
  <1>1. PICK r \in Requests :
          handler' = [handler EXCEPT ![h] =
            [Idle EXCEPT !.pc = "ip", !.req = r, !.policy = resolve(policy[r.site], config)]]
    BY DEF Arrive
  <1> DEFINE e == resolve(policy[r.site], config)
             new == [Idle EXCEPT !.pc = "ip", !.req = r, !.policy = e]
  <1>2. r.site \in Sites
    BY RequestAssumption
  <1>3. e \in Effective
    BY <1>2 DEF Inv, TypeInv, Effective
  <1>4. Positive(e)
    BY <1>2, ResolvedIsPositive DEF Inv, PolicyInv
  <1> HIDE DEF e
  <1>5. /\ new \in HandlerState /\ new.pc = "ip" /\ new.req = r /\ new.policy = e
    BY <1>3 DEF Idle, HandlerState, Working
  <1>6. UNCHANGED <<config, policy, rates, quiet, active, taken>>
    BY DEF Arrive, counters
  <1>7. handler' = [handler EXCEPT ![h] = new]
    BY <1>1 DEF e
  <1> HIDE DEF new
  <1>8. /\ TypeInv' /\ PolicyInv'
        /\ \A s : Counting(s)' = IF Counts(new, s) THEN Counting(s) \cup {h}
                                 ELSE Counting(s) \ {h}
    BY <1>3, <1>4, <1>5, <1>6, <1>7, HandlerMoves DEF Inv
  <1>9. \A s \in Sources : Counting(s)' \subseteq Counting(s)
    BY <1>5, <1>8 DEF Counts
  <1>10. PressureInv'
    BY <1>6, <1>9, PressureKept DEF Inv
  <1>11. HistoryInv' /\ TakenInv' /\ WindowInv'
    BY <1>6 DEF Inv, HistoryInv, TakenInv, WindowInv
  <1> QED BY <1>8, <1>10, <1>11 DEF Inv

(* A handler counts its request in one of the maps.                        *)
LEMMA CountMoves ==
  ASSUME Inv, NEW h \in Handlers, NEW m \in {"ip", "sustained", "site"},
         NEW s \in Subjects(m), NEW next \in {"sustained", "site", "decide"},
         Count(h, m, s, s, next)
  PROVE  /\ TypeInv' /\ PolicyInv' /\ HistoryInv' /\ TakenInv' /\ WindowInv'
         /\ UNCHANGED taken
         /\ Counted(m, s).count \in Nat
         /\ \A n \in Maps : n # m => quiet'[n] = quiet[n]
         /\ \A t \in Subjects(m) : quiet'[m][t] =
              IF t = s /\ Counted(m, s).count <= Limit[m] THEN Noted(quiet[m][t])
                                                          ELSE quiet[m][t]
         /\ \E new :
              /\ new.pc = next /\ new.req = handler[h].req
              /\ new.ip = IF m = "ip" THEN Counted(m, s).count ELSE handler[h].ip
              /\ \A t : Counting(t)' = IF Counts(new, t) THEN Counting(t) \cup {h}
                                       ELSE Counting(t) \ {h}
  <1> DEFINE n == Counted(m, s).count
             new == [handler[h] EXCEPT ![m] = n, !.pc = next]
  <1>1. /\ handler[h].pc = m /\ Increment(m, s, s, n <= Limit[m])
        /\ handler' = [handler EXCEPT ![h][m] = n, ![h].pc = next]
        /\ UNCHANGED <<config, policy, active, taken>>
    BY DEF Count
  <1>2. m \in Maps
    BY DEF Maps
  <1>3. n \in Nat
    BY <1>2, CountedAccounts DEF Inv
  <1>4. /\ HistoryInv' /\ WindowInv'
        /\ \A q \in Maps : q # m => quiet'[q] = quiet[q]
        /\ \A t \in Subjects(m) : quiet'[m][t] =
             IF t = s /\ n <= Limit[m] THEN Noted(quiet[m][t]) ELSE quiet[m][t]
    <2>1. CASE n <= Limit[m]
      <3>1. Increment(m, s, s, TRUE)
        BY <1>1, <2>1 DEF Increment
      <3> QED BY <1>2, <2>1, <3>1, IncrementStep DEF Inv
    <2>2. CASE ~(n <= Limit[m])
      <3>1. Increment(m, s, s, FALSE)
        BY <1>1, <2>2 DEF Increment
      <3> QED BY <1>2, <2>2, <3>1, IncrementStep DEF Inv
    <2> QED BY <2>1, <2>2
  <1> HIDE DEF n
  <1>5. /\ handler \in [Handlers -> HandlerState] /\ handler[h] \in HandlerState
        /\ handler[h].pc \in Working
    BY <1>1 DEF Inv, TypeInv, Working
  <1>6. /\ handler[h].req \in Requests /\ handler[h].policy \in Effective
        /\ Positive(handler[h].policy)
    BY <1>5 DEF Inv, TypeInv, PolicyInv
  <1>7. handler' = [handler EXCEPT ![h] = new]
    BY <1>1, <1>5
  <1>8. /\ new \in HandlerState /\ new.pc = next /\ new.req = handler[h].req
        /\ new.policy = handler[h].policy /\ new.ip = IF m = "ip" THEN n ELSE handler[h].ip
    BY <1>3, <1>5 DEF HandlerState, Working
  <1> HIDE DEF new
  <1>9. /\ TypeInv' /\ PolicyInv'
        /\ \A t : Counting(t)' = IF Counts(new, t) THEN Counting(t) \cup {h}
                                 ELSE Counting(t) \ {h}
    BY <1>1, <1>6, <1>7, <1>8, HandlerMoves DEF Inv, Working
  <1>10. TakenInv'
    BY <1>1 DEF Inv, TakenInv
  <1>11. \E x : /\ x.pc = next /\ x.req = handler[h].req
                /\ x.ip = IF m = "ip" THEN n ELSE handler[h].ip
                /\ \A t : Counting(t)' = IF Counts(x, t) THEN Counting(t) \cup {h}
                                         ELSE Counting(t) \ {h}
    BY <1>8, <1>9
  <1> QED BY <1>1, <1>3, <1>4, <1>9, <1>10, <1>11 DEF n

(* The per-IP counter: a request within the cap is noted and on its way,   *)
(* one past it is neither.                                                 *)
LEMMA CountIpStep ==
  ASSUME Inv, NEW h \in Handlers, CountIp(h)
  PROVE  Inv'
  <1> DEFINE r == handler[h].req
             src == Source(r)
             n == Counted("ip", src).count
  <1>1. handler[h].pc = "ip"
    BY DEF CountIp, Count
  <1>2. r \in Requests
    BY <1>1 DEF Inv, TypeInv, Working
  <1>3. src \in Subjects("ip") /\ Subjects("ip") = Sources /\ "ip" \in Maps
    BY <1>2 DEF Subjects, Sources, Maps
  <1>4. Count(h, "ip", src, src, "sustained")
    BY <1>2, CountedBySource DEF CountIp
  <1> HIDE DEF r, src
  <1>5. /\ TypeInv' /\ PolicyInv' /\ HistoryInv' /\ TakenInv' /\ WindowInv' /\ UNCHANGED taken
        /\ n \in Nat
        /\ \A t \in Sources : quiet'["ip"][t] =
             IF t = src /\ n <= Limit["ip"] THEN Noted(quiet["ip"][t]) ELSE quiet["ip"][t]
        /\ \E new :
             /\ new.pc = "sustained" /\ new.req = handler[h].req /\ new.ip = n
             /\ \A t : Counting(t)' = IF Counts(new, t) THEN Counting(t) \cup {h}
                                      ELSE Counting(t) \ {h}
    BY <1>3, <1>4, CountMoves
  <1> HIDE DEF n
  <1>6. PICK new :
          /\ new.pc = "sustained" /\ new.req = r /\ new.ip = n
          /\ \A t : Counting(t)' = IF Counts(new, t) THEN Counting(t) \cup {h}
                                   ELSE Counting(t) \ {h}
    BY <1>5 DEF r
  <1>7. PressureInv'
    <2> SUFFICES ASSUME HardLimit > 0, NEW s \in Sources, NEW age \in 0 .. Window["ip"]
                 PROVE  Cardinality(UpTo(taken[s], age)) + Cardinality(Counting(s)')
                          <= Cardinality(UpTo(quiet'["ip"][s], age)) + Cardinality(Handlers)
      BY <1>5 DEF PressureInv
    <2>1. Cardinality(UpTo(taken[s], age)) + Cardinality(Counting(s))
            <= Cardinality(UpTo(quiet["ip"][s], age)) + Cardinality(Handlers)
      BY DEF Inv, PressureInv
    <2>2. age \in Nat /\ Limit["ip"] = HardLimit
      BY <1>3, HitsAreNatural, AdmissionAssumption
    <2>3. /\ Cardinality(UpTo(taken[s], age)) \in Nat
          /\ Cardinality(UpTo(quiet["ip"][s], age)) \in Nat
      BY <2>2, PressureParts DEF Inv
    <2>4. /\ IsFiniteSet(Counting(s)) /\ Cardinality(Counting(s)) \in Nat
          /\ Cardinality(Handlers) \in Nat
      BY CountingIsFinite
    <2>5. h \notin Counting(s)
      BY <1>1 DEF Counting, Counts
    <2>6. CASE s = src /\ n <= HardLimit
      <3>1. Cardinality(Counting(s) \cup {h}) = Cardinality(Counting(s)) + 1
        BY <2>4, <2>5, FS_AddElement
      <3>2. Counting(s)' = Counting(s) \cup {h}
        BY <1>6, <2>6 DEF Counts, src
      <3>3. Cardinality(Counting(s)') = Cardinality(Counting(s)) + 1
        BY <3>1, <3>2
      <3>4. quiet'["ip"][s] = Noted(quiet["ip"][s])
        BY <1>5, <2>2, <2>6
      <3>5. Cardinality(UpTo(Noted(quiet["ip"][s]), age)) = Cardinality(UpTo(quiet["ip"][s], age)) + 1
        BY <1>3, <2>2, NotedAddsOne DEF Inv, HistoryInv
      <3> QED BY <2>1, <2>3, <2>4, <3>3, <3>4, <3>5
    <2>7. CASE ~(s = src /\ n <= HardLimit)
      <3>1. Counting(s)' = Counting(s)
        BY <1>6, <2>5, <2>7 DEF Counts, src
      <3>2. quiet'["ip"][s] = quiet["ip"][s]
        BY <1>5, <2>2, <2>7
      <3> QED BY <2>1, <3>1, <3>2
    <2> QED BY <2>6, <2>7
  <1> QED BY <1>5, <1>7 DEF Inv

LEMMA CountOtherStep ==
  ASSUME Inv, NEW h \in Handlers, CountSustained(h) \/ CountSite(h)
  PROVE  Inv'
  <1> DEFINE r == handler[h].req
  <1>1. handler[h].pc \in {"sustained", "site"}
    BY DEF CountSustained, CountSite, Count
  <1>2. r \in Requests /\ r.site \in Sites
    BY <1>1, RequestAssumption DEF Inv, TypeInv, Working
  <1>3. PICK m \in {"sustained", "site"}, s \in Subjects("sustained") \cup Subjects("site"),
             next \in {"site", "decide"} :
          s \in Subjects(m) /\ Count(h, m, s, s, next)
    <2>1. CASE CountSustained(h)
      <3>1. Source(r) \in Subjects("sustained")
        BY <1>2 DEF Subjects, Sources
      <3>2. Count(h, "sustained", Source(r), Source(r), "site")
        BY <1>2, <2>1, CountedBySource DEF CountSustained
      <3> QED BY <3>1, <3>2
    <2>2. CASE CountSite(h)
      <3>1. r.site \in Subjects("site")
        BY <1>2 DEF Subjects
      <3>2. Count(h, "site", r.site, r.site, "decide")
        BY <2>2 DEF CountSite
      <3> QED BY <3>1, <3>2
    <2> QED BY <2>1, <2>2
  <1>4. /\ TypeInv' /\ PolicyInv' /\ HistoryInv' /\ TakenInv' /\ WindowInv' /\ UNCHANGED taken
        /\ quiet'["ip"] = quiet["ip"]
        /\ \E new :
             /\ new.pc = next /\ new.req = r /\ new.ip = handler[h].ip
             /\ \A t : Counting(t)' = IF Counts(new, t) THEN Counting(t) \cup {h}
                                      ELSE Counting(t) \ {h}
    BY <1>3, CountMoves DEF Maps
  <1>5. \A t \in Sources : Counting(t)' \subseteq Counting(t)
    BY <1>1, <1>4 DEF Counts, Counting
  <1>6. PressureInv'
    BY <1>4, <1>5, PressureKept DEF Inv
  <1> QED BY <1>4, <1>6 DEF Inv

(* A handler ends.                                                         *)
LEMMA HandlerEnds ==
  ASSUME Inv, NEW h \in Handlers, handler' = [handler EXCEPT ![h] = Idle],
         UNCHANGED <<config, policy, rates, quiet, taken>>
  PROVE  Inv'
  <1>1. /\ TypeInv' /\ PolicyInv'
        /\ \A s : Counting(s)' = IF Counts(Idle, s) THEN Counting(s) \cup {h}
                                 ELSE Counting(s) \ {h}
    BY IdleState, HandlerMoves DEF Inv, Working
  <1>2. \A s \in Sources : Counting(s)' \subseteq Counting(s)
    BY <1>1, IdleState DEF Counts
  <1>3. PressureInv'
    BY <1>2, PressureKept DEF Inv
  <1>4. HistoryInv' /\ TakenInv' /\ WindowInv'
    BY DEF Inv, HistoryInv, TakenInv, WindowInv
  <1> QED BY <1>1, <1>3, <1>4 DEF Inv

(* A challenge that is decided while the map is under pressure was counted *)
(* within the cap: its request stops counting as the challenge starts to.  *)
LEMMA AdmitStep ==
  ASSUME Inv, NEW h \in Handlers, Admit(h)
  PROVE  Inv'
  <1> DEFINE d == handler[h]
             src == Source(d.req)
             new == [Idle EXCEPT !.pc = "store", !.difficulty = Difficulty(d)]
  <1>1. /\ d.pc = "decide" /\ ~Sheds(d) /\ (Verdict(d) # "block" \/ MonitoredBlock(d))
        /\ handler' = [handler EXCEPT ![h] = new]
        /\ taken' = IF UnderPressure THEN [taken EXCEPT ![src] = Noted(@)] ELSE taken
        /\ UNCHANGED <<config, policy, rates, quiet, active>>
    BY DEF Admit, counters
  <1>2. d.req \in Requests /\ d \in HandlerState /\ d.ip \in Nat /\ Positive(d.policy)
    BY <1>1 DEF Inv, TypeInv, PolicyInv, Working, HandlerState
  <1>3. src \in Sources /\ "ip" \in Maps
    BY <1>2 DEF Sources, Maps
  <1>4. Difficulty(d) \in Nat /\ Difficulty(d) >= MIN_DIFFICULTY
    BY <1>1, <1>2, DifficultyIsPositive
  <1>5. new \in HandlerState /\ new.pc = "store" /\ new.difficulty >= MIN_DIFFICULTY
    BY <1>4 DEF Idle, HandlerState
  <1> HIDE DEF new
  <1>6. /\ TypeInv' /\ PolicyInv'
        /\ \A s : Counting(s)' = IF Counts(new, s) THEN Counting(s) \cup {h}
                                 ELSE Counting(s) \ {h}
    BY <1>1, <1>5, HandlerMoves DEF Inv, Working
  <1>7. \A s \in Sources : Counting(s)' = Counting(s) \ {h}
    BY <1>5, <1>6 DEF Counts
  <1>8. HistoryInv' /\ WindowInv'
    BY <1>1 DEF Inv, HistoryInv, WindowInv
  <1>9. CASE ~UnderPressure
    <2>1. UNCHANGED taken
      BY <1>1, <1>9
    <2>2. PressureInv'
      BY <1>1, <1>7, <2>1, PressureKept DEF Inv
    <2>3. TakenInv'
      BY <2>1 DEF Inv, TakenInv
    <2> QED BY <1>6, <1>8, <2>2, <2>3 DEF Inv
  <1>10. CASE UnderPressure
    <2>1. taken' = [taken EXCEPT ![src] = Noted(taken[src])]
      BY <1>1, <1>10
    <2>2. DOMAIN taken = Sources /\ taken[src] \subseteq Hits("ip") /\ IsFiniteSet(taken[src])
      BY <1>3 DEF Inv, TakenInv
    <2>3. /\ Noted(taken[src]) \subseteq Hits("ip") /\ IsFiniteSet(Noted(taken[src]))
          /\ \A age \in Nat : Cardinality(UpTo(Noted(taken[src]), age))
                                = Cardinality(UpTo(taken[src], age)) + 1
      BY <1>3, <2>2, NotedAddsOne
    <2>4. /\ taken'[src] = Noted(taken[src]) /\ DOMAIN taken' = Sources
          /\ \A s \in Sources : s # src => taken'[s] = taken[s]
      BY <1>3, <2>1, <2>2
    <2>5. TakenInv'
      BY <2>3, <2>4 DEF Inv, TakenInv
    <2>6. PressureInv'
      <3> SUFFICES ASSUME HardLimit > 0, NEW s \in Sources, NEW age \in 0 .. Window["ip"]
                   PROVE  Cardinality(UpTo(taken'[s], age)) + Cardinality(Counting(s)')
                            <= Cardinality(UpTo(quiet["ip"][s], age)) + Cardinality(Handlers)
        BY <1>1 DEF PressureInv
      <3>1. Cardinality(UpTo(taken[s], age)) + Cardinality(Counting(s))
              <= Cardinality(UpTo(quiet["ip"][s], age)) + Cardinality(Handlers)
        BY DEF Inv, PressureInv
      <3>2. age \in Nat
        BY <1>3, HitsAreNatural
      <3>3. /\ Cardinality(UpTo(taken[s], age)) \in Nat
            /\ Cardinality(UpTo(quiet["ip"][s], age)) \in Nat
        BY <3>2, PressureParts DEF Inv
      <3>4. /\ IsFiniteSet(Counting(s)) /\ Cardinality(Counting(s)) \in Nat
            /\ Cardinality(Handlers) \in Nat
        BY CountingIsFinite
      <3>5. Cardinality(Counting(s)') =
              IF h \in Counting(s) THEN Cardinality(Counting(s)) - 1 ELSE Cardinality(Counting(s))
        BY <1>7, <3>4, FS_RemoveElement
      <3>6. CASE s = src
        <4>1. h \in Counting(s)
          BY <1>1, <1>2, <1>10, <3>6, AdmissionAssumption
             DEF Counting, Counts, Sheds, HardCapped
        <4>2. Cardinality(UpTo(taken'[s], age)) = Cardinality(UpTo(taken[s], age)) + 1
          BY <2>3, <2>4, <3>2, <3>6
        <4> QED BY <3>1, <3>3, <3>4, <3>5, <4>1, <4>2
      <3>7. CASE s # src
        BY <2>4, <3>1, <3>3, <3>4, <3>5, <3>7
      <3> QED BY <3>6, <3>7
    <2> QED BY <1>6, <1>8, <2>5, <2>6 DEF Inv
  <1> QED BY <1>9, <1>10

LEMMA ScoreStep ==
  ASSUME Inv, NEW sub \in Submissions, Score(sub)
  PROVE  Inv'
  <1> DEFINE k == <<sub.site, sub.behavior>>
             n == Counted("blob", k).count
             unnoticed == FlagsDuplicates(sub.site) /\ VerifyDecision(sub, n) = "pass"
  <1>1. UNCHANGED <<config, policy, handler, taken>>
    BY DEF Score
  <1>2. TypeInv' /\ TakenInv' /\ PolicyInv'
    BY <1>1 DEF Inv, TypeInv, TakenInv, PolicyInv, NoFreeChallenge
  <1>3. HistoryInv' /\ WindowInv' /\ quiet'["ip"] = quiet["ip"]
    <2>1. CASE sub.behavior # None /\ claims_activity(sub.behavior)
      <3>1. "blob" \in Maps /\ "ip" \in Maps /\ k \in Subjects("blob")
        BY <2>1 DEF Maps, Subjects
      <3>2. n \in Nat
        BY <3>1, CountedAccounts DEF Inv
      <3>3. Increment("blob", k, k, unnoticed)
        BY <2>1 DEF Score
      <3> HIDE DEF k
      <3>4. unnoticed => n <= Limit["blob"]
        <4> HIDE DEF n
        <4> QED BY <2>1, <3>2, PassingIsNoDuplicate DEF Inv
      <3> HIDE DEF unnoticed
      <3>5. CASE unnoticed
        <4>1. Increment("blob", k, k, TRUE)
          BY <3>3, <3>5 DEF Increment
        <4> QED BY <3>1, <3>4, <3>5, <4>1, IncrementStep DEF Inv
      <3>6. CASE ~unnoticed
        <4>1. Increment("blob", k, k, FALSE)
          BY <3>3, <3>6 DEF Increment
        <4> QED BY <3>1, <4>1, IncrementStep DEF Inv
      <3> QED BY <3>5, <3>6
    <2>2. CASE ~(sub.behavior # None /\ claims_activity(sub.behavior))
      <3>1. UNCHANGED <<rates, quiet>>
        BY <2>2 DEF Score, counters
      <3> QED BY <3>1 DEF Inv, HistoryInv, WindowInv
    <2> QED BY <2>1, <2>2
  <1>4. \A s \in Sources : Counting(s)' \subseteq Counting(s)
    BY <1>1 DEF Counting, Counts
  <1>5. PressureInv'
    BY <1>1, <1>3, <1>4, PressureKept DEF Inv
  <1> QED BY <1>2, <1>3, <1>5 DEF Inv

LEMMA UpdatePolicyStep ==
  ASSUME Inv, NEW k \in Sites, UpdatePolicy(k)
  PROVE  Inv'
  <1>1. PICK p \in Policies : validate(p, config) /\ policy' = [policy EXCEPT ![k] = p]
    BY DEF UpdatePolicy
  <1>2. UNCHANGED <<config, rates, quiet, active, handler, taken>>
    BY DEF UpdatePolicy, counters
  <1>3. /\ p.default_difficulty \in (Nat \ {0}) \cup {None}
        /\ p.max_difficulty \in (Nat \ {0}) \cup {None}
    BY <1>1, StoredIsPositive DEF Inv, TypeInv
  <1>4. policy'[k] = p /\ \A j \in Sites : j # k => policy'[j] = policy[j]
    BY <1>1 DEF Inv, TypeInv
  <1>5. TypeInv'
    BY <1>1, <1>2 DEF Inv, TypeInv
  <1>6. PolicyInv'
    BY <1>2, <1>3, <1>4 DEF Inv, PolicyInv, NoFreeChallenge
  <1>7. HistoryInv' /\ TakenInv' /\ WindowInv'
    BY <1>2 DEF Inv, HistoryInv, TakenInv, WindowInv
  <1>8. \A s \in Sources : Counting(s)' \subseteq Counting(s)
    BY <1>2 DEF Counting, Counts
  <1>9. PressureInv'
    BY <1>2, <1>8, PressureKept DEF Inv
  <1> QED BY <1>5, <1>6, <1>7, <1>9 DEF Inv

-----------------------------------------------------------------------------
(* Cleanup task, time and restarts                                         *)

LEMMA SweepStep ==
  ASSUME Inv, Sweep
  PROVE  Inv'
  <1>1. /\ UNCHANGED <<config, policy, handler, quiet, taken>>
        /\ rates' = [m \in Maps |-> [k \in FreshKeys(m) |-> rates[m][k]]]
    BY DEF Sweep
  <1>2. HistoryInv' /\ WindowInv'
    BY <1>1, WindowsSwept DEF Inv
  <1>3. TypeInv' /\ TakenInv' /\ PolicyInv'
    BY <1>1 DEF Inv, TypeInv, TakenInv, PolicyInv, NoFreeChallenge
  <1>4. \A s \in Sources : Counting(s)' \subseteq Counting(s)
    BY <1>1 DEF Counting, Counts
  <1>5. PressureInv'
    BY <1>1, <1>4, PressureKept DEF Inv
  <1> QED BY <1>2, <1>3, <1>5 DEF Inv

LEMMA TickStep ==
  ASSUME Inv, Tick
  PROVE  Inv'
  <1>1. /\ UNCHANGED <<config, policy, handler>>
        /\ quiet' = [m \in Maps |-> [s \in Subjects(m) |-> Older(quiet[m][s], m)]]
        /\ taken' = [s \in Sources |-> Older(taken[s], "ip")]
    BY DEF Tick
  <1>2. HistoryInv' /\ WindowInv'
    BY WindowsAge DEF Inv, Tick
  <1>3. TypeInv' /\ PolicyInv'
    BY <1>1 DEF Inv, TypeInv, PolicyInv, NoFreeChallenge
  <1>4. "ip" \in Maps /\ Subjects("ip") = Sources
    BY DEF Maps, Subjects
  <1>5. \A s \in Sources :
          /\ taken[s] \subseteq Hits("ip") /\ IsFiniteSet(taken[s])
          /\ taken'[s] = Older(taken[s], "ip")
          /\ quiet["ip"][s] \subseteq Hits("ip") /\ IsFiniteSet(quiet["ip"][s])
          /\ quiet'["ip"][s] = Older(quiet["ip"][s], "ip")
    BY <1>1, <1>4 DEF Inv, TakenInv, HistoryInv
  <1>6. TakenInv'
    <2>1. \A s \in Sources : taken'[s] \subseteq Hits("ip") /\ IsFiniteSet(taken'[s])
      BY <1>4, <1>5, OlderShifts
    <2> QED BY <1>1, <2>1 DEF TakenInv
  <1>7. PressureInv'
    <2> SUFFICES ASSUME HardLimit > 0, NEW s \in Sources, NEW age \in 0 .. Window["ip"]
                 PROVE  Cardinality(UpTo(taken'[s], age)) + Cardinality(Counting(s))
                          <= Cardinality(UpTo(quiet'["ip"][s], age)) + Cardinality(Handlers)
      BY <1>1 DEF PressureInv, Counting, Counts
    <2>1. age \in Nat /\ age <= Window["ip"] /\ Window["ip"] \in Nat
      BY <1>4, HitsAreNatural
    <2>2. /\ Cardinality(Counting(s)) \in Nat /\ Cardinality(Handlers) \in Nat
          /\ Cardinality(Counting(s)) <= Cardinality(Handlers)
      BY CountingIsFinite
    <2>3. /\ Older(taken[s], "ip") \subseteq Nat \X Nat /\ IsFiniteSet(Older(taken[s], "ip"))
          /\ Older(quiet["ip"][s], "ip") \subseteq Nat \X Nat
          /\ IsFiniteSet(Older(quiet["ip"][s], "ip"))
      BY <1>4, <1>5, OlderShifts, HitsAreNatural
    <2>4. /\ Cardinality(UpTo(taken'[s], age)) \in Nat
          /\ Cardinality(UpTo(quiet'["ip"][s], age)) \in Nat
      BY <1>5, <2>1, <2>3, Parts
    <2>5. CASE age = 0
      <3>1. UpTo(taken'[s], age) = {}
        BY <1>4, <1>5, <2>5, OlderShifts
      <3>2. Cardinality(UpTo(taken'[s], age)) = 0
        BY <3>1, FS_EmptySet
      <3> QED BY <2>2, <2>4, <3>2
    <2>6. CASE age > 0
      <3> DEFINE before == age - 1
      <3>1. before \in Nat /\ before + 1 = age /\ before \in 0 .. Window["ip"]
        BY <2>1, <2>6
      <3> HIDE DEF before
      <3>2. Cardinality(UpTo(taken'[s], age)) <= Cardinality(UpTo(taken[s], before))
        BY <1>4, <1>5, <3>1, OlderShifts
      <3>3. Cardinality(UpTo(quiet'["ip"][s], age)) = Cardinality(UpTo(quiet["ip"][s], before))
        BY <1>4, <1>5, <2>1, <3>1, OlderShifts
      <3>4. Cardinality(UpTo(taken[s], before)) + Cardinality(Counting(s))
              <= Cardinality(UpTo(quiet["ip"][s], before)) + Cardinality(Handlers)
        BY <3>1 DEF Inv, PressureInv
      <3>5. /\ Cardinality(UpTo(taken[s], before)) \in Nat
            /\ Cardinality(UpTo(quiet["ip"][s], before)) \in Nat
        BY <3>1, PressureParts DEF Inv
      <3> QED BY <2>2, <2>4, <3>2, <3>3, <3>4, <3>5
    <2> QED BY <2>1, <2>5, <2>6
  <1> QED BY <1>2, <1>3, <1>6, <1>7 DEF Inv

(* A process that just started has counted nothing.                        *)
LEMMA NothingYet ==
  /\ IsFiniteSet({}) /\ Cardinality({}) = 0
  /\ \A age : UpTo({}, age) = {}
  /\ DOMAIN <<>> = {}
  /\ Cardinality(Handlers) \in Nat
  BY FS_EmptySet, FS_CardinalityType, AdmissionAssumption DEF UpTo

LEMMA InvInit == Init => Inv
  <1> SUFFICES ASSUME Init PROVE Inv
    OBVIOUS
  <1>1. /\ config \in Configs /\ validated(config) /\ policy = [k \in Sites |-> NoPolicy]
        /\ rates = [m \in Maps |-> <<>>] /\ handler = [h \in Handlers |-> Idle]
        /\ quiet = [m \in Maps |-> [s \in Subjects(m) |-> {}]]
        /\ taken = [s \in Sources |-> {}]
    BY DEF Init, Fresh
  <1>2. TypeInv
    BY <1>1, IdleState DEF TypeInv, Working
  <1>3. PolicyInv
    BY <1>1, IdleState, ValidatedIsPositive
       DEF PolicyInv, NoFreeChallenge, Working, NoPolicy, Knobs
  <1>4. HistoryInv /\ TakenInv /\ WindowInv
    BY <1>1, NothingYet DEF HistoryInv, TakenInv, WindowInv
  <1>5. PressureInv
    <2>1. \A s \in Sources : Counting(s) = {}
      BY <1>1, IdleState DEF Counting, Counts
    <2>2. \A s \in Sources : taken[s] = {} /\ quiet["ip"][s] = {}
      BY <1>1 DEF Maps, Subjects
    <2>3. ASSUME NEW s \in Sources, NEW age \in 0 .. Window["ip"]
          PROVE  Cardinality(UpTo(taken[s], age)) + Cardinality(Counting(s))
                   <= Cardinality(UpTo(quiet["ip"][s], age)) + Cardinality(Handlers)
      <3>1. /\ Cardinality(UpTo(taken[s], age)) = 0 /\ Cardinality(Counting(s)) = 0
            /\ Cardinality(UpTo(quiet["ip"][s], age)) = 0
        BY <2>1, <2>2, NothingYet
      <3> QED BY <3>1, NothingYet
    <2> QED BY <2>3 DEF PressureInv
  <1> QED BY <1>2, <1>3, <1>4, <1>5 DEF Inv

LEMMA RestartStep ==
  ASSUME Inv, Restart
  PROVE  Inv'
  <1>1. /\ config' \in Configs /\ validated(config') /\ UNCHANGED policy
        /\ rates' = [m \in Maps |-> <<>>] /\ handler' = [h \in Handlers |-> Idle]
        /\ quiet' = [m \in Maps |-> [s \in Subjects(m) |-> {}]]
        /\ taken' = [s \in Sources |-> {}]
    BY DEF Restart
  <1>2. TypeInv'
    BY <1>1, IdleState DEF Inv, TypeInv, Working
  <1>3. PolicyInv'
    <2>1. Positive(config')
      BY <1>1, ValidatedIsPositive
    <2> QED BY <1>1, <2>1, IdleState DEF Inv, PolicyInv, NoFreeChallenge, Working
  <1>4. HistoryInv' /\ TakenInv' /\ WindowInv'
    BY <1>1, NothingYet DEF HistoryInv, TakenInv, WindowInv
  <1>5. PressureInv'
    <2>1. \A s \in Sources : Counting(s)' = {}
      BY <1>1, IdleState DEF Counting, Counts
    <2>2. \A s \in Sources : taken'[s] = {} /\ quiet'["ip"][s] = {}
      BY <1>1 DEF Maps, Subjects
    <2>3. ASSUME NEW s \in Sources, NEW age \in 0 .. Window["ip"]
          PROVE  Cardinality(UpTo(taken'[s], age)) + Cardinality(Counting(s)')
                   <= Cardinality(UpTo(quiet'["ip"][s], age)) + Cardinality(Handlers)
      <3>1. /\ Cardinality(UpTo(taken'[s], age)) = 0 /\ Cardinality(Counting(s)') = 0
            /\ Cardinality(UpTo(quiet'["ip"][s], age)) = 0
        BY <2>1, <2>2, NothingYet
      <3> QED BY <3>1, NothingYet
    <2> QED BY <2>3 DEF PressureInv
  <1> QED BY <1>2, <1>3, <1>4, <1>5 DEF Inv

-----------------------------------------------------------------------------
(* Theorems                                                                *)

LEMMA InvNext ==
  ASSUME Inv, [Next]_vars
  PROVE  Inv'
  <1>1. ASSUME NEW h \in Handlers, Refuse(h) \/ Store(h) PROVE Inv'
    BY <1>1, HandlerEnds DEF Refuse, Store, counters
  <1>2. CASE UNCHANGED vars
    BY <1>2 DEF vars, Inv, TypeInv, HistoryInv, TakenInv, WindowInv, PressureInv, PolicyInv,
                NoFreeChallenge, Counting, Counts
  <1> QED BY <1>1, <1>2, ArriveStep, CountIpStep, CountOtherStep, AdmitStep, ScoreStep,
             UpdatePolicyStep, SweepStep, RestartStep, TickStep DEF Next

LEMMA Invariance == Spec => []Inv
  BY InvInit, InvNext, PTL DEF Spec

(* Within one window a subject gets at most twice the limit through        *)
(* unnoticed, for windows and limits of any size, whatever addresses and   *)
(* headers its requests carry and however sweeps and ticks fall.           *)
THEOREM FixedWindowBurstHolds == Spec => []FixedWindowBurst
  <1>1. Inv => FixedWindowBurst
    BY AccountedIsBounded DEF Inv
  <1> QED BY <1>1, Invariance, PTL

(* While the challenge map is under pressure a source gets at most twice   *)
(* the per-IP cap, and one challenge per handler in flight, within one     *)
(* window.                                                                 *)
THEOREM ReservedHeadroomHolds == Spec => []ReservedHeadroom
  <1>1. ASSUME Inv PROVE ReservedHeadroom
    <2> SUFFICES ASSUME HardLimit > 0, NEW s \in Sources
                 PROVE  Cardinality(taken[s]) <= 2 * HardLimit + Cardinality(Handlers)
      BY DEF ReservedHeadroom
    <2> DEFINE last == Window["ip"]
    <2>1. "ip" \in Maps /\ s \in Subjects("ip") /\ Limit["ip"] = HardLimit /\ HardLimit \in Nat
      BY AdmissionAssumption DEF Maps, Subjects
    <2>2. last \in Nat /\ last \in 0 .. Window["ip"]
      BY <2>1, HitsAreNatural
    <2>3. /\ taken[s] \subseteq Hits("ip") /\ quiet["ip"][s] \subseteq Hits("ip")
      BY <1>1, <2>1 DEF Inv, TakenInv, HistoryInv
    <2>4. UpTo(taken[s], last) = taken[s] /\ UpTo(quiet["ip"][s], last) = quiet["ip"][s]
      BY <2>1, <2>3, HitsAreNatural DEF UpTo
    <2> HIDE DEF last
    <2>5. Cardinality(UpTo(taken[s], last)) + Cardinality(Counting(s))
            <= Cardinality(UpTo(quiet["ip"][s], last)) + Cardinality(Handlers)
      BY <1>1, <2>2 DEF Inv, PressureInv, last
    <2>6. Cardinality(UpTo(taken[s], last)) \in Nat /\ Cardinality(UpTo(quiet["ip"][s], last)) \in Nat
      BY <1>1, <2>2, PressureParts DEF Inv
    <2>7. Cardinality(quiet["ip"][s]) <= 2 * HardLimit
      BY <1>1, <2>1, AccountedIsBounded DEF Inv, FixedWindowBurst
    <2>8. Cardinality(Counting(s)) \in Nat /\ Cardinality(Handlers) \in Nat
      BY CountingIsFinite
    <2> QED BY <2>1, <2>4, <2>5, <2>6, <2>7, <2>8
  <1> QED BY <1>1, Invariance, PTL

(* No issued challenge has difficulty 0, whichever policies were stored    *)
(* under whichever configurations the server was started with since.       *)
THEOREM NoFreeChallengeHolds == Spec => []NoFreeChallenge
  <1>1. Inv => NoFreeChallenge
    BY DEF Inv, PolicyInv
  <1> QED BY <1>1, Invariance, PTL

=============================================================================

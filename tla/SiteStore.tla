----------------------------- MODULE SiteStore -----------------------------
(***************************************************************************)
(* The site registry: two in-memory maps behind two RwLocks, written       *)
(* through to a SQLite table.  Admin handlers (create, rotate, edit,       *)
(* delete) take their locks one after the other, commit to the table,      *)
(* update the maps and answer; the process may stop between any two of     *)
(* these steps, and a restart rebuilds the maps from the table.  The       *)
(* lookups, which take the two locks in turn, are in ChallengeService.     *)
(*                                                                         *)
(* The registry is configured with a database (SITES_DB_PATH); without one *)
(* there is nothing to recover.  A handler does not suspend between its    *)
(* steps, so only the end of the process can cut it short.                 *)
(***************************************************************************)
EXTENDS Integers, FiniteSets, Sequences

CONSTANTS
  SiteKeys,   \* keys a behaviour may create (a bound)
  Secrets,    \* secrets a create or a rotation may draw
  Values,     \* values of the editable fields
  Default,    \* the empty policy, stored as NULL
  Admins,     \* concurrent admin handlers (a bound)
  None

Fields == {"name", "allowed_origins", "policy"}
Site == [secret_key : Secrets, name : Values, allowed_origins : Values,
         policy : Values]
Row == [secret_key : Secrets, name : Values, allowed_origins : Values,
        policy : (Values \ {Default}) \cup {None}]

ASSUME SiteAssumption ==
  /\ Default \in Values
  /\ None \notin SiteKeys \cup Secrets \cup Values \cup Admins
  /\ None \notin Site \cup Row

VARIABLES
  db,               \* the sites table: key -> row
  up,               \* the process runs
  sites_by_key, sites_by_secret,
  lock,             \* lock -> the handler that holds it for writing
  pc, req,          \* admin handlers
  \* history
  acked,            \* key -> what the last answered request left there
  torn              \* keys whose request the last stop cut off

maps == <<sites_by_key, sites_by_secret>>
handlers == <<lock, pc, req>>
history == <<acked, torn>>
vars == <<db, up, maps, handlers, history>>

NoReq == [op |-> "none", key |-> None, arg |-> None]
EmptyMap == [k \in SiteKeys |-> None]
Locks == {"by_key", "by_secret"}

Init ==
  /\ db = EmptyMap /\ up = TRUE
  /\ sites_by_key = EmptyMap
  /\ sites_by_secret = [s \in Secrets |-> None]
  /\ lock = [l \in Locks |-> None]
  /\ pc = [a \in Admins |-> "idle"] /\ req = [a \in Admins |-> NoReq]
  /\ acked = EmptyMap /\ torn = {}

-----------------------------------------------------------------------------
(* Rows and records                                                        *)

(* policy_column: an empty policy is NULL.                                 *)
policy_column(p) == IF p = Default THEN None ELSE p

ToRow(site) == [site EXCEPT !.policy = policy_column(@)]

(* Fault: NULL is not read back as the empty policy.                       *)
FromRowRaw(row) == row

(* load_all_sites: NULL reads back as no overrides.                        *)
FromRow(row) ==
  IF row = None THEN None
  ELSE [row EXCEPT !.policy = IF @ = None THEN Default ELSE @]

(* The secret index of a map of sites.                                     *)
Index(m) == [s \in Secrets |->
  IF \E k \in SiteKeys : m[k] # None /\ m[k].secret_key = s
    THEN CHOOSE k \in SiteKeys : m[k] # None /\ m[k].secret_key = s
    ELSE None]

-----------------------------------------------------------------------------
(* Admin handlers                                                          *)

(* Fault: a delete takes the two locks the other way round.                *)
LockOrderSwapped(op) ==
  CASE op = "delete" -> <<"by_secret", "by_key">>
    [] op \in {"create", "rotate"} -> <<"by_key", "by_secret">>
    [] OTHER -> <<"by_key">>

(* Edits of a field leave the secret index alone.                          *)
LockOrder(op) == IF op \in {"create", "rotate", "delete"}
                   THEN <<"by_key", "by_secret">> ELSE <<"by_key">>

Held(a) == {l \in Locks : lock[l] = a}

Release(a) == [l \in Locks |-> IF lock[l] = a THEN None ELSE lock[l]]

Ops == {"create", "rotate", "delete"} \cup Fields

(* The secret drawn at random, or the validated new value of a field.      *)
Args(op) == CASE op \in {"create", "rotate"} -> Secrets
              [] op \in Fields -> Values
              [] OTHER -> {None}

(* A validated request.  The key of a new site is drawn like its secret;   *)
(* what else the request carries first matters at the statement and is     *)
(* chosen there.                                                           *)
Receive(a) == \E op \in Ops, k \in SiteKeys :
  /\ up /\ pc[a] = "idle"
  /\ pc' = [pc EXCEPT ![a] = "locking"]
  /\ req' = [req EXCEPT ![a] = [op |-> op, key |-> k, arg |-> None]]
  /\ UNCHANGED <<db, up, maps, lock, history>>

(* The next lock of the order, when nobody holds it.                       *)
Acquire(a) ==
  LET order == LockOrder(req[a].op)
      l == order[Cardinality(Held(a)) + 1]
  IN /\ pc[a] = "locking" /\ lock[l] = None
     /\ lock' = [lock EXCEPT ![l] = a]
     /\ pc' = [pc EXCEPT ![a] = IF Cardinality(Held(a)) + 1 = Len(order)
                                  THEN "persist" ELSE "locking"]
     /\ UNCHANGED <<db, up, maps, req, history>>

Finish(a) ==
  /\ lock' = Release(a)
  /\ pc' = [pc EXCEPT ![a] = "idle"]
  /\ req' = [req EXCEPT ![a] = NoReq]

(* The record a create makes; its other fields stand for what the request  *)
(* set them to.                                                            *)
NewSite(s) == [secret_key |-> s, name |-> Default,
               allowed_origins |-> Default, policy |-> Default]

(* What the request makes of the site in memory.                           *)
Applied(r) ==
  CASE r.op = "create" -> NewSite(r.arg)
    [] r.op = "rotate" -> [sites_by_key[r.key] EXCEPT !.secret_key = r.arg]
    [] r.op \in Fields -> [sites_by_key[r.key] EXCEPT ![r.op] = r.arg]
    [] r.op = "delete" -> None

(* Fault: a rotation does not reach the table.                             *)
WrittenForgetsSecret(r) ==
  CASE r.op = "create" -> ToRow(NewSite(r.arg))
    [] r.op = "rotate" -> db[r.key]
    [] r.op = "policy" -> [db[r.key] EXCEPT !.policy = policy_column(r.arg)]
    [] r.op \in {"name", "allowed_origins"} ->
         [db[r.key] EXCEPT ![r.op] = r.arg]
    [] r.op = "delete" -> None

(* The row after INSERT, UPDATE of one column, or DELETE.                  *)
Written(r) ==
  CASE r.op = "create" -> ToRow(NewSite(r.arg))
    [] r.op = "rotate" -> [db[r.key] EXCEPT !.secret_key = r.arg]
    [] r.op = "policy" -> [db[r.key] EXCEPT !.policy = policy_column(r.arg)]
    [] r.op \in {"name", "allowed_origins"} ->
         [db[r.key] EXCEPT ![r.op] = r.arg]
    [] r.op = "delete" -> None

NotFound(r) == r.op # "create" /\ sites_by_key[r.key] = None

(* PRIMARY KEY(site_key), UNIQUE(secret_key)                               *)
Collides(r) ==
  \/ r.op = "create" /\ db[r.key] # None
  \/ /\ r.op \in {"create", "rotate"}
     /\ \E k \in SiteKeys \ {r.key} :
          db[k] # None /\ db[k].secret_key = r.arg

(* 404 from memory, or the statement fails (a collision, a disk error):    *)
(* neither table nor maps change.                                          *)
Refuse(a) ==
  /\ pc[a] = "persist"
  /\ Finish(a)
  /\ UNCHANGED <<db, up, maps, history>>

(* Fault: the statement runs outside the critical section.                 *)
PersistUnlocked(a) == \E x \in Args(req[a].op) :
  LET r == [req[a] EXCEPT !.arg = x] IN
  /\ pc[a] = "persist" /\ ~NotFound(r) /\ ~Collides(r)
  /\ r.op # "create" => db[r.key] # None
  /\ db' = [db EXCEPT ![r.key] = Written(r)]
  /\ lock' = Release(a)
  /\ pc' = [pc EXCEPT ![a] = "apply"]
  /\ req' = [req EXCEPT ![a] = r]
  /\ UNCHANGED <<up, maps, history>>

(* The statement commits; an UPDATE or DELETE that matches no row is an    *)
(* error and is covered by Refuse.                                         *)
Persist(a) == \E x \in Args(req[a].op) :
  LET r == [req[a] EXCEPT !.arg = x] IN
  /\ pc[a] = "persist" /\ ~NotFound(r) /\ ~Collides(r)
  /\ r.op # "create" => db[r.key] # None
  /\ db' = [db EXCEPT ![r.key] = Written(r)]
  /\ pc' = [pc EXCEPT ![a] = "apply"]
  /\ req' = [req EXCEPT ![a] = r]
  /\ UNCHANGED <<up, maps, lock, history>>

(* Fault: a rotation or deletion leaves the old secret in the index.       *)
IndexAfterKeepsOld(r) ==
  IF r.op \in {"create", "rotate"}
    THEN [sites_by_secret EXCEPT ![Applied(r).secret_key] = r.key]
    ELSE sites_by_secret

(* by_secret: the old secret out, the new one in.                          *)
IndexAfter(r) ==
  LET old == IF r.op = "create" THEN None ELSE sites_by_key[r.key].secret_key
  IN CASE r.op = "create" ->
            [sites_by_secret EXCEPT ![r.arg] = r.key]
       [] r.op = "rotate" ->
            [sites_by_secret EXCEPT ![old] = None, ![r.arg] = r.key]
       [] r.op = "delete" -> [sites_by_secret EXCEPT ![old] = None]
       [] OTHER -> sites_by_secret

(* The maps change, the locks go, the caller has its answer.               *)
Apply(a) ==
  LET r == req[a] IN
  /\ pc[a] = "apply"
  /\ sites_by_key' = [sites_by_key EXCEPT ![r.key] = Applied(r)]
  /\ sites_by_secret' = IndexAfter(r)
  /\ acked' = [acked EXCEPT ![r.key] = Applied(r)]
  /\ Finish(a)
  /\ UNCHANGED <<db, up, torn>>

-----------------------------------------------------------------------------
(* Stop and restart                                                        *)

(* The maps, the locks and every handler go; only the table stays.         *)
Stop ==
  /\ up
  /\ up' = FALSE
  /\ sites_by_key' = EmptyMap
  /\ sites_by_secret' = [s \in Secrets |-> None]
  /\ lock' = [l \in Locks |-> None]
  /\ pc' = [a \in Admins |-> "idle"] /\ req' = [a \in Admins |-> NoReq]
  /\ torn' = torn \cup {req[a].key : a \in {b \in Admins : pc[b] = "apply"}}
  /\ UNCHANGED <<db, acked>>

(* with_site_persistence.  Whoever was cut off finds out what happened.    *)
Restart ==
  LET m == [k \in SiteKeys |-> FromRow(db[k])] IN
  /\ ~up
  /\ up' = TRUE
  /\ sites_by_key' = m
  /\ sites_by_secret' = Index(m)
  /\ acked' = [k \in SiteKeys |-> IF k \in torn THEN m[k] ELSE acked[k]]
  /\ torn' = {}
  /\ UNCHANGED <<db, handlers>>

-----------------------------------------------------------------------------
AdminStep(a) == Acquire(a) \/ Persist(a) \/ Refuse(a) \/ Apply(a)

Next ==
  \/ \E a \in Admins : Receive(a) \/ AdminStep(a)
  \/ Stop \/ Restart

Spec == Init /\ [][Next]_vars

(* A handler that can take its next lock or statement does so.             *)
Fairness == \A a \in Admins : WF_vars(AdminStep(a))

LiveSpec == Spec /\ Fairness

-----------------------------------------------------------------------------
(* Properties                                                              *)

(* Every variable holds a value of its type, a handler at work holds the   *)
(* request it received, and only a running process has handlers at work.   *)
TypeOK ==
  /\ db \in [SiteKeys -> Row \cup {None}] /\ up \in BOOLEAN
  /\ sites_by_key \in [SiteKeys -> Site \cup {None}]
  /\ sites_by_secret \in [Secrets -> SiteKeys \cup {None}]
  /\ lock \in [Locks -> Admins \cup {None}]
  /\ pc \in [Admins -> {"idle", "locking", "persist", "apply"}]
  /\ req \in [Admins -> [op : Ops \cup {"none"}, key : SiteKeys \cup {None},
                         arg : Secrets \cup Values \cup {None}]]
  /\ \A a \in Admins : pc[a] # "idle" =>
       up /\ req[a].op \in Ops /\ req[a].key \in SiteKeys
  /\ \A a \in Admins : pc[a] = "apply" => req[a].arg \in Args(req[a].op)
  /\ acked \in [SiteKeys -> Site \cup {None}]
  /\ torn \subseteq SiteKeys

(* No two sites share a secret, and the secret index is exactly the        *)
(* inverse of the sites: no stale secret opens a site, no site is without  *)
(* its secret, whatever order rotations, deletions and restarts come in.   *)
IndexIsInverse ==
  /\ \A j, k \in SiteKeys :
       /\ sites_by_key[j] # None /\ sites_by_key[k] # None
       /\ sites_by_key[j].secret_key = sites_by_key[k].secret_key
       => j = k
  /\ sites_by_secret = Index(sites_by_key)

(* Memory and table never diverge: outside the critical section of the     *)
(* very site, a running process serves exactly what the table holds, after *)
(* concurrent edits, failed statements and restarts alike.                 *)
MemoryMatchesDisk == up => \A k \in SiteKeys :
  \/ \E a \in Admins : pc[a] = "apply" /\ req[a].key = k
  \/ sites_by_key[k] = FromRow(db[k])

(* An answered change survives every later stop, and a refused one leaves  *)
(* no trace: unless a stop cut a request between commit and answer, the    *)
(* table holds what the last answer said.                                  *)
AnsweredIsDurable == \A k \in SiteKeys :
  \/ k \in torn
  \/ \E a \in Admins : pc[a] = "apply" /\ req[a].key = k
  \/ FromRow(db[k]) = acked[k]

(* A handler that holds a lock finishes: no two of them wait for each      *)
(* other.                                                                  *)
HoldersFinish == \A a \in Admins : Held(a) # {} ~> Held(a) = {}

=============================================================================

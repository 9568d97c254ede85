-------------------------- MODULE SiteStoreProofs --------------------------
(***************************************************************************)
(* Proofs about SiteStore, for any number of sites, secrets and admin      *)
(* handlers: the two maps and the table agree through concurrent requests, *)
(* failed statements, stops and restarts.  The argument has three parts:   *)
(* the lock order gives one handler at a time the run of the table; a      *)
(* statement and the update of the maps say the same thing of a site; and  *)
(* the table's UNIQUE column makes the secret index an inverse.            *)
(***************************************************************************)
EXTENDS SiteStore, FiniteSetTheorems, TLAPS

(* What a handler holds at each of its steps.                              *)
TwoLocks == {"create", "rotate", "delete"}

LockInv == \A a \in Admins :
  /\ pc[a] = "idle" => Held(a) = {}
  /\ pc[a] = "locking" => \/ Held(a) = {}
                          \/ Held(a) = {"by_key"} /\ req[a].op \in TwoLocks
  /\ pc[a] \in {"persist", "apply"} =>
       Held(a) = IF req[a].op \in TwoLocks THEN Locks ELSE {"by_key"}

(* UNIQUE(secret_key)                                                      *)
SecretsDistinct == \A j, k \in SiteKeys :
  db[j] # None /\ db[k] # None /\ db[j].secret_key = db[k].secret_key => j = k

(* A committed statement awaits the same change of the maps.               *)
CommittedInv == \A a \in Admins : pc[a] = "apply" =>
  /\ FromRow(db[req[a].key]) = Applied(req[a])
  /\ req[a].op = "create" <=> sites_by_key[req[a].key] = None

(* The index f is the inverse of the map m.                                *)
Inverts(f, m) ==
  /\ \A s \in Secrets : f[s] # None =>
       m[f[s]] # None /\ m[f[s]].secret_key = s
  /\ \A k \in SiteKeys : m[k] # None => f[m[k].secret_key] = k

Inv == /\ TypeOK /\ LockInv
       /\ SecretsDistinct /\ CommittedInv /\ MemoryMatchesDisk
       /\ Inverts(sites_by_secret, sites_by_key)

-----------------------------------------------------------------------------
(* Rows and records                                                        *)

LEMMA SameSite ==
  ASSUME NEW s \in Site, NEW t \in Site, s.secret_key = t.secret_key,
         s.name = t.name, s.allowed_origins = t.allowed_origins, s.policy = t.policy
  PROVE  s = t
  BY DEF Site

(* What load_all_sites makes of each column.                               *)
LEMMA FromRowFields ==
  ASSUME NEW row \in Row
  PROVE  LET site == FromRow(row) IN
         /\ site \in Site /\ site.secret_key = row.secret_key
         /\ site.name = row.name /\ site.allowed_origins = row.allowed_origins
         /\ site.policy = IF row.policy = None THEN Default ELSE row.policy
  <1>1. FromRow(row) = [row EXCEPT !.policy = IF @ = None THEN Default ELSE @]
    BY SiteAssumption DEF FromRow
  <1> QED BY <1>1, SiteAssumption DEF Row, Site

LEMMA FromRowType ==
  ASSUME NEW row \in Row \cup {None}
  PROVE  /\ FromRow(row) \in Site \cup {None}
         /\ FromRow(row) = None <=> row = None
         /\ row # None => FromRow(row).secret_key = row.secret_key
  BY SiteAssumption DEF FromRow, Row, Site

(* Nothing of a record is lost on its way through the table.               *)
LEMMA RowRoundTrip ==
  ASSUME NEW site \in Site
  PROVE  ToRow(site) \in Row /\ FromRow(ToRow(site)) = site
  <1>1. ToRow(site) \in Row
    BY SiteAssumption DEF ToRow, policy_column, Row, Site
  <1>2. /\ ToRow(site).secret_key = site.secret_key /\ ToRow(site).name = site.name
        /\ ToRow(site).allowed_origins = site.allowed_origins
        /\ ToRow(site).policy = policy_column(site.policy)
    BY DEF ToRow, Site
  <1>3. site.policy \in Values
    BY DEF Site
  <1>4. FromRow(ToRow(site)).policy = site.policy
    BY <1>1, <1>2, <1>3, FromRowFields, SiteAssumption DEF policy_column
  <1> HIDE DEF ToRow
  <1> QED BY <1>1, <1>2, <1>4, FromRowFields, SameSite

(* The statement of a request and its change of the maps say the same.     *)
LEMMA StatementMatchesMaps ==
  ASSUME NEW r, r.op \in Ops, r.key \in SiteKeys, r.arg \in Args(r.op),
         sites_by_key[r.key] = FromRow(db[r.key]),
         r.op # "create" => db[r.key] \in Row
  PROVE  /\ Written(r) \in Row \cup {None}
         /\ FromRow(Written(r)) = Applied(r)
         /\ Written(r) # None /\ r.op \in {"create", "rotate"} =>
              Written(r).secret_key = r.arg
         /\ Written(r) # None /\ r.op \notin {"create", "rotate"} =>
              db[r.key] # None /\ Written(r).secret_key = db[r.key].secret_key
  <1> DEFINE row == db[r.key]
             site == sites_by_key[r.key]
  <1> USE DEF Fields
  <1>0. row \in Row => row # None /\ site = FromRow(row) /\ site \in Site
    BY SiteAssumption, FromRowFields
  <1>1. CASE r.op = "create"
    <2>1. r.arg \in Secrets
      BY <1>1 DEF Args
    <2>2. NewSite(r.arg) \in Site
      BY <2>1, SiteAssumption DEF NewSite, Site
    <2>3. Written(r) = ToRow(NewSite(r.arg)) /\ Applied(r) = NewSite(r.arg)
      BY <1>1 DEF Written, Applied
    <2>4. ToRow(NewSite(r.arg)).secret_key = r.arg
      BY <2>2 DEF ToRow, NewSite, Site
    <2> QED BY <1>1, <2>2, <2>3, <2>4, RowRoundTrip
  <1>2. CASE r.op = "rotate"
    <2>1. r.arg \in Secrets /\ row \in Row
      BY <1>2 DEF Args
    <2> DEFINE new == [row EXCEPT !.secret_key = r.arg]
               upd == [site EXCEPT !.secret_key = r.arg]
    <2>2. Written(r) = new /\ Applied(r) = upd
      BY <1>2 DEF Written, Applied
    <2>3. /\ new \in Row /\ new.secret_key = r.arg /\ new.name = row.name
          /\ new.allowed_origins = row.allowed_origins /\ new.policy = row.policy
      BY <2>1 DEF Row
    <2>4. /\ upd \in Site /\ upd.secret_key = r.arg /\ upd.name = site.name
          /\ upd.allowed_origins = site.allowed_origins /\ upd.policy = site.policy
      BY <1>0, <2>1 DEF Site
    <2> HIDE DEF new, upd, row, site
    <2>5. FromRow(new) = upd
      BY <1>0, <2>1, <2>3, <2>4, FromRowFields, SameSite
    <2> QED BY <1>2, <2>2, <2>3, <2>5
  <1>3. CASE r.op = "policy"
    <2>1. r.arg \in Values /\ row \in Row
      BY <1>3 DEF Args
    <2> DEFINE new == [row EXCEPT !.policy = policy_column(r.arg)]
               upd == [site EXCEPT !.policy = r.arg]
    <2>2. Written(r) = new /\ Applied(r) = upd
      BY <1>3 DEF Written, Applied
    <2>3. /\ new \in Row /\ new.secret_key = row.secret_key /\ new.name = row.name
          /\ new.allowed_origins = row.allowed_origins
          /\ new.policy = policy_column(r.arg)
      BY <2>1, SiteAssumption DEF Row, policy_column
    <2>4. /\ upd \in Site /\ upd.secret_key = site.secret_key
          /\ upd.name = site.name
          /\ upd.allowed_origins = site.allowed_origins /\ upd.policy = r.arg
      BY <1>0, <2>1 DEF Site
    <2>5. r.arg = IF policy_column(r.arg) = None THEN Default ELSE policy_column(r.arg)
      BY <2>1, SiteAssumption DEF policy_column
    <2> HIDE DEF new, upd, site
    <2>6. FromRow(new) = upd
      BY <1>0, <2>1, <2>3, <2>4, <2>5, FromRowFields, SameSite
    <2> QED BY <1>0, <1>3, <2>1, <2>2, <2>3, <2>6
  <1>4. CASE r.op \in {"name", "allowed_origins"}
    <2>1. r.arg \in Values /\ row \in Row
      BY <1>4 DEF Args
    <2> DEFINE new == [row EXCEPT ![r.op] = r.arg]
               upd == [site EXCEPT ![r.op] = r.arg]
    <2>2. Written(r) = new /\ Applied(r) = upd
      BY <1>4 DEF Written, Applied
    <2>3. /\ new \in Row /\ new.secret_key = row.secret_key
          /\ new.name = IF r.op = "name" THEN r.arg ELSE row.name
          /\ new.allowed_origins =
               IF r.op = "name" THEN row.allowed_origins ELSE r.arg
          /\ new.policy = row.policy
      BY <1>4, <2>1 DEF Row
    <2>4. /\ upd \in Site /\ upd.secret_key = site.secret_key
          /\ upd.name = IF r.op = "name" THEN r.arg ELSE site.name
          /\ upd.allowed_origins =
               IF r.op = "name" THEN site.allowed_origins ELSE r.arg
          /\ upd.policy = site.policy
      BY <1>0, <1>4, <2>1 DEF Site
    <2> HIDE DEF new, upd, site
    <2>5. FromRow(new) = upd
      BY <1>0, <2>1, <2>3, <2>4, FromRowFields, SameSite
    <2> QED BY <1>0, <1>4, <2>1, <2>2, <2>3, <2>5
  <1>5. CASE r.op = "delete"
    BY <1>5, SiteAssumption DEF Written, Applied, FromRow, Fields
  <1> QED BY <1>1, <1>2, <1>3, <1>4, <1>5 DEF Ops, Fields

(* What load_all_sites builds is the inverse, and the only one.            *)
LEMMA IndexInverts ==
  ASSUME NEW m \in [SiteKeys -> Site \cup {None}],
         \A j, k \in SiteKeys : m[j] # None /\ m[k] # None
           /\ m[j].secret_key = m[k].secret_key => j = k
  PROVE  Index(m) \in [Secrets -> SiteKeys \cup {None}] /\ Inverts(Index(m), m)
  <1>1. ASSUME NEW s \in Secrets, NEW k \in SiteKeys, m[k] # None,
               m[k].secret_key = s
        PROVE  Index(m)[s] = k
    BY <1>1 DEF Index
  <1>2. ASSUME NEW s \in Secrets, ~\E k \in SiteKeys : m[k] # None /\ m[k].secret_key = s
        PROVE  Index(m)[s] = None
    BY <1>2 DEF Index
  <1>3. \A k \in SiteKeys : m[k] # None => m[k].secret_key \in Secrets
    BY DEF Site
  <1>4. \A s \in Secrets : Index(m)[s] \in SiteKeys \cup {None}
    BY <1>1, <1>2
  <1>5. Index(m) \in [Secrets -> SiteKeys \cup {None}]
    BY <1>4 DEF Index
  <1> HIDE DEF Index
  <1> QED BY <1>1, <1>2, <1>3, <1>5 DEF Inverts

LEMMA InverseIsIndex ==
  ASSUME NEW m \in [SiteKeys -> Site \cup {None}],
         NEW f \in [Secrets -> SiteKeys \cup {None}], Inverts(f, m)
  PROVE  /\ \A j, k \in SiteKeys : m[j] # None /\ m[k] # None
              /\ m[j].secret_key = m[k].secret_key => j = k
         /\ f = Index(m)
  <1>1. \A j, k \in SiteKeys : m[j] # None /\ m[k] # None
          /\ m[j].secret_key = m[k].secret_key => j = k
    BY DEF Inverts
  <1>2. Index(m) \in [Secrets -> SiteKeys \cup {None}] /\ Inverts(Index(m), m)
    BY <1>1, IndexInverts
  <1>3. \A s \in Secrets : f[s] = Index(m)[s]
    BY <1>2, SiteAssumption DEF Inverts
  <1> QED BY <1>1, <1>2, <1>3

-----------------------------------------------------------------------------
(* Locks                                                                   *)

LEMMA HeldCount ==
  ASSUME NEW a \in Admins
  PROVE  /\ Held(a) = {} => Cardinality(Held(a)) = 0
         /\ Held(a) = {"by_key"} => Cardinality(Held(a)) = 1
  BY FS_EmptySet, FS_Singleton

(* The lock a handler takes next, and what it holds then.                  *)
LEMMA AcquireStep ==
  ASSUME TypeOK, LockInv, NEW a \in Admins, Acquire(a)
  PROVE  /\ pc[a] = "locking" /\ UNCHANGED <<db, up, maps, req, history>>
         /\ \/ /\ Held(a) = {} /\ lock["by_key"] = None
               /\ lock' = [lock EXCEPT !["by_key"] = a]
               /\ pc' = [pc EXCEPT ![a] = IF req[a].op \in TwoLocks
                                            THEN "locking" ELSE "persist"]
            \/ /\ Held(a) = {"by_key"} /\ req[a].op \in TwoLocks
               /\ lock["by_secret"] = None
               /\ lock' = [lock EXCEPT !["by_secret"] = a]
               /\ pc' = [pc EXCEPT ![a] = "persist"]
  <1> DEFINE op == req[a].op
             n == Cardinality(Held(a))
  <1>1. /\ pc[a] = "locking" /\ UNCHANGED <<db, up, maps, req, history>>
        /\ lock[LockOrder(op)[n + 1]] = None
        /\ lock' = [lock EXCEPT ![LockOrder(op)[n + 1]] = a]
        /\ pc' = [pc EXCEPT ![a] = IF n + 1 = Len(LockOrder(op))
                                     THEN "persist" ELSE "locking"]
    BY DEF Acquire
  <1>2. /\ op \in TwoLocks => /\ Len(LockOrder(op)) = 2
                              /\ LockOrder(op)[1] = "by_key"
                              /\ LockOrder(op)[2] = "by_secret"
        /\ op \notin TwoLocks => /\ Len(LockOrder(op)) = 1
                                 /\ LockOrder(op)[1] = "by_key"
    BY DEF LockOrder, TwoLocks
  <1>3. CASE Held(a) = {}
    <2>1. n = 0
      BY <1>3, HeldCount
    <2>2. /\ LockOrder(op)[n + 1] = "by_key"
          /\ n + 1 = Len(LockOrder(op)) <=> op \notin TwoLocks
      BY <1>2, <2>1
    <2> HIDE DEF n
    <2>3. pc' = [pc EXCEPT ![a] = IF op \in TwoLocks THEN "locking" ELSE "persist"]
      BY <1>1, <2>2
    <2> QED BY <1>1, <1>3, <2>2, <2>3
  <1>4. CASE Held(a) = {"by_key"} /\ op \in TwoLocks
    <2>1. n = 1
      BY <1>4, HeldCount
    <2>2. LockOrder(op)[n + 1] = "by_secret" /\ n + 1 = Len(LockOrder(op))
      BY <1>2, <1>4, <2>1
    <2> HIDE DEF n
    <2> QED BY <1>1, <1>4, <2>2
  <1> QED BY <1>1, <1>3, <1>4 DEF LockInv

(* One handler at a time is at its statement or about to update the maps.  *)
LEMMA Exclusive ==
  ASSUME LockInv, NEW a \in Admins, NEW b \in Admins,
         pc[a] \in {"persist", "apply"}, pc[b] \in {"persist", "apply"}
  PROVE  a = b
  <1>1. "by_key" \in Held(a) /\ "by_key" \in Held(b)
    BY DEF LockInv, Locks
  <1> QED BY <1>1 DEF Held

LEMMA FinishLocks ==
  ASSUME TypeOK, LockInv, NEW a \in Admins, Finish(a)
  PROVE  LockInv'
  <1>1. /\ pc'[a] = "idle" /\ Held(a)' = {}
        /\ \A b \in Admins \ {a} :
             pc'[b] = pc[b] /\ req'[b] = req[b] /\ Held(b)' = Held(b)
    BY SiteAssumption DEF Finish, Release, Held, TypeOK
  <1> QED BY <1>1 DEF LockInv

LEMMA LocksNext ==
  ASSUME TypeOK, LockInv, [Next]_vars
  PROVE  LockInv'
  <1>1. ASSUME NEW a \in Admins, Receive(a) PROVE LockInv'
    <2>1. /\ pc[a] = "idle" /\ pc'[a] = "locking" /\ UNCHANGED lock
          /\ \A b \in Admins \ {a} : pc'[b] = pc[b] /\ req'[b] = req[b]
      BY <1>1 DEF Receive, TypeOK
    <2>2. \A b \in Admins : Held(b)' = Held(b)
      BY <2>1 DEF Held
    <2> QED BY <2>1, <2>2 DEF LockInv
  <1>2. ASSUME NEW a \in Admins, Acquire(a) PROVE LockInv'
    <2>0. UNCHANGED req /\ pc[a] = "locking"
      BY <1>2, AcquireStep
    <2>1. CASE /\ Held(a) = {} /\ lock["by_key"] = None
               /\ lock' = [lock EXCEPT !["by_key"] = a]
               /\ pc' = [pc EXCEPT ![a] = IF req[a].op \in TwoLocks
                                            THEN "locking" ELSE "persist"]
      <3>1. Held(a)' = {"by_key"}
        BY <2>1 DEF Held, TypeOK, Locks
      <3>2. \A b \in Admins \ {a} : Held(b)' = Held(b) /\ pc'[b] = pc[b]
        BY <2>1, SiteAssumption DEF Held, TypeOK, Locks
      <3>3. pc'[a] = IF req[a].op \in TwoLocks THEN "locking" ELSE "persist"
        BY <2>1 DEF TypeOK
      <3> QED BY <2>0, <3>1, <3>2, <3>3 DEF LockInv
    <2>2. CASE /\ Held(a) = {"by_key"} /\ req[a].op \in TwoLocks
               /\ lock["by_secret"] = None
               /\ lock' = [lock EXCEPT !["by_secret"] = a]
               /\ pc' = [pc EXCEPT ![a] = "persist"]
      <3>1. Held(a)' = Locks
        BY <2>2 DEF Held, TypeOK, Locks
      <3>2. \A b \in Admins \ {a} : Held(b)' = Held(b) /\ pc'[b] = pc[b]
        BY <2>2, SiteAssumption DEF Held, TypeOK, Locks
      <3>3. pc'[a] = "persist"
        BY <2>2 DEF TypeOK
      <3> QED BY <2>0, <2>2, <3>1, <3>2, <3>3 DEF LockInv
    <2> QED BY <1>2, <2>1, <2>2, AcquireStep
  <1>3. ASSUME NEW a \in Admins, Persist(a) PROVE LockInv'
    <2>1. /\ pc[a] = "persist" /\ pc'[a] = "apply" /\ UNCHANGED lock
          /\ req'[a].op = req[a].op
          /\ \A b \in Admins \ {a} : pc'[b] = pc[b] /\ req'[b] = req[b]
      BY <1>3 DEF Persist, TypeOK
    <2>2. \A b \in Admins : Held(b)' = Held(b)
      BY <2>1 DEF Held
    <2> QED BY <2>1, <2>2 DEF LockInv
  <1>4. ASSUME NEW a \in Admins, Refuse(a) \/ Apply(a) PROVE LockInv'
    BY <1>4, FinishLocks DEF Refuse, Apply
  <1>5. CASE Stop
    <2>1. \A a \in Admins : pc'[a] = "idle" /\ Held(a)' = {}
      BY <1>5, SiteAssumption DEF Stop, Held
    <2> QED BY <2>1 DEF LockInv
  <1>6. CASE Restart \/ UNCHANGED vars
    <2>1. UNCHANGED <<lock, pc, req>>
      BY <1>6 DEF Restart, vars, handlers
    <2>2. \A a \in Admins : Held(a)' = Held(a)
      BY <2>1 DEF Held
    <2> QED BY <2>1, <2>2 DEF LockInv
  <1> QED BY <1>1, <1>2, <1>3, <1>4, <1>5, <1>6 DEF Next, AdminStep

-----------------------------------------------------------------------------
(* Types                                                                   *)

LEMMA FinishType ==
  ASSUME TypeOK, NEW a \in Admins, Finish(a), UNCHANGED up
  PROVE  /\ lock' \in [Locks -> Admins \cup {None}]
         /\ pc' \in [Admins -> {"idle", "locking", "persist", "apply"}]
         /\ req' \in [Admins -> [op : Ops \cup {"none"}, key : SiteKeys \cup {None},
                                 arg : Secrets \cup Values \cup {None}]]
         /\ \A b \in Admins : pc'[b] # "idle" => b # a /\ pc'[b] = pc[b]
                                                /\ req'[b] = req[b]
  BY DEF Finish, Release, NoReq, TypeOK

(* What a statement finds: no other handler is between commit and update,  *)
(* so the maps hold what the table holds.                                  *)
LEMMA StatementState ==
  ASSUME Inv, NEW a \in Admins, pc[a] = "persist"
  PROVE  /\ up /\ req[a].op \in Ops /\ req[a].key \in SiteKeys
         /\ \A b \in Admins : pc[b] # "apply"
         /\ \A k \in SiteKeys : sites_by_key[k] = FromRow(db[k])
  <1>1. \A b \in Admins : pc[b] # "apply"
    BY Exclusive DEF Inv
  <1> QED BY <1>1 DEF Inv, TypeOK, MemoryMatchesDisk

(* The request a statement runs.                                           *)
LEMMA PersistStep ==
  ASSUME Inv, NEW a \in Admins, Persist(a)
  PROVE  /\ pc[a] = "persist" /\ pc'[a] = "apply"
         /\ UNCHANGED <<up, maps, lock, history>>
         /\ req'[a].op = req[a].op /\ req'[a].key = req[a].key
         /\ req'[a] \in [op : Ops \cup {"none"}, key : SiteKeys \cup {None},
                         arg : Secrets \cup Values \cup {None}]
         /\ req'[a].arg \in Args(req[a].op)
         /\ ~NotFound(req'[a]) /\ ~Collides(req'[a])
         /\ req[a].op # "create" => db[req[a].key] # None
         /\ db' = [db EXCEPT ![req[a].key] = Written(req'[a])]
         /\ \A b \in Admins \ {a} : pc'[b] = pc[b] /\ req'[b] = req[b]
  <1>1. PICK x \in Args(req[a].op) :
          LET r == [req[a] EXCEPT !.arg = x] IN
          /\ pc[a] = "persist" /\ ~NotFound(r) /\ ~Collides(r)
          /\ r.op # "create" => db[r.key] # None
          /\ db' = [db EXCEPT ![r.key] = Written(r)]
          /\ pc' = [pc EXCEPT ![a] = "apply"]
          /\ req' = [req EXCEPT ![a] = r]
          /\ UNCHANGED <<up, maps, lock, history>>
    BY DEF Persist
  <1> DEFINE r == [req[a] EXCEPT !.arg = x]
  <1>2. req[a].op \in Ops
    BY <1>1 DEF Inv, TypeOK
  <1>3. x \in Secrets \cup Values \cup {None}
    BY <1>2 DEF Args
  <1>4. /\ r.op = req[a].op /\ r.key = req[a].key /\ r.arg = x
        /\ r \in [op : Ops \cup {"none"}, key : SiteKeys \cup {None},
                  arg : Secrets \cup Values \cup {None}]
    BY <1>3 DEF Inv, TypeOK
  <1> HIDE DEF r
  <1>5. req'[a] = r
    BY <1>1 DEF Inv, TypeOK, r
  <1> QED BY <1>1, <1>4, <1>5 DEF Inv, TypeOK, r

LEMMA PersistWrites ==
  ASSUME Inv, NEW a \in Admins, Persist(a)
  PROVE  LET r == req'[a] IN
         /\ Written(r) \in Row \cup {None}
         /\ FromRow(Written(r)) = Applied(r)
         /\ Written(r) # None /\ r.op \in {"create", "rotate"} =>
              Written(r).secret_key = r.arg
         /\ Written(r) # None /\ r.op \notin {"create", "rotate"} =>
              db[r.key] # None /\ Written(r).secret_key = db[r.key].secret_key
  <1> DEFINE r == req'[a]
  <1>1. r.op \in Ops /\ r.key \in SiteKeys /\ r.arg \in Args(r.op)
    BY PersistStep, StatementState
  <1>2. sites_by_key[r.key] = FromRow(db[r.key])
    BY <1>1, PersistStep, StatementState
  <1>3. r.op # "create" => db[r.key] \in Row
    BY <1>1, PersistStep DEF Inv, TypeOK
  <1> HIDE DEF r
  <1>4. QED BY <1>1, <1>2, <1>3, StatementMatchesMaps DEF r

-----------------------------------------------------------------------------
(* What the steps do to table and maps                                     *)

(* Between the steps that write, nothing of what is promised moves.        *)
LEMMA QuietStep ==
  ASSUME TypeOK, NEW a \in Admins, Receive(a) \/ Acquire(a) \/ Refuse(a)
  PROVE  /\ UNCHANGED <<db, up, maps, history>>
         /\ \A b \in Admins : /\ pc'[b] = "apply" <=> pc[b] = "apply"
                              /\ pc[b] = "apply" => req'[b] = req[b]
  <1>1. CASE Receive(a)
    BY <1>1 DEF Receive, TypeOK
  <1>2. CASE Acquire(a)
    BY <1>2 DEF Acquire, TypeOK
  <1>3. CASE Refuse(a)
    BY <1>3 DEF Refuse, Finish, TypeOK
  <1> QED BY <1>1, <1>2, <1>3

(* A new value under one key, its secret in and the old one out.           *)
LEMMA IndexStep ==
  ASSUME NEW m \in [SiteKeys -> Site \cup {None}],
         NEW f \in [Secrets -> SiteKeys \cup {None}], Inverts(f, m),
         NEW key \in SiteKeys, NEW new \in Site \cup {None},
         NEW g \in [Secrets -> SiteKeys \cup {None}],
         \A k \in SiteKeys \ {key} : new # None /\ m[k] # None =>
           m[k].secret_key # new.secret_key,
         new # None => g[new.secret_key] = key,
         m[key] # None /\ (new = None \/ new.secret_key # m[key].secret_key) =>
           g[m[key].secret_key] = None,
         \A s \in Secrets : /\ new # None => s # new.secret_key
                            /\ m[key] # None => s # m[key].secret_key
                            => g[s] = f[s]
  PROVE  Inverts(g, [m EXCEPT ![key] = new])
  <1> DEFINE n == [m EXCEPT ![key] = new]
  <1>1. /\ n[key] = new /\ \A k \in SiteKeys \ {key} : n[k] = m[k]
        /\ \A k \in SiteKeys : m[k] # None => m[k].secret_key \in Secrets
        /\ new # None => new.secret_key \in Secrets
    BY DEF Site
  <1>2. ASSUME NEW k \in SiteKeys \ {key}, m[k] # None
        PROVE  g[m[k].secret_key] = k /\ f[m[k].secret_key] = k
    BY <1>1, <1>2 DEF Inverts
  <1>3. ASSUME NEW s \in Secrets, g[s] # None
        PROVE  n[g[s]] # None /\ n[g[s]].secret_key = s
    <2>1. CASE new # None /\ s = new.secret_key
      BY <1>1, <2>1
    <2>2. CASE ~(new # None /\ s = new.secret_key)
      <3>1. ~(m[key] # None /\ s = m[key].secret_key)
        BY <1>3, <2>2
      <3>2. g[s] = f[s]
        BY <2>2, <3>1
      <3>3. m[f[s]] # None /\ m[f[s]].secret_key = s /\ f[s] \in SiteKeys
        BY <1>3, <3>2 DEF Inverts
      <3>4. f[s] # key
        BY <3>1, <3>3
      <3> QED BY <1>1, <3>2, <3>3, <3>4
    <2> QED BY <2>1, <2>2
  <1>4. ASSUME NEW k \in SiteKeys, n[k] # None
        PROVE  g[n[k].secret_key] = k
    BY <1>1, <1>2, <1>4
  <1> QED BY <1>3, <1>4 DEF Inverts

(* What the maps are to become agrees with the table, so the UNIQUE column *)
(* keeps the new secret off every other site.                              *)
LEMMA ApplyState ==
  ASSUME Inv, NEW a \in Admins, pc[a] = "apply"
  PROVE  LET r == req[a] IN
         /\ up /\ r.op \in Ops /\ r.key \in SiteKeys /\ r.arg \in Args(r.op)
         /\ \A b \in Admins \ {a} : pc[b] # "apply"
         /\ Applied(r) \in Site \cup {None}
         /\ Applied(r) = FromRow(db[r.key])
         /\ \A k \in SiteKeys \ {r.key} :
              /\ sites_by_key[k] = FromRow(db[k])
              /\ sites_by_key[k] # None /\ Applied(r) # None =>
                   sites_by_key[k].secret_key # Applied(r).secret_key
         /\ r.op = "create" <=> sites_by_key[r.key] = None
  <1> DEFINE r == req[a]
  <1>1. up /\ r.op \in Ops /\ r.key \in SiteKeys /\ r.arg \in Args(r.op)
    BY DEF Inv, TypeOK
  <1>2. \A b \in Admins \ {a} : pc[b] # "apply"
    BY Exclusive DEF Inv
  <1>3. /\ Applied(r) = FromRow(db[r.key])
        /\ r.op = "create" <=> sites_by_key[r.key] = None
    BY DEF Inv, CommittedInv
  <1>4. \A k \in SiteKeys : db[k] \in Row \cup {None}
    BY DEF Inv, TypeOK
  <1>5. \A k \in SiteKeys \ {r.key} : sites_by_key[k] = FromRow(db[k])
    BY <1>1, <1>2 DEF Inv, MemoryMatchesDisk
  <1>6. ASSUME NEW k \in SiteKeys \ {r.key}, sites_by_key[k] # None, Applied(r) # None
        PROVE  sites_by_key[k].secret_key # Applied(r).secret_key
    <2>1. /\ db[k] # None /\ sites_by_key[k].secret_key = db[k].secret_key
          /\ db[r.key] # None /\ Applied(r).secret_key = db[r.key].secret_key
      BY <1>1, <1>3, <1>4, <1>5, <1>6, FromRowType
    <2> QED BY <1>1, <2>1 DEF Inv, SecretsDistinct
  <1> QED BY <1>1, <1>2, <1>3, <1>4, <1>5, <1>6, FromRowType

LEMMA ApplyIndex ==
  ASSUME Inv, NEW a \in Admins, Apply(a)
  PROVE  /\ sites_by_secret' \in [Secrets -> SiteKeys \cup {None}]
         /\ Inverts(sites_by_secret, sites_by_key)'
  <1> DEFINE r == req[a]
             m == sites_by_key
             f == sites_by_secret
             new == Applied(r)
             g == IndexAfter(r)
  <1>0. /\ m \in [SiteKeys -> Site \cup {None}]
        /\ f \in [Secrets -> SiteKeys \cup {None}] /\ Inverts(f, m)
    BY DEF Inv, TypeOK
  <1>1. /\ pc[a] = "apply" /\ m' = [m EXCEPT ![r.key] = new] /\ f' = g
    BY DEF Apply
  <1>2. /\ r.op \in Ops /\ r.key \in SiteKeys /\ r.arg \in Args(r.op)
        /\ new \in Site \cup {None}
        /\ \A k \in SiteKeys \ {r.key} : m[k] # None /\ new # None =>
             m[k].secret_key # new.secret_key
        /\ r.op = "create" <=> m[r.key] = None
    BY <1>1, ApplyState
  <1>3. m[r.key] # None => m[r.key].secret_key \in Secrets
    BY <1>0, <1>2 DEF Site
  <1> SUFFICES /\ g \in [Secrets -> SiteKeys \cup {None}]
               /\ new # None => g[new.secret_key] = r.key
               /\ m[r.key] # None /\ (new = None \/ new.secret_key # m[r.key].secret_key)
                    => g[m[r.key].secret_key] = None
               /\ \A s \in Secrets : /\ new # None => s # new.secret_key
                                     /\ m[r.key] # None => s # m[r.key].secret_key
                                     => g[s] = f[s]
    <2> HIDE DEF r, m, f, new, g
    <2>1. Inverts(g, [m EXCEPT ![r.key] = new])
      BY <1>0, <1>2, IndexStep
    <2>2. Inverts(f, m)' <=> Inverts(f', m')
      BY DEF f, m
    <2> QED BY <1>1, <2>1, <2>2 DEF f, m
  <1>4. CASE r.op = "create"
    <2>1. /\ r.arg \in Secrets /\ new # None /\ new.secret_key = r.arg
          /\ g = [f EXCEPT ![r.arg] = r.key]
      <3>1. /\ r.arg \in Secrets /\ new = NewSite(r.arg)
            /\ g = [f EXCEPT ![r.arg] = r.key]
        BY <1>2, <1>4 DEF Args, Applied, IndexAfter, Fields
      <3>2. new \in Site /\ new.secret_key = r.arg
        BY <3>1, SiteAssumption DEF NewSite, Site
      <3> QED BY <3>1, <3>2, SiteAssumption
    <2> HIDE DEF r, m, f, new, g
    <2> QED BY <1>0, <1>2, <1>4, <2>1
  <1>5. CASE r.op = "rotate"
    <2>1. m[r.key] \in Site /\ r.arg \in Secrets
      BY <1>0, <1>2, <1>5 DEF Args, Fields
    <2>2. new = [m[r.key] EXCEPT !.secret_key = r.arg]
      BY <1>5 DEF Applied, Fields
    <2>3. new \in Site /\ new.secret_key = r.arg
      BY <2>1, <2>2 DEF Site
    <2>4. g = [f EXCEPT ![m[r.key].secret_key] = None, ![r.arg] = r.key]
      BY <1>5 DEF IndexAfter
    <2>5. new # None
      BY <2>3, SiteAssumption
    <2> HIDE DEF r, m, f, new, g
    <2> QED BY <1>0, <1>2, <1>3, <2>1, <2>3, <2>4, <2>5, <1>5
  <1>6. CASE r.op = "delete"
    <2>1. new = None /\ g = [f EXCEPT ![m[r.key].secret_key] = None]
      BY <1>6 DEF Applied, IndexAfter, Fields
    <2> HIDE DEF r, m, f, new, g
    <2> QED BY <1>0, <1>2, <1>3, <1>6, <2>1
  <1>7. CASE r.op \in Fields
    <2>1. m[r.key] \in Site /\ r.arg \in Values
      BY <1>0, <1>2, <1>7 DEF Args, Fields
    <2>2. new = [m[r.key] EXCEPT ![r.op] = r.arg]
      BY <1>7 DEF Applied, Fields
    <2>3. new \in Site /\ new.secret_key = m[r.key].secret_key
      BY <2>1, <2>2, <1>7 DEF Site, Fields
    <2>4. g = f
      BY <1>7 DEF IndexAfter, Fields
    <2> HIDE DEF r, m, f, new, g
    <2>5. m[r.key] # None /\ f[m[r.key].secret_key] = r.key
      BY <1>0, <1>2, <2>1, SiteAssumption DEF Inverts
    <2> QED BY <1>0, <1>2, <2>3, <2>4, <2>5, <2>1, SiteAssumption
  <1> QED BY <1>2, <1>4, <1>5, <1>6, <1>7 DEF Ops

-----------------------------------------------------------------------------
(* The invariant                                                           *)

(* What a restart loads.                                                   *)
LEMMA LoadedSites ==
  ASSUME TypeOK, SecretsDistinct
  PROVE  LET m == [k \in SiteKeys |-> FromRow(db[k])] IN
         /\ m \in [SiteKeys -> Site \cup {None}]
         /\ Index(m) \in [Secrets -> SiteKeys \cup {None}]
         /\ Inverts(Index(m), m)
  <1> DEFINE m == [k \in SiteKeys |-> FromRow(db[k])]
  <1>1. \A k \in SiteKeys : /\ m[k] \in Site \cup {None}
                            /\ m[k] # None => /\ db[k] # None
                                              /\ m[k].secret_key = db[k].secret_key
    BY FromRowType DEF TypeOK
  <1>2. m \in [SiteKeys -> Site \cup {None}]
    BY <1>1
  <1> HIDE DEF m
  <1>3. \A j, k \in SiteKeys : m[j] # None /\ m[k] # None
          /\ m[j].secret_key = m[k].secret_key => j = k
    BY <1>1 DEF SecretsDistinct
  <1>4. Index(m) \in [Secrets -> SiteKeys \cup {None}] /\ Inverts(Index(m), m)
    BY <1>2, <1>3, IndexInverts
  <1> QED BY <1>2, <1>4 DEF m

LEMMA TypeNext ==
  ASSUME Inv, [Next]_vars
  PROVE  TypeOK'
  <1>0. TypeOK
    BY DEF Inv
  <1>1. ASSUME NEW a \in Admins, Receive(a) PROVE TypeOK'
    <2>1. PICK op \in Ops, k \in SiteKeys :
            /\ up /\ pc[a] = "idle"
            /\ pc' = [pc EXCEPT ![a] = "locking"]
            /\ req' = [req EXCEPT ![a] = [op |-> op, key |-> k, arg |-> None]]
            /\ UNCHANGED <<db, up, maps, lock, history>>
      BY <1>1 DEF Receive
    <2>2. UNCHANGED <<db, up, sites_by_key, sites_by_secret, lock, acked, torn>>
      BY <2>1 DEF maps, history
    <2> QED BY <1>0, <2>1, <2>2 DEF TypeOK
  <1>2. ASSUME NEW a \in Admins, Acquire(a) PROVE TypeOK'
    <2>1. /\ pc[a] = "locking"
          /\ UNCHANGED <<db, up, sites_by_key, sites_by_secret, req, acked, torn>>
          /\ \E l \in Locks : lock' = [lock EXCEPT ![l] = a]
          /\ \E p \in {"locking", "persist"} : pc' = [pc EXCEPT ![a] = p]
      BY <1>2, AcquireStep DEF Inv, maps, history, Locks
    <2> QED BY <1>0, <2>1 DEF TypeOK
  <1>3. ASSUME NEW a \in Admins, Persist(a) PROVE TypeOK'
    <2>1. /\ UNCHANGED <<up, sites_by_key, sites_by_secret, lock, acked, torn>>
          /\ db' = [db EXCEPT ![req[a].key] = Written(req'[a])]
          /\ pc[a] = "persist" /\ pc'[a] = "apply"
      BY <1>3, PersistStep DEF maps, history
    <2>2. Written(req'[a]) \in Row \cup {None}
      BY <1>3, PersistWrites
    <2>3. db' \in [SiteKeys -> Row \cup {None}]
      BY <1>0, <2>1, <2>2 DEF TypeOK
    <2>4. /\ pc' \in [Admins -> {"idle", "locking", "persist", "apply"}]
          /\ \E r : req' = [req EXCEPT ![a] = r]
      BY <1>0, <1>3 DEF TypeOK, Persist
    <2>5. req' \in [Admins -> [op : Ops \cup {"none"}, key : SiteKeys \cup {None},
                               arg : Secrets \cup Values \cup {None}]]
      BY <1>0, <1>3, <2>4, PersistStep DEF TypeOK
    <2>6. \A b \in Admins :
            /\ pc'[b] # "idle" => up' /\ req'[b].op \in Ops /\ req'[b].key \in SiteKeys
            /\ pc'[b] = "apply" => req'[b].arg \in Args(req'[b].op)
      BY <1>0, <1>3, <2>1, PersistStep DEF TypeOK
    <2> QED BY <1>0, <2>1, <2>3, <2>4, <2>5, <2>6 DEF TypeOK
  <1>4. ASSUME NEW a \in Admins, Refuse(a) PROVE TypeOK'
    <2>1. Finish(a) /\ UNCHANGED <<db, up, sites_by_key, sites_by_secret, acked, torn>>
      BY <1>4 DEF Refuse, maps, history
    <2> QED BY <1>0, <2>1, FinishType DEF TypeOK
  <1>5. ASSUME NEW a \in Admins, Apply(a) PROVE TypeOK'
    <2>1. /\ Finish(a) /\ UNCHANGED <<db, up, torn>> /\ pc[a] = "apply"
          /\ sites_by_key' = [sites_by_key EXCEPT ![req[a].key] = Applied(req[a])]
          /\ acked' = [acked EXCEPT ![req[a].key] = Applied(req[a])]
      BY <1>5 DEF Apply
    <2>2. Applied(req[a]) \in Site \cup {None} /\ req[a].key \in SiteKeys
      BY <2>1, ApplyState
    <2>3. /\ sites_by_key' \in [SiteKeys -> Site \cup {None}]
          /\ acked' \in [SiteKeys -> Site \cup {None}]
      BY <1>0, <2>1, <2>2 DEF TypeOK
    <2>4. sites_by_secret' \in [Secrets -> SiteKeys \cup {None}]
      BY <1>5, ApplyIndex
    <2> QED BY <1>0, <2>1, <2>3, <2>4, FinishType DEF TypeOK
  <1>6. CASE Stop
    <2>1. torn' \subseteq SiteKeys
      BY <1>0, <1>6 DEF Stop, TypeOK
    <2> QED BY <1>0, <1>6, <2>1 DEF Stop, TypeOK, EmptyMap, NoReq
  <1>7. CASE Restart
    <2> DEFINE m == [k \in SiteKeys |-> FromRow(db[k])]
    <2>1. /\ m \in [SiteKeys -> Site \cup {None}]
          /\ Index(m) \in [Secrets -> SiteKeys \cup {None}]
      BY <1>0, LoadedSites DEF Inv
    <2>2. /\ up' = TRUE /\ sites_by_key' = m /\ sites_by_secret' = Index(m)
          /\ acked' = [k \in SiteKeys |-> IF k \in torn THEN m[k] ELSE acked[k]]
          /\ torn' = {} /\ UNCHANGED <<db, lock, pc, req>> /\ ~up
      BY <1>7 DEF Restart, handlers
    <2> HIDE DEF m
    <2>3. acked' \in [SiteKeys -> Site \cup {None}]
      BY <1>0, <2>1, <2>2 DEF TypeOK
    <2> QED BY <1>0, <2>1, <2>2, <2>3 DEF TypeOK
  <1>8. CASE UNCHANGED vars
    BY <1>0, <1>8 DEF TypeOK, vars, maps, handlers, history
  <1> QED BY <1>1, <1>2, <1>3, <1>4, <1>5, <1>6, <1>7, <1>8 DEF Next, AdminStep

(* A step that writes neither table nor maps.                              *)
LEMMA QuietData ==
  ASSUME Inv, AnsweredIsDurable, UNCHANGED <<db, up, maps, history>>,
         \A b \in Admins : /\ pc'[b] = "apply" <=> pc[b] = "apply"
                           /\ pc[b] = "apply" => req'[b] = req[b]
  PROVE  /\ SecretsDistinct' /\ CommittedInv' /\ MemoryMatchesDisk'
         /\ Inverts(sites_by_secret, sites_by_key)' /\ AnsweredIsDurable'
  <1>1. UNCHANGED <<db, up, sites_by_key, sites_by_secret, acked, torn>>
    BY DEF maps, history
  <1>2. SecretsDistinct' /\ Inverts(sites_by_secret, sites_by_key)'
    BY <1>1 DEF Inv, SecretsDistinct, Inverts
  <1>3. CommittedInv'
    <2> SUFFICES ASSUME NEW b \in Admins, pc'[b] = "apply"
                 PROVE  /\ FromRow(db'[req'[b].key]) = Applied(req[b])'
                        /\ req'[b].op = "create" <=> sites_by_key'[req'[b].key] = None
      BY DEF CommittedInv
    <2>1. pc[b] = "apply" /\ req'[b] = req[b]
      OBVIOUS
    <2>2. Applied(req[b])' = Applied(req[b])
      BY <1>1, <2>1 DEF Applied
    <2> QED BY <1>1, <2>1, <2>2 DEF Inv, CommittedInv
  <1>4. MemoryMatchesDisk' /\ AnsweredIsDurable'
    BY <1>1 DEF Inv, MemoryMatchesDisk, AnsweredIsDurable
  <1> QED BY <1>2, <1>3, <1>4

(* Only the statement's own row moves, and the UNIQUE column holds.        *)
LEMMA PersistData ==
  ASSUME Inv, AnsweredIsDurable, NEW a \in Admins, Persist(a)
  PROVE  /\ SecretsDistinct' /\ CommittedInv' /\ MemoryMatchesDisk'
         /\ Inverts(sites_by_secret, sites_by_key)' /\ AnsweredIsDurable'
  <1> DEFINE r == req'[a]
  <1>1. /\ UNCHANGED <<up, sites_by_key, sites_by_secret, acked, torn>>
        /\ pc'[a] = "apply" /\ r.key = req[a].key /\ r.key \in SiteKeys
        /\ ~NotFound(r) /\ ~Collides(r)
        /\ \A b \in Admins \ {a} : pc'[b] # "apply"
        /\ \A k \in SiteKeys : sites_by_key[k] = FromRow(db[k])
    BY PersistStep, StatementState DEF maps, history
  <1>2. /\ db'[r.key] = Written(r) /\ \A k \in SiteKeys \ {r.key} : db'[k] = db[k]
    BY <1>1, PersistStep DEF Inv, TypeOK
  <1>3. SecretsDistinct'
    <2>1. ASSUME NEW k \in SiteKeys \ {r.key}, Written(r) # None, db[k] # None
          PROVE  db[k].secret_key # Written(r).secret_key
      <3>1. CASE r.op \in {"create", "rotate"}
        <4>1. Written(r).secret_key = r.arg
          BY <2>1, <3>1, PersistWrites
        <4> QED BY <1>1, <2>1, <3>1, <4>1 DEF Collides
      <3>2. CASE r.op \notin {"create", "rotate"}
        <4>1. db[r.key] # None /\ Written(r).secret_key = db[r.key].secret_key
          BY <2>1, <3>2, PersistWrites
        <4> QED BY <1>1, <2>1, <4>1 DEF Inv, SecretsDistinct
      <3> QED BY <3>1, <3>2
    <2> HIDE DEF r
    <2> QED BY <1>1, <1>2, <2>1 DEF Inv, SecretsDistinct
  <1>4. CommittedInv'
    <2>1. FromRow(db'[r.key]) = Applied(r)
      BY <1>2, PersistWrites
    <2>2. Applied(req[a])' = Applied(r)
      BY <1>1 DEF Applied
    <2>3. r.op = "create" <=> sites_by_key[r.key] = None
      BY <1>1, SiteAssumption DEF NotFound, Collides, FromRow
    <2> QED BY <1>1, <2>1, <2>2, <2>3 DEF CommittedInv
  <1>5. MemoryMatchesDisk' /\ AnsweredIsDurable'
    <2>1. \A b \in Admins : pc[b] # "apply"
      BY PersistStep, StatementState
    <2> QED BY <1>1, <1>2, <2>1 DEF MemoryMatchesDisk, AnsweredIsDurable
  <1>6. Inverts(sites_by_secret, sites_by_key)'
    BY <1>1 DEF Inv, Inverts
  <1> QED BY <1>3, <1>4, <1>5, <1>6

(* The maps catch up with the table, and the answer says what it holds.    *)
LEMMA ApplyData ==
  ASSUME Inv, AnsweredIsDurable, NEW a \in Admins, Apply(a)
  PROVE  /\ SecretsDistinct' /\ CommittedInv' /\ MemoryMatchesDisk'
         /\ Inverts(sites_by_secret, sites_by_key)' /\ AnsweredIsDurable'
  <1> DEFINE r == req[a]
  <1>1. /\ UNCHANGED <<db, up, torn>> /\ pc[a] = "apply" /\ Finish(a)
        /\ sites_by_key' = [sites_by_key EXCEPT ![r.key] = Applied(r)]
        /\ acked' = [acked EXCEPT ![r.key] = Applied(r)]
    BY DEF Apply
  <1>2. \A b \in Admins : pc'[b] # "apply" /\ (b # a => pc[b] # "apply")
    BY <1>1, ApplyState DEF Finish, Inv, TypeOK
  <1>3. /\ r.key \in SiteKeys /\ Applied(r) = FromRow(db[r.key])
        /\ \A k \in SiteKeys \ {r.key} : sites_by_key[k] = FromRow(db[k])
    BY <1>1, ApplyState
  <1>4. SecretsDistinct' /\ CommittedInv'
    BY <1>1, <1>2 DEF Inv, SecretsDistinct, CommittedInv
  <1>5. MemoryMatchesDisk'
    <2>1. \A k \in SiteKeys : sites_by_key'[k] = FromRow(db[k])
      BY <1>1, <1>3 DEF Inv, TypeOK
    <2> QED BY <1>1, <2>1 DEF MemoryMatchesDisk
  <1>6. AnsweredIsDurable'
    <2>1. \A k \in SiteKeys : k \in torn \/ FromRow(db[k]) = acked'[k]
      BY <1>1, <1>2, <1>3 DEF AnsweredIsDurable, Inv, TypeOK
    <2> QED BY <1>1, <2>1 DEF AnsweredIsDurable
  <1> QED BY <1>4, <1>5, <1>6, ApplyIndex

(* The maps go or come back; who was cut off is in torn until the restart  *)
(* tells.                                                                  *)
LEMMA ProcessData ==
  ASSUME Inv, AnsweredIsDurable, Stop \/ Restart
  PROVE  /\ SecretsDistinct' /\ CommittedInv' /\ MemoryMatchesDisk'
         /\ Inverts(sites_by_secret, sites_by_key)' /\ AnsweredIsDurable'
  <1>1. /\ UNCHANGED db /\ \A a \in Admins : pc'[a] # "apply"
    BY DEF Stop, Restart, handlers, Inv, TypeOK
  <1>2. SecretsDistinct' /\ CommittedInv'
    BY <1>1 DEF Inv, SecretsDistinct, CommittedInv
  <1>3. CASE Stop
    <2>1. MemoryMatchesDisk' /\ Inverts(sites_by_secret, sites_by_key)'
      BY <1>3 DEF Stop, EmptyMap, MemoryMatchesDisk, Inverts
    <2>2. AnsweredIsDurable'
      BY <1>3 DEF Stop, AnsweredIsDurable
    <2> QED BY <1>2, <2>1, <2>2
  <1>4. CASE Restart
    <2> DEFINE m == [k \in SiteKeys |-> FromRow(db[k])]
    <2>1. /\ sites_by_key' = m /\ sites_by_secret' = Index(m) /\ torn' = {}
          /\ acked' = [k \in SiteKeys |-> IF k \in torn THEN m[k] ELSE acked[k]]
          /\ ~up
      BY <1>4 DEF Restart
    <2>2. Inverts(Index(m), m)
      BY LoadedSites DEF Inv
    <2>3. MemoryMatchesDisk'
      BY <1>1, <2>1 DEF MemoryMatchesDisk
    <2>4. AnsweredIsDurable'
      BY <1>1, <2>1 DEF AnsweredIsDurable, Inv, TypeOK
    <2> HIDE DEF m
    <2>5. Inverts(sites_by_secret, sites_by_key)'
      BY <2>1, <2>2 DEF Inverts
    <2> QED BY <1>2, <2>3, <2>4, <2>5
  <1> QED BY <1>3, <1>4

LEMMA InvNext ==
  ASSUME Inv, AnsweredIsDurable, [Next]_vars
  PROVE  Inv' /\ AnsweredIsDurable'
  <1>1. TypeOK' /\ LockInv'
    BY TypeNext, LocksNext DEF Inv
  <1>2. /\ SecretsDistinct' /\ CommittedInv' /\ MemoryMatchesDisk'
        /\ Inverts(sites_by_secret, sites_by_key)' /\ AnsweredIsDurable'
    <2>1. ASSUME NEW a \in Admins, Receive(a) \/ Acquire(a) \/ Refuse(a)
          PROVE  /\ SecretsDistinct' /\ CommittedInv' /\ MemoryMatchesDisk'
                 /\ Inverts(sites_by_secret, sites_by_key)' /\ AnsweredIsDurable'
      <3>1. TypeOK
        BY DEF Inv
      <3> QED BY <2>1, <3>1, QuietStep, QuietData
    <2>2. CASE UNCHANGED vars
      <3>1. UNCHANGED <<db, up, maps, history>> /\ UNCHANGED <<pc, req>>
        BY <2>2 DEF vars, handlers
      <3> QED BY <3>1, QuietData
    <2> QED BY <2>1, <2>2, PersistData, ApplyData, ProcessData DEF Next, AdminStep
  <1> QED BY <1>1, <1>2 DEF Inv

LEMMA InitInv ==
  Init => Inv /\ AnsweredIsDurable
  <1> SUFFICES ASSUME Init PROVE Inv /\ AnsweredIsDurable
    OBVIOUS
  <1>1. TypeOK
    BY DEF Init, TypeOK, EmptyMap, NoReq, Locks
  <1>2. LockInv
    <2>1. \A a \in Admins : pc[a] = "idle" /\ Held(a) = {}
      BY SiteAssumption DEF Init, Held
    <2> QED BY <2>1 DEF LockInv
  <1>3. SecretsDistinct /\ CommittedInv /\ Inverts(sites_by_secret, sites_by_key)
    BY DEF Init, EmptyMap, SecretsDistinct, CommittedInv, Inverts
  <1>4. MemoryMatchesDisk /\ AnsweredIsDurable
    BY DEF Init, EmptyMap, MemoryMatchesDisk, AnsweredIsDurable, FromRow
  <1> QED BY <1>1, <1>2, <1>3, <1>4 DEF Inv

LEMMA InvAlways ==
  Spec => [](Inv /\ AnsweredIsDurable)
  <1>1. Inv /\ AnsweredIsDurable /\ [Next]_vars => (Inv /\ AnsweredIsDurable)'
    BY InvNext
  <1> QED BY InitInv, <1>1, PTL DEF Spec

-----------------------------------------------------------------------------
(* Theorems                                                                *)

(* Every reachable state of the registry is well typed: a handler at work  *)
(* has a whole request and a running process under it.                     *)
THEOREM RegistryTypeCorrect == Spec => []TypeOK
  <1>1. Inv => TypeOK
    BY DEF Inv
  <1> QED BY InvAlways, <1>1, PTL

(* However many admins create, rotate, edit and delete at once, and        *)
(* wherever the process stops, no two sites share a secret and the secret  *)
(* index (sites_by_secret) is exactly the inverse of the sites.            *)
THEOREM IndexIsInverseHolds == Spec => []IndexIsInverse
  <1>1. Inv => IndexIsInverse
    <2> SUFFICES ASSUME Inv PROVE IndexIsInverse
      OBVIOUS
    <2>1. /\ sites_by_key \in [SiteKeys -> Site \cup {None}]
          /\ sites_by_secret \in [Secrets -> SiteKeys \cup {None}]
          /\ Inverts(sites_by_secret, sites_by_key)
      BY DEF Inv, TypeOK
    <2> QED BY <2>1, InverseIsIndex DEF IndexIsInverse
  <1> QED BY InvAlways, <1>1, PTL

(* A running process serves what its table holds, except for the one site  *)
(* whose committed statement is on its way to the maps.                    *)
THEOREM MemoryMatchesDiskHolds == Spec => []MemoryMatchesDisk
  <1>1. Inv => MemoryMatchesDisk
    BY DEF Inv
  <1> QED BY InvAlways, <1>1, PTL

(* What an admin was answered is in the table, and so comes back after     *)
(* every stop; a refused request leaves no trace there.                    *)
THEOREM AnsweredIsDurableHolds == Spec => []AnsweredIsDurable
  BY InvAlways, PTL

(* No two handlers are between their last lock and their answer.           *)
OneWriter == \A a, b \in Admins :
  pc[a] \in {"persist", "apply"} /\ pc[b] \in {"persist", "apply"} => a = b

(* The lock order makes create, rotate, edit and delete exclusive, of any  *)
(* sites and through stops: one handler at a time has the run of the table.*)
THEOREM OneWriterHolds == Spec => []OneWriter
  <1>1. Inv => OneWriter
    BY Exclusive DEF Inv, OneWriter
  <1> QED BY InvAlways, <1>1, PTL

=============================================================================

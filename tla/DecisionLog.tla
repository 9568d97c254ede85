---------------------------- MODULE DecisionLog ----------------------------
(***************************************************************************)
(* The decision log: request handlers queue records without waiting (a     *)
(* full queue drops them), operators, integrators and the retention        *)
(* sweeper queue control messages and await their answer, and one writer   *)
(* thread drains the queue into SQLite: records in batches of one          *)
(* transaction, each control message alone and in its place in the order.  *)
(* Rows older than the retention window are folded into training samples,  *)
(* when those are kept, and deleted.                                       *)
(*                                                                         *)
(* A record is its kind and its challenge: every challenge has one puzzle  *)
(* record and any number of verify records.  Rows are kept as the times    *)
(* they were inserted at; the columns no property tells apart are left out.*)
(***************************************************************************)
EXTENDS Integers, Sequences, SequencesExt, FiniteSets

CONSTANTS
  Challenges,
  Sites,
  SiteOf,           \* challenge -> the site it was issued for
  Verdicts,         \* FeedbackVerdict
  Operators,        \* concurrent admin, feedback and shutdown calls (a bound)
  Sweeper,          \* the retention task
  None,
  Capacity,         \* CHANNEL_CAPACITY
  MaxBatch,         \* MAX_INSERT_BATCH
  Retention,        \* LOG_RETENTION_HOURS, 0 disables pruning
  TrainingChoices,  \* TRAINING_RETENTION_HOURS of each boot, 0 keeps no samples
  Hour,             \* ticks of an hour
  MaxTime,          \* the clock stops here (a bound)
  MaxVerifies,      \* verify records queued (a bound)
  MaxFailures       \* SQLite transactions that fail (a bound)

Callers == Operators \cup {Sweeper}

(* Msg: what is queued.  The records, and the messages someone awaits.     *)
Record == [kind : {"puzzle", "verify"}, challenge : Challenges]
ControlMsg == [kind : {"clear", "erase", "label", "flush"}, caller : Callers]
                \cup [kind : {"prune"}, caller : {Sweeper}, cutoff : Int,
                      training_cutoff : Int \cup {None}]

ASSUME LogAssumption ==
  /\ SiteOf \in [Challenges -> Sites] /\ Sweeper \notin Operators
  /\ {Capacity, MaxBatch, Hour} \subseteq Nat \ {0}
  /\ {Retention, MaxTime, MaxVerifies, MaxFailures} \subseteq Nat
  /\ TrainingChoices \subseteq Nat /\ None \notin ControlMsg

VARIABLES
  phase,            \* "up", "draining" (graceful stop), "flushed", "down"
  now,
  training,         \* training_retention_hours of the running process
  queue,            \* the channel
  batch, deferred,  \* the writer: records drained, control that ended the drain
  wpc,              \* the writer: "recv", "drain", "control"
  puzzles,          \* puzzle_decisions: challenge -> ts or None
  verifies,         \* verify_decisions: challenge -> set of ts
  labels,           \* labels: challenge -> verdict or None
  samples,          \* training_samples: challenge -> [hour, label] or None
  open,             \* challenges the running process issued, its memory
  call, msg,        \* caller -> "idle", "send", "wait"; its message
  \* history
  issued,           \* challenges whose puzzle record was made
  verified,         \* verify records made
  failures,
  verdict,          \* challenge -> the last verdict its own site got accepted
  erased            \* challenges erased after their puzzle record was settled

tables == <<puzzles, verifies, labels, samples>>
writer == <<batch, deferred, wpc>>
calls == <<open, call, msg>>
made == <<issued, verified>>
vars == <<phase, now, training, queue, writer, tables, calls, made, failures,
          verdict, erased>>

Init ==
  /\ phase = "down" /\ now = 0 /\ training = 0
  /\ queue = <<>> /\ batch = <<>> /\ deferred = None /\ wpc = "recv"
  /\ puzzles = [c \in Challenges |-> None]
  /\ verifies = [c \in Challenges |-> {}]
  /\ labels = [c \in Challenges |-> None]
  /\ samples = [c \in Challenges |-> None]
  /\ open = {}
  /\ call = [o \in Callers |-> "idle"] /\ msg = [o \in Callers |-> None]
  /\ issued = {} /\ verified = 0 /\ failures = 0
  /\ verdict = [c \in Challenges |-> None] /\ erased = {}

IsRecord(m) == m.kind \in {"puzzle", "verify"}

(* Records that are accepted and not yet settled.                          *)
Unsettled == ToSet(batch) \cup {m \in ToSet(queue) : IsRecord(m)}

-----------------------------------------------------------------------------
(* Time                                                                    *)

hour_bucket(t) == (t \div Hour) * Hour

(* None keeps no samples at all.                                           *)
training_cutoff(hours) == IF hours > 0 THEN hour_bucket(now - hours) ELSE None

(* What expire_training leaves of a table of samples.                      *)
Unexpired(table, cutoff) ==
  [c \in Challenges |->
     IF table[c] # None /\ cutoff # None /\ table[c].hour > cutoff
       THEN table[c] ELSE None]

-----------------------------------------------------------------------------
(* Process                                                                 *)

(* open_with_training                                                      *)
Start ==
  /\ phase = "down"
  /\ phase' = "up"
  /\ training' \in TrainingChoices
  /\ samples' = Unexpired(samples, training_cutoff(training'))
  /\ UNCHANGED <<now, queue, writer, puzzles, verifies, labels, calls, made,
                 failures, verdict, erased>>

(* The process ends, and with it the queue and the open transaction.       *)
Stopped ==
  /\ phase' = "down"
  /\ queue' = <<>> /\ batch' = <<>> /\ deferred' = None /\ wpc' = "recv"
  /\ open' = {}
  /\ call' = [o \in Callers |-> "idle"] /\ msg' = [o \in Callers |-> None]
  /\ UNCHANGED <<now, training, tables, made, failures, verdict, erased>>

Crash == phase # "down" /\ Stopped

(* main returns once the flush was answered.                               *)
Exit == phase = "flushed" /\ Stopped

(* The server stops accepting and waits for the handlers in flight.        *)
Drain ==
  /\ phase = "up"
  /\ \A o \in Operators : call[o] = "idle"
  /\ phase' = "draining"
  /\ UNCHANGED <<now, training, queue, writer, tables, calls, made, failures,
                 verdict, erased>>

-----------------------------------------------------------------------------
(* Senders                                                                 *)

(* try_send: a record that finds the queue full is dropped.                *)
Offer(m) ==
  queue' = IF Len(queue) < Capacity THEN Append(queue, m) ELSE queue

RecordPuzzle(c) ==
  /\ phase = "up" /\ c \notin issued
  /\ Offer([kind |-> "puzzle", challenge |-> c])
  /\ issued' = issued \cup {c} /\ open' = open \cup {c}
  /\ UNCHANGED <<phase, now, training, writer, tables, call, msg, verified,
                 failures, verdict, erased>>

(* A challenge is submitted after the running process issued it, whatever  *)
(* became of its puzzle record.                                            *)
RecordVerify(c) ==
  /\ phase = "up" /\ c \in open /\ verified < MaxVerifies
  /\ Offer([kind |-> "verify", challenge |-> c])
  /\ verified' = verified + 1
  /\ UNCHANGED <<phase, now, training, writer, tables, calls, issued,
                 failures, verdict, erased>>

(* A caller has composed its message and waits for room in the queue.      *)
Call(o, m) ==
  /\ call[o] = "idle"
  /\ call' = [call EXCEPT ![o] = "send"]
  /\ msg' = [msg EXCEPT ![o] = m]
  /\ UNCHANGED <<phase, now, training, open, queue, writer, tables, made, failures,
                 verdict, erased>>

(* A dashboard reset, an erasure, or feedback.  What the message names     *)
(* first matters when the writer handles it and is chosen there.           *)
Request(o) == \E kind \in {"clear", "erase", "label"} :
  phase = "up" /\ Call(o, [kind |-> kind, caller |-> o])

(* Graceful shutdown, after the handlers have ended.                       *)
Flush(o) == phase = "draining" /\ Call(o, [kind |-> "flush", caller |-> o])

(* Both cutoffs are computed before the message waits for room.            *)
Prune ==
  /\ phase # "down" /\ Retention > 0
  /\ Call(Sweeper, [kind |-> "prune", caller |-> Sweeper,
                    cutoff |-> now - Retention,
                    training_cutoff |-> training_cutoff(training)])

Send(o) ==
  /\ call[o] = "send" /\ Len(queue) < Capacity
  /\ queue' = Append(queue, msg[o])
  /\ call' = [call EXCEPT ![o] = "wait"]
  /\ UNCHANGED <<phase, now, training, open, writer, tables, msg, made, failures,
                 verdict, erased>>

-----------------------------------------------------------------------------
(* Writer thread                                                           *)

Receive ==
  /\ wpc = "recv" /\ queue # <<>>
  /\ queue' = Tail(queue)
  /\ IF IsRecord(Head(queue))
       THEN /\ batch' = <<Head(queue)>> /\ wpc' = "drain"
            /\ UNCHANGED deferred
       ELSE /\ deferred' = Head(queue) /\ wpc' = "control"
            /\ UNCHANGED batch
  /\ UNCHANGED <<phase, now, training, tables, calls, made, failures, verdict,
                 erased>>

(* try_recv: one more record, or the control message that ends the drain.  *)
DrainOne ==
  /\ wpc = "drain" /\ deferred = None
  /\ Len(batch) < MaxBatch /\ queue # <<>>
  /\ queue' = Tail(queue)
  /\ IF IsRecord(Head(queue))
       THEN batch' = Append(batch, Head(queue)) /\ UNCHANGED deferred
       ELSE deferred' = Head(queue) /\ UNCHANGED batch
  /\ UNCHANGED <<phase, now, training, wpc, tables, calls, made, failures,
                 verdict, erased>>

DrainEnded == Len(batch) >= MaxBatch \/ queue = <<>> \/ deferred # None

AfterBatch ==
  /\ wpc = "drain" /\ DrainEnded
  /\ batch' = <<>>
  /\ wpc' = IF deferred = None THEN "recv" ELSE "control"
  /\ UNCHANGED <<phase, now, training, queue, deferred, labels, samples,
                 calls, made, verdict, erased>>

(* Fault: the control message that ended the drain runs before the batch   *)
(* is committed.                                                           *)
CommitBatchLate ==
  /\ wpc = "drain" /\ DrainEnded
  /\ \/ /\ deferred # None /\ wpc' = "control"
        /\ UNCHANGED <<batch, puzzles, verifies>>
     \/ /\ deferred = None /\ batch' = <<>> /\ wpc' = "recv"
        /\ puzzles' = [c \in Challenges |->
             IF [kind |-> "puzzle", challenge |-> c] \in ToSet(batch)
               THEN now ELSE puzzles[c]]
        /\ verifies' = [c \in Challenges |->
             IF [kind |-> "verify", challenge |-> c] \in ToSet(batch)
               THEN verifies[c] \cup {now} ELSE verifies[c]]
  /\ UNCHANGED <<phase, now, training, queue, deferred, labels, samples,
                 calls, made, failures, verdict, erased>>

(* flush_batch: the rows are stamped with the time of their insert.        *)
CommitBatch ==
  /\ AfterBatch
  /\ puzzles' = [c \in Challenges |->
       IF [kind |-> "puzzle", challenge |-> c] \in ToSet(batch)
         THEN now ELSE puzzles[c]]
  /\ verifies' = [c \in Challenges |->
       IF [kind |-> "verify", challenge |-> c] \in ToSet(batch)
         THEN verifies[c] \cup {now} ELSE verifies[c]]
  /\ UNCHANGED failures

(* The transaction is rolled back; its records are lost.                   *)
FailBatch ==
  /\ failures < MaxFailures
  /\ AfterBatch
  /\ failures' = failures + 1
  /\ UNCHANGED <<puzzles, verifies>>

(* The control message in hand was handled and its caller is answered.     *)
Acknowledge ==
  /\ call' = [call EXCEPT ![deferred.caller] = "idle"]
  /\ msg' = [msg EXCEPT ![deferred.caller] = None]
  /\ deferred' = None
  /\ wpc' = IF batch = <<>> THEN "recv" ELSE "drain"
  /\ UNCHANGED <<now, training, open, queue, batch, made>>

(* clear_all keeps the samples.                                            *)
DoClear ==
  /\ wpc = "control" /\ deferred.kind = "clear"
  /\ puzzles' = [c \in Challenges |-> None]
  /\ verifies' = [c \in Challenges |-> {}]
  /\ labels' = [c \in Challenges |-> None]
  /\ Acknowledge
  /\ UNCHANGED <<phase, samples, failures, verdict, erased>>

(* The challenges an erase is about: one of the site's, or all (None).     *)
Covered(site, challenge) == {c \in Challenges :
  SiteOf[c] = site /\ challenge \in {None, c}}

Without(table, gone) ==
  [c \in Challenges |-> IF c \in gone THEN None ELSE table[c]]

(* Of these, the ones whose puzzle record was settled before.              *)
Recorded(gone) == {c \in gone \cap issued :
  [kind |-> "puzzle", challenge |-> c] \notin Unsettled}

(* Fault: the live rows are left to the sweeper.                           *)
DoEraseSample == \E s \in Sites, d \in Challenges \cup {None} :
  LET gone == Covered(s, d) IN
  /\ wpc = "control" /\ deferred.kind = "erase"
  /\ labels' = Without(labels, gone)
  /\ samples' = Without(samples, gone)
  /\ erased' = erased \cup Recorded(gone)
  /\ Acknowledge
  /\ UNCHANGED <<phase, puzzles, verifies, failures, verdict>>

(* erase_records: verify rows carry no site and are found through the      *)
(* puzzle row or the sample of their challenge.                            *)
DoErase == \E s \in Sites, d \in Challenges \cup {None} :
  LET gone == Covered(s, d) IN
  /\ wpc = "control" /\ deferred.kind = "erase"
  /\ verifies' = [c \in Challenges |->
       IF c \in gone /\ (puzzles[c] # None \/ samples[c] # None)
         THEN {} ELSE verifies[c]]
  /\ labels' = Without(labels, gone)
  /\ samples' = Without(samples, gone)
  /\ puzzles' = Without(puzzles, gone)
  /\ erased' = erased \cup Recorded(gone)
  /\ Acknowledge
  /\ UNCHANGED <<phase, failures, verdict>>

(* Fault: the fold does not select by age.                                 *)
FoldedAll(cutoff) ==
  [c \in Challenges |->
     IF puzzles[c] # None /\ samples[c] = None
       THEN [hour |-> hour_bucket(puzzles[c]), label |-> labels[c]]
       ELSE samples[c]]

(* copy_to_training: INSERT OR IGNORE of every row that is about to go,    *)
(* with its label.                                                         *)
Folded(cutoff) ==
  [c \in Challenges |->
     IF puzzles[c] # None /\ puzzles[c] < cutoff /\ samples[c] = None
       THEN [hour |-> hour_bucket(puzzles[c]), label |-> labels[c]]
       ELSE samples[c]]

(* Fault: a verify row is only deleted together with its puzzle row.       *)
DoPruneJoined ==
  LET cutoff == deferred.cutoff
      kept == deferred.training_cutoff
      old == {c \in Challenges : puzzles[c] # None /\ puzzles[c] < cutoff}
  IN /\ wpc = "control" /\ deferred.kind = "prune"
     /\ samples' = Unexpired(IF kept = None THEN samples ELSE Folded(cutoff), kept)
     /\ verifies' = [c \in Challenges |-> IF c \in old THEN {} ELSE verifies[c]]
     /\ puzzles' = [c \in Challenges |-> IF c \in old THEN None ELSE puzzles[c]]
     /\ labels' = [c \in Challenges |->
          IF puzzles'[c] = None THEN None ELSE labels[c]]
     /\ Acknowledge
     /\ UNCHANGED <<phase, failures, verdict, erased>>

(* Fault: verify rows are pruned up to and including the cutoff.           *)
DoPruneInclusive ==
  LET cutoff == deferred.cutoff
      kept == deferred.training_cutoff
  IN /\ wpc = "control" /\ deferred.kind = "prune"
     /\ samples' = Unexpired(IF kept = None THEN samples ELSE Folded(cutoff), kept)
     /\ verifies' = [c \in Challenges |-> {t \in verifies[c] : t > cutoff}]
     /\ puzzles' = [c \in Challenges |->
          IF puzzles[c] # None /\ puzzles[c] < cutoff THEN None ELSE puzzles[c]]
     /\ labels' = [c \in Challenges |->
          IF puzzles'[c] = None THEN None ELSE labels[c]]
     /\ Acknowledge
     /\ UNCHANGED <<phase, failures, verdict, erased>>

(* prune_before                                                            *)
DoPrune ==
  LET cutoff == deferred.cutoff
      kept == deferred.training_cutoff
  IN /\ wpc = "control" /\ deferred.kind = "prune"
     /\ samples' = Unexpired(IF kept = None THEN samples ELSE Folded(cutoff), kept)
     /\ verifies' = [c \in Challenges |-> {t \in verifies[c] : t >= cutoff}]
     /\ puzzles' = [c \in Challenges |->
          IF puzzles[c] # None /\ puzzles[c] < cutoff THEN None ELSE puzzles[c]]
     /\ labels' = [c \in Challenges |->
          IF puzzles'[c] = None THEN None ELSE labels[c]]
     /\ Acknowledge
     /\ UNCHANGED <<phase, failures, verdict, erased>>

(* Fault: any site may label any challenge.                                *)
FoundAny(site, c) == samples[c] # None \/ puzzles[c] # None

(* The decision exists, for that site.                                     *)
Found(site, c) == SiteOf[c] = site /\ (samples[c] # None \/ puzzles[c] # None)

(* apply_label: on the sample if the row was folded, else on the live row, *)
(* else nothing (404).  A site may send any challenge id.                  *)
DoLabel == \E s \in Sites, c \in Challenges, v \in Verdicts :
  /\ wpc = "control" /\ deferred.kind = "label"
  /\ samples' = IF Found(s, c) /\ samples[c] # None
                  THEN [samples EXCEPT ![c].label = v] ELSE samples
  /\ labels' = IF Found(s, c) /\ samples[c] = None
                 THEN [labels EXCEPT ![c] = v] ELSE labels
  /\ verdict' = IF Found(SiteOf[c], c) /\ s = SiteOf[c]
                  THEN [verdict EXCEPT ![c] = v] ELSE verdict
  /\ Acknowledge
  /\ UNCHANGED <<phase, puzzles, verifies, failures, erased>>

DoFlush ==
  /\ wpc = "control" /\ deferred.kind = "flush"
  /\ Acknowledge
  /\ phase' = "flushed"
  /\ UNCHANGED <<tables, failures, verdict, erased>>

(* Fault: a failed control message is logged and its caller forgotten.     *)
FailControlSilent ==
  /\ wpc = "control" /\ deferred.kind # "flush" /\ failures < MaxFailures
  /\ failures' = failures + 1
  /\ deferred' = None /\ wpc' = "recv"
  /\ UNCHANGED <<phase, now, training, queue, batch, tables, calls, made,
                 verdict, erased>>

(* The transaction of a control message fails: nothing changes, and the    *)
(* caller is told.                                                         *)
FailControl ==
  /\ wpc = "control" /\ deferred.kind # "flush" /\ failures < MaxFailures
  /\ failures' = failures + 1
  /\ Acknowledge
  /\ UNCHANGED <<phase, tables, verdict, erased>>

Control == DoClear \/ DoErase \/ DoPrune \/ DoLabel \/ DoFlush \/ FailControl

-----------------------------------------------------------------------------
(* What the dashboard reads, each query in a snapshot of its own           *)

(* The LEFT JOIN that list, get and stats are built on: a puzzle row comes *)
(* once with each of its verify rows, or once without.                     *)
Sessions == UNION {
  {[challenge |-> c, verify |-> t] :
     t \in IF verifies[c] = {} THEN {None} ELSE verifies[c]} :
  c \in {d \in Challenges : puzzles[d] # None}}

-----------------------------------------------------------------------------
Tick ==
  /\ now < MaxTime
  /\ now' = now + 1
  /\ UNCHANGED <<phase, training, queue, writer, tables, calls, made, failures,
                 verdict, erased>>

Write == Receive \/ DrainOne \/ CommitBatch \/ FailBatch \/ Control

Next ==
  \/ Start \/ Crash \/ Exit \/ Drain \/ Tick
  \/ \E c \in Challenges : RecordPuzzle(c) \/ RecordVerify(c)
  \/ \E o \in Operators : Request(o) \/ Flush(o)
  \/ Prune
  \/ \E o \in Callers : Send(o)
  \/ Write

Spec == Init /\ [][Next]_vars

(* The writer thread runs, a waiting sender gets the next room (the        *)
(* channel serves them in order), the sweeper's interval keeps firing.     *)
Fairness ==
  /\ WF_vars(Write)
  /\ \A o \in Callers : SF_vars(Send(o))
  /\ WF_vars(Prune)

LiveSpec == Spec /\ Fairness

-----------------------------------------------------------------------------
(* Properties                                                              *)

(* Feedback reaches the dataset: wherever a decision now lives, in a live  *)
(* row or folded into a sample, it carries the last verdict its own site   *)
(* was told had been recorded, whether that came before or after the fold; *)
(* and no other site's verdict.                                            *)
LabelsFollowDecisions == \A c \in Challenges :
  /\ puzzles[c] # None => labels[c] = verdict[c]
  /\ samples[c] # None => samples[c].label = verdict[c]

(* Erasure is final for what was recorded before it: no live row, label or *)
(* sample of an erased decision comes back, through a batch still in       *)
(* flight or a later fold ("so a subsequent prune cannot recreate the      *)
(* sample").                                                               *)
ErasedStaysErased == \A c \in erased :
  puzzles[c] = None /\ labels[c] = None /\ samples[c] = None

(* A graceful stop loses no record: when the flush is answered, everything *)
(* the drained handlers queued has been written (or reported as failed).   *)
GracefulStopWritesAll == phase = "flushed" => Unsettled = {}

(* A decision is a live row or a sample, never both: the fold and the      *)
(* delete are one transaction, whatever failed or crashed in between.      *)
RowOrSample == \A c \in Challenges : puzzles[c] = None \/ samples[c] = None

(* While a decision is listed, what its verification was does not vanish   *)
(* from it: verify rows are pruned by their own age and not by their       *)
(* puzzle row's, and "pruning by each table's own `ts` keeps the join      *)
(* consistent" because the queue writes them in the order of the requests. *)
SessionsKept ==
  [][\A s \in Sessions :
       s.verify # None /\ puzzles'[s.challenge] # None => s \in Sessions']_vars

(* Every operator, integrator and sweeper call is answered while the       *)
(* process runs, however full the queue.                                   *)
CallsAnswered == \A o \in Callers : call[o] # "idle" ~> call[o] = "idle"

Outdated(t) == t < now - Retention

(* Some row or sample of a challenge has outlived its window.              *)
Overdue(c) ==
  \/ puzzles[c] # None /\ Outdated(puzzles[c])
  \/ \E t \in verifies[c] : Outdated(t)
  \/ /\ samples[c] # None
     /\ training = 0 \/ samples[c].hour <= hour_bucket(now - training)

(* Storage limitation: while the process runs, rows older than the         *)
(* retention window are pruned and samples older than theirs are purged.   *)
OldRowsPruned == Retention > 0 => \A c \in Challenges :
  Overdue(c) ~> ~Overdue(c) \/ phase = "down"

-----------------------------------------------------------------------------
(* What the documentation says and the code does not do                    *)

(* CONFIGURATION.md: erasing a challenge removes its decisions, verify     *)
(* rows included.                                                          *)
EraseIsComplete ==
  [][\A c \in Challenges : c \in erased' \ erased => verifies'[c] = {}]_vars

=============================================================================

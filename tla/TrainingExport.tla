--------------------------- MODULE TrainingExport ---------------------------
(***************************************************************************)
(* GET /v1/admin/training: the training samples, paged by row id, pulled   *)
(* page by page into a mirror while the writer of DecisionLog folds, labels*)
(* expires and erases samples.  Every page is a read of its own, on a      *)
(* connection of its own; between two pages anything may be committed.  A  *)
(* puller that has come to the end resumes later from the last id it holds.*)
(***************************************************************************)
EXTENDS DecisionLog, FiniteSetsExt

CONSTANT Limit  \* samples of a page, 1 to 1000

ASSUME LimitAssumption ==
  /\ Limit \in Nat \ {0}
  /\ IsFiniteSet(Challenges) /\ None \notin Nat

VARIABLES
  sample_id,  \* challenge -> the row id of its sample, None without one
  sequence,   \* sqlite_sequence of training_samples
  after_id,   \* the puller: the last id it holds, 0 at the start
  pulling,    \* the puller: a pull is under way
  mirror      \* history: [challenge, id] of the samples pulled

evars == <<sample_id, sequence, after_id, pulling, mirror>>
allvars == <<vars, evars>>

ExportInit ==
  /\ Init
  /\ sample_id = [c \in Challenges |-> None] /\ sequence = 0
  /\ after_id = 0 /\ pulling = FALSE /\ mirror = {}

Ids(ids) == {ids[c] : c \in Challenges} \ {None}

-----------------------------------------------------------------------------
(* Row ids of the writer's inserts                                         *)

Inserted == {c \in Challenges : samples[c] = None /\ samples'[c] # None}

(* Fault: without AUTOINCREMENT an id is one more than the largest in the  *)
(* table, and that of a sample that went can come back.                    *)
FirstIdReused == Max(Ids(sample_id) \cup {0}) + 1

(* INTEGER PRIMARY KEY AUTOINCREMENT; clear_all resets the other two       *)
(* sequences only.                                                         *)
FirstId == sequence + 1

(* Inserts of one fold take consecutive ids, in the order of their puzzle  *)
(* rows; of rows of one moment either may be the first.  What expires in   *)
(* the transaction that folded it leaves no more than a gap.               *)
Numbered ==
  \E n \in [Inserted -> FirstId .. FirstId + Cardinality(Inserted) - 1] :
    /\ \A c, d \in Inserted : n[c] = n[d] => c = d
    /\ \A c, d \in Inserted : puzzles[c] < puzzles[d] => n[c] < n[d]
    /\ sample_id' = [c \in Challenges |->
         IF samples'[c] = None THEN None
         ELSE IF c \in Inserted THEN n[c] ELSE sample_id[c]]
    /\ sequence' = Max({sequence} \cup {n[c] : c \in Inserted})

LogStep == Next /\ Numbered /\ UNCHANGED <<after_id, pulling, mirror>>

-----------------------------------------------------------------------------
(* The puller                                                              *)

(* training_blocking: the next Limit samples after this id                 *)
Page(after) == {c \in Challenges :
  /\ sample_id[c] # None /\ sample_id[c] > after
  /\ Cardinality({d \in Challenges : sample_id[d] # None
                    /\ after < sample_id[d] /\ sample_id[d] < sample_id[c]})
       < Limit}

(* Fault: a page with room to spare is taken for a full one only beyond    *)
(* the limit.                                                              *)
HasNextLate(page) == Cardinality(page) > Limit

(* next_after_id is set: a full page may be the last one, and the caller   *)
(* finds out with the next call.                                           *)
HasNext(page) == Cardinality(page) >= Limit

(* The first pull, a pull that resumes, or one from the start into an      *)
(* empty mirror.                                                           *)
BeginPull ==
  /\ ~pulling
  /\ pulling' = TRUE
  /\ \/ UNCHANGED <<after_id, mirror>>
     \/ after_id' = 0 /\ mirror' = {}
  /\ UNCHANGED <<vars, sample_id, sequence>>

(* The service answers one page: it must be running.                       *)
PullPage ==
  LET page == Page(after_id) IN
  /\ pulling /\ phase = "up"
  /\ mirror' = mirror \cup {[challenge |-> c, id |-> sample_id[c]] : c \in page}
  /\ after_id' = Max({after_id} \cup {sample_id[c] : c \in page})
  /\ pulling' = HasNext(page)
  /\ UNCHANGED <<vars, sample_id, sequence>>

ExportNext == LogStep \/ BeginPull \/ PullPage

ExportSpec == ExportInit /\ [][ExportNext]_allvars

-----------------------------------------------------------------------------
(* Properties                                                              *)

(* A pull that ends has everything: every sample in the table at that      *)
(* moment is in the mirror, whatever was folded, erased, expired or        *)
(* cleared between its pages or since the pull before, and across restarts *)
(* of the service.  Rows never appear behind the cursor.                   *)
PullIsComplete ==
  [][pulling /\ ~pulling' =>
       \A c \in Challenges : samples[c] # None =>
         [challenge |-> c, id |-> sample_id[c]] \in mirror']_allvars

(* An id names one decision for good: a mirror keyed by id never has to    *)
(* take one sample for another, although samples are erased and expire,    *)
(* the dashboard resets the other tables' ids and the process restarts.    *)
IdsAreForGood ==
  LET known == mirror \cup {[challenge |-> c, id |-> sample_id[c]] :
                 c \in {d \in Challenges : sample_id[d] # None}}
  IN \A r, s \in known : r.id = s.id => r.challenge = s.challenge

=============================================================================

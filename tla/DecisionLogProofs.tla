------------------------- MODULE DecisionLogProofs -------------------------
(***************************************************************************)
(* Proofs about DecisionLog, for any number of challenges, sites, callers, *)
(* queue and batch sizes, windows and failures.  All of them rest on the   *)
(* order of the one queue: a challenge has one puzzle record, it is ahead  *)
(* of every verify record of the challenge, and until it is settled no     *)
(* table knows the challenge.                                              *)
(***************************************************************************)
EXTENDS DecisionLog, TLAPS

Sample == [hour : Int, label : Verdicts \cup {None}]

(* Every variable of the log holds a value of its type.                    *)
TypeOK ==
  /\ phase \in {"up", "draining", "flushed", "down"}
  /\ now \in Nat /\ training \in Nat
  /\ queue \in Seq(Record \cup ControlMsg) /\ batch \in Seq(Record)
  /\ deferred \in ControlMsg \cup {None} /\ wpc \in {"recv", "drain", "control"}
  /\ puzzles \in [Challenges -> Nat \cup {None}]
  /\ verifies \in [Challenges -> SUBSET Nat]
  /\ labels \in [Challenges -> Verdicts \cup {None}]
  /\ samples \in [Challenges -> Sample \cup {None}]
  /\ open \subseteq issued /\ issued \subseteq Challenges
  /\ call \in [Callers -> {"idle", "send", "wait"}]
  /\ msg \in [Callers -> ControlMsg \cup {None}]
  /\ \A o \in Callers : call[o] = "send" => msg[o] \in ControlMsg
  /\ verified \in Nat /\ failures \in Nat
  /\ verdict \in [Challenges -> Verdicts \cup {None}]
  /\ erased \subseteq Challenges

(* The writer between two messages, with a batch, with a control message.  *)
WriterInv ==
  /\ wpc = "recv" => deferred = None
  /\ wpc # "drain" => batch = <<>>
  /\ wpc = "control" => deferred \in ControlMsg
  /\ phase = "down" => /\ queue = <<>> /\ wpc = "recv"
                       /\ \A o \in Callers : call[o] = "idle"

Stopping == phase \in {"draining", "flushed"}
NoRecords(q) == \A m \in ToSet(q) : ~IsRecord(m)

(* Nothing is queued behind a flush but control messages.                  *)
FlushLast(q) == \A i, j \in 1 .. Len(q) :
  i <= j /\ q[i].kind = "flush" => ~IsRecord(q[j])

FlushInv ==
  /\ FlushLast(queue)
  /\ \A m \in ToSet(queue) : m.kind = "flush" => Stopping
  /\ deferred # None /\ deferred.kind = "flush" => Stopping /\ NoRecords(queue)
  /\ \A o \in Callers : call[o] = "send" /\ msg[o].kind = "flush" => Stopping
  /\ phase = "flushed" => batch = <<>> /\ NoRecords(queue)

PuzzleOf(c) == [kind |-> "puzzle", challenge |-> c]
VerifyOf(c) == [kind |-> "verify", challenge |-> c]

(* The puzzle record of a challenge comes once, and before its verifies.   *)
Ordered(q, b) == \A c \in Challenges : \A i \in 1 .. Len(q) :
  q[i] = PuzzleOf(c) =>
    /\ PuzzleOf(c) \notin ToSet(b) /\ VerifyOf(c) \notin ToSet(b)
    /\ \A j \in 1 .. Len(q) : /\ q[j] = PuzzleOf(c) => j = i
                              /\ q[j] = VerifyOf(c) => i < j

OrderInv == Ordered(queue, batch)

Queued == ToSet(batch) \cup ToSet(queue)

IssuedInv == \A c \in Challenges \ issued :
  PuzzleOf(c) \notin Queued /\ VerifyOf(c) \notin Queued

LineInv == OrderInv /\ IssuedInv

(* The puzzle record of the challenge is not settled yet.                  *)
Unknown(c) == PuzzleOf(c) \in Queued \/ c \notin issued

(* What the tables know of a challenge: nothing before its puzzle record   *)
(* is settled; then one row or one sample with the last accepted verdict,  *)
(* or neither, and after an erasure neither for good.                      *)
KnownInv(c) ==
  /\ Unknown(c) => /\ puzzles[c] = None /\ samples[c] = None /\ labels[c] = None
                   /\ verdict[c] = None /\ c \notin erased /\ verifies[c] = {}
  /\ labels[c] # None => puzzles[c] # None
  /\ puzzles[c] = None \/ samples[c] = None
  /\ puzzles[c] # None => labels[c] = verdict[c]
  /\ samples[c] # None => samples[c].label = verdict[c]
  /\ c \in erased => puzzles[c] = None /\ samples[c] = None

(* Rows are as old as their place in the queue says.                       *)
AgeInv(c) ==
  /\ puzzles[c] # None => puzzles[c] <= now
  /\ \A t \in verifies[c] : t <= now /\ (puzzles[c] # None => puzzles[c] <= t)

TablesInv == \A c \in Challenges : KnownInv(c) /\ AgeInv(c)

Inv == TypeOK /\ WriterInv /\ FlushInv /\ LineInv /\ TablesInv

-----------------------------------------------------------------------------
(* Sequences and messages                                                  *)

LEMMA InSet ==
  ASSUME NEW S, NEW s \in Seq(S), NEW e
  PROVE  e \in ToSet(s) <=> \E i \in 1 .. Len(s) : s[i] = e
  BY DEF ToSet

LEMMA SetOfEmpty == ToSet(<<>>) = {}
  BY DEF ToSet

LEMMA SetOfOne ==
  ASSUME NEW e
  PROVE  ToSet(<<e>>) = {e}
  BY DEF ToSet

LEMMA SetOfAppend ==
  ASSUME NEW S, NEW s \in Seq(S), NEW e \in S
  PROVE  /\ Append(s, e) \in Seq(S) /\ Len(Append(s, e)) = Len(s) + 1
         /\ Append(s, e)[Len(s) + 1] = e
         /\ \A i \in 1 .. Len(s) : Append(s, e)[i] = s[i]
         /\ ToSet(Append(s, e)) = ToSet(s) \cup {e}
  <1>1. /\ Append(s, e) \in Seq(S) /\ Len(Append(s, e)) = Len(s) + 1
        /\ Append(s, e)[Len(s) + 1] = e
        /\ \A i \in 1 .. Len(s) : Append(s, e)[i] = s[i]
    OBVIOUS
  <1>2. ASSUME NEW x PROVE x \in ToSet(Append(s, e)) <=> x \in ToSet(s) \cup {e}
    <2> DEFINE t == Append(s, e)
    <2> HIDE DEF t
    <2>0. x \in ToSet(t) <=> \E i \in 1 .. Len(t) : t[i] = x
      BY <1>1, InSet DEF t
    <2>1. x \in ToSet(t) <=> \E i \in 1 .. Len(s) + 1 : t[i] = x
      BY <1>1, <2>0 DEF t
    <2>2. x \in ToSet(s) <=> \E i \in 1 .. Len(s) : s[i] = x
      BY InSet
    <2>3. \A i : i \in 1 .. Len(s) + 1 <=> i \in 1 .. Len(s) \/ i = Len(s) + 1
      OBVIOUS
    <2> QED BY <1>1, <2>1, <2>2, <2>3 DEF t
  <1> QED BY <1>1, <1>2

LEMMA SetOfTail ==
  ASSUME NEW S, NEW s \in Seq(S), s # <<>>
  PROVE  /\ Head(s) \in S /\ Head(s) = s[1] /\ Len(s) \in Nat /\ Len(s) >= 1
         /\ Tail(s) \in Seq(S) /\ Len(Tail(s)) = Len(s) - 1
         /\ \A i \in 1 .. Len(s) - 1 : Tail(s)[i] = s[i + 1]
         /\ ToSet(s) = {Head(s)} \cup ToSet(Tail(s))
  <1>1. /\ Head(s) \in S /\ Head(s) = s[1] /\ Len(s) \in Nat /\ Len(s) >= 1
        /\ Tail(s) \in Seq(S) /\ Len(Tail(s)) = Len(s) - 1
        /\ \A i \in 1 .. Len(s) - 1 : Tail(s)[i] = s[i + 1]
    OBVIOUS
  <1>2. ASSUME NEW x PROVE x \in ToSet(s) <=> x = Head(s) \/ x \in ToSet(Tail(s))
    <2>1. x \in ToSet(s) <=> \E i \in 1 .. Len(s) : s[i] = x
      BY InSet
    <2> DEFINE t == Tail(s)
    <2> HIDE DEF t
    <2>0. x \in ToSet(t) <=> \E i \in 1 .. Len(t) : t[i] = x
      BY <1>1, InSet DEF t
    <2>2. x \in ToSet(Tail(s)) <=> \E i \in 1 .. Len(s) - 1 : s[i + 1] = x
      <3>1. Len(t) = Len(s) - 1 /\ \A i \in 1 .. Len(s) - 1 : t[i] = s[i + 1]
        BY <1>1 DEF t
      <3>2. x \in ToSet(t) <=> \E i \in 1 .. Len(s) - 1 : t[i] = x
        BY <2>0, <3>1
      <3> QED BY <3>1, <3>2 DEF t
    <2>3. ASSUME x = Head(s) \/ \E i \in 1 .. Len(s) - 1 : s[i + 1] = x
          PROVE  \E i \in 1 .. Len(s) : s[i] = x
      <3>1. CASE x = Head(s)
        BY <1>1, <3>1
      <3>2. CASE \E i \in 1 .. Len(s) - 1 : s[i + 1] = x
        <4>1. PICK i \in 1 .. Len(s) - 1 : s[i + 1] = x
          BY <3>2
        <4>2. i + 1 \in 1 .. Len(s)
          BY <1>1
        <4> QED BY <4>1, <4>2
      <3> QED BY <2>3, <3>1, <3>2
    <2>4. ASSUME NEW i \in 1 .. Len(s), s[i] = x, x # Head(s)
          PROVE  \E j \in 1 .. Len(s) - 1 : s[j + 1] = x
      <3>1. i # 1 /\ i \in Int
        BY <1>1, <2>4
      <3>2. i - 1 \in 1 .. Len(s) - 1 /\ s[(i - 1) + 1] = x
        BY <1>1, <2>4, <3>1
      <3> QED BY <3>2
    <2> QED BY <2>1, <2>2, <2>3, <2>4
  <1> QED BY <1>1, <1>2

LEMMA MessageKinds ==
  ASSUME NEW m \in Record \cup ControlMsg
  PROVE  /\ IsRecord(m) <=> m \in Record
         /\ ~IsRecord(m) <=> m \in ControlMsg
  BY DEF Record, ControlMsg, IsRecord

LEMMA RecordTypes ==
  ASSUME NEW c \in Challenges
  PROVE  /\ PuzzleOf(c) \in Record /\ VerifyOf(c) \in Record
         /\ PuzzleOf(c).kind = "puzzle" /\ VerifyOf(c).kind = "verify"
         /\ PuzzleOf(c) # VerifyOf(c)
         /\ \A d \in Challenges : /\ PuzzleOf(c) = PuzzleOf(d) => c = d
                                  /\ VerifyOf(c) = VerifyOf(d) => c = d
                                  /\ PuzzleOf(c) # VerifyOf(d)
  BY DEF Record, PuzzleOf, VerifyOf

-----------------------------------------------------------------------------
(* Types                                                                   *)

LEMMA HourType ==
  ASSUME NEW t \in Int
  PROVE  hour_bucket(t) \in Int
  BY LogAssumption DEF hour_bucket

LEMMA CutoffType ==
  ASSUME now \in Nat, NEW hours \in Nat
  PROVE  training_cutoff(hours) \in Int \cup {None}
  BY HourType DEF training_cutoff

LEMMA UnexpiredType ==
  ASSUME NEW table \in [Challenges -> Sample \cup {None}], NEW cutoff
  PROVE  /\ Unexpired(table, cutoff) \in [Challenges -> Sample \cup {None}]
         /\ \A c \in Challenges : Unexpired(table, cutoff)[c] \in {table[c], None}
  BY DEF Unexpired

LEMMA FoldedType ==
  ASSUME TypeOK, NEW cutoff
  PROVE  /\ Folded(cutoff) \in [Challenges -> Sample \cup {None}]
         /\ \A c \in Challenges :
              \/ Folded(cutoff)[c] = samples[c]
              \/ /\ puzzles[c] # None /\ puzzles[c] < cutoff
                 /\ Folded(cutoff)[c].label = labels[c]
  <1>1. ASSUME NEW c \in Challenges, puzzles[c] # None
        PROVE  [hour |-> hour_bucket(puzzles[c]), label |-> labels[c]] \in Sample
    BY <1>1, HourType DEF TypeOK, Sample
  <1> QED BY <1>1 DEF Folded, TypeOK

LEMMA WithoutType ==
  ASSUME NEW S, NEW table \in [Challenges -> S \cup {None}], NEW gone
  PROVE  Without(table, gone) \in [Challenges -> S \cup {None}]
  BY DEF Without

(* What Acknowledge does to the writer and its caller.                     *)
LEMMA AcknowledgeStep ==
  ASSUME TypeOK, WriterInv, wpc = "control", Acknowledge
  PROVE  /\ UNCHANGED <<now, training, open, queue, batch, issued, verified>>
         /\ deferred' = None /\ wpc' = "recv" /\ batch = <<>>
         /\ call' \in [Callers -> {"idle", "send", "wait"}]
         /\ msg' \in [Callers -> ControlMsg \cup {None}]
         /\ \A o \in Callers : call'[o] = "send" => call[o] = "send" /\ msg'[o] = msg[o]
  <1>1. deferred \in ControlMsg /\ batch = <<>>
    BY DEF WriterInv
  <1>2. deferred.caller \in Callers
    BY <1>1 DEF ControlMsg, Callers
  <1> QED BY <1>1, <1>2 DEF Acknowledge, TypeOK, made

(* An offered record is queued or dropped.                                 *)
LEMMA OfferStep ==
  ASSUME TypeOK, NEW m \in Record, Offer(m)
  PROVE  queue' = Append(queue, m) \/ queue' = queue
  BY DEF Offer

LEMMA OfferType ==
  ASSUME TypeOK, NEW m \in Record, Offer(m)
  PROVE  queue' \in Seq(Record \cup ControlMsg)
  <1>1. queue \in Seq(Record \cup ControlMsg) /\ m \in Record \cup ControlMsg
    BY DEF TypeOK
  <1>2. Append(queue, m) \in Seq(Record \cup ControlMsg)
    BY <1>1, SetOfAppend
  <1> QED BY <1>1, <1>2, OfferStep

LEMMA StoppedState ==
  ASSUME TypeOK, Stopped
  PROVE  TypeOK' /\ WriterInv'
  BY DEF Stopped, TypeOK, WriterInv, tables, made

LEMMA CallState ==
  ASSUME TypeOK, WriterInv, phase # "down", NEW o \in Callers, NEW m \in ControlMsg,
         Call(o, m)
  PROVE  /\ TypeOK' /\ WriterInv'
         /\ UNCHANGED <<phase, now, queue, batch, deferred, open, issued, tables,
                        verdict, erased>>
         /\ \A p \in Callers : call'[p] = "send" =>
              \/ call[p] = "send" /\ msg'[p] = msg[p]
              \/ p = o /\ msg'[p] = m
  <1>1. /\ UNCHANGED <<phase, now, training, open, queue, batch, deferred, wpc,
                       puzzles, verifies, labels, samples, issued, verified,
                       failures, verdict, erased>>
        /\ call' = [call EXCEPT ![o] = "send"] /\ msg' = [msg EXCEPT ![o] = m]
    BY DEF Call, tables, writer, made
  <1>2. TypeOK'
    BY <1>1 DEF TypeOK
  <1> QED BY <1>1, <1>2 DEF TypeOK, WriterInv, tables

(* Receive and DrainOne: the head of the queue moves to the writer.        *)
LEMMA TakeStep ==
  ASSUME TypeOK, WriterInv, Receive \/ DrainOne
  PROVE  LET h == Head(queue) IN
         /\ queue # <<>> /\ queue' = Tail(queue) /\ h \in Record \cup ControlMsg
         /\ deferred = None
         /\ \/ /\ h \in Record /\ batch' = Append(batch, h) /\ deferred' = None
               /\ wpc' = "drain"
            \/ /\ h \in ControlMsg /\ batch' = batch /\ deferred' = h
               /\ wpc' \in {"drain", "control"}
               /\ wpc' = "control" => batch = <<>>
         /\ UNCHANGED <<phase, now, training, tables, calls, made, failures,
                        verdict, erased>>
  <1>1. /\ queue # <<>> /\ queue' = Tail(queue)
        /\ UNCHANGED <<phase, now, training, tables, calls, made, failures,
                       verdict, erased>>
    BY DEF Receive, DrainOne
  <1>2. queue \in Seq(Record \cup ControlMsg) /\ batch \in Seq(Record)
    BY DEF TypeOK
  <1>3. Head(queue) \in Record \cup ControlMsg
    BY <1>1, <1>2, SetOfTail
  <1>4. /\ IsRecord(Head(queue)) <=> Head(queue) \in Record
        /\ ~IsRecord(Head(queue)) <=> Head(queue) \in ControlMsg
    BY <1>3, MessageKinds
  <1>5. CASE Receive
    <2>1. batch = <<>> /\ deferred = None
      BY <1>5 DEF Receive, WriterInv
    <2>2. Append(batch, Head(queue)) = <<Head(queue)>>
      BY <2>1
    <2> QED BY <1>1, <1>3, <1>4, <1>5, <2>1, <2>2 DEF Receive
  <1>6. CASE DrainOne
    BY <1>1, <1>3, <1>4, <1>6 DEF DrainOne
  <1> QED BY <1>5, <1>6

LEMMA TypeNext ==
  ASSUME TypeOK, WriterInv, [Next]_vars
  PROVE  TypeOK' /\ WriterInv'
  <1> USE DEF tables, writer, calls, made
  <1>1. CASE Start
    <2>1. training' \in Nat
      BY <1>1, LogAssumption DEF Start
    <2>2. samples' \in [Challenges -> Sample \cup {None}]
      BY <1>1, UnexpiredType DEF Start, TypeOK
    <2>3. TypeOK'
      BY <1>1, <2>1, <2>2 DEF Start, TypeOK
    <2> QED BY <1>1, <2>3 DEF Start, WriterInv
  <1>2. CASE Crash \/ Exit
    BY <1>2, StoppedState DEF Crash, Exit
  <1>3. CASE Drain
    BY <1>3 DEF Drain, TypeOK, WriterInv
  <1>4. CASE Tick
    BY <1>4 DEF Tick, TypeOK, WriterInv
  <1>5. ASSUME NEW c \in Challenges, RecordPuzzle(c) PROVE TypeOK' /\ WriterInv'
    <2>1. queue' \in Seq(Record \cup ControlMsg)
      BY <1>5, OfferType, RecordTypes DEF RecordPuzzle, PuzzleOf
    <2> QED BY <1>5, <2>1 DEF RecordPuzzle, TypeOK, WriterInv
  <1>6. ASSUME NEW c \in Challenges, RecordVerify(c) PROVE TypeOK' /\ WriterInv'
    <2>1. queue' \in Seq(Record \cup ControlMsg)
      BY <1>6, OfferType, RecordTypes DEF RecordVerify, VerifyOf
    <2> QED BY <1>6, <2>1 DEF RecordVerify, TypeOK, WriterInv
  <1>7. ASSUME NEW o \in Operators, Request(o) \/ Flush(o) PROVE TypeOK' /\ WriterInv'
    <2>1. PICK kind \in {"clear", "erase", "label", "flush"} :
            phase # "down" /\ Call(o, [kind |-> kind, caller |-> o])
      BY <1>7 DEF Request, Flush
    <2>2. [kind |-> kind, caller |-> o] \in ControlMsg /\ o \in Callers
      BY DEF ControlMsg, Callers
    <2> QED BY <2>1, <2>2, CallState
  <1>8. CASE Prune
    <2> DEFINE m == [kind |-> "prune", caller |-> Sweeper, cutoff |-> now - Retention,
                     training_cutoff |-> training_cutoff(training)]
    <2>1. phase # "down" /\ Call(Sweeper, m)
      BY <1>8 DEF Prune
    <2>2. training_cutoff(training) \in Int \cup {None} /\ now - Retention \in Int
      BY CutoffType, LogAssumption DEF TypeOK
    <2>3. m \in ControlMsg /\ Sweeper \in Callers
      BY <2>2 DEF ControlMsg, Callers
    <2> HIDE DEF m
    <2> QED BY <2>1, <2>3, CallState
  <1>9. ASSUME NEW o \in Callers, Send(o) PROVE TypeOK' /\ WriterInv'
    <2>1. /\ queue \in Seq(Record \cup ControlMsg)
          /\ msg[o] \in ControlMsg
      BY <1>9 DEF Send, TypeOK
    <2>2. queue' \in Seq(Record \cup ControlMsg)
      BY <1>9, <2>1, SetOfAppend DEF Send
    <2> QED BY <1>9, <2>2 DEF Send, TypeOK, WriterInv
  <1>10. CASE Receive \/ DrainOne
    <2>1. queue \in Seq(Record \cup ControlMsg) /\ batch \in Seq(Record)
      BY DEF TypeOK
    <2>2. queue' \in Seq(Record \cup ControlMsg) /\ queue # <<>>
      BY <1>10, <2>1, TakeStep, SetOfTail
    <2>3. batch' \in Seq(Record)
      <3>1. ASSUME Head(queue) \in Record PROVE Append(batch, Head(queue)) \in Seq(Record)
        BY <2>1, <3>1, SetOfAppend
      <3> QED BY <1>10, <2>1, <3>1, TakeStep
    <2>4. phase # "down"
      BY <2>2 DEF WriterInv
    <2>5. /\ deferred' \in ControlMsg \cup {None} /\ wpc' \in {"drain", "control"}
          /\ wpc' = "control" => deferred' \in ControlMsg /\ batch' = <<>>
      BY <1>10, TakeStep
    <2>6. UNCHANGED <<phase, now, training, tables, calls, made, failures,
                      verdict, erased>>
      BY <1>10, TakeStep
    <2> QED BY <2>2, <2>3, <2>4, <2>5, <2>6 DEF TypeOK, WriterInv
  <1>11. CASE CommitBatch
    <2>1. /\ puzzles' \in [Challenges -> Nat \cup {None}]
          /\ verifies' \in [Challenges -> SUBSET Nat]
      BY <1>11 DEF CommitBatch, TypeOK
    <2> QED BY <1>11, <2>1 DEF CommitBatch, AfterBatch, TypeOK, WriterInv
  <1>12. CASE FailBatch
    BY <1>12 DEF FailBatch, AfterBatch, TypeOK, WriterInv
  <1>13. ASSUME wpc = "control", Acknowledge, phase' \in {phase, "flushed"}, failures' \in Nat,
                puzzles' \in [Challenges -> Nat \cup {None}],
                verifies' \in [Challenges -> SUBSET Nat],
                labels' \in [Challenges -> Verdicts \cup {None}],
                samples' \in [Challenges -> Sample \cup {None}],
                verdict' \in [Challenges -> Verdicts \cup {None}],
                erased' \subseteq Challenges
         PROVE  TypeOK' /\ WriterInv'
    <2>1. phase # "down"
      BY <1>13 DEF WriterInv
    <2> QED BY <1>13, <2>1, AcknowledgeStep DEF TypeOK, WriterInv
  <1>14. CASE DoClear
    BY <1>13, <1>14 DEF DoClear, TypeOK
  <1>15. CASE DoErase
    <2>1. PICK s \in Sites, d \in Challenges \cup {None} :
            LET gone == Covered(s, d) IN
            /\ wpc = "control"
            /\ verifies' = [c \in Challenges |->
                 IF c \in gone /\ (puzzles[c] # None \/ samples[c] # None)
                   THEN {} ELSE verifies[c]]
            /\ labels' = Without(labels, gone)
            /\ samples' = Without(samples, gone)
            /\ puzzles' = Without(puzzles, gone)
            /\ erased' = erased \cup Recorded(gone)
            /\ Acknowledge
            /\ UNCHANGED <<phase, failures, verdict>>
      BY <1>15 DEF DoErase
    <2>2. /\ labels' \in [Challenges -> Verdicts \cup {None}]
          /\ samples' \in [Challenges -> Sample \cup {None}]
          /\ puzzles' \in [Challenges -> Nat \cup {None}]
      BY <2>1, WithoutType DEF TypeOK
    <2>3. erased' \subseteq Challenges
      BY <2>1 DEF Recorded, TypeOK
    <2>4. verifies' \in [Challenges -> SUBSET Nat]
      BY <2>1 DEF TypeOK
    <2> QED BY <1>13, <2>1, <2>2, <2>3, <2>4 DEF TypeOK
  <1>16. CASE DoPrune
    <2>1. samples' \in [Challenges -> Sample \cup {None}]
      <3> DEFINE kept == deferred.training_cutoff
                 table == IF kept = None THEN samples ELSE Folded(deferred.cutoff)
      <3>1. table \in [Challenges -> Sample \cup {None}]
        BY FoldedType DEF TypeOK
      <3>2. samples' = Unexpired(table, kept)
        BY <1>16 DEF DoPrune
      <3> HIDE DEF table, kept
      <3> QED BY <3>1, <3>2, UnexpiredType
    <2>2. /\ puzzles' \in [Challenges -> Nat \cup {None}]
          /\ labels' \in [Challenges -> Verdicts \cup {None}]
          /\ verifies' \in [Challenges -> SUBSET Nat]
      BY <1>16 DEF DoPrune, TypeOK
    <2> QED BY <1>13, <1>16, <2>1, <2>2 DEF DoPrune, TypeOK
  <1>17. CASE DoLabel
    <2>1. /\ samples' \in [Challenges -> Sample \cup {None}]
          /\ labels' \in [Challenges -> Verdicts \cup {None}]
          /\ verdict' \in [Challenges -> Verdicts \cup {None}]
      BY <1>17 DEF DoLabel, TypeOK, Sample
    <2> QED BY <1>13, <1>17, <2>1 DEF DoLabel, TypeOK
  <1>18. CASE DoFlush \/ FailControl
    BY <1>13, <1>18 DEF DoFlush, FailControl, TypeOK
  <1>19. CASE UNCHANGED vars
    BY <1>19 DEF vars, TypeOK, WriterInv
  <1> QED BY <1>1, <1>2, <1>3, <1>4, <1>5, <1>6, <1>7, <1>8, <1>9, <1>10, <1>11,
             <1>12, <1>14, <1>15, <1>16, <1>17, <1>18, <1>19
          DEF Next, Write, Control

-----------------------------------------------------------------------------
(* The order of the queue                                                  *)

Message == Record \cup ControlMsg

LEMMA OrderedAppend ==
  ASSUME NEW q \in Seq(Message), NEW b, NEW m \in Message, Ordered(q, b),
         \A c \in Challenges : m = PuzzleOf(c) =>
           {PuzzleOf(c), VerifyOf(c)} \cap (ToSet(q) \cup ToSet(b)) = {}
  PROVE  Ordered(Append(q, m), b)
  <1> DEFINE r == Append(q, m)
             n == Len(q)
  <1>1. /\ Len(r) = n + 1 /\ r[n + 1] = m /\ n \in Nat
        /\ \A i \in 1 .. n : r[i] = q[i]
    OBVIOUS
  <1>2. \A e : e \in ToSet(q) <=> \E i \in 1 .. n : q[i] = e
    BY InSet
  <1> SUFFICES ASSUME NEW c \in Challenges, NEW i \in 1 .. n + 1, r[i] = PuzzleOf(c)
               PROVE  /\ PuzzleOf(c) \notin ToSet(b) /\ VerifyOf(c) \notin ToSet(b)
                      /\ \A j \in 1 .. n + 1 : /\ r[j] = PuzzleOf(c) => j = i
                                               /\ r[j] = VerifyOf(c) => i < j
    BY <1>1 DEF Ordered
  <1> HIDE DEF r, n
  <1>3. CASE i = n + 1
    <2>1. m = PuzzleOf(c)
      BY <1>1, <1>3
    <2>2. \A j \in 1 .. n : r[j] # PuzzleOf(c) /\ r[j] # VerifyOf(c)
      BY <1>1, <1>2, <2>1
    <2>3. r[n + 1] # VerifyOf(c)
      BY <1>1, <2>1, RecordTypes
    <2> QED BY <1>1, <1>3, <2>1, <2>2, <2>3
  <1>4. CASE i \in 1 .. n
    <2>1. q[i] = PuzzleOf(c)
      BY <1>1, <1>4
    <2>2. m # PuzzleOf(c)
      BY <1>2, <1>4, <2>1
    <2>3. /\ PuzzleOf(c) \notin ToSet(b) /\ VerifyOf(c) \notin ToSet(b)
          /\ \A j \in 1 .. n : /\ r[j] = PuzzleOf(c) => j = i
                               /\ r[j] = VerifyOf(c) => i < j
      BY <1>1, <1>4, <2>1 DEF Ordered, n
    <2> QED BY <1>1, <1>4, <2>2, <2>3
  <1> QED BY <1>1, <1>3, <1>4

LEMMA OrderedTake ==
  ASSUME NEW q \in Seq(Message), q # <<>>, NEW b \in Seq(Record), Ordered(q, b),
         NEW d, d = b \/ (Head(q) \in Record /\ d = Append(b, Head(q)))
  PROVE  Ordered(Tail(q), d)
  <1> DEFINE r == Tail(q)
             n == Len(q)
  <1>1. /\ Len(r) = n - 1 /\ n \in Nat /\ n >= 1 /\ Head(q) = q[1]
        /\ \A i \in 1 .. n - 1 : r[i] = q[i + 1]
    BY SetOfTail
  <1>2. ToSet(d) \subseteq ToSet(b) \cup {Head(q)}
    <2>1. ASSUME Head(q) \in Record
          PROVE  ToSet(Append(b, Head(q))) = ToSet(b) \cup {Head(q)}
      BY <2>1, SetOfAppend
    <2> QED BY <2>1
  <1> SUFFICES ASSUME NEW c \in Challenges, NEW i \in 1 .. n - 1, r[i] = PuzzleOf(c)
               PROVE  /\ PuzzleOf(c) \notin ToSet(d) /\ VerifyOf(c) \notin ToSet(d)
                      /\ \A j \in 1 .. n - 1 : /\ r[j] = PuzzleOf(c) => j = i
                                               /\ r[j] = VerifyOf(c) => i < j
    BY <1>1 DEF Ordered
  <1> HIDE DEF r, n
  <1>3. i + 1 \in 1 .. n /\ q[i + 1] = PuzzleOf(c) /\ i + 1 # 1
    BY <1>1
  <1>4. /\ PuzzleOf(c) \notin ToSet(b) /\ VerifyOf(c) \notin ToSet(b)
        /\ \A j \in 1 .. n : /\ q[j] = PuzzleOf(c) => j = i + 1
                             /\ q[j] = VerifyOf(c) => i + 1 < j
    BY <1>3 DEF Ordered, n
  <1>5. Head(q) # PuzzleOf(c) /\ Head(q) # VerifyOf(c)
    BY <1>1, <1>3, <1>4
  <1>6. ASSUME NEW j \in 1 .. n - 1
        PROVE  /\ r[j] = PuzzleOf(c) => j = i
               /\ r[j] = VerifyOf(c) => i < j
    <2>1. j + 1 \in 1 .. n /\ r[j] = q[j + 1]
      BY <1>1
    <2> QED BY <1>4, <2>1
  <1> QED BY <1>2, <1>4, <1>5, <1>6

(* What a step does to the line of records.                                *)
LEMMA LineStep ==
  ASSUME TypeOK, WriterInv, [Next]_vars
  PROVE  \/ queue' = queue /\ batch' = batch /\ issued' = issued
         \/ queue' = <<>> /\ batch' = <<>> /\ issued' = issued
         \/ \E c \in Challenges :
              /\ c \notin issued /\ issued' = issued \cup {c} /\ batch' = batch
              /\ queue' = Append(queue, PuzzleOf(c)) \/ queue' = queue
         \/ /\ issued' = issued /\ batch' = batch
            /\ \E m \in Message :
                 /\ m \in ControlMsg \/ \E c \in issued : m = VerifyOf(c)
                 /\ queue' = Append(queue, m)
         \/ /\ issued' = issued /\ queue # <<>> /\ queue' = Tail(queue)
            /\ Head(queue) \in Message
            /\ \/ Head(queue) \in Record /\ batch' = Append(batch, Head(queue))
               \/ Head(queue) \in ControlMsg /\ batch' = batch
         \/ issued' = issued /\ queue' = queue /\ batch' = <<>>
  <1> USE DEF made, writer, calls
  <1>1. CASE Start \/ Drain \/ Tick \/ UNCHANGED vars
    BY <1>1 DEF Start, Drain, Tick, vars
  <1>2. CASE Crash \/ Exit
    BY <1>2 DEF Crash, Exit, Stopped
  <1>3. ASSUME NEW c \in Challenges, RecordPuzzle(c)
        PROVE  /\ c \notin issued /\ issued' = issued \cup {c} /\ batch' = batch
               /\ queue' = Append(queue, PuzzleOf(c)) \/ queue' = queue
    BY <1>3, OfferStep, RecordTypes DEF RecordPuzzle, PuzzleOf
  <1>4. ASSUME NEW c \in Challenges, RecordVerify(c)
        PROVE  /\ c \in issued /\ issued' = issued /\ batch' = batch
               /\ queue' = Append(queue, VerifyOf(c)) \/ queue' = queue
    BY <1>4, OfferStep, RecordTypes DEF RecordVerify, VerifyOf, TypeOK
  <1>5. CASE (\E o \in Operators : Request(o) \/ Flush(o)) \/ Prune
    BY <1>5 DEF Request, Flush, Prune, Call
  <1>6. ASSUME NEW o \in Callers, Send(o)
        PROVE  /\ issued' = issued /\ batch' = batch
               /\ msg[o] \in ControlMsg /\ queue' = Append(queue, msg[o])
    BY <1>6 DEF Send, TypeOK
  <1> USE DEF Message
  <1>7. CASE Receive \/ DrainOne
    BY <1>7, TakeStep DEF Message
  <1>8. CASE CommitBatch \/ FailBatch
    BY <1>8 DEF CommitBatch, FailBatch, AfterBatch
  <1>9. CASE Control
    BY <1>9 DEF Control, DoClear, DoErase, DoPrune, DoLabel, DoFlush, FailControl,
                Acknowledge
  <1> QED BY <1>1, <1>2, <1>3, <1>4, <1>5, <1>6, <1>7, <1>8, <1>9, RecordTypes
          DEF Next, Write

LEMMA LineNext ==
  ASSUME TypeOK, WriterInv, LineInv, [Next]_vars
  PROVE  /\ LineInv'
         /\ \A c \in Challenges : Unknown(c)' => Unknown(c)
  <1>0. /\ queue \in Seq(Message) /\ batch \in Seq(Record) /\ Ordered(queue, batch)
        /\ \A c \in Challenges \ issued : PuzzleOf(c) \notin Queued /\ VerifyOf(c) \notin Queued
    BY DEF TypeOK, Message, LineInv, OrderInv, IssuedInv
  <1> SUFFICES /\ Ordered(queue', batch')
               /\ \A c \in Challenges \ issued' :
                    PuzzleOf(c) \notin Queued' /\ VerifyOf(c) \notin Queued'
               /\ \A c \in Challenges : PuzzleOf(c) \in Queued' \/ c \notin issued'
                    => PuzzleOf(c) \in Queued \/ c \notin issued
    BY DEF LineInv, OrderInv, IssuedInv, Unknown, Ordered
  <1>1. CASE queue' = queue /\ batch' = batch /\ issued' = issued
    BY <1>0, <1>1 DEF Queued
  <1>2. CASE queue' = <<>> /\ batch' = <<>> /\ issued' = issued
    <2>1. Queued' = {}
      BY <1>2, SetOfEmpty DEF Queued
    <2>2. Ordered(<<>>, <<>>)
      BY DEF Ordered
    <2> QED BY <1>2, <2>1, <2>2
  <1>3. ASSUME NEW c \in Challenges, c \notin issued, issued' = issued \cup {c},
               batch' = batch, queue' = Append(queue, PuzzleOf(c)) \/ queue' = queue
        PROVE  /\ Ordered(queue', batch')
               /\ \A d \in Challenges \ issued' :
                    PuzzleOf(d) \notin Queued' /\ VerifyOf(d) \notin Queued'
               /\ \A d \in Challenges : PuzzleOf(d) \in Queued' \/ d \notin issued'
                    => PuzzleOf(d) \in Queued \/ d \notin issued
    <2>1. PuzzleOf(c) \in Message
      BY RecordTypes DEF Message
    <2>2. Queued' \subseteq Queued \cup {PuzzleOf(c)}
      <3>1. ToSet(Append(queue, PuzzleOf(c))) = ToSet(queue) \cup {PuzzleOf(c)}
        BY <1>0, <2>1, SetOfAppend
      <3> QED BY <1>3, <3>1 DEF Queued
    <2>3. Ordered(Append(queue, PuzzleOf(c)), batch)
      <3>1. \A d \in Challenges : PuzzleOf(c) = PuzzleOf(d) =>
              {PuzzleOf(d), VerifyOf(d)} \cap (ToSet(queue) \cup ToSet(batch)) = {}
        BY <1>0, <1>3, RecordTypes DEF Queued
      <3> QED BY <1>0, <2>1, <3>1, OrderedAppend
    <2>4. Ordered(queue', batch')
      BY <1>0, <1>3, <2>3
    <2>5. ASSUME NEW d \in Challenges
          PROVE  /\ PuzzleOf(d) \in Queued' => PuzzleOf(d) \in Queued \/ d = c
                 /\ VerifyOf(d) \in Queued' => VerifyOf(d) \in Queued
      BY <2>2, RecordTypes
    <2> QED BY <1>0, <1>3, <2>4, <2>5
  <1>4. ASSUME issued' = issued, batch' = batch,
               NEW m \in Message, m \in ControlMsg \/ \E c \in issued : m = VerifyOf(c),
               queue' = Append(queue, m)
        PROVE  /\ Ordered(queue', batch')
               /\ \A d \in Challenges \ issued' :
                    PuzzleOf(d) \notin Queued' /\ VerifyOf(d) \notin Queued'
               /\ \A d \in Challenges : PuzzleOf(d) \in Queued' \/ d \notin issued'
                    => PuzzleOf(d) \in Queued \/ d \notin issued
    <2>0. issued \subseteq Challenges
      BY DEF TypeOK
    <2>1. \A d \in Challenges : m # PuzzleOf(d) /\ (m = VerifyOf(d) => d \in issued)
      <3>1. CASE m \in ControlMsg
        BY <3>1, RecordTypes, MessageKinds DEF Message
      <3>2. CASE \E c \in issued : m = VerifyOf(c)
        BY <2>0, <3>2, RecordTypes
      <3> QED BY <1>4, <3>1, <3>2
    <2>2. Queued' = Queued \cup {m}
      BY <1>0, <1>4, <2>1, SetOfAppend DEF Queued
    <2>3. Ordered(Append(queue, m), batch)
      <3>1. \A c \in Challenges : m = PuzzleOf(c) =>
              {PuzzleOf(c), VerifyOf(c)} \cap (ToSet(queue) \cup ToSet(batch)) = {}
        BY <2>1
      <3> QED BY <1>0, <2>1, <3>1, OrderedAppend
    <2>4. Ordered(queue', batch')
      BY <1>4, <2>3
    <2>5. \A d \in Challenges : /\ PuzzleOf(d) \in Queued' => PuzzleOf(d) \in Queued
                                /\ VerifyOf(d) \in Queued' =>
                                     VerifyOf(d) \in Queued \/ d \in issued
      BY <2>1, <2>2
    <2> QED BY <1>0, <1>4, <2>4, <2>5
  <1>5. CASE /\ issued' = issued /\ queue # <<>> /\ queue' = Tail(queue)
             /\ Head(queue) \in Message
             /\ \/ Head(queue) \in Record /\ batch' = Append(batch, Head(queue))
                \/ Head(queue) \in ControlMsg /\ batch' = batch
    <2>1. Ordered(queue', batch')
      BY <1>0, <1>5, OrderedTake
    <2>2. ToSet(queue) = {Head(queue)} \cup ToSet(queue')
      BY <1>0, <1>5, SetOfTail
    <2>3. ToSet(batch') \subseteq ToSet(batch) \cup {Head(queue)}
      <3>1. ASSUME Head(queue) \in Record
            PROVE  ToSet(Append(batch, Head(queue))) = ToSet(batch) \cup {Head(queue)}
        BY <1>0, <3>1, SetOfAppend
      <3> QED BY <1>5, <3>1
    <2>4. Queued' \subseteq Queued
      BY <2>2, <2>3 DEF Queued
    <2> QED BY <1>0, <1>5, <2>1, <2>4
  <1>6. CASE issued' = issued /\ queue' = queue /\ batch' = <<>>
    <2>1. ToSet(batch') = {} /\ Queued' \subseteq Queued
      BY <1>6, SetOfEmpty DEF Queued
    <2>2. Ordered(queue', batch')
      BY <1>0, <1>6, <2>1 DEF Ordered
    <2> QED BY <1>0, <1>6, <2>1, <2>2
  <1> QED BY LineStep, <1>1, <1>2, <1>3, <1>4, <1>5, <1>6

-----------------------------------------------------------------------------
(* Flush                                                                   *)

LEMMA FlushLastAppend ==
  ASSUME NEW q \in Seq(Message), NEW m \in Message, FlushLast(q),
         \A x \in ToSet(q) \cup {m} : IsRecord(m) => x.kind # "flush"
  PROVE  FlushLast(Append(q, m))
  <1> DEFINE r == Append(q, m)
             n == Len(q)
  <1>1. /\ Len(r) = n + 1 /\ r[n + 1] = m /\ n \in Nat
        /\ \A i \in 1 .. n : r[i] = q[i]
    OBVIOUS
  <1>2. \A i \in 1 .. n : q[i] \in ToSet(q)
    BY InSet
  <1> HIDE DEF r, n
  <1>3. \A i \in 1 .. n + 1 : IsRecord(m) => r[i].kind # "flush"
    BY <1>1, <1>2
  <1> SUFFICES ASSUME NEW i \in 1 .. n + 1, NEW j \in 1 .. n + 1, i <= j,
                      r[i].kind = "flush"
               PROVE  ~IsRecord(r[j])
    BY <1>1 DEF FlushLast, r
  <1>4. CASE j = n + 1
    BY <1>1, <1>3, <1>4
  <1>5. CASE j \in 1 .. n
    <2>1. i \in 1 .. n
      BY <1>1, <1>5
    <2>2. r[i] = q[i] /\ r[j] = q[j]
      BY <1>1, <1>5, <2>1
    <2> QED BY <1>5, <2>1, <2>2 DEF FlushLast, n
  <1> QED BY <1>1, <1>4, <1>5

LEMMA FlushLastTail ==
  ASSUME NEW q \in Seq(Message), q # <<>>, FlushLast(q)
  PROVE  /\ FlushLast(Tail(q))
         /\ Head(q).kind = "flush" => NoRecords(Tail(q))
  <1> DEFINE r == Tail(q)
             n == Len(q)
  <1>1. /\ Len(r) = n - 1 /\ n \in Nat /\ n >= 1 /\ Head(q) = q[1]
        /\ r \in Seq(Message) /\ \A i \in 1 .. n - 1 : r[i] = q[i + 1]
    BY SetOfTail
  <1>2. \A e : e \in ToSet(r) <=> \E i \in 1 .. Len(r) : r[i] = e
    BY <1>1, InSet
  <1> HIDE DEF r, n
  <1>3. ASSUME NEW i \in 1 .. n - 1
        PROVE  i + 1 \in 1 .. n /\ r[i] = q[i + 1] /\ 1 \in 1 .. n /\ 1 <= i + 1
    BY <1>1
  <1>4. FlushLast(r)
    <2> SUFFICES ASSUME NEW i \in 1 .. n - 1, NEW j \in 1 .. n - 1, i <= j,
                        r[i].kind = "flush"
                 PROVE  ~IsRecord(r[j])
      BY <1>1 DEF FlushLast
    <2>1. i + 1 <= j + 1
      BY <1>1
    <2> QED BY <1>3, <2>1 DEF FlushLast, n
  <1>5. ASSUME Head(q).kind = "flush" PROVE NoRecords(r)
    <2>1. \A i \in 1 .. n - 1 : ~IsRecord(r[i])
      BY <1>1, <1>3, <1>5 DEF FlushLast, n
    <2> QED BY <1>1, <1>2, <2>1 DEF NoRecords
  <1> QED BY <1>4, <1>5 DEF r

LEMMA FlushNext ==
  ASSUME TypeOK, WriterInv, FlushInv, [Next]_vars
  PROVE  FlushInv'
  <1> USE DEF writer, calls
  <1>0. queue \in Seq(Message) /\ batch \in Seq(Record)
    BY DEF TypeOK, Message
  <1>1. CASE Start
    <2>1. queue = <<>> /\ deferred = None /\ \A o \in Callers : call[o] = "idle"
      BY <1>1 DEF Start, WriterInv
    <2> QED BY <1>1, <2>1, SetOfEmpty DEF Start, FlushInv, FlushLast, NoRecords
  <1>2. CASE Crash \/ Exit
    BY <1>2, SetOfEmpty DEF Crash, Exit, Stopped, FlushInv, FlushLast
  <1>3. CASE Drain
    BY <1>3 DEF Drain, FlushInv, FlushLast, NoRecords, Stopping
  <1>4. CASE Tick \/ UNCHANGED vars
    BY <1>4 DEF Tick, vars, FlushInv, FlushLast, NoRecords, Stopping
  <1>5. ASSUME NEW m \in Record, phase = "up", Offer(m),
               UNCHANGED <<phase, deferred, call, msg>>
        PROVE  FlushInv'
    <2>1. m \in Message /\ \A x \in ToSet(queue) \cup {m} : x.kind # "flush"
      BY <1>5 DEF FlushInv, Stopping, Record, Message
    <2>2. /\ FlushLast(Append(queue, m))
          /\ ToSet(Append(queue, m)) = ToSet(queue) \cup {m}
      BY <1>0, <2>1, FlushLastAppend, SetOfAppend DEF FlushInv
    <2>3. FlushLast(queue') /\ ToSet(queue') \subseteq ToSet(queue) \cup {m}
      BY <1>5, <2>2, OfferStep DEF FlushInv
    <2> QED BY <1>5, <2>1, <2>3 DEF FlushInv, Stopping
  <1>6. ASSUME NEW c \in Challenges, RecordPuzzle(c) \/ RecordVerify(c) PROVE FlushInv'
    <2>1. PuzzleOf(c) \in Record /\ VerifyOf(c) \in Record
      BY RecordTypes
    <2> QED BY <1>5, <1>6, <2>1 DEF RecordPuzzle, RecordVerify, PuzzleOf, VerifyOf
  <1>7. ASSUME NEW o \in Callers, NEW m, Call(o, m), m.kind = "flush" => Stopping
        PROVE  FlushInv'
    <2>1. /\ UNCHANGED <<phase, queue, batch, deferred>>
          /\ \A p \in Callers : call'[p] = "send" =>
               \/ call[p] = "send" /\ msg'[p] = msg[p]
               \/ msg'[p] = m
      BY <1>7 DEF Call, TypeOK
    <2> QED BY <1>7, <2>1 DEF FlushInv, FlushLast, NoRecords, Stopping
  <1>8. CASE (\E o \in Operators : Request(o) \/ Flush(o)) \/ Prune
    BY <1>7, <1>8 DEF Request, Flush, Prune, Stopping, Callers
  <1>9. ASSUME NEW o \in Callers, Send(o) PROVE FlushInv'
    <2> DEFINE m == msg[o]
    <2>1. m \in ControlMsg /\ m \in Message /\ (m.kind = "flush" => Stopping)
      BY <1>9 DEF Send, TypeOK, Message, FlushInv
    <2>2. ~IsRecord(m)
      BY <2>1, MessageKinds
    <2> HIDE DEF m
    <2>3. /\ FlushLast(Append(queue, m))
          /\ ToSet(Append(queue, m)) = ToSet(queue) \cup {m}
      BY <1>0, <2>1, <2>2, FlushLastAppend, SetOfAppend DEF FlushInv
    <2>4. /\ queue' = Append(queue, m) /\ UNCHANGED <<phase, batch, deferred, msg>>
          /\ \A p \in Callers : call'[p] = "send" => call[p] = "send"
      BY <1>9 DEF Send, TypeOK, m
    <2> QED BY <2>1, <2>2, <2>3, <2>4 DEF FlushInv, NoRecords, Stopping
  <1>10. CASE Receive \/ DrainOne
    <2> DEFINE h == Head(queue)
    <2>1. /\ queue # <<>> /\ queue' = Tail(queue) /\ UNCHANGED <<phase, call, msg>>
          /\ h \in Message
          /\ \/ h \in Record /\ deferred' = None
             \/ h \in ControlMsg /\ batch' = batch /\ deferred' = h
      BY <1>10, TakeStep DEF Message
    <2>2. /\ FlushLast(queue') /\ ToSet(queue) = {h} \cup ToSet(queue')
          /\ h.kind = "flush" => NoRecords(queue')
      BY <1>0, <2>1, FlushLastTail, SetOfTail DEF FlushInv
    <2> HIDE DEF h
    <2>3. h \in Record => phase # "flushed"
      <3>1. h \in Record => IsRecord(h) /\ h \in ToSet(queue)
        BY <2>1, <2>2, MessageKinds DEF Message
      <3> QED BY <3>1 DEF FlushInv, NoRecords
    <2> QED BY <2>1, <2>2, <2>3 DEF FlushInv, NoRecords, Stopping
  <1>11. CASE CommitBatch \/ FailBatch
    BY <1>11 DEF CommitBatch, FailBatch, AfterBatch, FlushInv, NoRecords, Stopping
  <1>12. ASSUME wpc = "control", Acknowledge,
                phase' = phase \/ (phase' = "flushed" /\ deferred.kind = "flush")
         PROVE  FlushInv'
    <2>1. /\ UNCHANGED <<queue, batch>> /\ deferred' = None /\ batch = <<>>
          /\ \A o \in Callers : call'[o] = "send" => call[o] = "send" /\ msg'[o] = msg[o]
      BY <1>12, AcknowledgeStep
    <2>2. CASE phase' = phase
      BY <2>1, <2>2 DEF FlushInv, NoRecords, Stopping
    <2>3. CASE phase' = "flushed" /\ deferred.kind = "flush"
      <3>1. NoRecords(queue) \/ deferred = None
        BY <2>3 DEF FlushInv
      <3>2. deferred \in ControlMsg
        BY <1>12 DEF WriterInv
      <3> QED BY <2>1, <2>3, <3>1, <3>2, LogAssumption DEF FlushInv, NoRecords, Stopping
    <2> QED BY <1>12, <2>2, <2>3
  <1>13. CASE Control
    BY <1>12, <1>13 DEF Control, DoClear, DoErase, DoPrune, DoLabel, DoFlush, FailControl
  <1> QED BY <1>1, <1>2, <1>3, <1>4, <1>6, <1>8, <1>9, <1>10, <1>11, <1>13
          DEF Next, Write

-----------------------------------------------------------------------------
(* The tables                                                              *)

(* A table may lose what it knows of a challenge, or know nothing new.     *)
LEMMA Forgets ==
  ASSUME NEW c \in Challenges, TypeOK, KnownInv(c), AgeInv(c), Unknown(c)' => Unknown(c),
         now' \in {now, now + 1}, verdict'[c] = verdict[c],
         puzzles'[c] \in {puzzles[c], None}, samples'[c] \in {samples[c], None},
         verifies'[c] \subseteq verifies[c],
         labels'[c] = IF puzzles'[c] = None THEN None ELSE labels[c],
         c \in erased' => c \in erased \/ (~Unknown(c) /\ puzzles'[c] = None
                                            /\ samples'[c] = None)
  PROVE  KnownInv(c)' /\ AgeInv(c)'
  <1>1. puzzles[c] \in Nat \cup {None} /\ verifies[c] \subseteq Nat /\ now \in Nat
    BY DEF TypeOK
  <1>2. KnownInv(c)'
    BY DEF KnownInv
  <1>3. AgeInv(c)'
    BY <1>1 DEF AgeInv
  <1> QED BY <1>2, <1>3

LEMMA CommitTables ==
  ASSUME NEW c \in Challenges, TypeOK, LineInv, KnownInv(c), AgeInv(c), CommitBatch
  PROVE  KnownInv(c)' /\ AgeInv(c)'
  <1>1. /\ UNCHANGED <<now, queue, issued, labels, samples, verdict, erased>>
        /\ puzzles'[c] = IF PuzzleOf(c) \in ToSet(batch) THEN now ELSE puzzles[c]
        /\ verifies'[c] = IF VerifyOf(c) \in ToSet(batch)
                            THEN verifies[c] \cup {now} ELSE verifies[c]
        /\ batch' = <<>>
    BY DEF CommitBatch, AfterBatch, PuzzleOf, VerifyOf, made
  <1>2. Unknown(c)' <=> PuzzleOf(c) \in ToSet(queue) \/ c \notin issued
    BY <1>1, SetOfEmpty DEF Unknown, Queued
  <1>3. Unknown(c)' => /\ PuzzleOf(c) \notin ToSet(batch)
                       /\ VerifyOf(c) \notin ToSet(batch) /\ Unknown(c)
    <2>1. CASE c \notin issued
      BY <2>1 DEF LineInv, IssuedInv, Unknown, Queued
    <2>2. CASE PuzzleOf(c) \in ToSet(queue)
      <3>1. PICK i \in 1 .. Len(queue) : queue[i] = PuzzleOf(c)
        BY <2>2, InSet DEF TypeOK
      <3> QED BY <2>2, <3>1 DEF LineInv, OrderInv, Ordered, Unknown, Queued
    <2> QED BY <1>2, <2>1, <2>2
  <1>4. puzzles[c] \in Nat \cup {None} /\ verifies[c] \subseteq Nat /\ now \in Nat
    BY DEF TypeOK
  <1>5. CASE PuzzleOf(c) \in ToSet(batch)
    <2>1. Unknown(c)
      BY <1>5 DEF Unknown, Queued
    <2>2. KnownInv(c)'
      BY <1>1, <1>3, <1>5, <2>1 DEF KnownInv
    <2>3. verifies'[c] \subseteq {now} /\ puzzles'[c] = now
      BY <1>1, <1>5, <2>1 DEF KnownInv
    <2> QED BY <1>1, <1>4, <2>2, <2>3 DEF AgeInv
  <1>6. CASE PuzzleOf(c) \notin ToSet(batch)
    <2>1. KnownInv(c)'
      BY <1>1, <1>3, <1>6 DEF KnownInv
    <2> QED BY <1>1, <1>4, <1>6, <2>1 DEF AgeInv
  <1> QED BY <1>5, <1>6

LEMMA PruneTables ==
  ASSUME NEW c \in Challenges, TypeOK, WriterInv, KnownInv(c), AgeInv(c), DoPrune,
         Unknown(c)' => Unknown(c)
  PROVE  KnownInv(c)' /\ AgeInv(c)'
  <1> DEFINE cutoff == deferred.cutoff
             kept == deferred.training_cutoff
             table == IF kept = None THEN samples ELSE Folded(cutoff)
  <1>1. /\ wpc = "control" /\ Acknowledge /\ UNCHANGED <<verdict, erased>>
        /\ samples' = Unexpired(table, kept)
        /\ puzzles'[c] = IF puzzles[c] # None /\ puzzles[c] < cutoff THEN None
                                                                   ELSE puzzles[c]
        /\ labels'[c] = IF puzzles'[c] = None THEN None ELSE labels[c]
        /\ verifies'[c] \subseteq verifies[c]
    BY DEF DoPrune
  <1>2. now' = now
    BY <1>1, AcknowledgeStep
  <1>3. table \in [Challenges -> Sample \cup {None}]
    BY FoldedType DEF TypeOK
  <1>4. \/ table[c] = samples[c]
        \/ /\ puzzles[c] # None /\ puzzles[c] < cutoff /\ table[c].label = labels[c]
    BY FoldedType
  <1> HIDE DEF table, kept, cutoff
  <1>5. samples'[c] \in {table[c], None}
    BY <1>1, <1>3, UnexpiredType
  <1>6. CASE table[c] = samples[c]
    BY <1>1, <1>2, <1>5, <1>6, Forgets
  <1>7. CASE puzzles[c] # None /\ puzzles[c] < cutoff /\ table[c].label = labels[c]
    <2>1. puzzles'[c] = None /\ labels'[c] = None /\ labels[c] = verdict[c] /\ ~Unknown(c)
      BY <1>1, <1>7 DEF KnownInv
    <2>2. KnownInv(c)'
      BY <1>1, <1>5, <1>7, <2>1 DEF KnownInv
    <2> QED BY <1>1, <1>2, <2>1, <2>2 DEF AgeInv
  <1> QED BY <1>4, <1>6, <1>7

LEMMA EraseTables ==
  ASSUME NEW c \in Challenges, TypeOK, WriterInv, KnownInv(c), AgeInv(c), DoErase,
         Unknown(c)' => Unknown(c)
  PROVE  KnownInv(c)' /\ AgeInv(c)'
  <1>1. PICK s \in Sites, d \in Challenges \cup {None} :
          LET gone == Covered(s, d) IN
          /\ wpc = "control"
          /\ verifies' = [e \in Challenges |->
               IF e \in gone /\ (puzzles[e] # None \/ samples[e] # None)
                 THEN {} ELSE verifies[e]]
          /\ labels' = Without(labels, gone)
          /\ samples' = Without(samples, gone)
          /\ puzzles' = Without(puzzles, gone)
          /\ erased' = erased \cup Recorded(gone)
          /\ Acknowledge
          /\ UNCHANGED <<phase, failures, verdict>>
    BY DEF DoErase
  <1> DEFINE gone == Covered(s, d)
  <1>2. now' = now
    BY <1>1, AcknowledgeStep
  <1>3. /\ verifies'[c] \subseteq verifies[c]
        /\ labels'[c] = IF c \in gone THEN None ELSE labels[c]
        /\ samples'[c] = IF c \in gone THEN None ELSE samples[c]
        /\ puzzles'[c] = IF c \in gone THEN None ELSE puzzles[c]
    BY <1>1 DEF Without
  <1>4. c \in Recorded(gone) => c \in gone /\ ~Unknown(c)
    <2>1. PuzzleOf(c) \in Queued => PuzzleOf(c) \in Unsettled
      BY DEF Queued, Unsettled, IsRecord, PuzzleOf
    <2> QED BY <2>1 DEF Recorded, Unknown, PuzzleOf
  <1>5. c \in erased' <=> c \in erased \/ c \in Recorded(gone)
    BY <1>1
  <1> HIDE DEF gone
  <1>6. labels'[c] = IF puzzles'[c] = None THEN None ELSE labels[c]
    BY <1>3 DEF KnownInv
  <1> QED BY <1>1, <1>2, <1>3, <1>4, <1>5, <1>6, Forgets

LEMMA LabelTables ==
  ASSUME NEW c \in Challenges, TypeOK, WriterInv, KnownInv(c), AgeInv(c), DoLabel,
         Unknown(c)' => Unknown(c)
  PROVE  KnownInv(c)' /\ AgeInv(c)'
  <1>1. PICK s \in Sites, d \in Challenges, v \in Verdicts :
          /\ wpc = "control"
          /\ samples' = IF Found(s, d) /\ samples[d] # None
                          THEN [samples EXCEPT ![d].label = v] ELSE samples
          /\ labels' = IF Found(s, d) /\ samples[d] = None
                         THEN [labels EXCEPT ![d] = v] ELSE labels
          /\ verdict' = IF Found(SiteOf[d], d) /\ s = SiteOf[d]
                          THEN [verdict EXCEPT ![d] = v] ELSE verdict
          /\ Acknowledge
          /\ UNCHANGED <<phase, puzzles, verifies, failures, erased>>
    BY DEF DoLabel
  <1>2. now' = now
    BY <1>1, AcknowledgeStep
  <1>3. AgeInv(c)'
    BY <1>1, <1>2 DEF AgeInv
  <1>4. Found(s, d) <=> Found(SiteOf[d], d) /\ s = SiteOf[d]
    BY DEF Found
  <1>5. CASE c # d \/ ~Found(s, d)
    <2>1. samples'[c] = samples[c] /\ labels'[c] = labels[c] /\ verdict'[c] = verdict[c]
      BY <1>1, <1>4, <1>5 DEF TypeOK
    <2> QED BY <1>1, <1>3, <2>1 DEF KnownInv
  <1>6. CASE c = d /\ Found(s, d)
    <2>1. ~Unknown(c) /\ verdict'[c] = v
      BY <1>1, <1>4, <1>6 DEF KnownInv, Found, TypeOK
    <2>2. CASE samples[c] # None
      <3>1. samples[c] \in Sample /\ puzzles[c] = None
        BY <2>2 DEF TypeOK, KnownInv
      <3>2. samples'[c] = [samples[c] EXCEPT !.label = v] /\ labels'[c] = labels[c]
        BY <1>1, <1>6, <2>2 DEF TypeOK
      <3>3. samples'[c].label = v
        BY <3>1, <3>2 DEF Sample
      <3> QED BY <1>1, <1>3, <2>1, <2>2, <3>1, <3>2, <3>3 DEF KnownInv
    <2>3. CASE samples[c] = None
      <3>1. puzzles[c] # None
        BY <1>6, <2>3 DEF Found
      <3>2. samples'[c] = None /\ labels'[c] = v
        BY <1>1, <1>6, <2>3 DEF TypeOK
      <3> QED BY <1>1, <1>3, <2>1, <3>1, <3>2 DEF KnownInv
    <2> QED BY <2>2, <2>3
  <1> QED BY <1>5, <1>6

LEMMA TablesNext ==
  ASSUME TypeOK, WriterInv, LineInv, TablesInv, [Next]_vars
  PROVE  TablesInv'
  <1> SUFFICES ASSUME NEW c \in Challenges PROVE KnownInv(c)' /\ AgeInv(c)'
    BY DEF TablesInv
  <1>0. KnownInv(c) /\ AgeInv(c) /\ (Unknown(c)' => Unknown(c))
    BY LineNext DEF TablesInv
  <1>1. CASE UNCHANGED <<tables, verdict, erased>> /\ now' \in {now, now + 1}
    <2>1. /\ puzzles'[c] = puzzles[c] /\ samples'[c] = samples[c]
          /\ verifies'[c] = verifies[c] /\ labels'[c] = labels[c]
          /\ verdict'[c] = verdict[c] /\ erased' = erased
          /\ labels[c] # None => puzzles[c] # None
      BY <1>0, <1>1 DEF tables, KnownInv
    <2> QED BY <1>0, <1>1, <2>1, Forgets
  <1>2. CASE Start
    <2>1. samples'[c] \in {samples[c], None}
      BY <1>2, UnexpiredType DEF Start, TypeOK
    <2>2. /\ UNCHANGED <<now, puzzles, verifies, labels, verdict, erased>>
          /\ labels[c] # None => puzzles[c] # None
      BY <1>0, <1>2 DEF Start, KnownInv
    <2> QED BY <1>0, <2>1, <2>2, Forgets
  <1>3. CASE DoClear
    <2>1. now' = now
      BY <1>3, AcknowledgeStep DEF DoClear
    <2> QED BY <1>0, <1>3, <2>1, Forgets DEF DoClear
  <1>4. CASE DoFlush \/ FailControl
    BY <1>1, <1>4 DEF DoFlush, FailControl, Acknowledge
  <1>5. CASE Crash \/ Exit \/ Drain \/ Tick \/ UNCHANGED vars
    BY <1>1, <1>5 DEF Crash, Exit, Stopped, Drain, Tick, vars
  <1>6. CASE \/ \E d \in Challenges : RecordPuzzle(d) \/ RecordVerify(d)
             \/ \E o \in Operators : Request(o) \/ Flush(o)
             \/ Prune
             \/ \E o \in Callers : Send(o)
             \/ Receive \/ DrainOne \/ FailBatch
    BY <1>1, <1>6 DEF RecordPuzzle, RecordVerify, Request, Flush, Prune, Call, Send,
                      Receive, DrainOne, FailBatch, AfterBatch, tables
  <1> QED BY <1>0, <1>2, <1>3, <1>4, <1>5, <1>6, CommitTables, PruneTables, EraseTables,
             LabelTables DEF Next, Write, Control

-----------------------------------------------------------------------------
(* Theorems                                                                *)

LEMMA InitInv == Init => Inv
  <1> SUFFICES ASSUME Init PROVE Inv
    OBVIOUS
  <1>1. TypeOK
    BY DEF Init, TypeOK
  <1>2. WriterInv /\ FlushInv
    BY SetOfEmpty DEF Init, WriterInv, FlushInv, FlushLast
  <1>3. LineInv
    BY SetOfEmpty DEF Init, LineInv, OrderInv, Ordered, IssuedInv, Queued
  <1>4. TablesInv
    BY DEF Init, TablesInv, KnownInv, AgeInv
  <1> QED BY <1>1, <1>2, <1>3, <1>4 DEF Inv

LEMMA InvAlways == Spec => []Inv
  <1>1. Inv /\ [Next]_vars => Inv'
    BY TypeNext, FlushNext, LineNext, TablesNext DEF Inv
  <1> QED BY InitInv, <1>1, PTL DEF Spec

(* Every reachable state of the decision log is well typed: what is queued *)
(* is a record or a control message, and the tables hold times, verdicts   *)
(* and samples.                                                            *)
THEOREM LogTypeCorrect == Spec => []TypeOK
  <1>1. Inv => TypeOK
    BY DEF Inv
  <1> QED BY InvAlways, <1>1, PTL

(* A decision is never both a live row and a training sample: prune_before *)
(* folds and deletes in one transaction, and no record is written twice.   *)
THEOREM RowOrSampleHolds == Spec => []RowOrSample
  <1>1. Inv => RowOrSample
    BY DEF Inv, TablesInv, KnownInv, RowOrSample
  <1> QED BY InvAlways, <1>1, PTL

(* Wherever a decision lives, it carries the last verdict that apply_label *)
(* accepted from the site of its challenge, and no other.                  *)
THEOREM LabelsFollowDecisionsHolds == Spec => []LabelsFollowDecisions
  <1>1. Inv => LabelsFollowDecisions
    BY DEF Inv, TablesInv, KnownInv, LabelsFollowDecisions
  <1> QED BY InvAlways, <1>1, PTL

(* What erase_records removed after it was recorded never comes back, by a *)
(* batch in flight, a fold or a verdict.                                   *)
THEOREM ErasedStaysErasedHolds == Spec => []ErasedStaysErased
  <1>1. Inv => ErasedStaysErased
    BY DEF Inv, TypeOK, TablesInv, KnownInv, ErasedStaysErased
  <1> QED BY InvAlways, <1>1, PTL

(* When the flush of a graceful stop is answered, no accepted record is    *)
(* left in the queue or in an open batch, whatever its sizes.              *)
THEOREM GracefulStopHolds == Spec => []GracefulStopWritesAll
  <1>1. Inv => GracefulStopWritesAll
    BY SetOfEmpty DEF Inv, FlushInv, NoRecords, Unsettled, GracefulStopWritesAll
  <1> QED BY InvAlways, <1>1, PTL

(* A verify row goes no sooner than its puzzle row.                        *)
LEMMA VerifyStays ==
  ASSUME Inv, [Next]_vars, NEW c \in Challenges, NEW t \in verifies[c],
         puzzles[c] # None, puzzles'[c] # None
  PROVE  t \in verifies'[c]
  <1> USE DEF tables
  <1>1. CASE Start \/ Crash \/ Exit \/ Drain \/ Tick \/ UNCHANGED vars
    BY <1>1 DEF Start, Crash, Exit, Stopped, Drain, Tick, vars
  <1>2. CASE \/ \E d \in Challenges : RecordPuzzle(d) \/ RecordVerify(d)
             \/ \E o \in Operators : Request(o) \/ Flush(o)
             \/ Prune
             \/ \E o \in Callers : Send(o)
             \/ Receive \/ DrainOne \/ FailBatch
    BY <1>2 DEF RecordPuzzle, RecordVerify, Request, Flush, Prune, Call, Send,
                Receive, DrainOne, FailBatch
  <1>3. CASE CommitBatch
    BY <1>3 DEF CommitBatch
  <1>4. CASE DoClear \/ DoLabel \/ DoFlush \/ FailControl
    BY <1>4 DEF DoClear, DoLabel, DoFlush, FailControl
  <1>5. CASE DoErase
    BY <1>5 DEF DoErase, Without
  <1>6. CASE DoPrune
    <2>1. deferred \in ControlMsg /\ deferred.kind = "prune"
      BY <1>6 DEF DoPrune, Inv, WriterInv
    <2>2. deferred.cutoff \in Int
      BY <2>1 DEF ControlMsg
    <2>3. /\ puzzles[c] \in Nat /\ t \in Nat /\ puzzles[c] <= t
      BY DEF Inv, TypeOK, TablesInv, AgeInv
    <2>4. ~(puzzles[c] < deferred.cutoff)
      BY <1>6 DEF DoPrune
    <2> QED BY <1>6, <2>2, <2>3, <2>4 DEF DoPrune
  <1> QED BY <1>1, <1>2, <1>3, <1>4, <1>5, <1>6 DEF Next, Write, Control

LEMMA SessionMember ==
  ASSUME NEW s
  PROVE  s \in Sessions <=>
           \E c \in Challenges : /\ puzzles[c] # None
             /\ \E t \in IF verifies[c] = {} THEN {None} ELSE verifies[c] :
                  s = [challenge |-> c, verify |-> t]
  BY DEF Sessions

(* While a session is listed (list, get and stats), none of its            *)
(* verifications vanishes from it: pruning each table by its own ts keeps  *)
(* the join consistent, because the queue keeps the order of the requests. *)
THEOREM SessionsKeptHolds == Spec => SessionsKept
  <1> DEFINE Kept == \A s \in Sessions :
        s.verify # None /\ puzzles'[s.challenge] # None => s \in Sessions'
  <1>1. Inv /\ [Next]_vars => Kept
    <2> SUFFICES ASSUME Inv, [Next]_vars, NEW s \in Sessions, s.verify # None,
                        puzzles'[s.challenge] # None
                 PROVE  s \in Sessions'
      OBVIOUS
    <2>1. PICK c \in Challenges : /\ puzzles[c] # None
            /\ \E t \in IF verifies[c] = {} THEN {None} ELSE verifies[c] :
                 s = [challenge |-> c, verify |-> t]
      BY SessionMember
    <2>2. PICK t \in IF verifies[c] = {} THEN {None} ELSE verifies[c] :
                 s = [challenge |-> c, verify |-> t]
      BY <2>1
    <2>3. t \in verifies[c] /\ puzzles'[c] # None
      BY <2>2
    <2>4. t \in verifies'[c]
      BY <2>1, <2>3, VerifyStays
    <2> QED BY <2>2, <2>3, <2>4 DEF Sessions
  <1> QED BY InvAlways, <1>1, PTL DEF Spec, SessionsKept

=============================================================================

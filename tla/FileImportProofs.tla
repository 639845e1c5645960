-------------------------- MODULE FileImportProofs --------------------------
(***************************************************************************)
(* For files, batches, requests, allocations and leases of any size, any   *)
(* number of runs and any number of faults: a checkpoint is only saved     *)
(* when every row before it is in D1, a file is only declared complete     *)
(* when every row is that the database keeps (CheckpointSound), and        *)
(* FileImport implements ResumableFile.                                    *)
(*                                                                         *)
(* The argument follows the data.  Every statement that is cut starts and  *)
(* ends where a row starts (ProducerSound), and stays what it is in the    *)
(* channel, among the pending ones and in the groups (InFlight).  The rows *)
(* of a group that D1 has applied are in the table (GroupsSound), hence    *)
(* those of a statement whose status is success (StatusesSound).  The walk *)
(* over such statuses only reaches checkpoints with every earlier row in   *)
(* the table (WalkReaches), hence so is what is to be saved (OutcomeSound) *)
(* and what is saved (SavedSound).  None of this depends on which groups   *)
(* have been joined, in which order, or on statements being disjoint.      *)
(* Where the header has no column of the table, nothing is kept and the    *)
(* file may be done at any position.                                       *)
(***************************************************************************)
EXTENDS FileImport, SumTheorems, FiniteSetTheorems

USE ImportAssumption

(* Where a row starts, or the file ends. *)
Positions == {c \in Checkpoint : c.line <= NumRows /\ c.byte = HeaderEnd + c.line}

(* What a statement may be: at least one row, from a position to another. *)
Cuts == {b \in Batch : /\ b.start \in Positions
                       /\ b.end \in Positions
                       /\ b.start.line < b.end.line}

(* A file is resumed at a position, or where an earlier version, which saved
   no byte offset, was among its rows. *)
Resumes(c) ==
  /\ c.line <= NumRows
  /\ c.byte # 0 => c.byte = HeaderEnd + c.line

(* All rows that the database keeps of the file are before this line. *)
Exhausts(line) == matched => line = NumRows

(* Resuming there skips no row that is missing. *)
Reached(c) == Resumes(c) /\ 0..c.line - 1 \subseteq table

ProducerSound ==
  /\ Resumes(producer.at)
  /\ producer.outbox \in Seq(Cuts)
  /\ producer.state = "reading" =>
       /\ producer.start \in Positions
       /\ producer.at \in Positions
       /\ producer.start.line <= producer.at.line
  /\ producer.state \in {"opening", "reading"} => ~producer.done
  /\ producer.done => Exhausts(producer.at.line)

InFlight ==
  /\ channel \in Seq(Cuts)
  /\ pending \subseteq Cuts
  /\ \A g \in groups : g.batches \subseteq Cuts
  /\ pc # "importing" => groups = {}

GroupSound(g) ==
  /\ g.stage \in {"applied", "success"} => RowsOf(g.batches) \subseteq table
  /\ g.stage = "applied" => g.writes <= MaximumWrites(g.batches)

GroupsSound == \A g \in groups : GroupSound(g)

StatusesSound ==
  \A l \in DOMAIN statuses :
    /\ statuses[l].end \in Positions
    /\ l < statuses[l].end.line
    /\ statuses[l].ok => l..statuses[l].end.line - 1 \subseteq table

(* What a call was given and what it is to save; the saved status is
   incomplete for as long as a call may still save one. *)
OutcomeSound ==
  /\ Reached(base)
  /\ Reached(outcome)
  /\ outcome.status = 0 => Exhausts(outcome.line)
  /\ pc # "idle" => saved.line <= outcome.line
  /\ pc \in {"starting", "importing"} => outcome = ProgressAt(base, 1)
  /\ pc \in {"starting", "importing", "saving"} => saved.status = 1
  /\ pc = "answering" => saved = outcome
  /\ pc = "ended" /\ verdict = "ok" => saved.status = outcome.status

SavedSound == Reached(saved) /\ (saved.status = 0 => Exhausts(saved.line))

Support ==
  /\ ProducerSound
  /\ InFlight
  /\ GroupsSound
  /\ StatusesSound
  /\ OutcomeSound
  /\ SavedSound

IInv == TypeOK /\ Support

-----------------------------------------------------------------------------
(* Checkpoints, statements and their rows *)

LEMMA PositionResumes ==
  \A c \in Positions : c \in Checkpoint /\ Resumes(c)
  BY DEF Positions, Resumes

LEMMA CutsTyped == Cuts \subseteq Batch
  BY DEF Cuts

(* The rows of statements are rows of the file; there are finitely many, so
   what a request may write is a number. *)
LEMMA RowsOfCuts ==
  ASSUME NEW B, B \subseteq Cuts
  PROVE  /\ RowsOf(B) \subseteq 0..NumRows - 1
         /\ IsFiniteSet(RowsOf(B))
         /\ Cardinality(RowsOf(B)) \in Nat
         /\ MaximumWrites(B) \in Nat
<1>1. RowsOf(B) \subseteq 0..NumRows - 1
  <2>1. ASSUME NEW b \in B PROVE LinesOf(b) \subseteq 0..NumRows - 1
    <3>1. b.start.line \in Nat /\ b.end.line \in Nat /\ b.end.line <= NumRows
      BY DEF Cuts, Positions, Batch, Checkpoint
    <3> QED BY <3>1 DEF LinesOf
  <2> QED BY <2>1 DEF RowsOf
<1>2. IsFiniteSet(0..NumRows - 1)
  BY FS_Interval
<1>3. IsFiniteSet(RowsOf(B))
  BY <1>1, <1>2, FS_Subset
<1>4. Cardinality(RowsOf(B)) \in Nat
  BY <1>3, FS_CardinalityType
<1> QED BY <1>1, <1>3, <1>4 DEF MaximumWrites, MaxWritesPerLogicalRow

(* What a request writes stays within what was reserved for it. *)
LEMMA WritesWithinMaximum ==
  ASSUME NEW B, B \subseteq Cuts, NEW T, NEW perRow \in {1, MaxWritesPerLogicalRow}
  PROVE  /\ perRow * Cardinality(RowsOf(B) \ T) \in Nat
         /\ perRow * Cardinality(RowsOf(B) \ T) <= MaximumWrites(B)
<1> DEFINE m == Cardinality(RowsOf(B))
           n == Cardinality(RowsOf(B) \ T)
<1>1. IsFiniteSet(RowsOf(B)) /\ m \in Nat
  BY RowsOfCuts
<1>2. IsFiniteSet(RowsOf(B) \ T) /\ n <= m
  BY <1>1, FS_Subset
<1>3. n \in Nat
  BY <1>2, FS_CardinalityType
<1>4. MaximumWrites(B) = 3 * m
  BY DEF MaximumWrites, MaxWritesPerLogicalRow
<1>5. perRow = 1 \/ perRow = 3
  BY DEF MaxWritesPerLogicalRow
<1> HIDE DEF m, n
<1>6. perRow * n \in Nat /\ perRow * n <= 3 * m
  BY <1>1, <1>2, <1>3, <1>5
<1> QED BY <1>4, <1>6 DEF n

-----------------------------------------------------------------------------
(* contiguous_committed_checkpoint *)

(* The checkpoints the walk may stop at when every success is in the table *)
Safe(from, sts) ==
  {c \in {from} \cup {sts[l].end : l \in DOMAIN sts} :
     /\ c \in Checkpoint
     /\ c.line <= NumRows
     /\ Reached(c)
     /\ from.line <= c.line}

LEMMA WalkStays ==
  ASSUME NEW from \in Checkpoint, NEW c, NEW sts,
         c \in Safe(from, sts), Continues(c, sts),
         \A l \in DOMAIN sts :
           /\ sts[l].end \in Positions
           /\ sts[l].ok => l..sts[l].end.line - 1 \subseteq table
  PROVE  sts[c.line].end \in Safe(from, sts)
<1> DEFINE l == c.line
           d == sts[l].end
<1>1. /\ l \in DOMAIN sts /\ l \in Nat /\ from.line <= l /\ from.line \in Nat
      /\ 0..l - 1 \subseteq table
      /\ sts[l].ok /\ d.line > l
  BY DEF Continues, Safe, Reached, Checkpoint
<1>2. d \in Positions /\ l..d.line - 1 \subseteq table
  BY <1>1
<1>3. d \in Checkpoint /\ Resumes(d) /\ d.line \in Nat /\ d.line <= NumRows
  BY <1>2, PositionResumes DEF Positions, Checkpoint
<1>4. 0..d.line - 1 \subseteq table
  <2>1. ASSUME NEW i \in 0..d.line - 1 PROVE i \in table
    <3>1. i \in 0..l - 1 \/ i \in l..d.line - 1
      BY <1>1, <1>3
    <3> QED BY <1>1, <1>2, <3>1
  <2> QED BY <2>1
<1>5. from.line <= d.line
  BY <1>1, <1>3
<1> QED BY <1>1, <1>3, <1>4, <1>5 DEF Safe, Reached

(* A set of checkpoints with bounded lines has one with a last line. *)
LEMMA LastLine ==
  ASSUME NEW S, S # {}, \A c \in S : c.line \in Nat /\ c.line <= NumRows
  PROVE  \E c \in S : \A d \in S : d.line <= c.line
<1> DEFINE T == {NumRows - c.line : c \in S}
<1>1. T \subseteq Nat /\ T # {}
  OBVIOUS
<1>2. PICK m \in T : \A k \in T : m <= k
  <2> HIDE DEF T
  <2> QED BY <1>1, LeastElement
<1>3. PICK c \in S : m = NumRows - c.line
  OBVIOUS
<1>4. \A d \in S : NumRows - c.line <= NumRows - d.line
  BY <1>2, <1>3
<1>5. \A d \in S : d.line <= c.line
  BY <1>4
<1> QED BY <1>5

(* The walk over the statuses stops at a checkpoint with every earlier row in
   the table, not before the one the call was given. *)
LEMMA WalkReaches ==
  ASSUME NEW from \in Checkpoint, from.line <= NumRows, Reached(from), NEW sts,
         \A l \in DOMAIN sts :
           /\ sts[l].end \in Positions
           /\ sts[l].ok => l..sts[l].end.line - 1 \subseteq table
  PROVE  ContiguousCommittedCheckpoint(from, sts) \in Safe(from, sts)
<1> DEFINE candidates == {from} \cup {sts[l].end : l \in DOMAIN sts}
           Closed(S) == from \in S /\ \A c \in S : Continues(c, sts) => sts[c.line].end \in S
           W == {c \in candidates : \A S \in SUBSET candidates : Closed(S) => c \in S}
<1>1. Visited(from, sts) = W
  BY DEF Visited
<1>2. Safe(from, sts) \in SUBSET candidates
  BY DEF Safe
<1>3. from \in Safe(from, sts)
  BY DEF Safe, Checkpoint
<1>4. Closed(Safe(from, sts))
  BY <1>3, WalkStays
<1>5. W \subseteq Safe(from, sts)
  BY <1>2, <1>4
<1>6. from \in W
  OBVIOUS
<1>7. \A c \in W : c.line \in Nat /\ c.line <= NumRows
  BY <1>5 DEF Safe, Checkpoint
<1>8. \E c \in W : \A d \in W : d.line <= c.line
  <2> HIDE DEF W
  <2> QED BY <1>6, <1>7, LastLine
<1>9. ContiguousCommittedCheckpoint(from, sts) \in W
  <2> HIDE DEF W
  <2> QED BY <1>1, <1>8 DEF ContiguousCommittedCheckpoint
<1> QED BY <1>5, <1>9

-----------------------------------------------------------------------------
(* The kinds of steps, and what each leaves alone *)

Working(g) ==
  \/ TakePermit(g) \/ ReserveImportWrites(g) \/ RefuseImportWrites(g)
  \/ SendRequest(g) \/ ApplyRequest(g) \/ FinishGroup(g)
  \/ FailGroup(g) \/ PanicGroup(g)

Restart == StartRun \/ NextWave \/ EndRun \/ Crash

Producing == Produce \/ BreakReading

(* Everything but the call itself *)
Aside ==
  \/ SkipFile \/ BeginFile \/ Conclude \/ ApplySave \/ AnswerSave \/ WithholdSave
  \/ OthersClaim \/ OthersSpend \/ ClosePhase \/ RefuseFile \/ FailSave
  \/ UNCHANGED vars

LEMMA StepKinds ==
  [Next]_vars => Producing \/ Upload \/ (\E g \in groups : Working(g)) \/ Restart \/ Aside
  BY DEF Next, Flush, Conduct, Disturb, Complete, Producing, Working, Restart, Aside

LEMMA ProducingFrame == Producing => UNCHANGED others
  BY DEF Producing, Produce, OpenFile, AppendRow, SplitStatement, StopReading,
         BreakReading, SendStatement, SendFails

LEMMA UploadFrame == Upload => UNCHANGED outside
  BY DEF Upload, Receive, SpawnGroup, SpawnRest, JoinGroup

LEMMA AsideFrame == Aside => UNCHANGED <<table, call>>
  BY DEF Aside, SkipFile, BeginFile, Conclude, ApplySave, AnswerSave, WithholdSave,
         OthersClaim, OthersSpend, ClosePhase, RefuseFile, FailSave, inputs, vars

(* The file and the schema stay what they are. *)
LEMMA HeaderKept == [Next]_vars => matched' = matched
<1> SUFFICES ASSUME [Next]_vars PROVE matched' = matched
  OBVIOUS
<1>1. CASE Producing \/ Upload
  BY <1>1, ProducingFrame, UploadFrame DEF others, outside
<1>2. ASSUME NEW g \in groups, Working(g) PROVE matched' = matched
  BY <1>2 DEF Working, TakePermit, ReserveImportWrites, RefuseImportWrites, SendRequest,
              ApplyRequest, FinishGroup, FailGroup, PanicGroup, elsewhere
<1>3. CASE Restart
  BY <1>3 DEF Restart, StartRun, NextWave, EndRun, Crash
<1>4. CASE Aside
  BY <1>4 DEF Aside, SkipFile, BeginFile, Conclude, ApplySave, AnswerSave, WithholdSave,
              OthersClaim, OthersSpend, ClosePhase, RefuseFile, FailSave, vars, inputs
<1> QED BY <1>1, <1>2, <1>3, <1>4, StepKinds

(* A step of a group's task replaces the group, with its statements, by one
   that is sound again. *)
Replaces(g, h) ==
  /\ groups' = (groups \ {g}) \cup {h}
  /\ h \in Group
  /\ h.batches = g.batches
  /\ h.stage \in {"applied", "success"} => RowsOf(h.batches) \subseteq table'
  /\ h.stage = "applied" => h.writes <= MaximumWrites(h.batches)

LEMMA WorkShape ==
  ASSUME TypeOK, InFlight, GroupsSound, NEW g \in groups, Working(g)
  PROVE  /\ UNCHANGED elsewhere
         /\ table \subseteq table' /\ table' \subseteq 0..NumRows - 1
         /\ capacity' \in Nat /\ disturbances' \in Nat
         /\ \E h : Replaces(g, h)
<1>1. /\ g \in Group /\ g.batches \subseteq Cuts /\ GroupSound(g)
      /\ capacity \in Nat /\ disturbances \in Nat /\ disturbances + 1 \in Nat
      /\ table \subseteq 0..NumRows - 1
  BY DEF TypeOK, InFlight, GroupsSound
<1>2. MaximumWrites(g.batches) \in Nat /\ RowsOf(g.batches) \subseteq 0..NumRows - 1
  BY <1>1, RowsOfCuts
<1>3. ASSUME NEW s \in Stage \ {"applied", "success"}, Advance(g, s)
      PROVE  \E h : Replaces(g, h)
  <2> DEFINE h == [g EXCEPT !.stage = s]
  <2>1. h \in Group /\ h.batches = g.batches /\ h.stage = s
    BY <1>1 DEF Group
  <2> QED BY <1>3, <2>1 DEF Advance, Replaces
<1>4. CASE TakePermit(g)
  BY <1>1, <1>3, <1>4 DEF TakePermit, Stage
<1>5. CASE ReserveImportWrites(g)
  <2>1. capacity' \in Nat
    BY <1>1, <1>2, <1>5 DEF ReserveImportWrites, Affordable
  <2> QED BY <1>1, <1>3, <1>5, <2>1 DEF ReserveImportWrites, Stage
<1>6. CASE RefuseImportWrites(g)
  BY <1>1, <1>3, <1>6 DEF RefuseImportWrites, Stage
<1>7. CASE SendRequest(g)
  BY <1>1, <1>3, <1>7 DEF SendRequest, Stage
<1>8. CASE ApplyRequest(g)
  <2>1. PICK perRow \in {1, MaxWritesPerLogicalRow} :
          groups' = (groups \ {g}) \cup
            {[g EXCEPT !.stage = "applied",
                       !.writes = perRow * Cardinality(RowsOf(g.batches) \ table)]}
    BY <1>8 DEF ApplyRequest, RowsWritten
  <2> DEFINE n == perRow * Cardinality(RowsOf(g.batches) \ table)
             h == [g EXCEPT !.stage = "applied", !.writes = n]
  <2>2. n \in Nat /\ n <= MaximumWrites(g.batches)
    BY <1>1, WritesWithinMaximum
  <2>3. table' = table \cup RowsOf(g.batches)
    BY <1>8 DEF ApplyRequest
  <2> HIDE DEF n
  <2>4. h \in Group /\ h.batches = g.batches /\ h.stage = "applied" /\ h.writes = n
    BY <1>1, <2>2 DEF Group, Stage
  <2>5. groups' = (groups \ {g}) \cup {h}
    BY <2>1 DEF n
  <2> HIDE DEF h
  <2>6. Replaces(g, h)
    BY <2>2, <2>3, <2>4, <2>5 DEF Replaces
  <2> QED BY <1>1, <1>2, <1>8, <2>3, <2>6 DEF ApplyRequest
<1>9. CASE FinishGroup(g)
  <2> DEFINE h == [g EXCEPT !.stage = "success"]
  <2>1. g.stage = "applied" /\ groups' = (groups \ {g}) \cup {h} /\ table' = table
    BY <1>9 DEF FinishGroup, Advance
  <2>2. h \in Group /\ h.batches = g.batches /\ h.stage = "success"
    BY <1>1 DEF Group, Stage
  <2>3. RowsOf(g.batches) \subseteq table /\ g.writes <= MaximumWrites(g.batches)
    BY <1>1, <2>1 DEF GroupSound
  <2>4. capacity' \in Nat
    <3>1. g.writes \in Nat
      BY <1>1 DEF Group
    <3>2. capacity' = capacity + (MaximumWrites(g.batches) - g.writes)
      BY <1>9 DEF FinishGroup
    <3> QED BY <1>1, <1>2, <2>3, <3>1, <3>2
  <2> HIDE DEF h
  <2>5. Replaces(g, h)
    BY <2>1, <2>2, <2>3 DEF Replaces
  <2> QED BY <1>1, <1>9, <2>4, <2>5 DEF FinishGroup
<1>10. CASE FailGroup(g)
  BY <1>1, <1>3, <1>10 DEF FailGroup, Disturbance, Stage
<1>11. CASE PanicGroup(g)
  BY <1>1, <1>3, <1>11 DEF PanicGroup, Disturbance, Stage
<1> QED BY <1>4, <1>5, <1>6, <1>7, <1>8, <1>9, <1>10, <1>11 DEF Working

(* Rows only ever arrive. *)
LEMMA TableGrows ==
  ASSUME TypeOK, InFlight, GroupsSound, [Next]_vars
  PROVE  table \subseteq table' /\ table' \subseteq 0..NumRows - 1
<1>1. CASE Crash
  <2>1. PICK landed \in SUBSET {g \in groups : g.stage = "sent"} :
          table' = table \cup UNION {RowsOf(g.batches) : g \in landed}
    BY <1>1 DEF Crash
  <2>2. ASSUME NEW g \in landed PROVE RowsOf(g.batches) \subseteq 0..NumRows - 1
    <3>1. g.batches \subseteq Cuts
      BY DEF InFlight
    <3> QED BY <3>1, RowsOfCuts
  <2>3. table \subseteq 0..NumRows - 1
    BY DEF TypeOK
  <2> QED BY <2>1, <2>2, <2>3
<1>2. CASE StartRun \/ NextWave \/ EndRun
  BY <1>2 DEF StartRun, NextWave, EndRun, TypeOK
<1>3. CASE \E g \in groups : Working(g)
  BY <1>3, WorkShape
<1>4. CASE Producing \/ Upload \/ Aside
  BY <1>4, ProducingFrame, UploadFrame, AsideFrame DEF others, outside, TypeOK
<1> QED BY <1>1, <1>2, <1>3, <1>4, StepKinds DEF Restart

LEMMA ReachedKept ==
  ASSUME NEW c, NEW d, d = c, Reached(c), table \subseteq table'
  PROVE  Resumes(d) /\ 0..d.line - 1 \subseteq table'
  BY DEF Reached

(* A new call starts from the checkpoint in D1, or the one in memory. *)
LEMMA RestartShape ==
  ASSUME TypeOK, OutcomeSound, SavedSound, Restart
  PROVE  /\ pc' \in {"idle", "starting"}
         /\ claimed' = 0 /\ capacity' \in Nat /\ disturbances' \in Nat
         /\ phase' \in {"open", phase}
         /\ saved' \in {saved, outcome}
         /\ \E c \in Checkpoint : FreshCall(c) /\ Reached(c)
<1>1. DefaultCheckpoint \in Checkpoint /\ Reached(DefaultCheckpoint)
  BY DEF DefaultCheckpoint, Checkpoint, Reached, Resumes
<1>2. CheckpointOf(saved) \in Checkpoint /\ Reached(CheckpointOf(saved))
  BY DEF TypeOK, Progress, Checkpoint, CheckpointOf, SavedSound, Reached, Resumes
<1>3. CheckpointOf(outcome) \in Checkpoint /\ Reached(CheckpointOf(outcome))
  BY DEF TypeOK, Progress, Checkpoint, CheckpointOf, OutcomeSound, Reached, Resumes
<1>4. disturbances \in Nat /\ disturbances + 1 \in Nat /\ capacity \in Nat
  BY DEF TypeOK
<1>5. CASE StartRun
  BY <1>2, <1>4, <1>5 DEF StartRun
<1>6. CASE NextWave
  BY <1>3, <1>4, <1>6 DEF NextWave
<1>7. CASE EndRun
  BY <1>1, <1>4, <1>7 DEF EndRun
<1>8. CASE Crash
  BY <1>1, <1>4, <1>8 DEF Crash, Disturbance
<1> QED BY <1>5, <1>6, <1>7, <1>8 DEF Restart

-----------------------------------------------------------------------------
(* The producer *)

LEMMA ProducerStep ==
  ASSUME TypeOK, ProducerSound, InFlight, GroupsSound, OutcomeSound, SavedSound,
         [Next]_vars
  PROVE  /\ ProducerSound'
         /\ producer' \in [state : {"opening", "reading", "finished", "broken", "closed"},
                           at : Checkpoint, start : Checkpoint, outbox : Seq(Batch),
                           done : BOOLEAN]
<1> DEFINE States == {"opening", "reading", "finished", "broken", "closed"}
           Typed(p) == p \in [state : States, at : Checkpoint, start : Checkpoint,
                              outbox : Seq(Cuts), done : BOOLEAN]
<1>1. Seq(Cuts) \subseteq Seq(Batch)
  BY CutsTyped
<1>2. Typed(producer)
  BY DEF TypeOK, ProducerSound
<1>3. SUFFICES ProducerSound' /\ Typed(producer')
  BY <1>1
<1>4. /\ producer.at \in Checkpoint /\ producer.start \in Checkpoint
      /\ base \in Checkpoint /\ Resumes(base) /\ claimed \in Nat
  BY DEF TypeOK, OutcomeSound, Reached
<1> matched' = matched
  BY HeaderKept
<1>5. CASE UNCHANGED producer
  BY <1>2, <1>5 DEF ProducerSound, Resumes, Exhausts
<1>6. CASE producer' = Unopened
  <2>1. <<>> \in Seq(Cuts)
    OBVIOUS
  <2>2. producer' = [state |-> "opening", at |-> [line |-> 0, byte |-> 0],
                     start |-> [line |-> 0, byte |-> 0], outbox |-> <<>>, done |-> FALSE]
    BY <1>6 DEF Unopened, DefaultCheckpoint
  <2> QED BY <2>1, <2>2 DEF ProducerSound, Resumes, Checkpoint
<1>7. CASE OpenFile
  <2>1. producer.state = "opening" /\ base.line <= NumRows /\ base.line \in Nat
    BY <1>4, <1>7 DEF OpenFile, Resumes, Checkpoint
  <2>2. \/ producer' = FinishedAt(base, FALSE)
        \/ ~matched /\ producer' = FinishedAt(base, TRUE)
        \/ producer' = ReadingFrom(Sought)
    <3>1. ~(base.byte = 0 /\ base.line > NumRows)
      BY <2>1
    <3> QED BY <1>7, <3>1, Zenon DEF OpenFile
  <2>3. ASSUME NEW done \in BOOLEAN, done => ~matched, producer' = FinishedAt(base, done)
        PROVE  ProducerSound' /\ Typed(producer')
    <3>1. /\ producer'.state = "finished" /\ producer'.at = base
          /\ producer'.outbox = producer.outbox /\ producer'.done = done
          /\ Typed(producer')
      BY <1>2, <1>4, <2>3 DEF FinishedAt
    <3> QED BY <1>2, <1>4, <2>3, <3>1 DEF ProducerSound, Resumes, Exhausts
  <2>4. CASE producer' = ReadingFrom(Sought)
    <3> DEFINE first == Sought
    <3>1. producer' = [producer EXCEPT !.state = "reading", !.at = first, !.start = first]
      BY <2>4 DEF ReadingFrom
    <3>2. first \in Positions
      BY <1>4, <2>1 DEF Sought, Positions, Resumes, Checkpoint, HeaderEnd
    <3> HIDE DEF first
    <3>3. first \in Checkpoint /\ Resumes(first) /\ first.line \in Nat
      BY <3>2, PositionResumes DEF Checkpoint
    <3>4. /\ producer'.state = "reading" /\ producer'.at = first
          /\ producer'.start = first /\ producer'.outbox = producer.outbox
          /\ producer'.done = producer.done /\ Typed(producer')
      BY <1>2, <3>1, <3>3
    <3>5. ProducerSound'
      BY <2>1, <3>2, <3>3, <3>4 DEF ProducerSound, Resumes
    <3> QED BY <3>4, <3>5
  <2> QED BY <2>2, <2>3, <2>4
<1>8. ASSUME Reading, HasRow
      PROVE  /\ producer.at \in Positions /\ producer.start \in Positions
             /\ producer.start.line <= producer.at.line
             /\ RecordEnd \in Positions /\ RecordEnd \in Checkpoint /\ Resumes(RecordEnd)
             /\ Statement(producer.start, RecordEnd) \in Cuts
             /\ Statement(producer.at, RecordEnd) \in Cuts
             /\ ~producer.done
             /\ RecordEnd.line = producer.at.line + 1
  <2>1. /\ producer.at \in Positions /\ producer.start \in Positions
        /\ producer.start.line <= producer.at.line /\ ~producer.done
    BY <1>8 DEF Reading, ProducerSound
  <2>2. RecordEnd \in Positions /\ RecordEnd.line = producer.at.line + 1
    BY <1>8, <2>1 DEF HasRow, RecordEnd, Positions, Checkpoint, HeaderEnd
  <2>3. RecordEnd \in Checkpoint /\ Resumes(RecordEnd)
    BY <2>2, PositionResumes
  <2>4. /\ Statement(producer.start, RecordEnd) \in Cuts
        /\ Statement(producer.at, RecordEnd) \in Cuts
    BY <1>4, <2>1, <2>2, <2>3 DEF Statement, Cuts, Batch, Checkpoint
  <2> QED BY <2>1, <2>2, <2>3, <2>4
<1>9. CASE AppendRow
  <2>1. Reading /\ HasRow /\ producer.state = "reading" /\ producer.outbox = <<>>
    BY <1>9 DEF AppendRow, Reading
  <2> DEFINE e == RecordEnd
             s == Statement(producer.start, RecordEnd)
  <2>2. /\ e \in Positions /\ e \in Checkpoint /\ Resumes(e) /\ s \in Cuts
        /\ producer.start \in Positions /\ producer.start.line <= e.line
        /\ ~producer.done
    BY <1>4, <1>8, <2>1 DEF Checkpoint
  <2>3. \/ producer' = [producer EXCEPT !.at = e, !.start = e, !.outbox = <<s>>]
        \/ producer' = [producer EXCEPT !.at = e]
    BY <1>9 DEF AppendRow
  <2> HIDE DEF e, s
  <2>4. <<s>> \in Seq(Cuts) /\ e.line \in Nat
    BY <2>2 DEF Checkpoint
  <2>5. CASE producer' = [producer EXCEPT !.at = e, !.start = e, !.outbox = <<s>>]
    <3>1. /\ producer'.state = "reading" /\ producer'.at = e
          /\ producer'.start = e /\ producer'.outbox = <<s>>
          /\ producer'.done = producer.done /\ Typed(producer')
      BY <1>2, <2>1, <2>2, <2>4, <2>5
    <3>2. ProducerSound'
      BY <2>2, <2>4, <3>1 DEF ProducerSound, Resumes
    <3> QED BY <3>1, <3>2
  <2>6. CASE producer' = [producer EXCEPT !.at = e]
    BY <1>2, <2>1, <2>2, <2>4, <2>6 DEF ProducerSound, Resumes
  <2> QED BY <2>3, <2>5, <2>6
<1>10. ASSUME Reading, producer.at.line > producer.start.line
       PROVE  Unsent \in Cuts
  <2>1. producer.at \in Positions /\ producer.start \in Positions
    BY <1>10 DEF Reading, ProducerSound
  <2> QED BY <1>4, <1>10, <2>1 DEF Unsent, Statement, Cuts, Batch
<1>11. CASE SplitStatement
  <2>1. /\ Reading /\ HasRow /\ producer.state = "reading"
        /\ producer.at.line > producer.start.line
    BY <1>11 DEF SplitStatement, Reading
  <2> DEFINE e == RecordEnd
             s == Statement(producer.at, RecordEnd)
             u == Unsent
             a == producer.at
  <2>2. /\ e \in Positions /\ e \in Checkpoint /\ Resumes(e) /\ s \in Cuts
        /\ a \in Positions /\ a.line <= e.line /\ ~producer.done
    BY <1>4, <1>8, <2>1 DEF Checkpoint
  <2>3. u \in Cuts
    BY <1>10, <2>1
  <2>4. \/ producer' = [producer EXCEPT !.at = e, !.start = e, !.outbox = <<u, s>>]
        \/ producer' = [producer EXCEPT !.at = e, !.start = a, !.outbox = <<u>>]
    BY <1>11 DEF SplitStatement
  <2>5. a \in Checkpoint
    BY <1>4
  <2> HIDE DEF e, s, u, a
  <2>6. <<u, s>> \in Seq(Cuts) /\ <<u>> \in Seq(Cuts) /\ e.line \in Nat
    BY <2>2, <2>3 DEF Checkpoint
  <2>7. CASE producer' = [producer EXCEPT !.at = e, !.start = e, !.outbox = <<u, s>>]
    <3>1. /\ producer'.state = "reading" /\ producer'.at = e
          /\ producer'.start = e /\ producer'.outbox = <<u, s>>
          /\ producer'.done = producer.done /\ Typed(producer')
      BY <1>2, <2>1, <2>2, <2>6, <2>7
    <3>2. ProducerSound'
      BY <2>2, <2>6, <3>1 DEF ProducerSound, Resumes
    <3> QED BY <3>1, <3>2
  <2>8. CASE producer' = [producer EXCEPT !.at = e, !.start = a, !.outbox = <<u>>]
    BY <1>2, <2>1, <2>2, <2>5, <2>6, <2>8 DEF ProducerSound, Resumes
  <2> QED BY <2>4, <2>7, <2>8
<1>12. CASE StopReading
  <2>1. /\ Reading /\ producer.state = "reading"
        /\ ~HasRow \/ claimed >= MaxRows
    BY <1>12 DEF StopReading, Reading
  <2>2. producer.at \in Positions
    BY <2>1 DEF ProducerSound
  <2>3. FileDone => producer.at.line = NumRows
    BY <1>4, <2>1, <2>2
       DEF FileDone, HasRow, Positions, Checkpoint, HeaderEnd, UncompressedSize
  <2>4. FileDone \in BOOLEAN
    BY DEF FileDone
  <2> DEFINE d == FileDone
             o == IF producer.at.line > producer.start.line THEN <<Unsent>> ELSE <<>>
  <2>5. o \in Seq(Cuts)
    <3>1. producer.at.line > producer.start.line => <<Unsent>> \in Seq(Cuts)
      BY <1>10, <2>1
    <3> QED BY <3>1
  <2>6. producer' = [producer EXCEPT !.state = "finished", !.done = d, !.outbox = o]
    BY <1>12 DEF StopReading
  <2> HIDE DEF d, o
  <2>7. d \in BOOLEAN /\ (d => Exhausts(producer.at.line))
    BY <2>3, <2>4 DEF d, Exhausts
  <2>8. Typed(producer')
    BY <1>2, <2>5, <2>6, <2>7
  <2>9. ProducerSound'
    BY <1>2, <2>5, <2>6, <2>7 DEF ProducerSound, Resumes, Exhausts
  <2> QED BY <2>8, <2>9
<1>13. CASE BreakReading
  BY <1>2, <1>13 DEF BreakReading, ProducerSound, Resumes, Exhausts
<1>14. CASE SendStatement
  <2>1. Tail(producer.outbox) \in Seq(Cuts)
    BY <1>14 DEF SendStatement, ProducerSound
  <2>2. producer' = [producer EXCEPT !.outbox = Tail(producer.outbox)]
    BY <1>14 DEF SendStatement
  <2> QED BY <1>2, <2>1, <2>2 DEF ProducerSound, Resumes, Exhausts
<1>15. CASE SendFails
  <2>1. producer' = [producer EXCEPT !.state = "closed", !.outbox = <<>>]
    BY <1>15 DEF SendFails
  <2>2. <<>> \in Seq(Cuts)
    OBVIOUS
  <2> QED BY <1>2, <2>1, <2>2 DEF ProducerSound, Resumes, Exhausts
<1>16. CASE Restart
  BY <1>6, <1>16, RestartShape DEF FreshCall
<1>17. CASE Upload \/ Aside \/ \E g \in groups : Working(g)
  BY <1>5, <1>17, UploadFrame, AsideFrame, WorkShape DEF outside, call, elsewhere
<1> QED BY <1>7, <1>9, <1>11, <1>12, <1>13, <1>14, <1>15, <1>16, <1>17, StepKinds
        DEF Producing, Produce

-----------------------------------------------------------------------------
(* The uploader *)

(* What a step of the uploader does to channel, pending, groups and statuses *)
LEMMA UploadShape ==
  ASSUME TypeOK, InFlight, Upload
  PROVE  /\ pc = "importing" /\ pc' = "importing" /\ table' = table
         /\ channel' \in Seq(Cuts) /\ pending' \subseteq Cuts
         /\ uploading' \in {"receiving", "spawning", "joining"}
         /\ failed' \in BOOLEAN /\ exhausted' \in BOOLEAN
         /\ groups' \subseteq groups \cup {Spawned(pending)}
         /\ \/ statuses' = statuses
            \/ \E g \in groups : Ended(g) /\ statuses' = RecordTaskResult(g)
<1>1. /\ channel \in Seq(Cuts) /\ pending \subseteq Cuts
      /\ uploading \in {"receiving", "spawning", "joining"}
      /\ failed \in BOOLEAN /\ exhausted \in BOOLEAN
  BY DEF TypeOK, InFlight
<1>2. pc = "importing" /\ pc' = pc /\ table' = table
  BY UploadFrame DEF outside, Upload, Receive, SpawnGroup, SpawnRest, JoinGroup
<1>3. CASE Receive
  <2>1. /\ channel # <<>> /\ channel' = Tail(channel)
        /\ pending' = pending \cup {Head(channel)}
        /\ uploading' \in {"receiving", "spawning"}
        /\ UNCHANGED <<groups, statuses, failed, exhausted>>
    BY <1>3 DEF Receive
  <2>2. Head(channel) \in Cuts /\ Tail(channel) \in Seq(Cuts)
    BY <1>1, <2>1
  <2> QED BY <1>1, <1>2, <2>1, <2>2
<1>4. CASE SpawnGroup
  BY <1>1, <1>2, <1>4 DEF SpawnGroup
<1>5. CASE SpawnRest
  BY <1>1, <1>2, <1>5 DEF SpawnRest
<1>6. ASSUME NEW g \in groups, JoinGroup(g)
      PROVE  /\ UNCHANGED <<channel, pending>>
             /\ uploading' \in {"receiving", "spawning", "joining"}
             /\ failed' \in BOOLEAN /\ exhausted' \in BOOLEAN
             /\ groups' \subseteq groups
             /\ Ended(g) /\ statuses' = RecordTaskResult(g)
  BY <1>1, <1>6 DEF JoinGroup
<1> QED BY <1>1, <1>2, <1>3, <1>4, <1>5, <1>6 DEF Upload

LEMMA SpawnedTyped ==
  ASSUME NEW B, B \subseteq Cuts
  PROVE  /\ Spawned(B) \in Group
         /\ Spawned(B).batches = B
         /\ Spawned(B).stage = "queued"
  BY CutsTyped DEF Spawned, Group, Stage

LEMMA InFlightStep ==
  ASSUME TypeOK, ProducerSound, InFlight, GroupsSound, OutcomeSound, SavedSound,
         [Next]_vars
  PROVE  InFlight' /\ groups' \subseteq Group
<1>1. /\ channel \in Seq(Cuts) /\ pending \subseteq Cuts /\ groups \subseteq Group
      /\ \A g \in groups : g.batches \subseteq Cuts
      /\ pc # "importing" => groups = {}
  BY DEF TypeOK, InFlight
<1>2. CASE Producing
  <2>1. UNCHANGED <<pc, pending, groups>>
    BY <1>2, ProducingFrame DEF others, uploader
  <2>2. channel' \in Seq(Cuts)
    <3>1. CASE SendStatement
      <4>1. Head(producer.outbox) \in Cuts
        BY <3>1 DEF SendStatement, ProducerSound
      <4> QED BY <1>1, <3>1, <4>1 DEF SendStatement
    <3>2. CASE UNCHANGED channel
      BY <1>1, <3>2
    <3> QED BY <1>2, <3>1, <3>2
            DEF Producing, Produce, OpenFile, AppendRow, SplitStatement, StopReading,
                BreakReading, SendFails
  <2> QED BY <1>1, <2>1, <2>2 DEF InFlight
<1>3. CASE Upload
  <2>1. Spawned(pending) \in Group /\ Spawned(pending).batches \subseteq Cuts
    BY <1>1, SpawnedTyped
  <2>2. groups' \subseteq groups \cup {Spawned(pending)}
    BY <1>3, UploadShape
  <2>3. channel' \in Seq(Cuts) /\ pending' \subseteq Cuts /\ pc' = "importing"
    BY <1>3, UploadShape
  <2> QED BY <1>1, <2>1, <2>2, <2>3 DEF InFlight
<1>4. ASSUME NEW g \in groups, Working(g) PROVE InFlight' /\ groups' \subseteq Group
  <2>1. PICK h : Replaces(g, h)
    BY <1>4, WorkShape
  <2>2. UNCHANGED <<pc, channel, pending>>
    BY <1>4, WorkShape DEF elsewhere
  <2>3. /\ groups' = (groups \ {g}) \cup {h} /\ h \in Group
        /\ h.batches \subseteq Cuts /\ pc = "importing"
    BY <1>1, <2>1 DEF Replaces
  <2> QED BY <1>1, <2>2, <2>3 DEF InFlight
<1>5. CASE Restart
  <2>1. channel' = <<>> /\ pending' = {} /\ groups' = {}
    BY <1>5, RestartShape DEF FreshCall
  <2> QED BY <2>1 DEF InFlight
<1>6. CASE Aside
  <2>1. UNCHANGED <<channel, pending, groups>>
    BY <1>6, AsideFrame DEF call, uploader
  <2>2. pc' # "importing" => groups = {}
    <3>1. CASE Conclude
      BY <3>1 DEF Conclude
    <3>2. CASE ~Conclude
      BY <1>1, <1>6, <3>2
         DEF Aside, SkipFile, BeginFile, ApplySave, AnswerSave, WithholdSave,
             OthersClaim, OthersSpend, ClosePhase, RefuseFile, FailSave, vars
    <3> QED BY <3>1, <3>2
  <2> QED BY <1>1, <2>1, <2>2 DEF InFlight
<1> QED BY <1>2, <1>3, <1>4, <1>5, <1>6, StepKinds

(* Rows stay in the table, so a group stays sound until it is replaced. *)
LEMMA GroupsStep ==
  ASSUME TypeOK, InFlight, GroupsSound, OutcomeSound, SavedSound, [Next]_vars
  PROVE  GroupsSound'
<1>1. table \subseteq table' /\ \A g \in groups : GroupSound(g)
  BY TableGrows DEF GroupsSound
<1>2. ASSUME NEW g, GroupSound(g)
      PROVE  /\ g.stage \in {"applied", "success"} => RowsOf(g.batches) \subseteq table'
             /\ g.stage = "applied" => g.writes <= MaximumWrites(g.batches)
  BY <1>1, <1>2 DEF GroupSound
<1>3. CASE Producing \/ Aside
  <2>1. UNCHANGED groups
    BY <1>3, ProducingFrame, AsideFrame DEF others, uploader, call
  <2> QED BY <1>1, <1>2, <2>1 DEF GroupsSound, GroupSound
<1>4. CASE Upload
  <2>1. groups' \subseteq groups \cup {Spawned(pending)}
    BY <1>4, UploadShape
  <2>2. Spawned(pending).stage = "queued"
    BY DEF Spawned
  <2> QED BY <1>1, <1>2, <2>1, <2>2 DEF GroupsSound, GroupSound
<1>5. ASSUME NEW g \in groups, Working(g) PROVE GroupsSound'
  <2>1. PICK h : Replaces(g, h)
    BY <1>5, WorkShape
  <2> QED BY <1>1, <1>2, <2>1 DEF GroupsSound, GroupSound, Replaces
<1>6. CASE Restart
  <2>1. groups' = {}
    BY <1>6, RestartShape DEF FreshCall
  <2> QED BY <2>1 DEF GroupsSound
<1> QED BY <1>3, <1>4, <1>5, <1>6, StepKinds

(* record_task_result: a status of success is one of a group whose rows are
   in the table. *)
LEMMA RecordSound ==
  ASSUME TypeOK, InFlight, GroupsSound, StatusesSound, NEW g \in groups, Ended(g),
         NEW sts, sts = RecordTaskResult(g)
  PROVE  /\ DOMAIN sts \subseteq Nat
         /\ \A l \in DOMAIN sts :
              /\ sts[l] \in [end : Checkpoint, ok : BOOLEAN]
              /\ sts[l].end \in Positions
              /\ l < sts[l].end.line
              /\ sts[l].ok => l..sts[l].end.line - 1 \subseteq table
<1> DEFINE firsts == {b.start.line : b \in g.batches}
           entry(l) == [end |-> (CHOOSE b \in g.batches : b.start.line = l).end,
                        ok |-> g.stage = "success"]
<1>1. /\ DOMAIN statuses \subseteq Nat
      /\ \A l \in DOMAIN statuses :
           /\ statuses[l] \in [end : Checkpoint, ok : BOOLEAN]
           /\ statuses[l].end \in Positions
           /\ l < statuses[l].end.line
           /\ statuses[l].ok => l..statuses[l].end.line - 1 \subseteq table
  BY DEF TypeOK, StatusesSound
<1>2. CASE g.stage = "panicked"
  BY <1>1, <1>2 DEF RecordTaskResult
<1>3. CASE g.stage # "panicked"
  <2>1. sts = [l \in DOMAIN statuses \cup firsts |->
                 IF l \in firsts THEN entry(l) ELSE statuses[l]]
    BY <1>3 DEF RecordTaskResult
  <2>2. \A b \in g.batches : b \in Batch /\ b \in Cuts
    BY CutsTyped DEF InFlight
  <2>3. g.stage = "success" => RowsOf(g.batches) \subseteq table
    BY DEF GroupsSound, GroupSound
  <2>4. ASSUME NEW l \in firsts
        PROVE  /\ l \in Nat
               /\ entry(l) \in [end : Checkpoint, ok : BOOLEAN]
               /\ entry(l).end \in Positions
               /\ l < entry(l).end.line
               /\ entry(l).ok => l..entry(l).end.line - 1 \subseteq table
    <3> DEFINE b == CHOOSE x \in g.batches : x.start.line = l
    <3>1. b \in g.batches /\ b.start.line = l
      OBVIOUS
    <3> HIDE DEF b
    <3>2. /\ b \in Cuts /\ b.end \in Positions /\ l < b.end.line
          /\ b.end \in Checkpoint /\ l \in Nat
      BY <2>2, <3>1 DEF Cuts, Batch, Checkpoint
    <3>3. g.stage = "success" => l..b.end.line - 1 \subseteq table
      BY <2>3, <3>1 DEF RowsOf, LinesOf
    <3>4. entry(l) = [end |-> b.end, ok |-> g.stage = "success"]
      BY DEF b
    <3>5. entry(l) \in [end : Checkpoint, ok : BOOLEAN]
      BY <3>2, <3>4
    <3>6. entry(l).end = b.end /\ (entry(l).ok => g.stage = "success")
      BY <3>4
    <3> HIDE DEF entry
    <3> QED BY <3>2, <3>3, <3>5, <3>6
  <2> HIDE DEF firsts, entry
  <2>5. DOMAIN sts = DOMAIN statuses \cup firsts
    BY <2>1
  <2>6. DOMAIN sts \subseteq Nat
    BY <1>1, <2>4, <2>5
  <2>7. ASSUME NEW l \in DOMAIN sts
        PROVE  /\ sts[l] \in [end : Checkpoint, ok : BOOLEAN]
               /\ sts[l].end \in Positions
               /\ l < sts[l].end.line
               /\ sts[l].ok => l..sts[l].end.line - 1 \subseteq table
    <3>1. CASE l \in firsts
      <4>1. sts[l] = entry(l)
        BY <2>1, <3>1
      <4> QED BY <2>4, <3>1, <4>1
    <3>2. CASE l \notin firsts
      <4>1. l \in DOMAIN statuses /\ sts[l] = statuses[l]
        BY <2>1, <2>5, <3>2
      <4> QED BY <1>1, <4>1
    <3> QED BY <3>1, <3>2
  <2> QED BY <2>6, <2>7
<1> QED BY <1>2, <1>3

LEMMA StatusesStep ==
  ASSUME TypeOK, InFlight, GroupsSound, StatusesSound, OutcomeSound, SavedSound,
         [Next]_vars
  PROVE  /\ StatusesSound'
         /\ DOMAIN statuses' \subseteq Nat
         /\ \A l \in DOMAIN statuses' :
              statuses'[l] \in [end : Checkpoint, ok : BOOLEAN]
<1>1. table \subseteq table'
  BY TableGrows
<1>2. CASE UNCHANGED statuses
  BY <1>1, <1>2 DEF StatusesSound, TypeOK
<1>3. CASE Upload
  <2>1. CASE \E g \in groups : Ended(g) /\ statuses' = RecordTaskResult(g)
    <3>1. PICK g \in groups : Ended(g) /\ statuses' = RecordTaskResult(g)
      BY <2>1
    <3> QED BY <1>1, <3>1, RecordSound DEF StatusesSound
  <2> QED BY <1>2, <1>3, <2>1, UploadShape
<1>4. CASE Restart
  <2>1. DOMAIN statuses' = {}
    <3>1. statuses' = <<>>
      BY <1>4, RestartShape DEF FreshCall
    <3>2. <<>> \in Seq({}) /\ Len(<<>>) = 0
      OBVIOUS
    <3> QED BY <3>1, <3>2
  <2> QED BY <2>1 DEF StatusesSound
<1>5. CASE Producing \/ Aside \/ \E g \in groups : Working(g)
  BY <1>2, <1>5, ProducingFrame, AsideFrame, WorkShape DEF others, uploader, call, elsewhere
<1> QED BY <1>3, <1>4, <1>5, StepKinds

-----------------------------------------------------------------------------
(* Saving the checkpoint *)

LEMMA ConcludeShape ==
  ASSUME TypeOK, ProducerSound, StatusesSound, OutcomeSound, Conclude
  PROVE  /\ outcome' \in Progress /\ verdict' \in {"ok", "exhausted", "error"}
         /\ Resumes(outcome)' /\ 0..outcome'.line - 1 \subseteq table
         /\ base.line <= outcome'.line
         /\ outcome'.status = 0 => Exhausts(outcome'.line)
<1> DEFINE c == ContiguousCommittedCheckpoint(base, statuses)
<1>1. base \in Checkpoint /\ base.line <= NumRows /\ Reached(base)
  BY DEF TypeOK, Checkpoint, OutcomeSound, Reached, Resumes
<1>2. c \in Safe(base, statuses)
  BY <1>1, WalkReaches DEF StatusesSound
<1> DEFINE incomplete == failed \/ exhausted \/ producer.state # "finished"
                         \/ ~ProducerCheckpointIsCommitted(producer.at, c)
<1>3. outcome' = IF incomplete THEN ProgressAt(c, 1)
                 ELSE ProgressAt(producer.at, IF producer.done THEN 0 ELSE 1)
  BY DEF Conclude
<1>4. verdict' \in {"ok", "exhausted", "error"}
  BY DEF Conclude
<1>5. c \in Checkpoint /\ Resumes(c) /\ 0..c.line - 1 \subseteq table /\ base.line <= c.line
  BY <1>2 DEF Safe, Reached
<1> HIDE DEF c
<1>6. CASE incomplete
  <2>1. outcome' = [line |-> c.line, byte |-> c.byte, status |-> 1]
    BY <1>3, <1>6 DEF ProgressAt
  <2>2. outcome' \in Progress
    BY <1>5, <2>1 DEF Checkpoint, Progress
  <2> QED BY <1>4, <1>5, <2>1, <2>2 DEF Resumes
<1>7. CASE ~incomplete
  <2> DEFINE p == producer.at
             s == IF producer.done THEN 0 ELSE 1
  <2>1. p.line = c.line
    BY <1>7 DEF ProducerCheckpointIsCommitted
  <2>2. /\ p \in Checkpoint /\ Resumes(p) /\ s \in {0, 1}
        /\ s = 0 => Exhausts(p.line)
    BY DEF TypeOK, ProducerSound
  <2>3. outcome' = ProgressAt(p, s)
    BY <1>3, <1>7
  <2> HIDE DEF p, s
  <2>4. outcome' = [line |-> p.line, byte |-> p.byte, status |-> s]
    BY <2>3 DEF ProgressAt
  <2>5. outcome' \in Progress
    BY <2>2, <2>4 DEF Checkpoint, Progress
  <2> QED BY <1>4, <1>5, <2>1, <2>2, <2>4, <2>5 DEF Resumes
<1> QED BY <1>6, <1>7

LEMMA OutcomeStep ==
  ASSUME TypeOK, ProducerSound, InFlight, GroupsSound, StatusesSound, OutcomeSound,
         SavedSound, [Next]_vars
  PROVE  OutcomeSound'
<1>1. /\ table \subseteq table'
      /\ base \in Checkpoint /\ Reached(base)
      /\ outcome \in Progress /\ Reached(outcome)
      /\ outcome.status = 0 => Exhausts(outcome.line)
      /\ saved \in Progress
  BY TableGrows DEF TypeOK, OutcomeSound
<1> matched' = matched
  BY HeaderKept
<1>2. ASSUME UNCHANGED base PROVE Reached(base)'
  BY <1>1, <1>2, ReachedKept DEF Reached, Resumes
<1>3. ASSUME UNCHANGED outcome PROVE Reached(outcome)'
  BY <1>1, <1>3, ReachedKept DEF Reached, Resumes
<1>4. ASSUME UNCHANGED <<pc, saved, base, outcome, verdict>> PROVE OutcomeSound'
  BY <1>1, <1>2, <1>3, <1>4 DEF OutcomeSound, Exhausts
<1>5. CASE Producing \/ Upload \/ \E g \in groups : Working(g)
  BY <1>4, <1>5, ProducingFrame, UploadFrame, WorkShape DEF others, outside, elsewhere, result
<1>6. CASE Restart
  <2>1. PICK c \in Checkpoint : FreshCall(c) /\ Reached(c)
    BY <1>6, RestartShape
  <2>2. base' = c /\ outcome' = ProgressAt(c, 1)
    BY <2>1 DEF FreshCall
  <2>3. Reached(base)'
    BY <1>1, <2>1, <2>2 DEF Reached, Resumes
  <2>4. outcome'.line = c.line /\ outcome'.byte = c.byte /\ outcome'.status = 1
    BY <2>2 DEF ProgressAt
  <2>5. Reached(outcome)'
    BY <1>1, <2>1, <2>4 DEF Reached, Resumes
  <2>6. outcome' = ProgressAt(base', 1)
    BY <2>2
  <2>7. pc' \in {"idle", "starting"}
    BY <1>6, RestartShape
  <2>8. pc' = "starting" => saved'.status = 1 /\ saved'.line <= outcome'.line
    <3>1. CASE StartRun
      BY <1>1, <2>4, <2>2, <3>1
         DEF StartRun, CheckpointOf, FreshCall, ProgressAt, Progress
    <3>2. CASE NextWave
      <4>1. /\ saved' = saved /\ outcome.status = 1 /\ pc = "ended" /\ verdict = "ok"
            /\ outcome'.line = outcome.line
        BY <3>2 DEF NextWave, FreshCall, CheckpointOf, ProgressAt
      <4> QED BY <4>1 DEF OutcomeSound
    <3>3. CASE EndRun \/ Crash
      BY <3>3 DEF EndRun, Crash
    <3> QED BY <1>6, <3>1, <3>2, <3>3 DEF Restart
  <2> QED BY <2>3, <2>4, <2>5, <2>6, <2>7, <2>8 DEF OutcomeSound
<1>7. CASE Conclude
  <2>1. /\ Reached(outcome)' /\ base.line <= outcome'.line
        /\ outcome'.status = 0 => Exhausts(outcome'.line)
        /\ outcome' \in Progress
    BY <1>1, <1>7, ConcludeShape DEF Reached
  <2>2. UNCHANGED <<base, saved>> /\ pc = "importing" /\ pc' = "saving"
    BY <1>7 DEF Conclude, inputs, call
  <2>3. saved.status = 1 /\ saved.line <= base.line
    BY <2>2 DEF OutcomeSound, ProgressAt
  <2>4. saved'.line <= outcome'.line
    BY <1>1, <2>1, <2>2, <2>3 DEF Progress, Checkpoint
  <2> QED BY <1>2, <2>1, <2>2, <2>3, <2>4 DEF OutcomeSound, Exhausts
<1>8. CASE ApplySave
  <2>1. UNCHANGED <<base, outcome>> /\ saved' = outcome /\ pc' = "answering"
    BY <1>8 DEF ApplySave, call, result
  <2> QED BY <1>1, <1>2, <1>3, <2>1 DEF OutcomeSound, Exhausts, Progress
<1>9. ASSUME Aside, ~Conclude, ~ApplySave PROVE OutcomeSound'
  <2>1. UNCHANGED <<base, outcome, saved>>
    BY <1>9 DEF Aside, SkipFile, BeginFile, AnswerSave, WithholdSave, OthersClaim,
                OthersSpend, ClosePhase, RefuseFile, FailSave, vars, call, result, inputs
  <2>2. \/ UNCHANGED <<pc, verdict>>
        \/ pc = "starting" /\ pc' = "importing"
        \/ pc = "starting" /\ pc' = "ended"
        \/ pc = "answering" /\ pc' = "ended"
        \/ pc # "idle" /\ pc' = "ended" /\ verdict' = "error"
    BY <1>9 DEF Aside, SkipFile, BeginFile, AnswerSave, WithholdSave, OthersClaim,
                OthersSpend, ClosePhase, RefuseFile, FailSave, vars, result
  <2>3. pc = "starting" => outcome.status = 1 /\ saved.status = 1
    BY DEF OutcomeSound, ProgressAt
  <2> QED BY <1>1, <1>2, <1>3, <2>1, <2>2, <2>3 DEF OutcomeSound, Exhausts
<1> QED BY <1>5, <1>6, <1>7, <1>8, <1>9, StepKinds DEF Aside

LEMMA SavedStep ==
  ASSUME TypeOK, InFlight, GroupsSound, OutcomeSound, SavedSound, [Next]_vars
  PROVE  /\ SavedSound'
         /\ saved' \in {saved, outcome}
<1>1. saved' \in {saved, outcome}
  <2>1. CASE Restart
    BY <2>1, RestartShape
  <2>2. CASE Producing \/ Upload \/ \E g \in groups : Working(g)
    BY <2>2, ProducingFrame, UploadFrame, WorkShape DEF others, outside, elsewhere
  <2>3. CASE Aside
    BY <2>3 DEF Aside, SkipFile, BeginFile, Conclude, ApplySave, AnswerSave, WithholdSave,
                OthersClaim, OthersSpend, ClosePhase, RefuseFile, FailSave, vars, inputs
  <2> QED BY <2>1, <2>2, <2>3, StepKinds
<1>2. table \subseteq table'
  BY TableGrows
<1>3. matched' = matched
  BY HeaderKept
<1> QED BY <1>1, <1>2, <1>3 DEF SavedSound, OutcomeSound, Reached, Resumes, Exhausts

-----------------------------------------------------------------------------
(* The invariant *)

LEMMA TypeInit == Init => TypeOK
<1> SUFFICES ASSUME Init PROVE TypeOK
  OBVIOUS
<1>1. /\ <<>> \in Seq(Batch)
      /\ DOMAIN statuses = {}
  <2>1. <<>> \in Seq({}) /\ Len(<<>>) = 0 /\ <<>> \in Seq(Batch)
    OBVIOUS
  <2> QED BY <2>1 DEF Init
<1>2. DefaultCheckpoint \in Checkpoint /\ ProgressAt(DefaultCheckpoint, 1) \in Progress
  BY DEF DefaultCheckpoint, Checkpoint, ProgressAt, Progress
<1>3. Unopened \in [state : {"opening", "reading", "finished", "broken", "closed"},
                    at : Checkpoint, start : Checkpoint, outbox : Seq(Batch),
                    done : BOOLEAN]
  BY <1>1, <1>2 DEF Unopened
<1>4. PICK line \in 0..NumRows : table = 0..line - 1 /\ saved = ProgressAt([line |-> line, byte |-> 0], 1)
  BY DEF Init
<1>5. table \subseteq 0..NumRows - 1
  BY <1>4
<1>6. saved \in Progress
  BY <1>4 DEF ProgressAt, Progress
<1> QED BY <1>1, <1>2, <1>3, <1>5, <1>6 DEF Init, TypeOK

LEMMA SupportInit == Init => Support
<1> SUFFICES ASSUME Init PROVE Support
  OBVIOUS
<1>1. DOMAIN statuses = {} /\ <<>> \in Seq(Cuts)
  <2>1. <<>> \in Seq({}) /\ Len(<<>>) = 0 /\ <<>> \in Seq(Cuts)
    OBVIOUS
  <2> QED BY <2>1 DEF Init
<1>2. ProducerSound
  BY <1>1 DEF Init, ProducerSound, Unopened, DefaultCheckpoint, Resumes
<1>3. InFlight /\ GroupsSound /\ StatusesSound
  BY <1>1 DEF Init, InFlight, GroupsSound, StatusesSound
<1>4. OutcomeSound
  BY DEF Init, OutcomeSound, Reached, Resumes, DefaultCheckpoint, ProgressAt
<1>5. SavedSound
  <2>1. PICK line \in 0..NumRows : table = 0..line - 1 /\ saved = ProgressAt([line |-> line, byte |-> 0], 1)
    BY DEF Init
  <2>2. saved.line = line /\ saved.byte = 0 /\ saved.status = 1
    BY <2>1 DEF ProgressAt
  <2> QED BY <2>1, <2>2 DEF SavedSound, Reached, Resumes
<1> QED BY <1>2, <1>3, <1>4, <1>5 DEF Support

LEMMA TypeStep == IInv /\ [Next]_vars => TypeOK'
<1> SUFFICES ASSUME TypeOK, Support, [Next]_vars PROVE TypeOK'
  BY DEF IInv
<1> USE DEF Support
<1>1. table' \subseteq 0..NumRows - 1
  BY TableGrows
<1>2. producer' \in [state : {"opening", "reading", "finished", "broken", "closed"},
                     at : Checkpoint, start : Checkpoint, outbox : Seq(Batch),
                     done : BOOLEAN]
  BY ProducerStep
<1>3. channel' \in Seq(Batch) /\ pending' \subseteq Batch /\ groups' \subseteq Group
  <2>1. channel' \in Seq(Cuts) /\ pending' \subseteq Cuts /\ groups' \subseteq Group
    BY InFlightStep DEF InFlight
  <2> QED BY <2>1, CutsTyped
<1>4. /\ DOMAIN statuses' \subseteq Nat
      /\ \A l \in DOMAIN statuses' : statuses'[l] \in [end : Checkpoint, ok : BOOLEAN]
  BY StatusesStep
<1>5. saved' \in Progress
  BY SavedStep DEF TypeOK
<1>6. /\ uploading' \in {"receiving", "spawning", "joining"}
      /\ failed' \in BOOLEAN /\ exhausted' \in BOOLEAN
  <2>1. CASE Upload
    BY <2>1, UploadShape
  <2>2. CASE Restart
    BY <2>2, RestartShape DEF FreshCall
  <2>3. CASE Producing \/ Aside \/ \E g \in groups : Working(g)
    BY <2>3, ProducingFrame, AsideFrame, WorkShape
       DEF others, uploader, call, elsewhere, TypeOK
  <2> QED BY <2>1, <2>2, <2>3, StepKinds
<1>7. /\ base' \in Checkpoint /\ outcome' \in Progress
      /\ verdict' \in {"ok", "exhausted", "error"}
  <2>1. CASE Restart
    <3>1. PICK c \in Checkpoint : FreshCall(c)
      BY <2>1, RestartShape
    <3>2. ProgressAt(c, 1) \in Progress
      BY DEF ProgressAt, Checkpoint, Progress
    <3> QED BY <3>1, <3>2 DEF FreshCall
  <2>2. CASE Conclude
    BY <2>2, ConcludeShape DEF Conclude, inputs, call, TypeOK
  <2>3. CASE Producing \/ Upload \/ \E g \in groups : Working(g)
    BY <2>3, ProducingFrame, UploadFrame, WorkShape
       DEF others, outside, elsewhere, result, TypeOK
  <2>4. ASSUME Aside, ~Conclude
        PROVE  UNCHANGED <<base, outcome>> /\ verdict' \in {verdict, "exhausted", "error"}
    BY <2>4 DEF Aside, SkipFile, BeginFile, ApplySave, AnswerSave, WithholdSave,
                OthersClaim, OthersSpend, ClosePhase, RefuseFile, FailSave, vars, call,
                result, inputs
  <2> QED BY <2>1, <2>2, <2>3, <2>4, StepKinds DEF TypeOK
<1>8. /\ pc' \in {"idle", "starting", "importing", "saving", "answering", "ended"}
      /\ phase' \in {"open", "draining", "closing"}
  <2>1. CASE Restart
    BY <2>1, RestartShape DEF TypeOK
  <2>2. CASE Producing \/ Upload \/ \E g \in groups : Working(g)
    BY <2>2, ProducingFrame, UploadFrame, WorkShape DEF others, outside, elsewhere, TypeOK
  <2>3. CASE Aside
    BY <2>3 DEF Aside, SkipFile, BeginFile, Conclude, ApplySave, AnswerSave, WithholdSave,
                OthersClaim, OthersSpend, ClosePhase, RefuseFile, FailSave, vars, inputs,
                TypeOK
  <2> QED BY <2>1, <2>2, <2>3, StepKinds
<1>9. claimed' \in Nat /\ capacity' \in Nat /\ disturbances' \in Nat
  <2>1. /\ claimed \in Nat /\ capacity \in Nat /\ disturbances \in Nat
        /\ claimed + 1 \in Nat /\ disturbances + 1 \in Nat
    BY DEF TypeOK
  <2>2. CASE Restart
    BY <2>2, RestartShape
  <2>3. CASE Producing
    BY <2>1, <2>3 DEF Producing, Produce, OpenFile, AppendRow, SplitStatement, StopReading,
                      BreakReading, SendStatement, SendFails, Disturbance, others
  <2>4. CASE Upload
    BY <2>1, <2>4, UploadFrame DEF outside
  <2>5. CASE \E g \in groups : Working(g)
    BY <2>1, <2>5, WorkShape DEF elsewhere
  <2>6. CASE Aside
    BY <2>1, <2>6 DEF Aside, SkipFile, BeginFile, Conclude, ApplySave, AnswerSave,
                      WithholdSave, OthersClaim, OthersSpend, ClosePhase, RefuseFile,
                      FailSave, Disturbance, vars, inputs
  <2> QED BY <2>2, <2>3, <2>4, <2>5, <2>6, StepKinds
<1>10. matched' \in BOOLEAN
  BY HeaderKept DEF TypeOK
<1> QED BY <1>1, <1>2, <1>3, <1>4, <1>5, <1>6, <1>7, <1>8, <1>9, <1>10 DEF TypeOK

LEMMA SupportStep == IInv /\ [Next]_vars => Support'
  BY ProducerStep, InFlightStep, GroupsStep, StatusesStep, OutcomeStep, SavedStep
     DEF IInv, Support

THEOREM Invariance == Spec => []IInv
<1>1. Init => IInv
  BY TypeInit, SupportInit DEF IInv
<1>2. IInv /\ [Next]_vars => IInv'
  BY TypeStep, SupportStep DEF IInv
<1> QED BY <1>1, <1>2, PTL DEF Spec

(* Every variable keeps its type: in particular the remaining capacity never
   goes below zero, although reservations are taken from it and settled with
   what D1 reports (reserve_import_writes, settle). *)
THEOREM TypeCorrect == Spec => []TypeOK
<1>1. IInv => TypeOK
  BY DEF IInv
<1> QED BY <1>1, Invariance, PTL

(* The saved checkpoint never passes a row that is missing, its byte offset
   is where a row starts, and a file is complete only when the table has all
   rows the database keeps of it: all of them, or none if the header has no
   column of the table - whatever is reordered, lost, refused, split over
   waves or interrupted (process_csv_file, extract_and_batch_csv,
   contiguous_committed_checkpoint, update_file_progress). *)
THEOREM CheckpointSoundHolds == Spec => []CheckpointSound
<1>1. IInv => CheckpointSound
  <2> SUFFICES ASSUME IInv PROVE CheckpointSound
    OBVIOUS
  <2>1. Resumes(saved) /\ 0..saved.line - 1 \subseteq table
        /\ (saved.status = 0 => Exhausts(saved.line))
    BY DEF IInv, Support, SavedSound, Reached
  <2>2. saved.status = 0 => Wanted \subseteq table
    BY <2>1 DEF Exhausts, Wanted
  <2> QED BY <2>1, <2>2 DEF CheckpointSound, Resumes
<1> QED BY <1>1, Invariance, PTL

-----------------------------------------------------------------------------
(* Refinement *)

(* The mark moves only to what was to be saved; then no request is left that
   a crash could still apply, so the table does not move with it. *)
LEMMA MarkMoves ==
  ASSUME IInv, [Next]_vars, saved' # saved
  PROVE  /\ saved' = outcome /\ table' = table
         /\ saved.line <= outcome.line /\ saved.status = 1
<1>1. ApplySave \/ (Crash /\ pc = "saving" /\ saved' = outcome)
  <2>1. CASE Producing \/ Upload \/ \E g \in groups : Working(g)
    BY <2>1, ProducingFrame, UploadFrame, WorkShape
       DEF others, outside, elsewhere, IInv, Support
  <2>2. CASE Restart
    BY <2>2 DEF Restart, StartRun, NextWave, EndRun, Crash
  <2>3. CASE Aside
    BY <2>3 DEF Aside, SkipFile, BeginFile, Conclude, AnswerSave, WithholdSave,
                OthersClaim, OthersSpend, ClosePhase, RefuseFile, FailSave, vars, inputs
  <2> QED BY <2>1, <2>2, <2>3, StepKinds
<1>2. pc = "saving" /\ saved' = outcome
  BY <1>1 DEF ApplySave
<1>3. groups = {} /\ saved.line <= outcome.line /\ saved.status = 1
  BY <1>2 DEF IInv, Support, InFlight, OutcomeSound
<1>4. table' = table
  BY <1>1, <1>3 DEF ApplySave, Crash
<1> QED BY <1>2, <1>3, <1>4

LEMMA ContractStep ==
  IInv /\ IInv' /\ [Next]_vars
  => [Contract!Next]_<<Wanted, table, saved.line, saved.status = 0>>
<1> SUFFICES ASSUME IInv, IInv', [Next]_vars
             PROVE  [Contract!Next]_<<Wanted, table, saved.line, saved.status = 0>>
  OBVIOUS
<1> Wanted' = Wanted
  BY HeaderKept DEF Wanted
<1>1. CASE saved' = saved
  <2>1. table \subseteq table' /\ table' \subseteq 0..NumRows - 1
    BY TableGrows DEF IInv, Support
  <2> QED BY <1>1, <2>1 DEF Contract!Next, Contract!Upload, Contract!Rows
<1>2. CASE saved' # saved
  <2>1. /\ saved' = outcome /\ table' = table
        /\ saved.line <= outcome.line /\ saved.status = 1
    BY <1>2, MarkMoves
  <2>2. saved \in Progress /\ saved' \in Progress
    BY DEF IInv, TypeOK
  <2>3. /\ 0..saved'.line - 1 \subseteq table /\ saved'.line <= NumRows
        /\ saved'.status = 0 => Wanted \subseteq table
    <3>1. /\ 0..saved'.line - 1 \subseteq table' /\ saved'.line <= NumRows
          /\ saved'.status = 0 => (matched' => saved'.line = NumRows)
      BY DEF IInv, Support, SavedSound, Reached, Resumes, Exhausts
    <3> QED BY <2>1, <3>1, HeaderKept DEF Wanted
  <2>4. saved'.line \in saved.line..NumRows
    BY <2>1, <2>2, <2>3 DEF Progress
  <2>5. (saved'.status = 0) \in {saved.status = 0, TRUE}
    <3>1. CASE saved'.status = 0
      BY <3>1
    <3>2. CASE saved'.status # 0
      <4>1. saved.status # 0
        BY <2>1
      <4>2. (saved'.status = 0) = (saved.status = 0)
        BY <3>2, <4>1, Zenon
      <4> QED BY <4>2
    <3> QED BY <3>1, <3>2
  <2> QED BY <2>1, <2>3, <2>4, <2>5 DEF Contract!Next, Contract!Save, Contract!Rows
<1> QED BY <1>1, <1>2

(* Rows only arrive, the checkpoint only moves forward and never past a
   missing row, and a complete file stays complete: FileImport implements
   ResumableFile. *)
THEOREM ResumableHolds == Spec => Resumable
<1>1. Init => Contract!Init
  <2> SUFFICES ASSUME Init PROVE Contract!Init
    OBVIOUS
  <2>1. PICK line \in IF matched THEN 0..NumRows ELSE {0} :
          table = 0..line - 1 /\ saved = ProgressAt([line |-> line, byte |-> 0], 1)
    BY DEF Init
  <2>2. saved.line = line /\ saved.status = 1 /\ line \in 0..NumRows
    BY <2>1 DEF ProgressAt
  <2>3. Wanted \in {{}, 0..NumRows - 1} /\ table \subseteq Wanted
    BY <2>1 DEF Wanted
  <2>4. saved.line \in {n \in 0..NumRows : 0..n - 1 \subseteq table}
    BY <2>1, <2>2
  <2>5. (saved.status = 0) = FALSE
    BY <2>2
  <2> QED BY <2>3, <2>4, <2>5 DEF Contract!Init, Contract!Rows
<1>2. IInv /\ IInv' /\ [Next]_vars
      => [Contract!Next]_<<Wanted, table, saved.line, saved.status = 0>>
  BY ContractStep
<1> QED BY <1>1, <1>2, Invariance, PTL DEF Spec, Resumable, Contract!Spec
=============================================================================

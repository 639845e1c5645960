----------------------------- MODULE FileImport -----------------------------
(***************************************************************************)
(* Importing one CSV file over a sequence of runs: process_csv_file of     *)
(* importer/src/processor.rs and everything it drives.                     *)
(*                                                                         *)
(* A blocking producer reads the file and cuts it into statements, sends   *)
(* them through a channel of capacity 2 to the uploader, which groups them *)
(* and spawns one task per group; the tasks wait for a database permit and *)
(* for write capacity, and their requests are applied by D1 in any order.  *)
(* Group results are joined in any order, and at the end the longest       *)
(* contiguous prefix is saved as the checkpoint the next run resumes from. *)
(*                                                                         *)
(* The row allocation and the data budget are shared with the other files  *)
(* of the run, which appear as OthersClaim and OthersSpend.  WriteBudget   *)
(* has the detail of waiting for capacity.  The content and the CRC of the *)
(* file are fixed; ProviderSync replaces them.  What the database keeps of *)
(* the content is decided by its header: all rows, or none.                *)
(***************************************************************************)
EXTENDS Naturals, Sequences, FiniteSets

CONSTANTS
  NumRows,              \* data rows of the file, named 0 .. NumRows - 1
  TrailingBytes,        \* bytes after the last record: blank lines
  BatchSize,            \* QUERY_STATEMENT_BATCH_SIZE
  StatementsPerRequest, \* D1_STATEMENTS_PER_REQUEST
  DatabaseConcurrency,  \* D1_DATABASE_CONCURRENCY_LIMIT
  MaxRows,              \* the row allocation of the provider in a wave
  Lease,                \* data budget of a run
  MaxDisturbances       \* bound: faults and interference, over all runs

ASSUME ImportAssumption ==
  /\ NumRows \in Nat
  /\ TrailingBytes \in Nat
  /\ BatchSize \in Nat \ {0}
  /\ StatementsPerRequest \in Nat \ {0}
  /\ DatabaseConcurrency \in Nat \ {0}
  /\ MaxRows \in Nat
  /\ Lease \in Nat
  /\ MaxDisturbances \in Nat

(* What ImporterConfig::from_env accepts: two writes per row of a full request *)
RequestFits == 2 * BatchSize * StatementsPerRequest <= Lease

ASSUME ConfigurationAccepted == RequestFits

MaxWritesPerLogicalRow == 3
ChannelCapacity == 2

(* Bytes are counted in records: the header is one, so is each row. *)
HeaderEnd == 1
UncompressedSize == HeaderEnd + NumRows + TrailingBytes

VARIABLES
  matched,      \* the header has a column of the table
  table,        \* rows of the file present in D1
  saved,        \* the row of import_progress: line, byte, status
  pc,           \* where process_csv_file is
  base,         \* the checkpoint it was called with
  claimed,      \* rows_processed_this_run
  capacity,     \* remaining data budget of the run
  phase,        \* "open"; "draining", the last two minutes; "closing", the last
  producer,     \* extract_and_batch_csv: local_checkpoint, batch_start, file_done
  channel,      \* statements sent and not received
  uploading,    \* where upload_batches is
  pending,      \* statements received and not in a group
  groups,       \* batch_tasks: groups spawned and not joined
  statuses,     \* of the statements in joined groups, by first line
  failed,       \* had_error
  exhausted,    \* write_budget_exhausted
  outcome,      \* what update_file_progress is to save
  verdict,      \* what process_csv_file is to return: "ok", "exhausted", "error"
  disturbances  \* faults and interference so far

uploader == <<uploading, pending, groups, statuses, failed, exhausted>>
call == <<base, producer, channel, uploader>>
result == <<outcome, verdict>>
vars == <<matched, table, saved, pc, claimed, capacity, phase, call, result,
          disturbances>>

Checkpoint == [line : Nat, byte : Nat]
Progress == [line : Nat, byte : Nat, status : {0, 1}]
Batch == [start : Checkpoint, end : Checkpoint]

(* "queued"     waiting for a permit of the database
   "reserving"  waiting for write capacity
   "granted"    capacity reserved, waiting to send the request
   "sent"       the request is on its way      "applied"  by D1
   then the result of the task, waiting to be joined *)
Stage == {"queued", "reserving", "granted", "sent", "applied",
          "success", "exhausted", "failed", "panicked"}
Group == [batches : SUBSET Batch, stage : Stage, writes : Nat]

TypeOK ==
  /\ matched \in BOOLEAN
  /\ table \subseteq 0..NumRows - 1
  /\ saved \in Progress
  /\ pc \in {"idle", "starting", "importing", "saving", "answering", "ended"}
  /\ base \in Checkpoint
  /\ claimed \in Nat
  /\ capacity \in Nat
  /\ phase \in {"open", "draining", "closing"}
  /\ producer \in [state : {"opening", "reading", "finished", "broken",
                             "closed"},
                   at : Checkpoint, start : Checkpoint, outbox : Seq(Batch),
                   done : BOOLEAN]
  /\ channel \in Seq(Batch)
  /\ uploading \in {"receiving", "spawning", "joining"}
  /\ pending \subseteq Batch
  /\ groups \subseteq Group
  /\ DOMAIN statuses \subseteq Nat
  /\ \A l \in DOMAIN statuses : statuses[l] \in [end : Checkpoint, ok : BOOLEAN]
  /\ failed \in BOOLEAN
  /\ exhausted \in BOOLEAN
  /\ outcome \in Progress
  /\ verdict \in {"ok", "exhausted", "error"}
  /\ disturbances \in Nat

-----------------------------------------------------------------------------
(* Checkpoints and statements *)

(* Mutation for CheckpointOf: the saved position is not found *)
CheckpointOfDefault(progress) == [line |-> 0, byte |-> 0]

CheckpointOf(progress) == [line |-> progress.line, byte |-> progress.byte]

ProgressAt(checkpoint, status) ==
  [line |-> checkpoint.line, byte |-> checkpoint.byte, status |-> status]

DefaultCheckpoint == [line |-> 0, byte |-> 0]

Statement(from, to) == [start |-> from, end |-> to]

LinesOf(batch) == batch.start.line .. batch.end.line - 1

RowsOf(batches) == UNION {LinesOf(b) : b \in batches}

MaximumWrites(batches) == MaxWritesPerLogicalRow * Cardinality(RowsOf(batches))

(* What the loop of contiguous_committed_checkpoint does at a checkpoint: it
   goes on if the statement that starts there is committed and moves forward. *)
Continues(checkpoint, sts) ==
  /\ checkpoint.line \in DOMAIN sts
  /\ sts[checkpoint.line].ok
  /\ sts[checkpoint.line].end.line > checkpoint.line
  /\ sts[checkpoint.line].end.byte >= checkpoint.byte

(* The checkpoints that loop visits: the least set that has the first one and
   is closed under going on. *)
Visited(initial, sts) ==
  LET candidates == {initial} \cup {sts[l].end : l \in DOMAIN sts}
      Closed(S) == initial \in S /\ \A c \in S : Continues(c, sts) => sts[c.line].end \in S
  IN  {c \in candidates : \A S \in SUBSET candidates : Closed(S) => c \in S}

(* Mutation for ContiguousCommittedCheckpoint: the last committed statement,
   whatever is missing before it *)
LastCommittedCheckpoint(initial, sts) ==
  LET ends == {initial} \cup {sts[l].end : l \in {k \in DOMAIN sts : sts[k].ok}}
  IN  CHOOSE c \in ends : \A d \in ends : d.line <= c.line

ContiguousCommittedCheckpoint(initial, sts) ==
  CHOOSE c \in Visited(initial, sts) :
    \A d \in Visited(initial, sts) : d.line <= c.line

ProducerCheckpointIsCommitted(produced, committed) ==
  produced.line = committed.line /\ produced.byte >= committed.byte

Disturbance ==
  /\ disturbances < MaxDisturbances
  /\ disturbances' = disturbances + 1

-----------------------------------------------------------------------------
(* Runs *)

Unopened == [state |-> "opening", at |-> DefaultCheckpoint, start |-> DefaultCheckpoint,
             outbox |-> <<>>, done |-> FALSE]

(* Nothing has been imported, or some rows by a version of the importer that
   saved no byte offset: migrations/*_add_import_progress_byte.sql keeps the
   line and sets the byte to zero. *)
Init ==
  /\ matched \in BOOLEAN
  /\ \E line \in IF matched THEN 0..NumRows ELSE {0} :
       /\ table = 0..line - 1
       /\ saved = ProgressAt([line |-> line, byte |-> 0], 1)
  /\ pc = "idle"
  /\ base = DefaultCheckpoint
  /\ claimed = 0
  /\ capacity = 0
  /\ phase = "open"
  /\ producer = Unopened
  /\ channel = <<>>
  /\ uploading = "receiving"
  /\ pending = {}
  /\ groups = {}
  /\ statuses = <<>>
  /\ failed = FALSE
  /\ exhausted = FALSE
  /\ outcome = ProgressAt(DefaultCheckpoint, 1)
  /\ verdict = "ok"
  /\ disturbances = 0

(* A call of process_csv_file holds nothing of an earlier one. *)
FreshCall(checkpoint) ==
  /\ base' = checkpoint
  /\ producer' = Unopened
  /\ channel' = <<>>
  /\ uploading' = "receiving"
  /\ pending' = {}
  /\ groups' = {}
  /\ statuses' = <<>>
  /\ failed' = FALSE
  /\ exhausted' = FALSE
  /\ outcome' = ProgressAt(checkpoint, 1)
  /\ verdict' = "ok"

(* A run leases write capacity, and reads the row of import_progress. *)
StartRun ==
  /\ pc = "idle"
  /\ saved.status = 1
  /\ pc' = "starting"
  /\ claimed' = 0
  /\ capacity' = Lease
  /\ phase' = "open"
  /\ FreshCall(CheckpointOf(saved))
  /\ UNCHANGED <<matched, table, saved, disturbances>>

(* The next wave resumes from the checkpoint in memory, with new rows. *)
NextWave ==
  /\ pc = "ended"
  /\ verdict = "ok"
  /\ outcome.status = 1
  /\ pc' = "starting"
  /\ claimed' = 0
  /\ FreshCall(CheckpointOf(outcome))
  /\ UNCHANGED <<matched, table, saved, capacity, phase, disturbances>>

EndRun ==
  /\ pc = "ended"
  /\ pc' = "idle"
  /\ claimed' = 0
  /\ capacity' = 0
  /\ phase' = "open"
  /\ FreshCall(DefaultCheckpoint)
  /\ UNCHANGED <<matched, table, saved, disturbances>>

(* The process dies: requests on their way are applied or not. *)
Crash ==
  /\ pc # "idle"
  /\ Disturbance
  /\ \E landed \in SUBSET {g \in groups : g.stage = "sent"} :
       table' = table \cup UNION {RowsOf(g.batches) : g \in landed}
  /\ saved' \in {saved} \cup (IF pc = "saving" /\ phase # "closing" THEN {outcome} ELSE {})
  /\ pc' = "idle"
  /\ claimed' = 0
  /\ capacity' = 0
  /\ phase' = "open"
  /\ FreshCall(DefaultCheckpoint)
  /\ UNCHANGED matched

(* The other files of the provider claim rows, those of the run spend. *)
OthersClaim ==
  /\ pc \in {"starting", "importing"}
  /\ claimed < MaxRows
  /\ Disturbance
  /\ claimed' \in {claimed + 1, MaxRows}
  /\ UNCHANGED <<matched, table, saved, pc, capacity, phase, call, result>>

OthersSpend ==
  /\ pc \in {"starting", "importing"}
  /\ Disturbance
  /\ capacity' \in 0..capacity
  /\ UNCHANGED <<matched, table, saved, pc, claimed, phase, call, result>>

(* Midnight approaches. *)
ClosePhase ==
  /\ pc # "idle"
  /\ phase # "closing"
  /\ Disturbance
  /\ phase' = IF phase = "open" THEN "draining" ELSE "closing"
  /\ UNCHANGED <<matched, table, saved, pc, claimed, capacity, call, result>>

(* process_csv_file up to the start of producer and uploader *)
SkipFile ==
  /\ pc = "starting"
  /\ claimed >= MaxRows
  /\ pc' = "ended"
  /\ UNCHANGED <<matched, table, saved, claimed, capacity, phase, call, result, disturbances>>

(* reserve_checkpoint finds the metadata budget exhausted. *)
RefuseFile ==
  /\ pc = "starting"
  /\ Disturbance
  /\ pc' = "ended"
  /\ verdict' = "exhausted"
  /\ UNCHANGED <<matched, table, saved, claimed, capacity, phase, call, outcome>>

BeginFile ==
  /\ pc = "starting"
  /\ claimed < MaxRows
  /\ pc' = "importing"
  /\ UNCHANGED <<matched, table, saved, claimed, capacity, phase, call, result, disturbances>>

-----------------------------------------------------------------------------
(* The producer *)

others == <<matched, table, saved, pc, base, capacity, phase, uploader, result>>

(* Mutation for Sought: records that a checkpoint counts are not read again *)
SoughtAfterHeader == IF base.byte # 0 THEN base ELSE [base EXCEPT !.byte = HeaderEnd]

(* Where the next record starts: at the saved byte, or else after the header
   and as many records as the checkpoint has lines. *)
Sought ==
  IF base.byte # 0 THEN base ELSE [line |-> base.line, byte |-> HeaderEnd + base.line]

FinishedAt(checkpoint, done) ==
  [producer EXCEPT !.state = "finished", !.at = checkpoint, !.done = done]

ReadingFrom(checkpoint) ==
  [producer EXCEPT !.state = "reading", !.at = checkpoint, !.start = checkpoint]

(* A file whose header matches no column of the table is done as it is, and
   so is one that ends among the records to be read again. *)
OpenFile ==
  /\ pc = "importing"
  /\ producer.state = "opening"
  /\ \/ claimed >= MaxRows /\ producer' = FinishedAt(base, FALSE)
     \/ claimed < MaxRows /\ ~matched /\ producer' = FinishedAt(base, TRUE)
     \/ /\ claimed < MaxRows /\ matched
        /\ producer' =
             IF base.byte = 0 /\ base.line > NumRows
               THEN FinishedAt([base EXCEPT !.byte = UncompressedSize], TRUE)
               ELSE ReadingFrom(Sought)
  /\ UNCHANGED <<others, claimed, channel, disturbances>>

Reading == pc = "importing" /\ producer.state = "reading" /\ producer.outbox = <<>>

RecordEnd == [line |-> producer.at.line + 1, byte |-> producer.at.byte + 1]

HasRow == producer.at.line < NumRows

(* What has been read and not put into a statement *)
Unsent == Statement(producer.start, producer.at)

(* The row joins the current statement.  The statement is sent when it has
   BatchSize rows or the row fills its payload. *)
AppendRow ==
  /\ Reading
  /\ HasRow /\ claimed < MaxRows
  /\ claimed' = claimed + 1
  /\ \E fillsPayload \in BOOLEAN :
       producer' =
         IF fillsPayload \/ RecordEnd.line - producer.start.line >= BatchSize
           THEN [producer EXCEPT !.at = RecordEnd, !.start = RecordEnd,
                                 !.outbox = <<Statement(producer.start, RecordEnd)>>]
           ELSE [producer EXCEPT !.at = RecordEnd]
  /\ UNCHANGED <<others, channel, disturbances>>

(* The row would overflow the payload of the current statement, which is sent
   without it; the row starts the next one, and may fill it. *)
SplitStatement ==
  /\ Reading
  /\ HasRow /\ claimed < MaxRows
  /\ producer.at.line > producer.start.line
  /\ claimed' = claimed + 1
  /\ \E fillsPayload \in BOOLEAN :
       producer' =
         IF fillsPayload \/ BatchSize = 1
           THEN [producer EXCEPT !.at = RecordEnd, !.start = RecordEnd,
                                 !.outbox = <<Unsent, Statement(producer.at, RecordEnd)>>]
           ELSE [producer EXCEPT !.at = RecordEnd, !.start = producer.at,
                                 !.outbox = <<Unsent>>]
  /\ UNCHANGED <<others, channel, disturbances>>

(* Mutations for FileDone: a stop at the allocation counts as the end; only
   the byte offset counts *)
FileDoneAnyway == TRUE
FileDoneByOffset == producer.at.byte >= UncompressedSize

FileDone == claimed >= MaxRows => producer.at.byte >= UncompressedSize

(* End of the file, or of the allocation: seen before a record is read, or
   when a row of another file was counted first.  The rest is sent. *)
StopReading ==
  /\ Reading
  /\ ~HasRow \/ claimed >= MaxRows
  /\ producer' =
       [producer EXCEPT
          !.state = "finished",
          !.done = FileDone,
          !.outbox = IF producer.at.line > producer.start.line THEN <<Unsent>> ELSE <<>>]
  /\ UNCHANGED <<others, claimed, channel, disturbances>>

(* The archive cannot be read, or a header or record is unreadable or too
   long: what was not sent is dropped. *)
BreakReading ==
  /\ pc = "importing"
  /\ producer.state \in {"opening", "reading"} /\ producer.outbox = <<>>
  /\ Disturbance
  /\ producer' = [producer EXCEPT !.state = "broken"]
  /\ UNCHANGED <<others, claimed, channel>>

(* blocking_send *)
SendStatement ==
  /\ pc = "importing"
  /\ producer.outbox # <<>>
  /\ uploading # "joining"
  /\ Len(channel) < ChannelCapacity
  /\ channel' = Append(channel, Head(producer.outbox))
  /\ producer' = [producer EXCEPT !.outbox = Tail(@)]
  /\ UNCHANGED <<others, claimed, disturbances>>

(* The receiver is gone: UploaderClosed *)
SendFails ==
  /\ pc = "importing"
  /\ producer.outbox # <<>>
  /\ uploading = "joining"
  /\ producer' = [producer EXCEPT !.state = "closed", !.outbox = <<>>]
  /\ UNCHANGED <<others, claimed, channel, disturbances>>

ProducerEnded ==
  producer.state \in {"finished", "broken", "closed"} /\ producer.outbox = <<>>

-----------------------------------------------------------------------------
(* The uploader *)

outside == <<matched, table, saved, pc, base, claimed, capacity, phase, producer,
             result, disturbances>>

Spawned(batches) == [batches |-> batches, stage |-> "queued", writes |-> 0]

Receive ==
  /\ pc = "importing"
  /\ uploading = "receiving"
  /\ channel # <<>>
  /\ channel' = Tail(channel)
  /\ pending' = pending \cup {Head(channel)}
  /\ uploading' = IF Cardinality(pending') < StatementsPerRequest
                    THEN "receiving" ELSE "spawning"
  /\ UNCHANGED <<outside, groups, statuses, failed, exhausted>>

SpawnGroup ==
  /\ pc = "importing"
  /\ uploading = "spawning"
  /\ Cardinality(groups) < DatabaseConcurrency
  /\ groups' = groups \cup {Spawned(pending)}
  /\ pending' = {}
  /\ uploading' = "receiving"
  /\ UNCHANGED <<outside, channel, statuses, failed, exhausted>>

(* The channel is closed and empty: the rest is spawned, over the limit if
   need be, and the receiver is dropped. *)
SpawnRest ==
  /\ pc = "importing"
  /\ uploading = "receiving"
  /\ channel = <<>>
  /\ ProducerEnded
  /\ groups' = IF pending = {} THEN groups ELSE groups \cup {Spawned(pending)}
  /\ pending' = {}
  /\ uploading' = "joining"
  /\ UNCHANGED <<outside, channel, statuses, failed, exhausted>>

Ended(g) == g.stage \in {"success", "exhausted", "failed", "panicked"}

(* record_task_result: a group that panicked leaves no status. *)
RecordTaskResult(g) ==
  LET firsts == {b.start.line : b \in g.batches}
      entry(l) == [end |-> (CHOOSE b \in g.batches : b.start.line = l).end,
                   ok |-> g.stage = "success"]
  IN  IF g.stage = "panicked" THEN statuses
      ELSE [l \in DOMAIN statuses \cup firsts |->
              IF l \in firsts THEN entry(l) ELSE statuses[l]]

(* While receiving, groups are joined only to make room for the next one; a
   result that is not a success then ends the loop. *)
JoinGroup(g) ==
  /\ pc = "importing"
  /\ \/ uploading = "spawning" /\ Cardinality(groups) >= DatabaseConcurrency
     \/ uploading = "joining"
  /\ Ended(g)
  /\ groups' = groups \ {g}
  /\ statuses' = RecordTaskResult(g)
  /\ failed' = (failed \/ g.stage \in {"failed", "panicked"})
  /\ exhausted' = (exhausted \/ g.stage = "exhausted")
  /\ uploading' = IF failed' \/ exhausted' THEN "joining" ELSE uploading
  /\ UNCHANGED <<outside, channel, pending>>

-----------------------------------------------------------------------------
(* flush_group *)

Advance(g, stage) == groups' = (groups \ {g}) \cup {[g EXCEPT !.stage = stage]}

elsewhere == <<matched, saved, pc, base, claimed, phase, producer, channel,
               uploading, pending, statuses, failed, exhausted, result>>

HoldsPermit(g) == g.stage \in {"reserving", "granted", "sent", "applied"}

TakePermit(g) ==
  /\ g.stage = "queued"
  /\ Cardinality({h \in groups : HoldsPermit(h)}) < DatabaseConcurrency
  /\ Advance(g, "reserving")
  /\ UNCHANGED <<elsewhere, table, capacity, disturbances>>

(* Mutation for Affordable: the rows are counted, not what they cost *)
AffordableRows(batches) == Cardinality(RowsOf(batches)) <= capacity

Affordable(batches) == MaximumWrites(batches) <= capacity

HoldsCapacity(g) == g.stage \in {"granted", "sent", "applied"}

ReserveImportWrites(g) ==
  /\ g.stage = "reserving"
  /\ phase = "open"
  /\ Affordable(g.batches)
  /\ capacity' = capacity - MaximumWrites(g.batches)
  /\ Advance(g, "granted")
  /\ UNCHANGED <<elsewhere, table, disturbances>>

(* Too late in the day, or nothing in flight can make room. *)
RefuseImportWrites(g) ==
  /\ g.stage = "reserving"
  /\ \/ phase # "open"
     \/ /\ ~Affordable(g.batches)
        /\ ~ \E h \in groups : HoldsCapacity(h)
  /\ Advance(g, "exhausted")
  /\ UNCHANGED <<elsewhere, table, capacity, disturbances>>

SendRequest(g) ==
  /\ g.stage = "granted"
  /\ Advance(g, IF phase = "closing" THEN "exhausted" ELSE "sent")
  /\ UNCHANGED <<elsewhere, table, capacity, disturbances>>

(* Mutation for RowsWritten: rows are written again when they are sent again *)
RowsWrittenAgain(batches, perRow) == perRow * Cardinality(RowsOf(batches))

(* Rows that are already there are unchanged: the upsert skips them. *)
RowsWritten(batches, perRow) == perRow * Cardinality(RowsOf(batches) \ table)

(* The statements of a request are one transaction of upserts. *)
ApplyRequest(g) ==
  /\ g.stage = "sent"
  /\ table' = table \cup RowsOf(g.batches)
  /\ \E perRow \in {1, MaxWritesPerLogicalRow} :
       groups' = (groups \ {g}) \cup
         {[g EXCEPT !.stage = "applied",
                    !.writes = RowsWritten(g.batches, perRow)]}
  /\ UNCHANGED <<elsewhere, capacity, disturbances>>

(* settle() returns what the rows did not cost. *)
FinishGroup(g) ==
  /\ g.stage = "applied"
  /\ capacity' = capacity + (MaximumWrites(g.batches) - g.writes)
  /\ Advance(g, "success")
  /\ UNCHANGED <<elsewhere, table, disturbances>>

(* An error status, a lost request or answer, no rows_written, or more of them
   than were reserved: the reservation is consumed, the group has failed. *)
FailGroup(g) ==
  /\ g.stage \in {"sent", "applied"}
  /\ Disturbance
  /\ Advance(g, "failed")
  /\ UNCHANGED <<elsewhere, table, capacity>>

PanicGroup(g) ==
  /\ ~Ended(g)
  /\ Disturbance
  /\ Advance(g, "panicked")
  /\ UNCHANGED <<elsewhere, table, capacity>>

-----------------------------------------------------------------------------
(* Saving the checkpoint *)

inputs == <<matched, table, saved, claimed, capacity, phase, call, disturbances>>

(* What is saved, and what process_csv_file returns if that succeeds *)
Conclude ==
  LET committed == ContiguousCommittedCheckpoint(base, statuses)
      incomplete == failed \/ exhausted \/ producer.state # "finished"
                    \/ ~ProducerCheckpointIsCommitted(producer.at, committed)
  IN  /\ pc = "importing"
      /\ uploading = "joining" /\ groups = {} /\ ProducerEnded
      /\ pc' = "saving"
      /\ outcome' = IF incomplete THEN ProgressAt(committed, 1)
                    ELSE ProgressAt(producer.at, IF producer.done THEN 0 ELSE 1)
      /\ verdict' = IF ~incomplete THEN "ok"
                    ELSE IF exhausted /\ ~failed /\ producer.state # "broken" THEN "exhausted"
                    ELSE "error"
      /\ UNCHANGED inputs

(* update_file_progress *)
ApplySave ==
  /\ pc = "saving"
  /\ phase # "closing"
  /\ saved' = outcome
  /\ pc' = "answering"
  /\ UNCHANGED <<matched, table, claimed, capacity, phase, call, result, disturbances>>

AnswerSave ==
  /\ pc = "answering"
  /\ pc' = "ended"
  /\ UNCHANGED <<inputs, result>>

(* The request was withheld in the final minute. *)
WithholdSave ==
  /\ pc = "saving"
  /\ phase = "closing"
  /\ pc' = "ended"
  /\ verdict' = "error"
  /\ UNCHANGED <<inputs, outcome>>

(* The request or its answer was lost. *)
FailSave ==
  /\ pc \in {"saving", "answering"}
  /\ Disturbance
  /\ pc' = "ended"
  /\ verdict' = "error"
  /\ UNCHANGED <<matched, table, saved, claimed, capacity, phase, call, outcome>>

-----------------------------------------------------------------------------
Produce ==
  \/ OpenFile \/ AppendRow \/ SplitStatement \/ StopReading
  \/ SendStatement \/ SendFails

Upload == Receive \/ SpawnGroup \/ SpawnRest \/ \E g \in groups : JoinGroup(g)

Flush ==
  \E g \in groups :
    \/ TakePermit(g)
    \/ ReserveImportWrites(g)
    \/ RefuseImportWrites(g)
    \/ SendRequest(g)
    \/ ApplyRequest(g)
    \/ FinishGroup(g)

Conduct ==
  \/ StartRun \/ SkipFile \/ BeginFile \/ NextWave \/ EndRun
  \/ Conclude \/ ApplySave \/ AnswerSave \/ WithholdSave

Disturb ==
  \/ Crash \/ OthersClaim \/ OthersSpend \/ ClosePhase \/ RefuseFile
  \/ BreakReading \/ FailSave
  \/ \E g \in groups : FailGroup(g) \/ PanicGroup(g)

(* Nothing is left to import. *)
Complete == pc = "idle" /\ saved.status = 0 /\ UNCHANGED vars

Next == Produce \/ Upload \/ Flush \/ Conduct \/ Disturb \/ Complete

Spec == Init /\ [][Next]_vars

(* Threads and tasks that can run do, requests are answered, the schedule
   starts another run after one has ended.  Nothing forces a disturbance. *)
FairSpec ==
  /\ Spec
  /\ WF_vars(Produce)
  /\ WF_vars(Upload)
  /\ WF_vars(Flush)
  /\ WF_vars(Conduct)

-----------------------------------------------------------------------------
(* The rows that the database keeps: none if it has no column for them *)
Wanted == IF matched THEN 0..NumRows - 1 ELSE {}

(* A run that dies at any point leaves a checkpoint the next one can resume
   from: every row before it is in the table, although groups are applied out
   of order and any of them can fail - and its byte offset, unless it has none
   because an earlier version saved it, is where the row of its line starts,
   so no row is skipped, read twice or cut in two.  A file that is skipped for
   good has in the table all rows the database keeps of it: the header, the
   allocation, the last partial statement and blank lines at the end of the
   file decide file_done, not the database. *)
CheckpointSound ==
  /\ 0..saved.line - 1 \subseteq table
  /\ saved.status = 0 => Wanted \subseteq table
  /\ saved.byte # 0 => saved.byte = HeaderEnd + saved.line

(* The import of the file implements its abstract specification: in
   particular no run, wave or lost answer moves the checkpoint back. *)
Contract == INSTANCE ResumableFile WITH
  rows <- table, wanted <- Wanted, mark <- saved.line, complete <- (saved.status = 0)
Resumable == Contract!Spec

(* With finitely many disturbances every file is imported in the end: no
   wave, run or disturbance leaves producer, channel, uploader and group tasks
   waiting on each other, or the runs going in circles. *)
EveryFileCompletes == <>(saved.status = 0)
=============================================================================

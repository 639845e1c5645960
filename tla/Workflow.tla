------------------------------- MODULE Workflow -------------------------------
(***************************************************************************)
(* One run of the importer: main of importer/src/main.rs, with the tasks   *)
(* it spawns, prepare_provider, process_prepared_provider and              *)
(* process_csv_file of importer/src/processor.rs, seen from the limits     *)
(* they share: the rows of the workflow, which waves divide between        *)
(* providers; temporary storage; permits for producers; the two budgets of *)
(* writes.                                                                 *)
(*                                                                         *)
(* FileImport has the pipeline of one file and WriteBudget the waiting for *)
(* one budget; here a row is committed in a step, and a file that waits    *)
(* for its checkpoint is one whose action is not enabled.                  *)
(***************************************************************************)
EXTENDS Integers, FiniteSets, FiniteSetsExt, Sums

CONSTANTS
  NumProviders,    \* providers of providers.toml
  Files,           \* files to import
  ProviderOf,      \* the provider of each
  Rows,            \* the rows of each
  MaxChunks,       \* MAX_FEED_DOWNLOAD_MB, in chunks
  StorageLimit,    \* MAX_TEMP_FEED_STORAGE_MB, in chunks
  RowBudgets,      \* values of MAX_ROWS_PER_WORKFLOW
  CsvPermits,      \* CSV_CONCURRENCY_LIMIT
  MetadataBudgets, \* what preparing may leave of the metadata budget
  DataBudgets,     \* rows that a lease may cover
  MaxFailures      \* bound: failures

CheckpointWrites == 2

(* numbered in the order of their names *)
Providers == 1..NumProviders

ASSUME WorkflowAssumption ==
  /\ NumProviders \in Nat /\ IsFiniteSet(Files)
  /\ ProviderOf \in [Files -> Providers]
  /\ Rows \in [Files -> Nat \ {0}]
  /\ RowBudgets \subseteq Nat \ {0} /\ RowBudgets # {} /\ IsFiniteSet(RowBudgets)
  /\ MaxChunks \in Nat \ {0} /\ CsvPermits \in Nat \ {0}
  /\ MetadataBudgets \subseteq Nat /\ DataBudgets \subseteq Nat
  /\ StorageLimit \in Nat /\ MaxFailures \in Nat

(* A feed of the largest size fits into the storage. *)
LargestFeedFits == MaxChunks <= StorageLimit

ASSUME ConfigurationAccepted == LargestFeedFits

VARIABLES
  phase,      \* where main is
  prepared,   \* what became of preparing each provider
  used_bytes,   \* TempFeedStorage, in chunks
  stored,     \* by provider, the chunks of its feed
  stuck,      \* providers whose file cannot be removed
  orphaned,   \* chunks of such files that no feed has
  left,       \* by file, rows that have no checkpoint yet
  pending,    \* providers to import, of this wave or the next
  running,    \* providers whose task has not ended
  limit,      \* by provider, its rows in this wave
  claimed,    \* rows_processed_this_run
  budget,     \* remaining_budget
  processed,  \* rows of providers whose task has ended in this wave
  task,       \* where the task of a file is
  got,        \* rows that it claimed in this wave
  sent,      \* rows of those that D1 has
  refused,    \* files that met the end of a write budget
  meta, held, \* the metadata budget, and reservations for checkpoints
  data,       \* the write budget
  has_error, exhausted, failures

storage == <<used_bytes, stored, stuck, orphaned>>
preparing == <<prepared, storage>>
wave == <<pending, running, limit, budget, processed>>
tasks == <<left, claimed, task, got, sent, refused>>
budgets == <<meta, held, data>>
outcome == <<has_error, exhausted>>
vars == <<phase, preparing, wave, tasks, budgets, outcome, failures>>

MaxRows == Max(RowBudgets)

TypeOK ==
  /\ phase \in {"preparing", "between", "running", "over", "ended"}
  /\ prepared \in [Providers -> {"downloading", "ready", "skipped", "failed"}]
  /\ stored \in [Providers -> Nat] /\ stuck \subseteq Providers
  /\ used_bytes \in Nat /\ orphaned \in Nat
  /\ left \in [Files -> Nat] /\ \A f \in Files : left[f] <= Rows[f]
  /\ pending \subseteq Providers /\ running \subseteq Providers
  /\ limit \in [Providers -> 0..MaxRows] /\ claimed \in [Providers -> 0..MaxRows]
  /\ budget \in 0..MaxRows /\ processed \in 0..MaxRows
  /\ task \in [Files -> {"none", "begin", "queued", "producing", "uploading", "done", "failed"}]
  /\ got \in [Files -> Nat] /\ sent \in [Files -> Nat]
  /\ \A f \in Files : sent[f] <= got[f] /\ got[f] <= left[f]
  /\ refused \subseteq Files
  /\ meta \in Nat /\ held \in 0..Cardinality(Files) /\ data \in Nat
  /\ has_error \in BOOLEAN /\ exhausted \in BOOLEAN
  /\ failures \in 0..MaxFailures

(* the sum over the providers of S *)
TotalOf(f, S) == Total([p \in Providers |-> IF p \in S THEN f[p] ELSE 0], NumProviders)

FilesOf(p) == {f \in Files : ProviderOf[f] = p}

Failure == failures < MaxFailures /\ failures' = failures + 1

Init ==
  /\ phase = "preparing"
  /\ prepared = [p \in Providers |-> "downloading"]
  /\ used_bytes = 0 /\ stored = [p \in Providers |-> 0] /\ orphaned = 0
  /\ stuck \in {S \in SUBSET Providers : Cardinality(S) <= MaxFailures}
  /\ left = Rows
  /\ pending = {} /\ running = {}
  /\ limit = [p \in Providers |-> 0] /\ claimed = [p \in Providers |-> 0]
  /\ budget \in RowBudgets /\ processed = 0
  /\ task = [f \in Files |-> "none"]
  /\ got = [f \in Files |-> 0] /\ sent = [f \in Files |-> 0]
  /\ refused = {}
  /\ meta \in MetadataBudgets /\ held = 0 /\ data \in DataBudgets
  /\ has_error = FALSE /\ exhausted = FALSE /\ failures = Cardinality(stuck)

-----------------------------------------------------------------------------
(* Preparing *)

Downloading(p) == phase = "preparing" /\ prepared[p] = "downloading"

(* Mutation for Released: the reservation is released all the same *)
ReleasedAlways(S) == S

(* The feeds whose reservation goes with them: their file could be removed. *)
Released(S) == S \ stuck

(* TemporaryFeed::drop *)
Drop(S) ==
  /\ stored' = [p \in Providers |-> IF p \in S THEN 0 ELSE stored[p]]
  /\ used_bytes' = used_bytes - TotalOf(stored, Released(S))
  /\ orphaned' = orphaned + TotalOf(stored, S \cap stuck)
  /\ UNCHANGED stuck

(* The task of p returns; unless it is ready, it drops its feed. *)
Prepared(p, result) ==
  /\ Downloading(p)
  /\ prepared' = [prepared EXCEPT ![p] = result]
  /\ IF result = "ready" THEN UNCHANGED storage ELSE Drop({p})
  /\ UNCHANGED <<phase, wave, tasks, budgets, outcome>>

(* Mutation for HasRoom: the limit may be passed by one chunk *)
HasRoomForOne == used_bytes <= StorageLimit

HasRoom == used_bytes < StorageLimit

ReserveChunk(p) ==
  /\ Downloading(p) /\ stored[p] < MaxChunks
  /\ HasRoom
  /\ used_bytes' = used_bytes + 1
  /\ stored' = [stored EXCEPT ![p] = @ + 1]
  /\ UNCHANGED <<phase, prepared, stuck, orphaned, wave, tasks, budgets, outcome, failures>>

NoRoom(p) ==
  /\ stored[p] < MaxChunks /\ ~HasRoom
  /\ Prepared(p, "failed")
  /\ UNCHANGED failures

(* The feed is unchanged, or no file of it requires import. *)
SkipProvider(p) ==
  /\ Prepared(p, "skipped")
  /\ UNCHANGED failures

Ready(p) ==
  /\ stored[p] # 0 /\ FilesOf(p) # {}
  /\ Prepared(p, "ready")
  /\ UNCHANGED failures

FailPrepare(p) == Prepared(p, "failed") /\ Failure

-----------------------------------------------------------------------------
(* Waves *)

With(result) == {p \in Providers : prepared[p] = result}

(* Mutation for Sufficient: providers without a row wait *)
SufficientAlways(n) == TRUE

(* No row was given yet: budget is MAX_ROWS_PER_WORKFLOW. *)
Sufficient(n) == budget >= n

StartWaves ==
  /\ phase = "preparing" /\ With("downloading") = {}
  /\ IF Sufficient(Cardinality(With("ready")))
       THEN /\ phase' = "between"
            /\ pending' = With("ready")
            /\ has_error' = (With("failed") # {})
            /\ UNCHANGED storage
       ELSE /\ phase' = "ended"
            /\ has_error' = TRUE
            /\ Drop(Providers)
            /\ UNCHANGED pending
  /\ UNCHANGED <<prepared, running, limit, budget, processed, tasks, budgets,
                 exhausted, failures>>

(* Mutation for FairLimit: every share is rounded up *)
FairLimitUp(p) ==
  LET n == Cardinality(pending)
  IN  budget \div n + (IF budget % n # 0 THEN 1 ELSE 0)

(* fair_row_limits: pending is sorted by name *)
FairLimit(p) ==
  LET n     == Cardinality(pending)
      index == Cardinality({q \in pending : q < p})
  IN  budget \div n + (IF index < budget % n THEN 1 ELSE 0)

StartWave ==
  /\ phase = "between" /\ pending # {} /\ budget # 0
  /\ phase' = "running"
  /\ limit' = [p \in Providers |-> IF p \in pending THEN FairLimit(p) ELSE 0]
  /\ running' = {p \in pending : limit'[p] # 0}
  /\ pending' = pending \ running'
  /\ processed' = 0
  /\ claimed' = [p \in Providers |-> 0]
  /\ task' = [f \in Files |->
       IF ProviderOf[f] \in running' /\ left[f] # 0 THEN "begin" ELSE "none"]
  /\ refused' = {}
  /\ UNCHANGED <<preparing, budget, left, got, sent, budgets, outcome, failures>>

-----------------------------------------------------------------------------
(* process_csv_file *)

Own(f) == ProviderOf[f]
AllClaimed(f) == claimed[Own(f)] >= limit[Own(f)]

Move(f, from, to) == task[f] = from /\ task' = [task EXCEPT ![f] = to]

NothingToClaim(f) ==
  /\ AllClaimed(f)
  /\ Move(f, "begin", "done")
  /\ UNCHANGED <<phase, preparing, wave, left, claimed, got, sent, refused,
                 budgets, outcome, failures>>

(* Mutation for Covers: the checkpoint is paid for when it is saved *)
CoversLater(writes) == TRUE

Covers(writes) == meta >= writes

(* reserve_checkpoint: it waits while a reservation is held that may return
   writes, and is refused when none is. *)
ReserveCheckpoint(f) ==
  /\ ~AllClaimed(f) /\ Covers(CheckpointWrites)
  /\ Move(f, "begin", "queued")
  /\ meta' = meta - CheckpointWrites
  /\ held' = held + 1
  /\ UNCHANGED <<phase, preparing, wave, left, claimed, got, sent, refused,
                 data, outcome, failures>>

RefuseCheckpoint(f) ==
  /\ ~AllClaimed(f) /\ ~Covers(CheckpointWrites) /\ held = 0
  /\ Move(f, "begin", "done")
  /\ refused' = refused \cup {f}
  /\ UNCHANGED <<phase, preparing, wave, left, claimed, got, sent, budgets,
                 outcome, failures>>

TakePermit(f) ==
  /\ Cardinality({g \in Files : task[g] = "producing"}) < CsvPermits
  /\ Move(f, "queued", "producing")
  /\ UNCHANGED <<phase, preparing, wave, left, claimed, got, sent, refused,
                 budgets, outcome, failures>>

Claimable(f) == got[f] < left[f] /\ ~AllClaimed(f)

ClaimRow(f) ==
  /\ task[f] = "producing" /\ Claimable(f)
  /\ got' = [got EXCEPT ![f] = @ + 1]
  /\ claimed' = [claimed EXCEPT ![Own(f)] = @ + 1]
  /\ UNCHANGED <<phase, preparing, wave, left, task, sent, refused, budgets,
                 outcome, failures>>

(* The file or the allocation ends, or the uploader has closed the channel. *)
StopProducing(f) ==
  /\ ~Claimable(f) \/ f \in refused
  /\ Move(f, "producing", "uploading")
  /\ UNCHANGED <<phase, preparing, wave, left, claimed, got, sent, refused,
                 budgets, outcome, failures>>

Uploading(f) == task[f] \in {"producing", "uploading"} /\ sent[f] < got[f] /\ f \notin refused

CommitRow(f) ==
  /\ Uploading(f) /\ data > 0
  /\ sent' = [sent EXCEPT ![f] = @ + 1]
  /\ data' = data - 1
  /\ UNCHANGED <<phase, preparing, wave, left, claimed, task, got, refused,
                 meta, held, outcome, failures>>

RefuseRow(f) ==
  /\ Uploading(f) /\ data = 0
  /\ refused' = refused \cup {f}
  /\ UNCHANGED <<phase, preparing, wave, left, claimed, task, got, sent,
                 budgets, outcome, failures>>

(* update_file_progress: what it does not write of the rows it reserved
   returns.  Where writes were refused, rows behind the checkpoint may be in
   the tables. *)
SaveFile(f, rows, writes) ==
  /\ \/ f \notin refused /\ rows = got[f] /\ sent[f] = got[f]
     \/ f \in refused /\ rows <= sent[f]
  /\ Move(f, "uploading", "done")
  /\ left' = [left EXCEPT ![f] = @ - rows]
  /\ got' = [got EXCEPT ![f] = 0]
  /\ sent' = [sent EXCEPT ![f] = 0]
  /\ meta' = meta + CheckpointWrites - writes
  /\ held' = held - 1
  /\ UNCHANGED <<phase, preparing, wave, claimed, refused, data, outcome, failures>>

(* The file fails.  Unless its checkpoint is saved and D1 answers, what it
   reserved is consumed. *)
FailFile(f, rows, back) ==
  /\ task[f] \in {"queued", "producing", "uploading"}
  /\ Failure
  /\ task' = [task EXCEPT ![f] = "failed"]
  /\ left' = [left EXCEPT ![f] = @ - rows]
  /\ got' = [got EXCEPT ![f] = 0]
  /\ sent' = [sent EXCEPT ![f] = 0]
  /\ meta' = meta + back
  /\ held' = held - 1
  /\ UNCHANGED <<phase, preparing, wave, claimed, refused, data, outcome>>

-----------------------------------------------------------------------------
(* The end of process_prepared_provider, and of the wave *)

(* Mutation for Joined: the first file that ends, ends the provider *)
JoinedOne(p) == \E f \in FilesOf(p) : task[f] \in {"none", "done", "failed"}

Joined(p) ==
  /\ p \in running
  /\ \A f \in FilesOf(p) : task[f] \in {"none", "done", "failed"}

Failed(p) == \E f \in FilesOf(p) : task[f] = "failed"
Finished(p) == \A f \in FilesOf(p) : left[f] = 0

Leave(p) ==
  /\ running' = running \ {p}
  /\ processed' = processed + claimed[p]
  /\ UNCHANGED <<phase, prepared, limit, budget, tasks, held, data, failures>>

(* An error: its rows are not counted, its feed is dropped. *)
FailProvider(p) ==
  /\ running' = running \ {p}
  /\ has_error' = TRUE
  /\ Drop({p})
  /\ UNCHANGED <<phase, prepared, pending, limit, budget, processed, tasks,
                 held, data, exhausted>>

EndFailed(p) ==
  /\ Joined(p) /\ Failed(p)
  /\ FailProvider(p)
  /\ UNCHANGED <<meta, failures>>

(* set_dataset_version: writes are waited for as for a checkpoint.  A feed
   without an ETag has no version. *)
RecordVersion(p, writes) ==
  /\ Joined(p) /\ ~Failed(p) /\ Finished(p)
  /\ Covers(CheckpointWrites) \/ writes = 0
  /\ meta' = meta - writes
  /\ Leave(p) /\ Drop({p})
  /\ UNCHANGED <<pending, outcome>>

FailVersion(p) ==
  /\ Joined(p) /\ ~Failed(p) /\ Finished(p)
  /\ \/ ~Covers(CheckpointWrites) /\ held = 0 /\ UNCHANGED <<meta, failures>>
     \/ Covers(CheckpointWrites) /\ meta' = meta - CheckpointWrites /\ Failure
  /\ FailProvider(p)

EndIncomplete(p) ==
  /\ Joined(p) /\ ~Failed(p) /\ ~Finished(p)
  /\ Leave(p)
  /\ pending' = pending \cup {p}
  /\ exhausted' = (exhausted \/ FilesOf(p) \cap refused # {})
  /\ UNCHANGED <<storage, meta, has_error>>

(* Mutation for Last: a wave without writes is followed by another *)
LastUnlessError == has_error \/ processed >= TotalOf(limit, Providers)

(* Mutation for Last: there is one wave *)
LastAlways == TRUE

Last == has_error \/ exhausted \/ processed >= TotalOf(limit, Providers)

EndWave ==
  /\ phase = "running" /\ running = {}
  /\ budget' = budget - processed
  /\ phase' = IF Last THEN "over" ELSE "between"
  /\ UNCHANGED <<preparing, pending, running, limit, processed, tasks, budgets,
                 outcome, failures>>

NoMoreWaves ==
  /\ phase = "between" /\ (pending = {} \/ budget = 0)
  /\ phase' = "over"
  /\ UNCHANGED <<preparing, wave, tasks, budgets, outcome, failures>>

(* release_daily_budget unless there was an error, and the end of main *)
Finish ==
  /\ phase = "over"
  /\ phase' = "ended"
  /\ Drop(Providers)
  /\ UNCHANGED <<prepared, wave, tasks, budgets, outcome, failures>>

-----------------------------------------------------------------------------
PrepareTask(p) == ReserveChunk(p) \/ NoRoom(p) \/ SkipProvider(p) \/ Ready(p)

FileTask(f) ==
  \/ NothingToClaim(f) \/ ReserveCheckpoint(f) \/ RefuseCheckpoint(f)
  \/ TakePermit(f) \/ ClaimRow(f) \/ StopProducing(f) \/ CommitRow(f) \/ RefuseRow(f)
  \/ \E rows \in 0..sent[f], writes \in 0..CheckpointWrites : SaveFile(f, rows, writes)

ProviderTask(p) ==
  \/ EndFailed(p) \/ EndIncomplete(p) \/ FailVersion(p)
  \/ \E writes \in 0..CheckpointWrites : RecordVersion(p, writes)

Main == StartWaves \/ StartWave \/ EndWave \/ NoMoreWaves \/ Finish

Next ==
  \/ \E p \in Providers : PrepareTask(p) \/ FailPrepare(p) \/ ProviderTask(p)
  \/ \E f \in Files : FileTask(f)
  \/ \E f \in Files : \E rows \in 0..sent[f], back \in 0..CheckpointWrites : FailFile(f, rows, back)
  \/ Main

Spec == Init /\ [][Next]_vars

(* Tokio polls every task that is ready, and requests end by their timeout. *)
FairSpec ==
  /\ Spec
  /\ \A p \in Providers : WF_vars(PrepareTask(p)) /\ WF_vars(ProviderTask(p))
  /\ \A f \in Files : WF_vars(FileTask(f))
  /\ WF_vars(Main)

-----------------------------------------------------------------------------
(* The rows of all waves together, with what running tasks have claimed, stay
   within the workflow's: the waves re-divide only rows that nobody claimed. *)
RowsWithinLimit ==
  phase = "running" => processed + TotalOf(claimed, running) <= budget

(* A provider's feed is kept exactly as long as it may still be imported, and
   what is on disk stays within the limit: concurrent downloads, feeds that
   are dropped while others arrive, and files that could not be removed. *)
FeedsKept ==
  /\ TotalOf(stored, Providers) + orphaned <= StorageLimit
  /\ phase \notin {"preparing", "ended"} =>
       \A p \in Providers :
         stored[p] # 0 <=> p \in pending \cup running
  /\ phase = "ended" => TotalOf(stored, Providers) = 0 /\ used_bytes = orphaned

CleanEnd == phase = "ended" /\ ~has_error

(* README: unused shares are redistributed in work-conserving waves.  A run
   without an error leaves work only if its rows or its writes are used up,
   and unless its writes are, every provider with pending work was served. *)
WorkConserving ==
  CleanEnd /\ ~exhausted =>
    /\ pending = {} \/ budget = 0
    /\ \A p \in With("ready") : \E f \in FilesOf(p) : left[f] < Rows[f]

(* When main releases what is left of its lease, nothing can spend it: no task
   of any wave is left, and every reservation was settled. *)
NothingLeftRunning ==
  phase = "over" => running = {} /\ held = 0 /\ \A f \in Files : task[f] \in {"none", "done", "failed"}

(* The run ends: files that wait for permits, rows and writes which others hold
   never wait for ever, and waves do not follow each other without progress. *)
RunEnds == <>(phase = "ended")
=============================================================================

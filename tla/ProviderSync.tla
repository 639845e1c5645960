----------------------------- MODULE ProviderSync -----------------------------
(***************************************************************************)
(* Keeping one provider's database in step with a feed that changes:       *)
(* prepare_provider, download_feed, get_resume_state and                   *)
(* process_prepared_provider of importer/src/processor.rs, with the        *)
(* queries on dataset_versions and import_progress of importer/src/d1.rs.  *)
(*                                                                         *)
(* The origin publishes one feed after another, at any time.  A run asks   *)
(* whether the feed is still the one recorded, downloads it if need be,    *)
(* compares CRCs with import_progress, imports what is incomplete and      *)
(* records the version.  Runs are serialised by the workflow's concurrency *)
(* group; each may fail at any step.                                       *)
(*                                                                         *)
(* FileImport has the detail of one file.  Here a file is a few parts that *)
(* are uploaded in any order, and a save moves its mark over parts that    *)
(* were uploaded: the interface ResumableFile specifies.  The contents are *)
(* those the database keeps, of files whose header has a column of their   *)
(* table; any other is complete at once, and FileImport has it.            *)
(***************************************************************************)
EXTENDS Naturals, FiniteSets, Sequences

CONSTANTS
  Files,       \* file names that have a schema
  NumParts,    \* parts a file is imported in, named 1 .. NumParts
  Crcs,        \* the contents a file can have, told apart by their CRC
  Tags,        \* ETags
  NoTag,       \* no ETag in the response, no row in dataset_versions
  None,        \* no such file, row or content
  Histories,   \* sequences of feeds that the origin may publish
  MaxFailures  \* bound, by history: failures and calls without progress, over
               \* all runs

Parts == 1..NumParts

ASSUME SyncAssumption ==
  /\ NumParts \in Nat \ {0}
  /\ NoTag \notin Tags
  /\ None \notin Crcs
  /\ Histories \subseteq Seq([tag : Tags \cup {NoTag}, crc : [Files -> Crcs \cup {None}]])
  /\ <<>> \notin Histories
  /\ MaxFailures \in [Histories -> Nat]

VARIABLES
  feeds,      \* what the origin publishes, in order
  published,  \* the feed it serves: an index of feeds
  stored,     \* by file and part, the content last written to the tables
  progress,   \* import_progress: crc, mark and status of each file
  version,    \* the ETag in dataset_versions
  pc,         \* where the run is
  known,      \* previous_etag
  feed,       \* the feed downloaded, or that was found unmodified
  at,         \* the checkpoint of each file, in memory
  todo,       \* the files of PreparedProvider
  active,     \* those whose process_csv_file has not returned
  sent,       \* parts it uploaded
  failed,     \* has_csv_error
  late,       \* requests nobody awaits that D1 may still apply
  failures    \* failures so far

origin == <<feeds, published>>
database == <<stored, progress, version>>
wave == <<active, sent, failed>>
run == <<known, feed, at, todo, wave>>
vars == <<origin, database, pc, run, late, failures>>

NoRow == [crc |-> None, mark |-> 0, status |-> 1]

TypeOK ==
  /\ feeds \in Histories /\ published \in DOMAIN feeds
  /\ stored \in [Files -> [Parts -> Crcs \cup {None}]]
  /\ progress \in [Files -> [crc : Crcs \cup {None}, mark : 0..NumParts, status : {0, 1}]]
  /\ version \in Tags \cup {NoTag}
  /\ pc \in {"idle", "asking", "unmodified", "scanned", "planned", "importing",
             "versioning", "skipped"}
  /\ known \in Tags \cup {NoTag}
  /\ feed \in DOMAIN feeds
  /\ at \in [Files -> 0..NumParts]
  /\ active \subseteq todo /\ todo \subseteq Files
  /\ sent \in [Files -> SUBSET Parts]
  /\ failed \in BOOLEAN
  /\ late \subseteq Files \X Parts \X Crcs
  /\ failures \in 0..MaxFailures[feeds]

Failure == failures < MaxFailures[feeds] /\ failures' = failures + 1

Init ==
  /\ feeds \in Histories /\ published = 1
  /\ stored = [f \in Files |-> [i \in Parts |-> None]]
  /\ progress = [f \in Files |-> NoRow]
  /\ version = NoTag
  /\ pc = "idle"
  /\ known = NoTag
  /\ feed = 1
  /\ at = [f \in Files |-> 0]
  /\ todo = {}
  /\ active = {}
  /\ sent = [f \in Files |-> {}]
  /\ failed = FALSE
  /\ late = {}
  /\ failures = 0

-----------------------------------------------------------------------------
(* The origin *)

Publish ==
  /\ published < Len(feeds)
  /\ published' = published + 1
  /\ UNCHANGED <<feeds, database, pc, run, late, failures>>

(* A request that timed out is applied, or never is. *)
Land(request) ==
  /\ request \in late
  /\ late' = late \ {request}
  /\ \/ UNCHANGED stored
     \/ stored' = [stored EXCEPT ![request[1]][request[2]] = request[3]]
  /\ UNCHANGED <<origin, progress, version, pc, run, failures>>

-----------------------------------------------------------------------------
(* Preparing *)

(* get_dataset_version.  Runs are hours apart, a request times out in 35 s:
   what an earlier run sent has landed. *)
StartRun ==
  /\ pc \in {"idle", "skipped"}
  /\ late = {}
  /\ pc' = "asking"
  /\ known' = version
  /\ UNCHANGED <<origin, database, feed, at, todo, wave, late, failures>>

Matches(tag) == tag # NoTag /\ feeds[published].tag = tag

(* The conditional GET: 304, or the feed *)
Ask ==
  /\ pc = "asking"
  /\ feed' = published
  /\ pc' = IF Matches(known) THEN "unmodified" ELSE "scanned"
  /\ UNCHANGED <<origin, database, known, at, todo, wave, late, failures>>

Rows == {f \in Files : progress[f].crc # None}

(* Mutation for UpToDate: an incomplete row does not count *)
UpToDateAnyway == Rows # {}

(* get_file_progress_summary: rows of every file that was ever imported *)
UpToDate == Rows # {} /\ \A f \in Rows : progress[f].status = 0

Skip ==
  /\ pc = "unmodified"
  /\ UpToDate
  /\ pc' = "skipped"
  /\ UNCHANGED <<origin, database, run, late, failures>>

(* The second GET is unconditional, and may find another feed. *)
Refetch ==
  /\ pc = "unmodified"
  /\ ~UpToDate
  /\ feed' = published
  /\ pc' = "scanned"
  /\ UNCHANGED <<origin, database, known, at, todo, wave, late, failures>>

Crc(f) == feeds[feed].crc[f]

(* Mutation for SameContent: the CRC is not compared *)
SameContentAssumed(f) == Crc(f) # None /\ progress[f].crc # None

SameContent(f) == Crc(f) # None /\ progress[f].crc = Crc(f)

(* get_resume_state returns None: this content was imported. *)
Completed(f) == SameContent(f) /\ progress[f].status = 0

(* Mutation for ResumeMark: an old mark is kept for new content *)
ResumeMarkKept(f) == progress[f].mark

(* ... or where to resume: from the start, for a new or changed file. *)
ResumeMark(f) == IF SameContent(f) THEN progress[f].mark ELSE 0

(* discover_supported_files and get_all_files_progress *)
Plan ==
  /\ pc = "scanned"
  /\ todo' = {f \in Files : Crc(f) # None /\ ~Completed(f)}
  /\ at' = [f \in Files |-> IF f \in todo' THEN ResumeMark(f) ELSE 0]
  /\ pc' = IF todo' = {} THEN "versioning" ELSE "planned"
  /\ UNCHANGED <<origin, database, known, feed, wave, late, failures>>

StartWave ==
  /\ active' = todo
  /\ sent' = [f \in Files |-> {}]
  /\ failed' = FALSE

(* Mutation for Restarted: the row of a changed file keeps its status *)
RestartedAsBefore(f) == [crc |-> Crc(f), mark |-> at[f], status |-> progress[f].status]

Restarted(f) == [crc |-> Crc(f), mark |-> at[f], status |-> 1]

(* init_files_progress: one batch, before anything is uploaded *)
InitFilesProgress ==
  /\ pc = "planned"
  /\ progress' = [f \in Files |->
       IF f \in todo THEN Restarted(f) ELSE progress[f]]
  /\ pc' = "importing"
  /\ StartWave
  /\ UNCHANGED <<origin, stored, version, known, feed, at, todo, late, failures>>

-----------------------------------------------------------------------------
(* Importing *)

Importing(f) == pc = "importing" /\ f \in active

Upload(f, i) ==
  /\ Importing(f)
  /\ i > at[f] /\ i \notin sent[f]
  /\ stored' = [stored EXCEPT ![f][i] = Crc(f)]
  /\ sent' = [sent EXCEPT ![f] = @ \cup {i}]
  /\ UNCHANGED <<origin, progress, version, pc, known, feed, at, todo,
                 active, failed, late, failures>>

Covered(f, mark) == at[f]+1..mark \subseteq sent[f]

Save(f, mark, status) ==
  /\ Importing(f)
  /\ mark >= at[f] /\ Covered(f, mark)
  /\ status = 0 => mark = NumParts
  /\ progress' = [progress EXCEPT ![f].mark = mark, ![f].status = status]
  /\ active' = active \ {f}
  /\ UNCHANGED <<origin, stored, version, pc, known, feed, sent, late>>

(* update_file_progress succeeds.  A call that saves no progress, because
   other files took the allocation or the budget, is counted as a failure. *)
SaveFile(f, mark, status) ==
  /\ Save(f, mark, status)
  /\ mark > at[f] \/ status = 0
  /\ at' = [at EXCEPT ![f] = mark]
  /\ todo' = IF status = 0 THEN todo \ {f} ELSE todo
  /\ UNCHANGED <<failed, failures>>

SaveNothing(f) ==
  /\ Save(f, at[f], 1)
  /\ Failure
  /\ UNCHANGED <<at, todo, failed>>

(* It is applied, but its answer is lost. *)
LoseSave(f, mark, status) ==
  /\ Save(f, mark, status)
  /\ Failure
  /\ failed' = TRUE
  /\ UNCHANGED <<at, todo>>

(* The file fails, and leaves a request behind. *)
FailFile(f, i) ==
  /\ Importing(f)
  /\ Failure
  /\ i > at[f]
  /\ late' = late \cup {<<f, i, Crc(f)>>}
  /\ active' = active \ {f}
  /\ failed' = TRUE
  /\ UNCHANGED <<origin, database, pc, known, feed, at, todo, sent>>

(* Mutation for Returned: the files are not joined *)
ReturnedUnjoined == pc = "importing"

Returned == pc = "importing" /\ active = {}

NextWave ==
  /\ Returned /\ ~failed /\ todo # {}
  /\ StartWave
  /\ UNCHANGED <<origin, database, pc, known, feed, at, todo, late, failures>>

(* The rows or the write budget are used up, or a file failed. *)
EndRun ==
  /\ Returned /\ (failed \/ todo # {})
  /\ pc' = "idle"
  /\ UNCHANGED <<origin, database, run, late, failures>>

(* Mutation for AllImported: whatever is left *)
AllImportedOrNot == Returned /\ ~failed

AllImported == Returned /\ ~failed /\ todo = {}

Complete ==
  /\ AllImported
  /\ pc' = "versioning"
  /\ UNCHANGED <<origin, database, run, late, failures>>

(* set_dataset_version, unless the response had no ETag *)
SetVersion ==
  /\ pc = "versioning"
  /\ version' = IF feeds[feed].tag = NoTag THEN version ELSE feeds[feed].tag
  /\ pc' = "idle"
  /\ UNCHANGED <<origin, stored, progress, run, late, failures>>

(* The run dies, or a step that is not about one file fails; a request that
   was applied and not answered is an action followed by this one. *)
Die ==
  /\ pc \notin {"idle", "skipped"}
  /\ Failure
  /\ pc' = "idle"
  /\ active' = {}
  /\ late' \in {late} \cup {late \cup {<<f, i, Crc(f)>>} : f \in active, i \in Parts}
  /\ UNCHANGED <<origin, database, known, feed, at, todo, sent, failed>>

-----------------------------------------------------------------------------
Prepare == StartRun \/ Ask \/ Skip \/ Refetch \/ Plan \/ InitFilesProgress

Import ==
  \/ \E f \in Files :
       \/ \E i \in Parts : Upload(f, i)
       \/ \E mark \in 0..NumParts, status \in {0, 1} : SaveFile(f, mark, status)
  \/ NextWave \/ EndRun \/ Complete \/ SetVersion

Fail ==
  \/ \E f \in Files :
       \/ SaveNothing(f)
       \/ \E mark \in 0..NumParts, status \in {0, 1} : LoseSave(f, mark, status)
       \/ \E i \in Parts : FailFile(f, i)
  \/ Die

Next ==
  \/ Publish
  \/ \E request \in late : Land(request)
  \/ Prepare \/ Import \/ Fail

Spec == Init /\ [][Next]_vars

(* The schedule starts runs and a run goes on; requests land; nothing forces
   the origin to publish or a step to fail. *)
FairSpec ==
  /\ Spec
  /\ WF_vars(Prepare)
  /\ WF_vars(Import)
  /\ WF_vars(\E request \in late : Land(request))

-----------------------------------------------------------------------------
(* Every file of a feed is in the tables, with the content it has there. *)
Imported(n) ==
  \A f \in Files : feeds[n].crc[f] # None => stored[f] = [i \in Parts |-> feeds[n].crc[f]]

(* import_progress never claims what the tables do not hold: the parts before
   a mark have the content of the row's CRC, across content changes, files
   that disappear and come back, and requests that land after their run. *)
ProgressHonest ==
  \A f \in Files :
    /\ \A i \in 1..progress[f].mark : stored[f][i] = progress[f].crc
    /\ progress[f].status = 0 => progress[f].mark = NumParts

(* A dataset version is recorded only after every file completes: of the feed
   that was downloaded, not of one published since. *)
VersionAfterFiles == [][version' # version => Imported(feed)]_vars

(* A provider is skipped as unchanged only if the tables hold the feed that
   the origin did not send. *)
SkipIsSafe == pc = "skipped" => Imported(feed)

(* Once the origin stops publishing, the feed it is left with is imported for
   good, whatever failed before. *)
Converges == <>[]Imported(published)
=============================================================================

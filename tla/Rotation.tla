------------------------------- MODULE Rotation -------------------------------
(***************************************************************************)
(* Moving a provider to a new database when its own is full:               *)
(* rotate_database_if_needed and persist_database_id of                    *)
(* importer/src/processor.rs, for the providers that one run prepares      *)
(* concurrently, and the workflow run_importer.yml, which commits          *)
(* providers.toml and deploys the worker again.                            *)
(*                                                                         *)
(* The size that D1 reports of a database is anything.  A request to       *)
(* create or delete a database is executed before its connection breaks,   *)
(* or never.                                                               *)
(***************************************************************************)
EXTENDS Naturals, FiniteSets

CONSTANTS
  Providers,
  BudgetProvider, \* budget_provider of providers.toml
  Ids,            \* UUIDs of databases
  First,          \* by provider, its database at first
  MaxDatabases,   \* D1_MAX_DATABASES
  Batches,        \* migration files that make up a provider's schema
  MaxFaults,      \* bound: faults
  None

ASSUME RotationAssumption ==
  /\ IsFiniteSet(Providers) /\ BudgetProvider \in Providers
  /\ None \notin Providers /\ None \notin Ids
  /\ First \in [Providers -> Ids]
  /\ \A p, q \in Providers : First[p] = First[q] => p = q
  /\ MaxDatabases \in Nat /\ Cardinality(Providers) <= MaxDatabases
  /\ Batches \in Nat /\ MaxFaults \in Nat

VARIABLES
  account,  \* databases that exist
  created,  \* databases that have ever existed
  schema,   \* by database, the migration files applied
  repo,     \* providers.toml on the main branch
  checkout, \* providers.toml in the runner's working directory
  served,   \* by provider, the database that the deployed worker queries
  phase,    \* the step of the workflow
  task,     \* by provider, where its preparation is
  database, \* by provider, the database_id that its task imports to
  new,      \* by provider, the database that its task has created
  lock,     \* the provider whose task holds database_rotation_lock
  lost,     \* databases that a fault took out of sight
  faults

databases == <<account, created, schema>>
files == <<repo, checkout>>
tasks == <<task, database, new, lock>>
vars == <<databases, files, served, phase, tasks, lost, faults>>

(* providers.toml: the providers' databases, and [[retired_databases]] *)
Documents == [database : [Providers -> Ids], retired : SUBSET Ids]

Tasks == {"none", "checking", "waiting", "counting", "creating", "setup",
          "deleting", "ready", "failed"}

TypeOK ==
  /\ account \subseteq created /\ created \subseteq Ids
  /\ schema \in [Ids -> 0..Batches]
  /\ repo \in Documents /\ checkout \in Documents
  /\ served \in [Providers -> Ids]
  /\ phase \in {"idle", "importing", "publishing", "deploying"}
  /\ task \in [Providers -> Tasks]
  /\ database \in [Providers -> Ids]
  /\ new \in [Providers -> Ids \cup {None}]
  /\ lock \in Providers \cup {None}
  /\ lost \subseteq created
  /\ faults \in 0..MaxFaults

Named(document) == {document.database[p] : p \in Providers}
Recorded(document) == Named(document) \cup document.retired

Init ==
  /\ account = {First[p] : p \in Providers} /\ created = account
  /\ schema = [d \in Ids |-> IF d \in account THEN Batches ELSE 0]
  /\ repo = [database |-> First, retired |-> {}] /\ checkout = repo
  /\ served = First
  /\ phase = "idle"
  /\ task = [p \in Providers |-> "none"]
  /\ database = First
  /\ new = [p \in Providers |-> None]
  /\ lock = None
  /\ lost = {}
  /\ faults = 0

Fault == faults < MaxFaults /\ faults' = faults + 1

-----------------------------------------------------------------------------
(* rotate_database_if_needed *)

Move(p, from, to) == task[p] = from /\ task' = [task EXCEPT ![p] = to]

(* get_database_info *)
Check(p, to) ==
  /\ Move(p, "checking", to)
  /\ UNCHANGED <<databases, files, served, phase, database, new, lock, lost>>

Keep(p) == database[p] \in account /\ Check(p, "ready") /\ UNCHANGED faults

(* The database of the ledger may not rotate. *)
RefuseBudget(p) ==
  /\ database[p] \in account /\ p = BudgetProvider
  /\ Check(p, "failed")
  /\ UNCHANGED faults

(* Bound: there is a UUID for each that rotates. *)
UuidLeft ==
  Cardinality({q \in Providers : task[q] \in {"waiting", "counting", "creating"}})
    < Cardinality(Ids \ created)

WantRotation(p) ==
  /\ database[p] \in account /\ p # BudgetProvider /\ UuidLeft
  /\ Check(p, "waiting")
  /\ UNCHANGED faults

FailCheck(p) == Check(p, "failed") /\ Fault

(* Mutation for Free: providers rotate concurrently *)
FreeOrNot == TRUE

Free == lock = None

TakeLock(p) ==
  /\ Free
  /\ Move(p, "waiting", "counting")
  /\ lock' = p
  /\ UNCHANGED <<databases, files, served, phase, database, new, lost, faults>>

(* The guard is dropped when the function returns. *)
Return(p, from, to) == Move(p, from, to) /\ lock' = None

(* get_database_count *)
Count(p) ==
  /\ Cardinality(account) < MaxDatabases
  /\ Move(p, "counting", "creating")
  /\ UNCHANGED <<databases, files, served, phase, database, new, lock, lost, faults>>

(* Mutation for TooMany: it waits for room *)
TooManyYet(p) ==
  /\ Cardinality(account) >= MaxDatabases
  /\ Return(p, "counting", "waiting")
  /\ UNCHANGED <<databases, files, served, phase, database, new, lost, faults>>

TooMany(p) ==
  /\ Cardinality(account) >= MaxDatabases
  /\ Return(p, "counting", "failed")
  /\ UNCHANGED <<databases, files, served, phase, database, new, lost, faults>>

FailCount(p) ==
  /\ Return(p, "counting", "failed") /\ Fault
  /\ UNCHANGED <<databases, files, served, phase, database, new, lost>>

NewDatabase(d) ==
  /\ d \in Ids \ created
  /\ created' = created \cup {d}
  /\ account' = account \cup {d}
  /\ UNCHANGED schema

Create(p, d) ==
  /\ NewDatabase(d)
  /\ Move(p, "creating", "setup")
  /\ new' = [new EXCEPT ![p] = d]
  /\ UNCHANGED <<files, served, phase, database, lock, lost, faults>>

(* The answer is lost, and with it the UUID. *)
CreateUnseen(p, d) ==
  /\ NewDatabase(d)
  /\ Return(p, "creating", "failed") /\ Fault
  /\ lost' = lost \cup {d}
  /\ UNCHANGED <<files, served, phase, database, new>>

FailCreate(p) ==
  /\ Return(p, "creating", "failed") /\ Fault
  /\ UNCHANGED <<databases, files, served, phase, database, new, lost>>

(* Mutation for SchemaDone: the file names the database before its tables exist *)
SchemaDoneOrNot(d) == TRUE

SchemaDone(d) == schema[d] = Batches

(* Mutation for ApplySchema: it does not stop at the last migration file *)
ApplySchemaOn(p) ==
  /\ task[p] = "setup"
  /\ schema' = [schema EXCEPT ![new[p]] = @ + 1]
  /\ UNCHANGED <<account, created, files, served, phase, tasks, lost, faults>>

(* execute_schema: one transaction per migration file *)
ApplySchema(p) ==
  /\ task[p] = "setup" /\ schema[new[p]] < Batches
  /\ schema' = [schema EXCEPT ![new[p]] = @ + 1]
  /\ UNCHANGED <<account, created, files, served, phase, tasks, lost, faults>>

(* Mutation for Rotated: the history has the new database *)
RotatedTo(document, p) ==
  [database |-> [document.database EXCEPT ![p] = new[p]],
   retired  |-> document.retired \cup {new[p]}]

Rotated(document, p) ==
  [database |-> [document.database EXCEPT ![p] = new[p]],
   retired  |-> document.retired \cup {database[p]}]

(* persist_database_id: a lock on the file and a rename make it one step. *)
Persist(p) ==
  /\ Return(p, "setup", "ready")
  /\ SchemaDone(new[p])
  /\ checkout' = Rotated(checkout, p)
  /\ database' = [database EXCEPT ![p] = new[p]]
  /\ new' = [new EXCEPT ![p] = None]
  /\ UNCHANGED <<databases, repo, served, phase, lost, faults>>

(* A migration or the file failed. *)
FailSetup(p) ==
  /\ Move(p, "setup", "deleting") /\ Fault
  /\ UNCHANGED <<databases, files, served, phase, database, new, lock, lost>>

(* Mutation for WithoutOrphan: the new database is left where it is *)
WithoutOrphanKept(p) == account

WithoutOrphan(p) == account \ {new[p]}

Delete(p) ==
  /\ Return(p, "deleting", "failed")
  /\ account' = WithoutOrphan(p)
  /\ new' = [new EXCEPT ![p] = None]
  /\ UNCHANGED <<created, schema, files, served, phase, database, lost, faults>>

(* The result of the deletion is ignored. *)
FailDelete(p) ==
  /\ Return(p, "deleting", "failed") /\ Fault
  /\ lost' = lost \cup {new[p]}
  /\ new' = [new EXCEPT ![p] = None]
  /\ UNCHANGED <<databases, files, served, phase, database>>

-----------------------------------------------------------------------------
(* run_importer.yml *)

(* Runs follow each other at a distance: one that waited for the run before it
   would check out the commit of its own event, which may be older. *)
StartRun ==
  /\ phase = "idle" /\ phase' = "importing"
  /\ checkout' = repo
  /\ task' = [p \in Providers |-> "checking"]
  /\ database' = repo.database
  /\ UNCHANGED <<databases, repo, served, new, lock, lost, faults>>

EndImporter(to) ==
  /\ phase = "importing" /\ phase' = to
  /\ task' = [p \in Providers |-> "none"]
  /\ new' = [p \in Providers |-> None]
  /\ lock' = None
  /\ UNCHANGED <<databases, files, served, database>>

(* The importer exits, with or without an error. *)
Exit ==
  /\ \A p \in Providers : task[p] \in {"ready", "failed"}
  /\ EndImporter("publishing")
  /\ UNCHANGED <<lost, faults>>

InProgress == {new[p] : p \in Providers} \ {None}

(* The importer dies; the next step runs always(). *)
Crash ==
  /\ EndImporter("publishing") /\ Fault
  /\ lost' = lost \cup InProgress

Unpushed == Named(checkout) \ Named(repo)

(* The runner dies, and its working directory with it. *)
CrashRunner ==
  /\ EndImporter("idle") /\ Fault
  /\ lost' = lost \cup InProgress \cup Unpushed

Publish(from, to) ==
  /\ phase = from /\ phase' = to
  /\ UNCHANGED <<databases, checkout, tasks>>

Changed == checkout # repo

NoRotation ==
  /\ ~Changed
  /\ Publish("publishing", "idle")
  /\ UNCHANGED <<repo, served, lost, faults>>

Push ==
  /\ Changed
  /\ Publish("publishing", "deploying")
  /\ repo' = checkout
  /\ UNCHANGED <<served, lost, faults>>

(* Nothing is committed, or the main branch has moved on meanwhile. *)
FailPush ==
  /\ Changed /\ Fault
  /\ Publish("publishing", "idle")
  /\ lost' = lost \cup Unpushed
  /\ UNCHANGED <<repo, served>>

Deploy ==
  /\ Publish("deploying", "idle")
  /\ served' = checkout.database
  /\ UNCHANGED <<repo, lost, faults>>

FailDeploy ==
  /\ Publish("deploying", "idle") /\ Fault
  /\ UNCHANGED <<repo, served, lost>>

(* README: the operator exports a recorded database, then deletes it. *)
Archive(d) ==
  /\ d \in repo.retired \cap account
  /\ account' = account \ {d}
  /\ UNCHANGED <<created, schema, files, served, phase, tasks, lost, faults>>

-----------------------------------------------------------------------------
Rotate(p) ==
  \/ Keep(p) \/ RefuseBudget(p) \/ WantRotation(p) \/ TakeLock(p)
  \/ Count(p) \/ TooMany(p) \/ \E d \in Ids : Create(p, d)
  \/ ApplySchema(p) \/ Persist(p) \/ Delete(p)

FailRotation(p) ==
  \/ FailCheck(p) \/ FailCount(p) \/ FailCreate(p) \/ \E d \in Ids : CreateUnseen(p, d)
  \/ FailSetup(p) \/ FailDelete(p)

Steps == StartRun \/ Exit \/ NoRotation \/ Push \/ Deploy

Fail == Crash \/ CrashRunner \/ FailPush \/ FailDeploy

Next ==
  \/ \E p \in Providers : Rotate(p) \/ FailRotation(p)
  \/ Steps \/ Fail
  \/ \E d \in Ids : Archive(d)

Spec == Init /\ [][Next]_vars

(* Tokio polls every task that is ready; the workflow is scheduled daily. *)
FairSpec == Spec /\ WF_vars(Steps) /\ \A p \in Providers : WF_vars(Rotate(p))

-----------------------------------------------------------------------------
(* README: rotation is refused once the configured count is exhausted, and
   serialized across providers.  Providers that rotate concurrently do not
   pass the limit together. *)
WithinAccount == Cardinality(account) <= MaxDatabases

(* A providers.toml names a database of its own for each provider, that has
   every table and is not retired; and the importer writes to those it names.
   So the next run, and a worker deployed from it, find what they need. *)
Usable(document) ==
  /\ \A p, q \in Providers : document.database[p] = document.database[q] => p = q
  /\ \A p \in Providers :
       LET d == document.database[p]
       IN  d \in account /\ d \notin document.retired /\ schema[d] = Batches

NamedUsable ==
  /\ Usable(repo) /\ Usable(checkout)
  /\ \A p \in Providers : task[p] = "ready" => database[p] = checkout.database[p]

(* Every database of the account, and so every unit of its limit, can be found
   in the repository, but for one in progress or taken out of sight by a
   crash, a lost answer or a failed deletion or push. *)
NothingUnrecorded ==
  account \ lost \subseteq
    Recorded(repo) \cup InProgress
      \cup (IF phase = "idle" THEN {} ELSE Recorded(checkout))

(* README: the old name and UUID are not orphaned.  What the main branch once
   recorded, it records for ever, whatever fails, and the database of the
   ledger keeps its place. *)
HistoryKept ==
  [][ /\ Recorded(repo) \subseteq Recorded(repo')
      /\ repo'.database[BudgetProvider] = repo.database[BudgetProvider] ]_vars

(* A run ends, whichever rotations fail: none of them keeps the lock, or waits
   for room in the account that only the operator can make. *)
RunEnds == phase # "idle" ~> phase = "idle"

(* run_importer.yml: "Auto-Commit and Redeploy on Rotation".  However a run
   fails, the worker comes to query the databases that are imported. *)
Redeployed == []<>(served = repo.database)
=============================================================================

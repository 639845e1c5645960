---------------------------- MODULE DepartureCache ----------------------------
(***************************************************************************)
(* The cached departures of one stop: calculate() of                       *)
(* worker/src/departures/mod.rs with cache.rs, query.rs and the statements *)
(* in sql/, while the importer rewrites the tables they are computed from. *)
(*                                                                         *)
(* A request reads the import state and the cached row, then queries the   *)
(* tables one by one and stores the result.  Every query is an await, and  *)
(* D1 gives no snapshot across them: only the revision, the content of     *)
(* import_progress, tells a request whether an import came in between.     *)
(*                                                                         *)
(* A result is what the queries read: next_departures is a function of it. *)
(* The importer appears with what ProviderSync says of it: a row of        *)
(* import_progress is incomplete from before the first write of new        *)
(* content to its table until after the last.                              *)
(***************************************************************************)
EXTENDS Naturals, Sequences

CONSTANTS
  NumTables,    \* tables, in the order calculate() queries them; each is
                \* imported from a file of its own
  Requests,     \* requests that are in progress at a time
  Crcs,         \* contents of files, told apart by their CRC
  NoCrc,        \* no row in import_progress, nothing in the table
  MaxTime,      \* bound: the last second considered, counting from 1
  MaxImports    \* bound: feeds imported

ASSUME CacheAssumption ==
  /\ NumTables \in Nat \ {0}
  /\ NoCrc \notin Crcs
  /\ MaxTime \in Nat
  /\ MaxImports \in Nat

Files == 1..NumTables

VARIABLES
  clock,     \* seconds
  imports,   \* feeds imported so far
  tables,    \* what each table holds for the stop
  progress,  \* import_progress: the row of each file
  row,       \* departure_cache: the row of the stop, or NoEntry
  pc,        \* where each request is
  state,     \* the revision it read, or NoRevision
  loaded,    \* what its queries read
  seen       \* history: the tables when it read the import state

importer == <<clock, imports, tables, progress>>
vars == <<clock, imports, tables, progress, row, pc, state, loaded, seen>>

(* Upserts replace rows and leave those the new file does not have. *)
Content == [latest : Crcs \cup {NoCrc}, rows : SUBSET Crcs]
Nothing == [latest |-> NoCrc, rows |-> {}]

(* A row is only incomplete while its content is being imported. *)
Progress ==
  {p \in [crc : Crcs \cup {NoCrc}, status : {0, 1}, updated : Nat] :
     p.status = 1 => p.crc \in Crcs}

(* A revision that is kept names no incomplete import. *)
NoRevision == <<>>
NoEntry == <<>>
Revisions == [Files -> {p \in Progress : p.status = 0}]
Entries == [revision : Revisions, payload : [Files -> Content]]

TypeOK ==
  /\ clock \in Nat
  /\ imports \in Nat
  /\ tables \in [Files -> Content]
  /\ progress \in [Files -> Progress]
  /\ row \in Entries \cup {NoEntry}
  /\ pc \in [Requests -> {"idle", "lookup", "load", "hit"}]
  /\ state \in [Requests -> Revisions \cup {NoRevision}]
  /\ loaded \in [Requests -> Seq(Content)]
  /\ seen \in [Requests -> [Files -> Content]]
  /\ \A r \in Requests :
       /\ pc[r] = "lookup" => state[r] \in Revisions
       /\ Len(loaded[r]) <= NumTables

Init ==
  /\ clock = 1
  /\ imports = 0
  /\ tables = [f \in Files |-> Nothing]
  /\ progress = [f \in Files |-> [crc |-> NoCrc, status |-> 0, updated |-> 0]]
  /\ row = NoEntry
  /\ pc = [r \in Requests |-> "idle"]
  /\ state = [r \in Requests |-> NoRevision]
  /\ loaded = [r \in Requests |-> <<>>]
  /\ seen = [r \in Requests |-> tables]

-----------------------------------------------------------------------------
(* The importer *)

requests == <<pc, state, loaded, seen>>

Tick ==
  /\ clock < MaxTime
  /\ clock' = clock + 1
  /\ UNCHANGED <<imports, tables, progress, row, requests>>

Begun(f, crc) == [crc |-> crc, status |-> 1, updated |-> clock]

(* init_files_progress for the files of the feed that are new or changed; the
   row of one that was incomplete stays as it is.  Runs are hours apart. *)
BeginImport(crc) ==
  /\ imports < MaxImports
  /\ imports' = imports + 1
  /\ \A f \in Files : progress[f].updated < clock
  /\ progress' = [f \in Files |->
       IF crc[f] \in {NoCrc, progress[f].crc} THEN progress[f] ELSE Begun(f, crc[f])]
  /\ UNCHANGED <<clock, tables, row, requests>>

Upload(f) ==
  /\ progress[f].status = 1
  /\ tables' = [tables EXCEPT ![f] =
       [latest |-> progress[f].crc, rows |-> @.rows \cup {progress[f].crc}]]
  /\ UNCHANGED <<clock, imports, progress, row, requests>>

(* update_file_progress *)
Save(f, status) ==
  /\ progress[f].status = 1
  /\ status = 0 => tables[f].latest = progress[f].crc
  /\ progress' = [progress EXCEPT ![f].status = status, ![f].updated = clock]
  /\ UNCHANGED <<clock, imports, tables, row, requests>>

-----------------------------------------------------------------------------
(* The import state and the cached row *)

(* Mutation for Revision: UpdatedAt is not part of it *)
RevisionUndated == [f \in Files |-> [progress[f] EXCEPT !.updated = 0]]

(* feed_state.sql: every column of every row *)
Revision == [f \in Files |-> progress[f]]

(* Mutation for Importing: MIN instead of MAX *)
ImportingAll == \A f \in Files : progress[f].status # 0

Importing == \E f \in Files : progress[f].status # 0

(* feed_state() succeeds, or fails and is treated like an import. *)
ReadState(r, revision) ==
  /\ pc[r] = "idle"
  /\ revision # NoRevision => revision = Revision /\ ~Importing
  /\ state' = [state EXCEPT ![r] = revision]
  /\ seen' = [seen EXCEPT ![r] = tables]
  /\ pc' = [pc EXCEPT ![r] = IF revision = NoRevision THEN "load" ELSE "lookup"]
  /\ UNCHANGED <<importer, row, loaded>>

(* Mutation for Found: any row will do *)
FoundAny(r) == row # NoEntry

(* cache_read.sql.  A row that is found may also have expired, which is a
   Miss: when it does matters to no property, so it may at any time. *)
Found(r) == row # NoEntry /\ row.revision = state[r]

Hit(r) ==
  /\ pc[r] = "lookup"
  /\ Found(r)
  /\ loaded' = [loaded EXCEPT ![r] = row.payload]
  /\ pc' = [pc EXCEPT ![r] = "hit"]
  /\ UNCHANGED <<importer, row, state, seen>>

(* No row, or one that has expired or that select() does not answer from: it
   starts too late, ends too early or was truncated. *)
Miss(r) ==
  /\ pc[r] = "lookup"
  /\ pc' = [pc EXCEPT ![r] = "load"]
  /\ UNCHANGED <<importer, row, state, loaded, seen>>

FailRead(r) ==
  /\ pc[r] = "lookup"
  /\ pc' = [pc EXCEPT ![r] = "load"]
  /\ state' = [state EXCEPT ![r] = NoRevision]
  /\ UNCHANGED <<importer, row, loaded, seen>>

-----------------------------------------------------------------------------
(* Calculating and storing *)

Query(r) ==
  /\ pc[r] = "load"
  /\ Len(loaded[r]) < NumTables
  /\ loaded' = [loaded EXCEPT ![r] = Append(@, tables[Len(@) + 1])]
  /\ UNCHANGED <<importer, row, pc, state, seen>>

(* Mutation for Publishable: the state read at the start is trusted *)
PublishableAnyway(r) == TRUE

(* cache_write.sql: the same statement reads the import state again. *)
Publishable(r) == Revision = state[r] /\ ~Importing

Entry(r) == [revision |-> state[r], payload |-> loaded[r]]

(* A row of the same revision that expires later is left alone. *)
Stores(r) ==
  \/ row' = Entry(r)
  \/ row # NoEntry /\ row.revision = state[r] /\ row' = row

Leave(r) ==
  /\ pc' = [pc EXCEPT ![r] = "idle"]
  /\ state' = [state EXCEPT ![r] = NoRevision]
  /\ loaded' = [loaded EXCEPT ![r] = <<>>]
  /\ seen' = [seen EXCEPT ![r] = [f \in Files |-> Nothing]]

(* The first two queries found the stop and something that departs there. *)
Stored(r) == state[r] # NoRevision /\ \A f \in Files : f <= 2 => loaded[r][f] # Nothing

Write(r) ==
  /\ pc[r] = "load"
  /\ Len(loaded[r]) = NumTables
  /\ Stored(r)
  /\ IF Publishable(r) THEN Stores(r) ELSE row' = row
  /\ Leave(r)
  /\ UNCHANGED importer

(* The response to a hit; or without storing anything: another instant is
   asked for, the stop is unknown, the write or any query fails. *)
Respond(r) ==
  /\ pc[r] \in {"load", "hit"}
  /\ Leave(r)
  /\ UNCHANGED <<importer, row>>

Import ==
  \/ \E crc \in [Files -> Crcs \cup {NoCrc}] : BeginImport(crc)
  \/ \E f \in Files : Upload(f) \/ \E status \in {0, 1} : Save(f, status)

Serve(r) ==
  \/ \E revision \in {NoRevision, Revision} : ReadState(r, revision)
  \/ Hit(r) \/ Miss(r) \/ FailRead(r)
  \/ Query(r) \/ Write(r) \/ Respond(r)

Next == Tick \/ Import \/ \E r \in Requests : Serve(r)

Spec == Init /\ [][Next]_vars

-----------------------------------------------------------------------------
Cached == row # NoEntry /\ row.revision = Revision

(* A cached row never outlives the data it was computed from: while its
   revision is the current one, its payload is what every table holds now,
   although it was read table by table, while imports began and ended. *)
CachedIsCurrent == Cached => row.payload = tables

(* A hit answers from one state of the database, the one in which the request
   found no import in progress: never from a mixture, never from an older
   feed with the same CRCs. *)
HitIsCurrent == \A r \in Requests : pc[r] = "hit" => loaded[r] = seen[r]

(* A slow request that began before an import cannot replace the row that a
   request after it stored. *)
NeverSetBack == [][Cached /\ UNCHANGED progress => Cached']_vars
=============================================================================

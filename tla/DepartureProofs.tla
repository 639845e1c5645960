--------------------------- MODULE DepartureProofs ---------------------------
(***************************************************************************)
(* The departures of a stop.                                               *)
(*                                                                         *)
(* First their cache: its correctness for any number of tables, requests   *)
(* and imports.                                                            *)
(*                                                                         *)
(* Then what is calculated and selected, for any timetable, days, limits   *)
(* and instants: it is the timetable itself.  The argument compares lists  *)
(* of departures by how many come before one.  A merge keeps those with    *)
(* fewer than its limit before them (MergedIs), so that two lists merge    *)
(* alike if what one lacks has that many before it in the other            *)
(* (MergedOfSome).  That is so of the runs of one template that its limit  *)
(* leaves out (RunsOfTemplate); of the templates, merged one after another *)
(* (NextDeparturesAre); and of the departures that a calculation lacks in  *)
(* the window of a later request, unless it is cut short (WindowMerged).   *)
(* The search for the dates of a template loses none, because a service    *)
(* day begins within a day of its date (SearchedDatesAre).                 *)
(***************************************************************************)
EXTENDS DepartureCache, Schedule, SumTheorems, FiniteSetTheorems, SequenceTheorems, TLAPS

-----------------------------------------------------------------------------
(* The cache *)

(* What was read of a file's table when its row of import_progress was "was",
   and complete, is what the table holds - or the row has moved on in time. *)
Fresh(f, was, content) ==
  \/ progress[f] = was /\ tables[f] = content
  \/ progress[f].updated > was.updated

Dated == \A f \in Files : progress[f].updated <= clock

RowFresh ==
  row \in Entries => \A f \in Files : Fresh(f, row.revision[f], row.payload[f])

SeenFresh ==
  \A r \in Requests : state[r] \in Revisions =>
    \A f \in Files : Fresh(f, state[r][f], seen[r][f])

LoadedFresh ==
  \A r \in Requests : state[r] \in Revisions /\ pc[r] = "load" =>
    \A i \in 1..Len(loaded[r]) : Fresh(i, state[r][i], loaded[r][i])

(* Whoever holds the revision of the cached row has seen its payload. *)
Agreed ==
  row \in Entries =>
    \A r \in Requests : state[r] = row.revision => seen[r] = row.payload

Unread == \A r \in Requests : pc[r] \in {"idle", "lookup"} => loaded[r] = <<>>

IInv ==
  /\ TypeOK /\ Dated
  /\ RowFresh /\ SeenFresh /\ LoadedFresh
  /\ Agreed /\ Unread /\ HitIsCurrent

LEMMA NoRevisionIsNone == NoRevision \notin Revisions
<1> SUFFICES ASSUME <<>> \in Revisions PROVE FALSE
  BY DEF NoRevision
<1>1. DOMAIN <<>> = 1..NumTables
  BY DEF Revisions, Files
<1>2. DOMAIN <<>> = {}
  OBVIOUS
<1> QED BY <1>1, <1>2, CacheAssumption

LEMMA NoEntryIsNone == NoEntry \notin Entries
<1> SUFFICES ASSUME <<>> \in Entries PROVE FALSE
  BY DEF NoEntry
<1>1. DOMAIN <<>> = {"revision", "payload"}
  BY DEF Entries
<1>2. DOMAIN <<>> = {}
  OBVIOUS
<1> QED BY <1>1, <1>2

LEMMA FunctionIsSeq ==
  ASSUME NEW S, NEW n \in Nat, NEW s \in [1..n -> S]
  PROVE  s \in Seq(S) /\ Len(s) = n
OBVIOUS

LEMMA RevisionTypes ==
  /\ \A R \in Revisions : \A f \in Files : R[f] \in Progress /\ R[f].status = 0
  /\ \A e \in Entries : e.revision \in Revisions /\ e.payload \in [Files -> Content]
BY DEF Revisions, Entries

(* What an importer step may do to a file: nothing; date its row anew; or, if
   the row is incomplete, anything that does not date it back. *)
Moves(f) ==
  \/ progress'[f] = progress[f] /\ tables'[f] = tables[f]
  \/ progress'[f].updated > progress[f].updated
  \/ progress[f].status = 1 /\ progress'[f].updated >= progress[f].updated

LEMMA FreshMoves ==
  ASSUME TypeOK, TypeOK', NEW f \in Files, Moves(f)
  PROVE  \A was \in Progress : \A content :
           was.status = 0 /\ Fresh(f, was, content) => Fresh(f, was, content)'
BY DEF TypeOK, Moves, Fresh, Progress

(* The invariant survives every step that does that and leaves the worker
   alone. *)
LEMMA ImporterKeeps ==
  ASSUME IInv, TypeOK', Dated', \A f \in Files : Moves(f), UNCHANGED <<row, requests>>
  PROVE  IInv'
<1>0. /\ UNCHANGED <<row, pc, state, loaded, seen>>
      /\ \A f \in Files, was \in Progress : \A content :
           was.status = 0 /\ Fresh(f, was, content) => Fresh(f, was, content)'
  BY FreshMoves DEF IInv, requests
<1>1. RowFresh'
  BY <1>0, RevisionTypes DEF IInv, RowFresh
<1>2. SeenFresh'
  BY <1>0, RevisionTypes DEF IInv, SeenFresh
<1>3. LoadedFresh'
  <2> SUFFICES ASSUME NEW r \in Requests, state[r] \in Revisions, pc[r] = "load",
                      NEW i \in 1..Len(loaded[r])
               PROVE  Fresh(i, state[r][i], loaded[r][i])'
    BY <1>0 DEF LoadedFresh
  <2>1. i \in Files
    BY CacheAssumption DEF IInv, TypeOK, Files
  <2> QED BY <2>1, <1>0, RevisionTypes DEF IInv, LoadedFresh
<1>4. Agreed' /\ Unread' /\ HitIsCurrent'
  BY <1>0 DEF IInv, Agreed, Unread, HitIsCurrent
<1> QED BY <1>1, <1>2, <1>3, <1>4 DEF IInv

LEMMA InitIInv == Init => IInv
<1> SUFFICES ASSUME Init PROVE IInv
  OBVIOUS
<1> USE DEF Init
<1>1. Nothing \in Content /\ NoEntry \notin Entries /\ NoRevision \notin Revisions
  BY NoEntryIsNone, NoRevisionIsNone DEF Nothing, Content
<1>2. TypeOK
  <2>1. <<>> \in Seq(Content) /\ Len(<<>>) = 0
    OBVIOUS
  <2> QED BY <1>1, <2>1, CacheAssumption DEF TypeOK, Progress
<1>3. Dated
  BY DEF Dated
<1>4. RowFresh /\ SeenFresh /\ LoadedFresh /\ Agreed /\ Unread /\ HitIsCurrent
  BY <1>1 DEF RowFresh, SeenFresh, LoadedFresh, Agreed, Unread, HitIsCurrent
<1> QED BY <1>2, <1>3, <1>4 DEF IInv

LEMMA NextType == TypeOK /\ [Next]_vars => TypeOK'
<1> SUFFICES ASSUME TypeOK, [Next]_vars PROVE TypeOK'
  OBVIOUS
<1> USE DEF TypeOK
<1>1. CASE Tick
  BY <1>1 DEF Tick, requests
<1>2. ASSUME NEW crc \in [Files -> Crcs \cup {NoCrc}], BeginImport(crc) PROVE TypeOK'
  <2>1. progress' \in [Files -> Progress]
    BY <1>2 DEF BeginImport, Begun, Progress
  <2> QED BY <1>2, <2>1 DEF BeginImport, requests
<1>3. ASSUME NEW f \in Files, Upload(f) PROVE TypeOK'
  <2>1. tables' \in [Files -> Content]
    <3>1. tables[f] \in Content /\ progress[f].crc \in Crcs
      BY <1>3 DEF Upload, Progress
    <3> QED BY <1>3, <3>1 DEF Upload, Content
  <2> QED BY <1>3, <2>1 DEF Upload, requests
<1>4. ASSUME NEW f \in Files, NEW status \in {0, 1}, Save(f, status) PROVE TypeOK'
  <2>1. progress' \in [Files -> Progress]
    BY <1>4 DEF Save, Progress
  <2> QED BY <1>4, <2>1 DEF Save, requests
<1>5. ASSUME NEW r \in Requests, Serve(r) PROVE TypeOK'
  <2> USE DEF importer
  <2>1. ASSUME NEW revision \in {NoRevision, Revision}, ReadState(r, revision) PROVE TypeOK'
    <3>1. revision # NoRevision => revision \in Revisions
      BY <2>1 DEF ReadState, Revision, Importing, Revisions, Progress
    <3>2. /\ pc' \in [Requests -> {"idle", "lookup", "load", "hit"}]
          /\ seen' \in [Requests -> [Files -> Content]]
          /\ UNCHANGED <<clock, imports, tables, progress, row, loaded>>
      BY <2>1 DEF ReadState
    <3>3. /\ state' \in [Requests -> Revisions \cup {NoRevision}]
          /\ \A s \in Requests : pc'[s] = "lookup" => state'[s] \in Revisions
      BY <2>1, <3>1 DEF ReadState
    <3> QED BY <3>2, <3>3
  <2>2. CASE Hit(r)
    <3>1. row.payload \in [1..NumTables -> Content]
      BY <2>2 DEF Hit, Found, Entries, Files
    <3>2. row.payload \in Seq(Content) /\ Len(row.payload) = NumTables
      <4> HIDE DEF TypeOK
      <4> QED BY <3>1, CacheAssumption, FunctionIsSeq
    <3> QED BY <2>2, <3>2, CacheAssumption DEF Hit
  <2>3. CASE Miss(r)
    BY <2>3 DEF Miss
  <2>4. CASE FailRead(r)
    BY <2>4 DEF FailRead
  <2>5. CASE Query(r)
    <3> DEFINE new == Append(loaded[r], tables[Len(loaded[r]) + 1])
    <3>1. Len(loaded[r]) + 1 \in Files
      BY <2>5, CacheAssumption DEF Query, Files
    <3>2. new \in Seq(Content) /\ Len(new) <= NumTables
      BY <2>5, <3>1, CacheAssumption DEF Query
    <3>3. loaded' = [loaded EXCEPT ![r] = new]
      BY <2>5 DEF Query
    <3> HIDE DEF new
    <3> QED BY <2>5, <3>2, <3>3 DEF Query
  <2>6. ASSUME Leave(r), UNCHANGED importer, row' = NoEntry \/ row' \in Entries
        PROVE  TypeOK'
    <3>1. <<>> \in Seq(Content) /\ Len(<<>>) <= NumTables
      BY CacheAssumption
    <3>2. [f \in Files |-> Nothing] \in [Files -> Content]
      BY DEF Nothing, Content
    <3> QED BY <2>6, <3>1, <3>2 DEF Leave
  <2>7. CASE Write(r)
    <3>1. loaded[r] \in [Files -> Content]
      BY <2>7, LenProperties DEF Write, Files
    <3>2. Entry(r) \in Entries
      BY <2>7, <3>1 DEF Write, Stored, Entry, Entries
    <3> QED BY <2>6, <2>7, <3>2 DEF Write, Stores
  <2>8. CASE Respond(r)
    BY <2>6, <2>8 DEF Respond
  <2> QED BY <1>5, <2>1, <2>2, <2>3, <2>4, <2>5, <2>7, <2>8 DEF Serve
<1>6. CASE UNCHANGED vars
  BY <1>6 DEF vars
<1> QED BY <1>1, <1>2, <1>3, <1>4, <1>5, <1>6 DEF Next, Import

LEMMA NextIInv == IInv /\ [Next]_vars => IInv'
<1> SUFFICES ASSUME IInv, [Next]_vars PROVE IInv'
  OBVIOUS
<1>0. TypeOK /\ TypeOK'
  BY NextType DEF IInv
<1>1. CASE Tick
  <2>1. Dated' /\ \A f \in Files : Moves(f)
    BY <1>0, <1>1 DEF Tick, IInv, Dated, Moves, TypeOK, Progress
  <2> QED BY <1>0, <1>1, <2>1, ImporterKeeps DEF Tick
<1>2. ASSUME NEW crc \in [Files -> Crcs \cup {NoCrc}], BeginImport(crc) PROVE IInv'
  <2>1. Dated' /\ \A f \in Files : Moves(f)
    BY <1>0, <1>2 DEF BeginImport, Begun, IInv, Dated, Moves, TypeOK, Progress
  <2> QED BY <1>0, <1>2, <2>1, ImporterKeeps DEF BeginImport
<1>3. ASSUME NEW f \in Files, Upload(f) PROVE IInv'
  <2>1. Dated' /\ \A g \in Files : Moves(g)
    BY <1>0, <1>3 DEF Upload, IInv, Dated, Moves, TypeOK, Progress
  <2> QED BY <1>0, <1>3, <2>1, ImporterKeeps DEF Upload
<1>4. ASSUME NEW f \in Files, NEW status \in {0, 1}, Save(f, status) PROVE IInv'
  <2>1. Dated' /\ \A g \in Files : Moves(g)
    BY <1>0, <1>4 DEF Save, IInv, Dated, Moves, TypeOK, Progress
  <2> QED BY <1>0, <1>4, <2>1, ImporterKeeps DEF Save
<1>5. ASSUME NEW r \in Requests, Serve(r) PROVE IInv'
  <2> USE <1>0 DEF importer, Fresh
  <2>1. ASSUME NEW revision \in {NoRevision, Revision}, ReadState(r, revision) PROVE IInv'
    <3>1. \/ revision \notin Revisions
          \/ revision = Revision /\ revision \in Revisions
      BY NoRevisionIsNone
    <3>2. revision = Revision /\ row \in Entries /\ row.revision = Revision
          => row.payload = tables
      <4> SUFFICES ASSUME row \in Entries, row.revision = Revision
                   PROVE  row.payload = tables
        OBVIOUS
      <4>1. \A f \in Files : row.payload[f] = tables[f]
        BY DEF IInv, RowFresh, Revision, TypeOK, Progress
      <4> QED BY <4>1 DEF Entries, TypeOK
    <3>3. UNCHANGED <<clock, imports, tables, progress, row, loaded>>
      BY <2>1 DEF ReadState
    <3>4. Dated' /\ RowFresh'
      BY <3>3 DEF IInv, Dated, RowFresh
    <3>5. SeenFresh'
      BY <2>1, <3>1, <3>3 DEF ReadState, IInv, SeenFresh, TypeOK, Revision
    <3>6. LoadedFresh'
      BY <2>1, <3>3 DEF ReadState, IInv, LoadedFresh, Unread, TypeOK
    <3>7. Agreed'
      BY <2>1, <3>1, <3>2, <3>3, RevisionTypes DEF ReadState, IInv, Agreed, TypeOK
    <3>8. Unread' /\ HitIsCurrent'
      BY <2>1 DEF ReadState, IInv, Unread, HitIsCurrent, TypeOK
    <3> QED BY <3>4, <3>5, <3>6, <3>7, <3>8 DEF IInv
  <2>2. CASE Hit(r)
    <3>1. row \in Entries /\ row.revision = state[r] /\ row.payload = seen[r]
      BY <2>2 DEF Hit, Found, TypeOK, IInv, Agreed
    <3>2. Dated' /\ RowFresh' /\ SeenFresh' /\ LoadedFresh' /\ Agreed'
      BY <2>2 DEF Hit, IInv, Dated, RowFresh, SeenFresh, LoadedFresh, Agreed, TypeOK
    <3>3. Unread' /\ HitIsCurrent'
      BY <2>2, <3>1 DEF Hit, IInv, Unread, HitIsCurrent, TypeOK
    <3> QED BY <3>2, <3>3 DEF IInv
  <2>3. CASE Miss(r)
    <3>1. Dated' /\ RowFresh' /\ SeenFresh' /\ Agreed' /\ Unread' /\ HitIsCurrent'
      BY <2>3 DEF Miss, IInv, Dated, RowFresh, SeenFresh, Agreed, Unread, HitIsCurrent, TypeOK
    <3>2. LoadedFresh'
      <4>1. loaded[r] = <<>> /\ 1..Len(<<>>) = {}
        BY <2>3 DEF Miss, IInv, Unread
      <4> QED BY <2>3, <4>1 DEF Miss, IInv, LoadedFresh, TypeOK
    <3> QED BY <3>1, <3>2 DEF IInv
  <2>4. CASE FailRead(r)
    <3>1. Dated' /\ RowFresh' /\ Unread' /\ HitIsCurrent'
      BY <2>4 DEF FailRead, IInv, Dated, RowFresh, Unread, HitIsCurrent, TypeOK
    <3>2. SeenFresh' /\ LoadedFresh' /\ Agreed'
      BY <2>4, NoRevisionIsNone, RevisionTypes
      DEF FailRead, IInv, SeenFresh, LoadedFresh, Agreed, Unread, TypeOK
    <3> QED BY <3>1, <3>2 DEF IInv
  <2>5. CASE Query(r)
    <3>3. UNCHANGED <<progress, tables, state, pc>>
      BY <2>5 DEF Query
    <3>1. Dated' /\ RowFresh' /\ SeenFresh' /\ Agreed' /\ Unread' /\ HitIsCurrent'
      BY <2>5 DEF Query, IInv, Dated, RowFresh, SeenFresh, Agreed, Unread, HitIsCurrent, TypeOK
    <3>2. LoadedFresh'
      <4> SUFFICES ASSUME NEW s \in Requests, state[s] \in Revisions, pc[s] = "load",
                          NEW i \in 1..Len(loaded'[s])
                   PROVE  \/ progress[i] = state[s][i] /\ tables[i] = loaded'[s][i]
                          \/ progress[i].updated > state[s][i].updated
        BY <2>5 DEF Query, LoadedFresh
      <4>1. CASE s # r
        <5>1. loaded'[s] = loaded[s]
          BY <2>5, <4>1 DEF Query, TypeOK
        <5> QED BY <5>1 DEF IInv, LoadedFresh
      <4>2. CASE s = r
        <5> DEFINE n == Len(loaded[r])
        <5>1. /\ n \in Nat /\ n + 1 \in Files
              /\ loaded'[r] = Append(loaded[r], tables[n + 1])
          BY <2>5, CacheAssumption DEF Query, TypeOK, Files
        <5>2. loaded[r] \in Seq(Content) /\ tables[n + 1] \in Content
          BY <5>1 DEF TypeOK
        <5>3. CASE i = n + 1
          <6>1. loaded'[r][i] = tables[i]
            BY <5>1, <5>2, <5>3
          <6>2. i \in Files
            BY <5>1, <5>3
          <6> QED BY <4>2, <6>1, <6>2 DEF IInv, SeenFresh
        <5>4. CASE i # n + 1
          <6>1. i \in 1..n /\ loaded'[r][i] = loaded[r][i]
            BY <4>2, <5>1, <5>2, <5>4
          <6> QED BY <4>2, <6>1 DEF IInv, LoadedFresh
        <5> QED BY <5>3, <5>4
      <4> QED BY <4>1, <4>2
    <3> QED BY <3>1, <3>2 DEF IInv
  <2>6. ASSUME Leave(r), UNCHANGED importer, RowFresh',
               row' \in Entries =>
                 \A q \in Requests : state[q] = row'.revision => seen[q] = row'.payload
        PROVE  IInv'
    <3>1. Dated' /\ Unread' /\ HitIsCurrent'
      BY <2>6 DEF Leave, IInv, Dated, Unread, HitIsCurrent, TypeOK
    <3>2. state'[r] \notin Revisions /\ \A q \in Requests \ {r} :
            /\ state'[q] = state[q] /\ seen'[q] = seen[q]
            /\ pc'[q] = pc[q] /\ loaded'[q] = loaded[q]
      BY <2>6, NoRevisionIsNone DEF Leave, TypeOK
    <3>3. SeenFresh' /\ LoadedFresh'
      BY <2>6, <3>2 DEF IInv, SeenFresh, LoadedFresh
    <3>4. Agreed'
      BY <2>6, <3>2, RevisionTypes DEF Agreed
    <3> QED BY <2>6, <3>1, <3>3, <3>4 DEF IInv
  <2>7. CASE Write(r)
    <3>1. CASE row' = row
      BY <2>6, <2>7, <3>1 DEF Write, IInv, RowFresh, Agreed
    <3>2. CASE row' = Entry(r) /\ Publishable(r)
      <4>1. /\ state[r] = Revision /\ state[r] \in Revisions
            /\ row'.revision = state[r] /\ row'.payload = loaded[r]
            /\ UNCHANGED importer
        BY <2>7, <3>2 DEF Write, Stored, Entry, Publishable, TypeOK
      <4>2. \A f \in Files : loaded[r][f] = tables[f] /\ state[r][f] = progress[f]
        <5>1. \A f \in Files : f \in 1..Len(loaded[r]) /\ progress[f].updated \in Nat
          BY <2>7 DEF Write, Files, TypeOK, Progress
        <5> QED BY <2>7, <4>1, <5>1 DEF Write, IInv, LoadedFresh, Revision
      <4>3. RowFresh'
        BY <4>1, <4>2 DEF RowFresh
      <4>4. loaded[r] = tables
        <5>1. loaded[r] \in [Files -> Content]
          BY <2>7, LenProperties DEF Write, Files, TypeOK
        <5> QED BY <4>2, <5>1 DEF TypeOK
      <4>5. ASSUME NEW q \in Requests, state[q] = state[r] PROVE seen[q] = tables
        <5>1. \A f \in Files : ~ (progress[f].updated > progress[f].updated)
          BY DEF TypeOK, Progress
        <5>2. \A f \in Files : Fresh(f, state[q][f], seen[q][f])
          BY <4>1, <4>5 DEF IInv, SeenFresh
        <5>3. \A f \in Files : seen[q][f] = tables[f]
          BY <4>2, <4>5, <5>1, <5>2
        <5> QED BY <5>3 DEF TypeOK
      <4> QED BY <2>6, <2>7, <4>1, <4>3, <4>4, <4>5 DEF Write
    <3> QED BY <2>7, <3>1, <3>2 DEF Write, Stores
  <2>8. CASE Respond(r)
    BY <2>6, <2>8 DEF Respond, IInv, RowFresh, Agreed
  <2> QED BY <1>5, <2>1, <2>2, <2>3, <2>4, <2>5, <2>7, <2>8 DEF Serve
<1>6. CASE UNCHANGED vars
  BY <1>6 DEF vars, IInv, TypeOK, Dated, RowFresh, SeenFresh, LoadedFresh, Agreed,
              Unread, HitIsCurrent, Fresh
<1> QED BY <1>1, <1>2, <1>3, <1>4, <1>5, <1>6 DEF Next, Import

(***************************************************************************)
(* Everything the invariant consists of holds in every reachable state.    *)
(***************************************************************************)
THEOREM Invariance == Spec => []IInv
<1>1. Init => IInv
  BY InitIInv
<1>2. IInv /\ [Next]_vars => IInv'
  BY NextIInv
<1> QED BY <1>1, <1>2, PTL DEF Spec

(* The state of the importer and of calculate() is type correct; in particular
   no revision of an incomplete import is ever kept or stored. *)
THEOREM TypeCorrect == Spec => []TypeOK
<1>1. IInv => TypeOK
  BY DEF IInv
<1> QED BY <1>1, Invariance, PTL

(* cache_write.sql and cache_read.sql: a row with the current revision holds
   what every table holds now. *)
THEOREM CachedIsCurrentHolds == Spec => []CachedIsCurrent
<1>1. IInv => CachedIsCurrent
  <2> SUFFICES ASSUME IInv, row # NoEntry, row.revision = Revision
               PROVE  row.payload = tables
    BY DEF CachedIsCurrent, Cached
  <2>1. row \in Entries /\ tables \in [Files -> Content]
    BY DEF IInv, TypeOK
  <2>2. \A f \in Files : row.payload[f] = tables[f]
    BY <2>1 DEF IInv, RowFresh, Fresh, Revision, TypeOK, Progress
  <2> QED BY <2>1, <2>2, RevisionTypes
<1> QED BY <1>1, Invariance, PTL

(* calculate() with a hit: the response is computed from one state of the
   database, the one in which the request read the import state. *)
THEOREM HitIsCurrentHolds == Spec => []HitIsCurrent
<1>1. IInv => HitIsCurrent
  BY DEF IInv
<1> QED BY <1>1, Invariance, PTL

(* The revision check in cache_write.sql: no request replaces a current row by
   a result of an older revision. *)
THEOREM NeverSetBackHolds == Spec => NeverSetBack
<1>1. TypeOK /\ [Next]_vars => (Cached /\ UNCHANGED progress => Cached')
  <2> SUFFICES ASSUME TypeOK, [Next]_vars, Cached, UNCHANGED progress PROVE Cached'
    OBVIOUS
  <2> USE DEF Cached, Revision
  <2>1. CASE UNCHANGED row
    BY <2>1
  <2>2. ASSUME NEW r \in Requests, Serve(r), row' # row PROVE Cached'
    <3>1. Write(r) /\ row' = Entry(r) /\ Publishable(r)
      BY <2>2 DEF Serve, ReadState, Hit, Miss, FailRead, Query, Write, Respond, Stores
    <3>2. row'.revision = Revision
      BY <3>1 DEF Entry, Publishable
    <3>3. state[r] \in Revisions /\ row' = Entry(r)
      BY <3>1 DEF Write, Stored, TypeOK
    <3>4. Entry(r) \in Entries
      <4>1. loaded[r] \in [Files -> Content]
        BY <3>1, LenProperties DEF Write, Files, TypeOK
      <4> QED BY <3>3, <4>1 DEF Entry, Entries
    <3> QED BY <3>2, <3>3, <3>4, NoEntryIsNone
  <2> QED BY <2>1, <2>2 DEF Next, Import, Tick, BeginImport, Upload, Save, vars
<1> QED BY <1>1, TypeCorrect, PTL DEF Spec, NeverSetBack

-----------------------------------------------------------------------------
(* The departures *)

(* Departures, their keys, and the order of keys *)
Departures == [at : Int, trip : Int, date : Int, start : Int, template : Nat, wait : Int]

Keys == Int \X Int \X Int \X Int

KeyLess(k, l) ==
  \/ k[1] < l[1]
  \/ k[1] = l[1] /\ k[2] < l[2]
  \/ k[1] = l[1] /\ k[2] = l[2] /\ k[3] < l[3]
  \/ k[1] = l[1] /\ k[2] = l[2] /\ k[3] = l[3] /\ k[4] < l[4]

(* The keys among the departures ds that come before a key *)
KeysBefore(ds, key) == {Key(d) : d \in {e \in ds : KeyLess(Key(e), key)}}

-----------------------------------------------------------------------------
(* The order of departures *)

LEMMA KeyType == \A d \in Departures : Key(d) \in Keys
BY DEF Departures, Keys, Key

LEMMA KeyOrder ==
  /\ \A k \in Keys : ~KeyLess(k, k)
  /\ \A k, l, m \in Keys : KeyLess(k, l) /\ KeyLess(l, m) => KeyLess(k, m)
  /\ \A k, l \in Keys : KeyLess(k, l) \/ KeyLess(l, k) \/ k = l
<1>1. \A k \in Keys : ~KeyLess(k, k)
  BY DEF Keys, KeyLess
<1>2. \A k, l, m \in Keys : KeyLess(k, l) /\ KeyLess(l, m) => KeyLess(k, m)
  BY DEF Keys, KeyLess
<1>3. \A k, l \in Keys : KeyLess(k, l) \/ KeyLess(l, k) \/ k = l
  BY DEF Keys, KeyLess
<1> QED BY <1>1, <1>2, <1>3

LEMMA Appended ==
  ASSUME NEW S, NEW s \in Seq(S), NEW x \in S
  PROVE  /\ \A j \in 1..Len(s) : Append(s, x)[j] = s[j]
         /\ Append(s, x)[Len(s) + 1] = x
OBVIOUS

LEMMA BeforeIsKeyLess ==
  ASSUME NEW d \in Departures, NEW e \in Departures
  PROVE  Before(d, e) <=> \/ KeyLess(Key(d), Key(e))
                          \/ Key(d) = Key(e) /\ d.template < e.template
<1> DEFINE k == Append(Key(d), d.template)
           l == Append(Key(e), e.template)
<1>1. \A s \in Seq(Int), i \in Int : Len(s) = 4 =>
        /\ Append(s, i)[1] = s[1] /\ Append(s, i)[2] = s[2] /\ Append(s, i)[3] = s[3]
        /\ Append(s, i)[4] = s[4] /\ Append(s, i)[5] = i
  <2> TAKE s \in Seq(Int), i \in Int
  <2> HAVE Len(s) = 4
  <2>1. \A j \in 1..Len(s) : Append(s, i)[j] = s[j]
    BY Appended
  <2>2. Append(s, i)[Len(s) + 1] = i
    BY Appended
  <2>3. 1 \in 1..4 /\ 2 \in 1..4 /\ 3 \in 1..4 /\ 4 \in 1..4 /\ 4 + 1 = 5
    OBVIOUS
  <2> QED BY <2>1, <2>2, <2>3
<1>2. /\ k[1] = d.at /\ k[2] = d.trip /\ k[3] = d.date /\ k[4] = d.start /\ k[5] = d.template
      /\ l[1] = e.at /\ l[2] = e.trip /\ l[3] = e.date /\ l[4] = e.start /\ l[5] = e.template
  <2>1. ASSUME NEW c \in Departures
        PROVE  /\ Key(c) \in Seq(Int) /\ Len(Key(c)) = 4 /\ c.template \in Int
               /\ Key(c)[1] = c.at /\ Key(c)[2] = c.trip /\ Key(c)[3] = c.date /\ Key(c)[4] = c.start
    BY DEF Key, Departures
  <2> QED BY <1>1, <2>1
<1>3. Before(d, e) <=> \E i \in 1..5 : k[i] < l[i] /\ \A j \in 1..(i - 1) : k[j] = l[j]
  BY DEF Before
<1> HIDE DEF k, l
<1>4. (\E i \in 1..5 : k[i] < l[i] /\ \A j \in 1..(i - 1) : k[j] = l[j])
        <=> \/ k[1] < l[1]
            \/ k[1] = l[1] /\ k[2] < l[2]
            \/ k[1] = l[1] /\ k[2] = l[2] /\ k[3] < l[3]
            \/ k[1] = l[1] /\ k[2] = l[2] /\ k[3] = l[3] /\ k[4] < l[4]
            \/ k[1] = l[1] /\ k[2] = l[2] /\ k[3] = l[3] /\ k[4] = l[4] /\ k[5] < l[5]
  <2>1. ASSUME NEW i \in 1..5, k[i] < l[i], \A j \in 1..(i - 1) : k[j] = l[j]
        PROVE  \/ k[1] < l[1]
               \/ k[1] = l[1] /\ k[2] < l[2]
               \/ k[1] = l[1] /\ k[2] = l[2] /\ k[3] < l[3]
               \/ k[1] = l[1] /\ k[2] = l[2] /\ k[3] = l[3] /\ k[4] < l[4]
               \/ k[1] = l[1] /\ k[2] = l[2] /\ k[3] = l[3] /\ k[4] = l[4] /\ k[5] < l[5]
    <3>1. i \in {1, 2, 3, 4, 5}
      OBVIOUS
    <3> QED BY <2>1, <3>1
  <2>2. k[1] < l[1] => \A j \in 1..(1 - 1) : k[j] = l[j]
    OBVIOUS
  <2>3. k[1] = l[1] => \A j \in 1..(2 - 1) : k[j] = l[j]
    OBVIOUS
  <2>4. k[1] = l[1] /\ k[2] = l[2] => \A j \in 1..(3 - 1) : k[j] = l[j]
    OBVIOUS
  <2>5. k[1] = l[1] /\ k[2] = l[2] /\ k[3] = l[3] => \A j \in 1..(4 - 1) : k[j] = l[j]
    OBVIOUS
  <2>6. k[1] = l[1] /\ k[2] = l[2] /\ k[3] = l[3] /\ k[4] = l[4] => \A j \in 1..(5 - 1) : k[j] = l[j]
    OBVIOUS
  <2> QED BY <2>1, <2>2, <2>3, <2>4, <2>5, <2>6
<1>5. /\ KeyLess(Key(d), Key(e)) <=>
           \/ d.at < e.at
           \/ d.at = e.at /\ d.trip < e.trip
           \/ d.at = e.at /\ d.trip = e.trip /\ d.date < e.date
           \/ d.at = e.at /\ d.trip = e.trip /\ d.date = e.date /\ d.start < e.start
      /\ Key(d) = Key(e) <=>
           d.at = e.at /\ d.trip = e.trip /\ d.date = e.date /\ d.start = e.start
  BY DEF Key, KeyLess
<1> QED BY <1>2, <1>3, <1>4, <1>5

-----------------------------------------------------------------------------
(* Lists of departures *)

(* A finite list of departures with the waits of one instant *)
IsList(ds, when) ==
  /\ ds \subseteq Departures /\ IsFiniteSet(ds)
  /\ \A d \in ds : d.wait = Wait(d.at, when)

LEMMA SublistIsList ==
  ASSUME NEW when, NEW ds, IsList(ds, when), NEW some, some \subseteq ds
  PROVE  IsList(some, when)
BY FS_Subset DEF IsList

LEMMA UnionIsList ==
  ASSUME NEW when, NEW ds, IsList(ds, when), NEW es, IsList(es, when)
  PROVE  IsList(ds \cup es, when)
BY FS_Union DEF IsList

LEMMA SameDeparture ==
  ASSUME NEW when, NEW ds, IsList(ds, when), NEW d \in ds, NEW e \in ds,
         Key(d) = Key(e), d.template = e.template
  PROVE  d = e
<1>1. d.at = e.at /\ d.trip = e.trip /\ d.date = e.date /\ d.start = e.start /\ d.wait = e.wait
  BY DEF Key, IsList
<1> QED BY <1>1 DEF IsList, Departures

LEMMA KeysBeforeFinite ==
  ASSUME NEW ds, IsFiniteSet(ds), NEW key
  PROVE  /\ IsFiniteSet(KeysBefore(ds, key))
         /\ Cardinality(KeysBefore(ds, key)) \in Nat
         /\ Cardinality(KeysBefore(ds, key)) <= Cardinality(ds)
<1> DEFINE some == {e \in ds : KeyLess(Key(e), key)}
           f == [d \in some |-> Key(d)]
<1>1. IsFiniteSet(some) /\ Cardinality(some) <= Cardinality(ds)
  BY FS_Subset
<1>2. f \in Surjection(some, KeysBefore(ds, key))
  BY DEF KeysBefore, Surjection
<1> HIDE DEF some, f
<1>3. /\ IsFiniteSet(KeysBefore(ds, key))
      /\ Cardinality(KeysBefore(ds, key)) <= Cardinality(some)
  BY <1>1, <1>2, FS_Surjection
<1>4. Cardinality(KeysBefore(ds, key)) \in Nat /\ Cardinality(some) \in Nat /\ Cardinality(ds) \in Nat
  BY <1>1, <1>3, FS_CardinalityType
<1> QED BY <1>1, <1>3, <1>4

(* More keys come before a key that is later, and among more departures. *)
LEMMA KeysBeforeGrow ==
  ASSUME NEW ds, ds \subseteq Departures, IsFiniteSet(ds)
  PROVE  /\ \A d \in ds, key \in Keys : KeyLess(Key(d), key) =>
              /\ KeysBefore(ds, Key(d)) \subseteq KeysBefore(ds, key)
              /\ Cardinality(KeysBefore(ds, Key(d))) < Cardinality(KeysBefore(ds, key))
         /\ \A some \in SUBSET ds : \A key :
              /\ KeysBefore(some, key) \subseteq KeysBefore(ds, key)
              /\ Cardinality(KeysBefore(some, key)) <= Cardinality(KeysBefore(ds, key))
<1>1. ASSUME NEW d \in ds, NEW key \in Keys, KeyLess(Key(d), key)
      PROVE  /\ KeysBefore(ds, Key(d)) \subseteq KeysBefore(ds, key)
             /\ Cardinality(KeysBefore(ds, Key(d))) < Cardinality(KeysBefore(ds, key))
  <2>1. KeysBefore(ds, Key(d)) \subseteq KeysBefore(ds, key)
    BY <1>1, KeyType, KeyOrder DEF KeysBefore
  <2>2. Key(d) \in KeysBefore(ds, key)
    BY <1>1 DEF KeysBefore
  <2>3. Key(d) \notin KeysBefore(ds, Key(d))
    BY KeyType, KeyOrder DEF KeysBefore
  <2>4. /\ Cardinality(KeysBefore(ds, Key(d))) <= Cardinality(KeysBefore(ds, key))
        /\ Cardinality(KeysBefore(ds, Key(d))) # Cardinality(KeysBefore(ds, key))
    BY <2>1, <2>2, <2>3, KeysBeforeFinite, FS_Subset
  <2> QED BY <2>1, <2>4, KeysBeforeFinite
<1>2. ASSUME NEW some \in SUBSET ds, NEW key
      PROVE  /\ KeysBefore(some, key) \subseteq KeysBefore(ds, key)
             /\ Cardinality(KeysBefore(some, key)) <= Cardinality(KeysBefore(ds, key))
  <2>1. KeysBefore(some, key) \subseteq KeysBefore(ds, key)
    BY DEF KeysBefore
  <2> QED BY <2>1, KeysBeforeFinite, FS_Subset
<1> QED BY <1>1, <1>2

(* Of departures with the same key, the one of the first template stays. *)
LEMMA DistinctStays ==
  ASSUME NEW ds, ds \subseteq Departures, NEW d \in ds
  PROVE  \E e \in Distinct(ds) : Key(e) = Key(d) /\ e.template <= d.template
<1> DEFINE T == {e.template : e \in {c \in ds : Key(c) = Key(d)}}
<1>1. T \subseteq Nat /\ d.template \in T
  BY DEF Departures
<1>2. PICK m \in T : \A k \in T : m <= k
  <2> HIDE DEF T
  <2> QED BY <1>1, LeastElement
<1>3. PICK e \in ds : Key(e) = Key(d) /\ e.template = m
  BY <1>2
<1>4. e \in Distinct(ds)
  BY <1>2, <1>3 DEF Distinct, Departures
<1> QED BY <1>1, <1>2, <1>3, <1>4

LEMMA MergedIs ==
  ASSUME NEW when, NEW ds, IsList(ds, when), NEW n \in Nat
  PROVE  Merged(ds, n) = {d \in Distinct(ds) : Cardinality(KeysBefore(ds, Key(d))) < n}
<1> SUFFICES ASSUME NEW d \in Distinct(ds)
             PROVE  Cardinality({e \in Distinct(ds) : Before(e, d)}) = Cardinality(KeysBefore(ds, Key(d)))
  BY DEF Merged, First
<1> DEFINE before == {e \in Distinct(ds) : Before(e, d)}
           f == [e \in before |-> Key(e)]
<1>1. ds \subseteq Departures /\ IsFiniteSet(ds) /\ Distinct(ds) \subseteq ds
  BY DEF IsList, Distinct
<1>2. before = {e \in Distinct(ds) : KeyLess(Key(e), Key(d))}
  <2>1. ASSUME NEW e \in Distinct(ds), Key(e) = Key(d)
        PROVE  ~(e.template < d.template)
    BY <1>1, <2>1 DEF Distinct, Departures
  <2> QED BY <1>1, <2>1, BeforeIsKeyLess
<1>3. f \in [before -> KeysBefore(ds, Key(d))]
  BY <1>1, <1>2 DEF KeysBefore
<1>4. ASSUME NEW k \in KeysBefore(ds, Key(d))
      PROVE  \E e \in before : f[e] = k
  <2>1. PICK c \in ds : KeyLess(Key(c), Key(d)) /\ k = Key(c)
    BY DEF KeysBefore
  <2>2. PICK e \in Distinct(ds) : Key(e) = Key(c)
    BY <1>1, DistinctStays
  <2> QED BY <1>2, <2>1, <2>2
<1>5. ASSUME NEW a \in before, NEW b \in before, f[a] = f[b]
      PROVE  a = b
  <2>1. a \in ds /\ b \in ds /\ Key(a) = Key(b)
    BY <1>1, <1>5
  <2>2. a.template = b.template
    BY <1>1, <2>1 DEF Distinct, Departures
  <2> QED BY <2>1, <2>2, SameDeparture
<1>6. f \in Surjection(before, KeysBefore(ds, Key(d))) /\ f \in Injection(before, KeysBefore(ds, Key(d)))
  BY <1>3, <1>4, <1>5 DEF Surjection, Injection, IsInjective
<1>7. IsFiniteSet(before)
  BY <1>1, FS_Subset
<1> HIDE DEF before, f
<1>8. Cardinality(before) = Cardinality(KeysBefore(ds, Key(d)))
  BY <1>6, <1>7, FS_Surjection
<1> QED BY <1>8 DEF before

(* Departures may be left out before a list is merged: those that are
   duplicates of earlier ones, and those after n others. *)
LEMMA MergedOfSome ==
  ASSUME NEW when, NEW ds, IsList(ds, when), NEW n \in Nat, NEW some \in SUBSET ds,
         \A d \in ds \ some :
           \/ \E e \in some : Key(e) = Key(d) /\ e.template < d.template
           \/ Cardinality(KeysBefore(some, Key(d))) >= n
  PROVE  Merged(some, n) = Merged(ds, n)
<1>1. IsList(some, when) /\ ds \subseteq Departures /\ IsFiniteSet(ds) /\ IsFiniteSet(some)
  BY SublistIsList DEF IsList
<1>2. /\ Merged(some, n) = {d \in Distinct(some) : Cardinality(KeysBefore(some, Key(d))) < n}
      /\ Merged(ds, n) = {d \in Distinct(ds) : Cardinality(KeysBefore(ds, Key(d))) < n}
  BY <1>1, MergedIs
<1>3. \A key : /\ Cardinality(KeysBefore(some, key)) \in Nat
               /\ Cardinality(KeysBefore(ds, key)) \in Nat
               /\ Cardinality(KeysBefore(some, key)) <= Cardinality(KeysBefore(ds, key))
  BY <1>1, KeysBeforeFinite, KeysBeforeGrow
<1>4. ASSUME NEW d \in Distinct(some), Cardinality(KeysBefore(some, Key(d))) < n
      PROVE  d \in Distinct(ds) /\ Cardinality(KeysBefore(ds, Key(d))) < n
  <2>1. d \in some /\ d \in ds
    BY DEF Distinct
  <2>2. ASSUME NEW e \in ds, Key(e) = Key(d)
        PROVE  e.template >= d.template
    <3>1. CASE e \in some
      BY <2>2, <3>1 DEF Distinct
    <3>2. CASE e \notin some
      <4>1. ~(Cardinality(KeysBefore(some, Key(e))) >= n)
        BY <1>3, <1>4, <2>2
      <4>2. PICK c \in some : Key(c) = Key(e) /\ c.template < e.template
        BY <3>2, <4>1
      <4>3. c.template >= d.template
        BY <2>2, <4>2 DEF Distinct
      <4> QED BY <1>1, <2>1, <4>2, <4>3 DEF Departures
    <3> QED BY <3>1, <3>2
  <2>3. KeysBefore(ds, Key(d)) \subseteq KeysBefore(some, Key(d))
    <3> SUFFICES ASSUME NEW e \in ds, KeyLess(Key(e), Key(d)) PROVE Key(e) \in KeysBefore(some, Key(d))
      BY DEF KeysBefore
    <3>1. CASE e \in some
      BY <3>1 DEF KeysBefore
    <3>2. CASE \E c \in some : Key(c) = Key(e)
      BY <3>2 DEF KeysBefore
    <3>3. CASE e \notin some /\ Cardinality(KeysBefore(some, Key(e))) >= n
      <4>1. KeysBefore(some, Key(e)) \subseteq KeysBefore(some, Key(d))
        BY <1>1, <2>1, KeyType, KeyOrder DEF KeysBefore
      <4>2. Cardinality(KeysBefore(some, Key(e))) <= Cardinality(KeysBefore(some, Key(d)))
        BY <1>1, <4>1, KeysBeforeFinite, FS_Subset
      <4> QED BY <1>3, <1>4, <3>3, <4>2
    <3> QED BY <3>1, <3>2, <3>3
  <2>4. KeysBefore(ds, Key(d)) = KeysBefore(some, Key(d))
    BY <1>1, <2>3, KeysBeforeGrow
  <2> QED BY <1>4, <2>1, <2>2, <2>4 DEF Distinct
<1>5. ASSUME NEW d \in Distinct(ds), Cardinality(KeysBefore(ds, Key(d))) < n
      PROVE  d \in Distinct(some) /\ Cardinality(KeysBefore(some, Key(d))) < n
  <2>1. Cardinality(KeysBefore(some, Key(d))) < n
    BY <1>3, <1>5
  <2>2. ASSUME NEW e \in some, Key(e) = Key(d)
        PROVE  ~(e.template < d.template)
    BY <1>1, <2>2 DEF Distinct, Departures
  <2>3. d \in some
    BY <1>3, <2>1, <2>2 DEF Distinct
  <2> QED BY <2>1, <2>3 DEF Distinct
<1> QED BY <1>2, <1>4, <1>5

(* Of the keys before one that has n before it, a merged list has n. *)
LEMMA MergedHasEnough ==
  ASSUME NEW when, NEW ds, IsList(ds, when), NEW n \in Nat,
         NEW key \in Keys, Cardinality(KeysBefore(ds, key)) >= n
  PROVE  Cardinality(KeysBefore(Merged(ds, n), key)) >= n
<1> DEFINE merged == Merged(ds, n)
           rank(k) == Cardinality(KeysBefore(ds, k))
           T == {rank(Key(d)) : d \in {e \in ds : KeyLess(Key(e), key) /\ rank(Key(e)) >= n}}
<1>1. ds \subseteq Departures /\ IsFiniteSet(ds) /\ \A k : rank(k) \in Nat
  BY KeysBeforeFinite DEF IsList
<1>2. merged = {d \in Distinct(ds) : rank(Key(d)) < n}
  BY MergedIs
<1>3. merged \subseteq ds /\ IsFiniteSet(merged)
  BY <1>1, <1>2, FS_Subset DEF Distinct
<1>4. ASSUME NEW d \in ds, rank(Key(d)) < n
      PROVE  \E e \in merged : Key(e) = Key(d)
  BY <1>1, <1>2, <1>4, DistinctStays
<1>5. CASE T = {}
  <2>1. KeysBefore(ds, key) \subseteq KeysBefore(merged, key)
    <3> SUFFICES ASSUME NEW d \in ds, KeyLess(Key(d), key) PROVE Key(d) \in KeysBefore(merged, key)
      BY DEF KeysBefore
    <3>1. rank(Key(d)) < n
      BY <1>1, <1>5
    <3> QED BY <1>4, <3>1 DEF KeysBefore
  <2> HIDE DEF merged
  <2>2. Cardinality(KeysBefore(ds, key)) <= Cardinality(KeysBefore(merged, key))
    BY <1>3, <2>1, KeysBeforeFinite, FS_Subset
  <2>3. /\ Cardinality(KeysBefore(merged, key)) \in Nat
        /\ Cardinality(KeysBefore(ds, key)) \in Nat
    BY <1>1, <1>3, KeysBeforeFinite
  <2>4. Cardinality(KeysBefore(merged, key)) >= n
    BY <2>2, <2>3
  <2> QED BY <2>4 DEF merged
<1>6. CASE T # {}
  <2>1. T \subseteq Nat
    BY <1>1
  <2>2. PICK m \in T : \A k \in T : m <= k
    <3> HIDE DEF T
    <3> QED BY <1>6, <2>1, LeastElement
  <2>3. PICK d \in ds : KeyLess(Key(d), key) /\ rank(Key(d)) >= n /\ m = rank(Key(d))
    BY <2>2
  <2>4. KeysBefore(ds, Key(d)) \subseteq KeysBefore(merged, key)
    <3> SUFFICES ASSUME NEW e \in ds, KeyLess(Key(e), Key(d)) PROVE Key(e) \in KeysBefore(merged, key)
      BY DEF KeysBefore
    <3>1. Key(e) \in Keys /\ Key(d) \in Keys
      BY <1>1, KeyType
    <3>2. KeyLess(Key(e), key)
      BY <2>3, <3>1, KeyOrder
    <3>3. rank(Key(e)) < rank(Key(d))
      BY <1>1, <3>1, KeysBeforeGrow
    <3>4. rank(Key(e)) < n
      <4> SUFFICES ASSUME ~(rank(Key(e)) < n) PROVE FALSE
        OBVIOUS
      <4>1. rank(Key(e)) >= n
        BY <1>1
      <4>2. rank(Key(e)) \in T
        BY <3>2, <4>1
      <4>3. m <= rank(Key(e)) /\ m \in Nat
        BY <2>1, <2>2, <4>2
      <4>4. rank(Key(e)) \in Nat /\ rank(Key(d)) \in Nat
        BY <1>1
      <4> HIDE DEF rank, T
      <4> QED BY <2>3, <3>3, <4>3, <4>4
    <3>5. PICK c \in merged : Key(c) = Key(e)
      BY <1>4, <3>4
    <3> QED BY <3>2, <3>5 DEF KeysBefore
  <2> HIDE DEF merged
  <2>5. Cardinality(KeysBefore(ds, Key(d))) <= Cardinality(KeysBefore(merged, key))
    BY <1>3, <2>4, KeysBeforeFinite, FS_Subset
  <2>6. /\ Cardinality(KeysBefore(merged, key)) \in Nat
        /\ Cardinality(KeysBefore(ds, Key(d))) \in Nat
    BY <1>1, <1>3, KeysBeforeFinite
  <2>7. Cardinality(KeysBefore(merged, key)) >= n
    BY <2>3, <2>5, <2>6
  <2> QED BY <2>7 DEF merged
<1> QED BY <1>5, <1>6

(* What a merged list lacks is a duplicate or comes after n others of it. *)
LEMMA MergedLacks ==
  ASSUME NEW when, NEW ds, IsList(ds, when), NEW n \in Nat, NEW d \in ds \ Merged(ds, n)
  PROVE  \/ \E e \in Merged(ds, n) : Key(e) = Key(d) /\ e.template < d.template
         \/ Cardinality(KeysBefore(Merged(ds, n), Key(d))) >= n
<1>1. ds \subseteq Departures /\ IsFiniteSet(ds)
  BY DEF IsList
<1>2. Merged(ds, n) = {e \in Distinct(ds) : Cardinality(KeysBefore(ds, Key(e))) < n}
  BY MergedIs
<1>3. Cardinality(KeysBefore(ds, Key(d))) \in Nat
  BY <1>1, KeysBeforeFinite
<1>4. CASE Cardinality(KeysBefore(ds, Key(d))) < n
  <2>1. d \notin Distinct(ds)
    BY <1>2, <1>4
  <2>2. PICK c \in ds : Key(c) = Key(d) /\ ~(c.template >= d.template)
    BY <2>1 DEF Distinct
  <2>3. PICK e \in Distinct(ds) : Key(e) = Key(c) /\ e.template <= c.template
    BY <1>1, DistinctStays
  <2>4. e \in Merged(ds, n)
    BY <1>2, <1>4, <2>2, <2>3
  <2>5. e.template < d.template
    BY <1>1, <2>2, <2>3 DEF Departures, Distinct
  <2> QED BY <2>2, <2>3, <2>4, <2>5
<1>5. CASE ~(Cardinality(KeysBefore(ds, Key(d))) < n)
  <2>1. Cardinality(KeysBefore(ds, Key(d))) >= n
    BY <1>3, <1>5
  <2>2. Key(d) \in Keys
    BY <1>1, KeyType
  <2> QED BY <2>1, <2>2, MergedHasEnough
<1> QED BY <1>4, <1>5

LEMMA MergedIsList ==
  ASSUME NEW when, NEW ds, IsList(ds, when), NEW n
  PROVE  Merged(ds, n) \subseteq ds /\ IsList(Merged(ds, n), when)
<1>1. Merged(ds, n) \subseteq ds
  BY DEF Merged, First, Distinct
<1> QED BY <1>1, SublistIsList

(* Lists may be merged one after another. *)
LEMMA MergedAgain ==
  ASSUME NEW when, NEW ds, IsList(ds, when), NEW es, IsList(es, when), NEW n \in Nat
  PROVE  Merged(Merged(ds, n) \cup es, n) = Merged(ds \cup es, n)
<1> DEFINE all == ds \cup es
           some == Merged(ds, n) \cup es
<1>1. IsList(all, when) /\ some \in SUBSET all
  BY UnionIsList, MergedIsList
<1>2. ASSUME NEW d \in all \ some
      PROVE  \/ \E e \in some : Key(e) = Key(d) /\ e.template < d.template
             \/ Cardinality(KeysBefore(some, Key(d))) >= n
  <2>1. CASE \E e \in Merged(ds, n) : Key(e) = Key(d) /\ e.template < d.template
    BY <2>1
  <2>2. CASE Cardinality(KeysBefore(Merged(ds, n), Key(d))) >= n
    <3>1. IsFiniteSet(some) /\ some \subseteq Departures /\ Merged(ds, n) \subseteq some
      BY <1>1, FS_Subset DEF IsList
    <3>2. IsFiniteSet(Merged(ds, n))
      BY <3>1, FS_Subset
    <3> HIDE DEF some
    <3>3. /\ Cardinality(KeysBefore(some, Key(d))) \in Nat
          /\ Cardinality(KeysBefore(Merged(ds, n), Key(d))) \in Nat
          /\ Cardinality(KeysBefore(Merged(ds, n), Key(d))) <= Cardinality(KeysBefore(some, Key(d)))
      BY <3>1, <3>2, KeysBeforeFinite, KeysBeforeGrow
    <3> QED BY <2>2, <3>3
  <2> QED BY <2>1, <2>2, MergedLacks
<1> HIDE DEF all, some
<1>3. Merged(some, n) = Merged(all, n)
  BY <1>1, <1>2, MergedOfSome
<1> QED BY <1>3 DEF all, some

(* No more than n are merged: each other one comes before the last of them. *)
LEMMA MergedAtMost ==
  ASSUME NEW when, NEW ds, IsList(ds, when), NEW n \in Nat
  PROVE  IsFiniteSet(Merged(ds, n)) /\ Cardinality(Merged(ds, n)) \in 0..n
<1> DEFINE merged == Merged(ds, n)
           rank(d) == Cardinality(KeysBefore(ds, Key(d)))
           N == Cardinality(ds)
           T == {N - rank(d) : d \in merged}
<1>1. /\ ds \subseteq Departures /\ IsFiniteSet(ds) /\ N \in Nat
      /\ \A d \in ds : rank(d) \in Nat /\ rank(d) <= N
  BY KeysBeforeFinite, FS_CardinalityType DEF IsList
<1>2. merged = {d \in Distinct(ds) : rank(d) < n}
  BY MergedIs
<1>3. merged \subseteq ds /\ IsFiniteSet(merged) /\ Cardinality(merged) \in Nat
  BY <1>1, <1>2, FS_Subset, FS_CardinalityType DEF Distinct
<1>4. CASE merged = {}
  BY <1>3, <1>4, FS_EmptySet
<1>5. CASE merged # {}
  <2>1. T \subseteq Nat /\ T # {}
    BY <1>1, <1>3, <1>5
  <2>2. PICK k \in T : \A l \in T : k <= l
    <3> HIDE DEF T
    <3> QED BY <2>1, LeastElement
  <2>3. PICK last \in merged : k = N - rank(last)
    BY <2>2
  <2>4. last \in ds /\ rank(last) \in Nat /\ rank(last) < n
    BY <1>1, <1>2, <1>3, <2>3
  <2>5. ASSUME NEW d \in merged, d # last
        PROVE  KeyLess(Key(d), Key(last))
    <3>1. d \in ds /\ Key(d) \in Keys /\ Key(last) \in Keys
      BY <1>1, <1>3, <2>4, KeyType
    <3>2. Key(d) # Key(last)
      <4> SUFFICES ASSUME Key(d) = Key(last) PROVE FALSE
        OBVIOUS
      <4>1. d \in Distinct(ds) /\ last \in Distinct(ds)
        BY <1>2
      <4>2. d.template = last.template
        BY <1>1, <2>4, <3>1, <4>1 DEF Distinct, Departures
      <4> QED BY <2>4, <2>5, <3>1, <4>2, SameDeparture
    <3>3. ~KeyLess(Key(last), Key(d))
      <4> SUFFICES ASSUME KeyLess(Key(last), Key(d)) PROVE FALSE
        OBVIOUS
      <4>1. rank(last) < rank(d)
        BY <1>1, <2>4, <3>1, KeysBeforeGrow
      <4>2. N - rank(last) <= N - rank(d)
        BY <2>2, <2>3
      <4>3. rank(last) \in Nat /\ rank(d) \in Nat
        BY <1>1, <2>4, <3>1
      <4> HIDE DEF rank, N
      <4> QED BY <1>1, <4>1, <4>2, <4>3
    <3> QED BY <3>1, <3>2, <3>3, KeyOrder
  <2> DEFINE others == merged \ {last}
             f == [d \in others |-> Key(d)]
  <2>6. f \in [others -> KeysBefore(ds, Key(last))]
    BY <1>3, <2>5 DEF KeysBefore
  <2>7. ASSUME NEW a \in others, NEW b \in others, f[a] = f[b]
        PROVE  a = b
    <3>1. a \in Distinct(ds) /\ b \in Distinct(ds) /\ a \in ds /\ b \in ds /\ Key(a) = Key(b)
      BY <1>2, <1>3, <2>7
    <3>2. a.template = b.template
      BY <1>1, <3>1 DEF Distinct, Departures
    <3> QED BY <3>1, <3>2, SameDeparture
  <2>8. f \in Injection(others, KeysBefore(ds, Key(last)))
    BY <2>6, <2>7 DEF Injection, IsInjective
  <2> HIDE DEF f
  <2>9. Cardinality(others) <= rank(last)
    BY <1>1, <2>8, KeysBeforeFinite, FS_Injection
  <2>10. Cardinality(others) = Cardinality(merged) - 1
    BY <1>3, FS_RemoveElement
  <2> HIDE DEF merged, others, rank
  <2>11. Cardinality(merged) <= n
    BY <1>3, <2>4, <2>9, <2>10
  <2> QED BY <1>3, <2>11 DEF merged
<1> QED BY <1>4, <1>5

(* A list without duplicates that has n departures still has n when it is
   merged. *)
LEMMA MergedFull ==
  ASSUME NEW when, NEW ds, IsList(ds, when), Distinct(ds) = ds,
         NEW n \in Nat, Cardinality(ds) >= n
  PROVE  Cardinality(Merged(ds, n)) >= n
<1> DEFINE merged == Merged(ds, n)
<1>1. /\ IsFiniteSet(ds) /\ IsFiniteSet(merged) /\ merged \subseteq ds
      /\ Cardinality(ds) \in Nat /\ Cardinality(merged) \in Nat
  BY MergedIsList, MergedAtMost, FS_CardinalityType DEF IsList
<1> SUFFICES ASSUME Cardinality(merged) < n PROVE FALSE
  BY <1>1
<1>2. merged # ds
  BY <1>1
<1>3. PICK d \in ds : d \notin merged
  BY <1>1, <1>2
<1>4. ~\E e \in merged : Key(e) = Key(d) /\ e.template < d.template
  BY <1>1 DEF Distinct, IsList, Departures
<1>5. Cardinality(KeysBefore(merged, Key(d))) >= n
  BY <1>3, <1>4, MergedLacks
<1>6. /\ Cardinality(KeysBefore(merged, Key(d))) <= Cardinality(merged)
      /\ Cardinality(KeysBefore(merged, Key(d))) \in Nat
  BY <1>1, KeysBeforeFinite
<1> QED BY <1>1, <1>5, <1>6

LEMMA SomeDistinct ==
  ASSUME NEW ds, NEW m, NEW some \in SUBSET Merged(ds, m)
  PROVE  Distinct(some) = some /\ \A n : First(some, n) = Merged(some, n)
BY DEF Merged, First, Distinct

-----------------------------------------------------------------------------
(* Waits *)

(* The same departures as another instant sees them *)
Waiting(d, when) == [d EXCEPT !.wait = Wait(d.at, when)]

Rewaited(ds, when) == {Waiting(d, when) : d \in ds}

LEMMA WaitType == \A at, when \in Int : Wait(at, when) \in Int
BY DEF Wait, SecondsUp, Ticks

LEMMA WaitingIs ==
  ASSUME NEW d \in Departures, NEW when \in Int
  PROVE  /\ Waiting(d, when) \in Departures
         /\ Waiting(d, when).at = d.at /\ Waiting(d, when).template = d.template
         /\ Waiting(d, when).wait = Wait(d.at, when)
         /\ Key(Waiting(d, when)) = Key(d)
<1>1. d.at \in Int /\ Wait(d.at, when) \in Int
  BY WaitType DEF Departures
<1>2. /\ Waiting(d, when) \in Departures
      /\ Waiting(d, when).at = d.at /\ Waiting(d, when).trip = d.trip
      /\ Waiting(d, when).date = d.date /\ Waiting(d, when).start = d.start
      /\ Waiting(d, when).template = d.template /\ Waiting(d, when).wait = Wait(d.at, when)
  BY <1>1 DEF Waiting, Departures
<1> QED BY <1>2 DEF Key

(* Waits have no part in what is merged. *)
LEMMA RewaitedMerged ==
  ASSUME NEW other, NEW ds, IsList(ds, other), NEW n \in Nat, NEW when \in Int
  PROVE  /\ IsList(Rewaited(ds, when), when)
         /\ Rewaited(Merged(ds, n), when) = Merged(Rewaited(ds, when), n)
<1> DEFINE es == Rewaited(ds, when)
           f == [d \in ds |-> Waiting(d, when)]
<1>1. ds \subseteq Departures /\ IsFiniteSet(ds)
  BY DEF IsList
<1>2. f \in Surjection(ds, es)
  BY DEF Surjection, Rewaited
<1> HIDE DEF f
<1>3. IsFiniteSet(es)
  BY <1>1, <1>2, FS_Surjection
<1>4. IsList(es, when)
  BY <1>1, <1>3, WaitingIs DEF IsList, Rewaited
<1>5. ASSUME NEW d \in ds
      PROVE  KeysBefore(es, Key(Waiting(d, when))) = KeysBefore(ds, Key(d))
  BY <1>1, WaitingIs DEF KeysBefore, Rewaited
<1>6. ASSUME NEW d \in ds
      PROVE  Waiting(d, when) \in Distinct(es) <=> d \in Distinct(ds)
  BY <1>1, WaitingIs DEF Distinct, Rewaited
<1>7. /\ Merged(es, n) = {e \in Distinct(es) : Cardinality(KeysBefore(es, Key(e))) < n}
      /\ Merged(ds, n) = {d \in Distinct(ds) : Cardinality(KeysBefore(ds, Key(d))) < n}
  BY <1>4, MergedIs
<1>8. ASSUME NEW d \in ds
      PROVE  Waiting(d, when) \in Merged(es, n) <=> d \in Merged(ds, n)
  BY <1>5, <1>6, <1>7
<1>9. Merged(es, n) \subseteq es /\ Merged(ds, n) \subseteq ds
  BY <1>7 DEF Distinct
<1>10. Rewaited(Merged(ds, n), when) \subseteq Merged(es, n)
  BY <1>8, <1>9 DEF Rewaited
<1>11. Merged(es, n) \subseteq Rewaited(Merged(ds, n), when)
  BY <1>8, <1>9 DEF Rewaited
<1> QED BY <1>4, <1>10, <1>11

-----------------------------------------------------------------------------
(* Numbers *)

LEMMA LeastOf ==
  ASSUME NEW S, S \subseteq Int, IsFiniteSet(S), S # {}
  PROVE  Min(S) \in S /\ \A x \in S : Min(S) <= x
<1> DEFINE below(x) == {y \in S : y < x}
           T == {Cardinality(below(x)) : x \in S}
<1>0. ASSUME NEW x \in S, NEW y \in S, y < x
      PROVE  below(y) \subseteq below(x) /\ y \in below(x) /\ y \notin below(y)
  <2>1. x \in Int /\ y \in Int /\ \A z \in S : z \in Int
    OBVIOUS
  <2>2. \A z \in S : z < y => z < x
    BY <1>0, <2>1
  <2>3. ~(y < y)
    BY <2>1
  <2> QED BY <1>0, <2>2, <2>3
<1>1. ASSUME NEW x \in S
      PROVE  IsFiniteSet(below(x)) /\ Cardinality(below(x)) \in Nat
  BY FS_Subset, FS_CardinalityType
<1>2. T \subseteq Nat /\ T # {}
  BY <1>1
<1>3. PICK m \in T : \A k \in T : m <= k
  <2> HIDE DEF T
  <2> QED BY <1>2, LeastElement
<1>4. PICK x \in S : m = Cardinality(below(x))
  BY <1>3
<1>5. ASSUME NEW y \in S, y < x
      PROVE  FALSE
  <2>1. below(y) \subseteq below(x) /\ y \in below(x) /\ y \notin below(y)
    BY <1>0, <1>5
  <2> HIDE DEF below
  <2>2. Cardinality(below(y)) <= Cardinality(below(x)) /\ Cardinality(below(y)) # Cardinality(below(x))
    BY <1>1, <2>1, FS_Subset
  <2>3. Cardinality(below(x)) <= Cardinality(below(y))
    BY <1>3, <1>4
  <2> QED BY <1>1, <2>2, <2>3
<1>6. \A y \in S : x <= y
  BY <1>5
<1> QED BY <1>6 DEF Min

LEMMA GreatestOf ==
  ASSUME NEW S, S \subseteq Int, IsFiniteSet(S), S # {}
  PROVE  Max(S) \in S /\ \A x \in S : x <= Max(S)
<1> DEFINE above(x) == {y \in S : y > x}
           T == {Cardinality(above(x)) : x \in S}
<1>0. ASSUME NEW x \in S, NEW y \in S, y > x
      PROVE  above(y) \subseteq above(x) /\ y \in above(x) /\ y \notin above(y)
  <2>1. x \in Int /\ y \in Int /\ \A z \in S : z \in Int
    OBVIOUS
  <2>2. \A z \in S : z > y => z > x
    BY <1>0, <2>1
  <2>3. ~(y > y)
    BY <2>1
  <2> QED BY <1>0, <2>2, <2>3
<1>1. ASSUME NEW x \in S
      PROVE  IsFiniteSet(above(x)) /\ Cardinality(above(x)) \in Nat
  BY FS_Subset, FS_CardinalityType
<1>2. T \subseteq Nat /\ T # {}
  BY <1>1
<1>3. PICK m \in T : \A k \in T : m <= k
  <2> HIDE DEF T
  <2> QED BY <1>2, LeastElement
<1>4. PICK x \in S : m = Cardinality(above(x))
  BY <1>3
<1>5. ASSUME NEW y \in S, y > x
      PROVE  FALSE
  <2>1. above(y) \subseteq above(x) /\ y \in above(x) /\ y \notin above(y)
    BY <1>0, <1>5
  <2> HIDE DEF above
  <2>2. Cardinality(above(y)) <= Cardinality(above(x)) /\ Cardinality(above(y)) # Cardinality(above(x))
    BY <1>1, <2>1, FS_Subset
  <2>3. Cardinality(above(x)) <= Cardinality(above(y))
    BY <1>3, <1>4
  <2> QED BY <1>1, <2>2, <2>3
<1>6. \A y \in S : x >= y
  BY <1>5
<1>7. Max(S) \in S /\ \A y \in S : Max(S) >= y
  BY <1>6 DEF Max
<1> QED BY <1>7

LEMMA PairExtremes ==
  \A a, b \in Int :
    /\ Min({a, b}) = IF a <= b THEN a ELSE b
    /\ Max({a, b}) = IF a <= b THEN b ELSE a
<1> TAKE a, b \in Int
<1>1. {a, b} \subseteq Int /\ {a, b} # {} /\ IsFiniteSet({a, b})
  <2>1. IsFiniteSet({a}) /\ IsFiniteSet({b}) /\ {a, b} = {a} \cup {b}
    BY FS_Singleton
  <2> QED BY <2>1, FS_Union
<1>2. Min({a, b}) \in {a, b} /\ Min({a, b}) <= a /\ Min({a, b}) <= b
  BY <1>1, LeastOf
<1>3. Max({a, b}) \in {a, b} /\ a <= Max({a, b}) /\ b <= Max({a, b})
  BY <1>1, GreatestOf
<1> QED BY <1>2, <1>3

LEMMA Division ==
  \A n \in Nat, h \in Nat \ {0} :
    /\ n \div h \in Nat
    /\ n % h \in Nat /\ n % h < h
    /\ n = (n \div h) * h + (n % h)
<1> TAKE n \in Nat, h \in Nat \ {0}
<1>1. n \div h \in Nat /\ n % h \in Nat /\ n % h < h
  OBVIOUS
<1>2. n % h = n - h * (n \div h)
  <2>1. h > 0
    OBVIOUS
  <2> QED BY <2>1, Z3
<1> DEFINE q == n \div h
           r == n % h
<1>3. n = q * h + r
  <2>1. q \in Nat /\ r \in Nat /\ r = n - h * q
    BY <1>1, <1>2
  <2> HIDE DEF q, r
  <2> DEFINE x == q * h
  <2>2. x \in Nat /\ r = n - x
    BY <2>1
  <2> HIDE DEF x
  <2>3. n = x + r
    BY <2>1, <2>2
  <2> QED BY <2>3 DEF x
<1> QED BY <1>1, <1>3

LEMMA Products ==
  \A i, j \in Int, h \in Nat \ {0} :
    /\ i <= j <=> i * h <= j * h
    /\ i * h \in Int
    /\ (i + 1) * h = i * h + h
<1> TAKE i, j \in Int, h \in Nat \ {0}
<1>1. i * h \in Int /\ j * h \in Int /\ (i + 1) * h = i * h + h
  OBVIOUS
<1>2. \A k \in Nat : k * h \in Nat /\ (k # 0 => k * h # 0)
  OBVIOUS
<1>3. i * h + (j - i) * h = j * h /\ j * h + (i - j) * h = i * h
  OBVIOUS
<1>4. i <= j => i * h <= j * h
  <2> SUFFICES ASSUME i <= j PROVE i * h <= j * h
    OBVIOUS
  <2> DEFINE k == j - i
  <2>1. k \in Nat /\ k * h \in Nat /\ i * h + k * h = j * h
    BY <1>2, <1>3
  <2> HIDE DEF k
  <2> DEFINE a == i * h
             b == j * h
             c == k * h
  <2>2. a \in Int /\ b \in Int /\ c \in Nat /\ a + c = b
    BY <1>1, <2>1
  <2> HIDE DEF a, b, c
  <2>3. a <= b
    BY <2>2
  <2> QED BY <2>3 DEF a, b
<1>5. ~(i <= j) => ~(i * h <= j * h)
  <2> SUFFICES ASSUME ~(i <= j) PROVE ~(i * h <= j * h)
    OBVIOUS
  <2> DEFINE k == i - j
  <2>1. k \in Nat /\ k # 0 /\ k * h \in Nat /\ k * h # 0 /\ j * h + k * h = i * h
    BY <1>2, <1>3
  <2> HIDE DEF k
  <2> DEFINE a == i * h
             b == j * h
             c == k * h
  <2>2. a \in Int /\ b \in Int /\ c \in Nat /\ c # 0 /\ b + c = a
    BY <1>1, <2>1
  <2> HIDE DEF a, b, c
  <2>3. ~(a <= b)
    BY <2>2
  <2> QED BY <2>3 DEF a, b
<1> QED BY <1>1, <1>4, <1>5

(* Quotients, rounded down and up *)
LEMMA RoundedDown ==
  \A n, k \in Nat, h \in Nat \ {0} : k <= n \div h <=> k * h <= n
<1> TAKE n, k \in Nat, h \in Nat \ {0}
<1> DEFINE q == n \div h
<1>1. q \in Nat /\ q * h <= n /\ n < (q + 1) * h
  BY Division, Products
<1>2. k <= q <=> k * h <= q * h
  BY <1>1, Products
<1>3. q + 1 <= k <=> (q + 1) * h <= k * h
  BY <1>1, Products
<1> HIDE DEF q
<1>4. k * h \in Int /\ q * h \in Int /\ (q + 1) * h \in Int
  BY <1>1, Products
<1>5. k <= q => k * h <= n
  BY <1>1, <1>2, <1>4
<1>6. ~(k <= q) => ~(k * h <= n)
  BY <1>1, <1>3, <1>4
<1> QED BY <1>5, <1>6 DEF q

LEMMA RoundedUp ==
  \A n, k \in Nat, h \in Nat \ {0} :
    CeilDiv(n, h) \in Nat /\ (CeilDiv(n, h) <= k <=> n <= k * h)
<1> TAKE n, k \in Nat, h \in Nat \ {0}
<1> DEFINE q == n \div h
<1>1. q \in Nat /\ n % h \in Nat /\ n % h < h /\ n = q * h + (n % h)
  BY Division
<1>2. q * h \in Int /\ k * h \in Int /\ (q + 1) * h = q * h + h
  BY <1>1, Products
<1>3. (q <= k <=> q * h <= k * h) /\ (k <= q <=> k * h <= q * h) /\ (q + 1 <= k <=> (q + 1) * h <= k * h)
  BY <1>1, Products
<1>4. CeilDiv(n, h) = IF n % h # 0 THEN q + 1 ELSE q
  BY <1>1 DEF CeilDiv
<1> DEFINE r == n % h
           below == q * h
           above == (q + 1) * h
           c == k * h
<1>5. /\ r \in Nat /\ r < h /\ n = below + r /\ below \in Int /\ c \in Int /\ above = below + h
      /\ q <= k <=> below <= c
      /\ k <= q <=> c <= below
      /\ q + 1 <= k <=> above <= c
      /\ CeilDiv(n, h) = IF r # 0 THEN q + 1 ELSE q
  BY <1>1, <1>2, <1>3, <1>4
<1>6. q \in Nat
  BY <1>1
<1> HIDE DEF q, r, below, above, c
<1>7. CeilDiv(n, h) <= k <=> n <= c
  <2>1. CASE r = 0
    BY <1>5, <1>6, <2>1
  <2>2. CASE r # 0
    BY <1>5, <1>6, <2>2
  <2> QED BY <2>1, <2>2
<1>8. CeilDiv(n, h) \in Nat
  BY <1>5, <1>6
<1> QED BY <1>7, <1>8 DEF c

LEMMA Halves ==
  \A a, b \in Int :
    /\ Seconds(b) \in Int /\ SecondsUp(b) \in Int /\ Seconds(b) <= SecondsUp(b)
    /\ SecondsUp(b) <= a <=> b <= Ticks(a)
    /\ a <= Seconds(b) <=> Ticks(a) <= b
BY DEF Seconds, SecondsUp, Ticks

-----------------------------------------------------------------------------
(* Days *)

LEMMA DayTypes ==
  ASSUME NEW zone \in DOMAIN Zones
  PROVE  /\ Days \subseteq Int /\ DayLength \in Nat
         /\ \A s, t \in Days : s..t \subseteq Days
         /\ \A d \in Days : Zones[zone][d] \in Int
         /\ \A d \in Days : d + 1 \in Days => Zones[zone][d] < Zones[zone][d + 1]
         /\ \A d \in Days : d + 2 \in Days => Zones[zone][d] + DayLength <= Zones[zone][d + 2]
BY ScheduleAssumption

LEMMA DaysFollow ==
  ASSUME NEW zone \in DOMAIN Zones
  PROVE  \A a, b \in Days : a < b => Zones[zone][a] < Zones[zone][b]
<1> SUFFICES ASSUME NEW a \in Days, NEW b \in Days, a < b, ~(Zones[zone][a] < Zones[zone][b])
             PROVE  FALSE
  OBVIOUS
<1> DEFINE T == {k \in Nat \ {0} : a + k \in Days /\ ~(Zones[zone][a] < Zones[zone][a + k])}
<1>1. a \in Int /\ b \in Int
  BY DayTypes
<1>2. b - a \in T
  <2>1. b - a \in Nat \ {0} /\ a + (b - a) = b
    BY <1>1
  <2> QED BY <2>1
<1>3. PICK m \in T : \A k \in T : m <= k
  <2>1. T \subseteq Nat /\ T # {}
    BY <1>2
  <2> HIDE DEF T
  <2> QED BY <2>1, LeastElement
<1>4. m \in Nat \ {0} /\ a + m \in Days /\ ~(Zones[zone][a] < Zones[zone][a + m])
  BY <1>3
<1>5. m # 1
  BY <1>4, DayTypes
<1>6. m - 1 \in Nat \ {0} /\ m - 1 \notin T
  BY <1>3, <1>4, <1>5
<1>7. a + (m - 1) \in Days
  <2>1. a + (m - 1) \in a..(a + m)
    BY <1>1, <1>4
  <2> QED BY <1>4, <2>1, DayTypes
<1>8. Zones[zone][a] < Zones[zone][a + (m - 1)]
  BY <1>6, <1>7
<1>9. Zones[zone][a + (m - 1)] < Zones[zone][a + m]
  <2>1. (a + (m - 1)) + 1 = a + m
    BY <1>1, <1>4
  <2> QED BY <1>4, <1>7, <2>1, DayTypes
<1> QED BY <1>4, <1>7, <1>8, <1>9, DayTypes

LEMMA LocalDateIs ==
  ASSUME NEW zone \in DOMAIN Zones, NEW second \in Int, Covered(zone, second)
  PROVE  LET today == LocalDate(zone, second)
         IN  /\ {today - 1, today, today + 1, today + 2} \subseteq Days
             /\ Zones[zone][today] <= second /\ second < Zones[zone][today + 1]
<1> DEFINE Is(d) == Zones[zone][d] <= second /\ (d + 1 \in Days => second < Zones[zone][d + 1])
           today == LocalDate(zone, second)
<1>1. PICK e \in Days : /\ {e - 1, e + 1, e + 2} \subseteq Days
                        /\ Zones[zone][e] <= second /\ second < Zones[zone][e + 1]
  BY DEF Covered
<1>2. today \in Days /\ Is(today)
  BY <1>1 DEF LocalDate
<1>3. today \in Int /\ e \in Int
  BY <1>2, DayTypes
<1>4. ~(e < today)
  <2> SUFFICES ASSUME e < today PROVE FALSE
    OBVIOUS
  <2>1. Zones[zone][e + 1] <= Zones[zone][today]
    <3>1. e + 1 = today \/ e + 1 < today
      BY <1>3
    <3> QED BY <1>1, <1>2, <3>1, DaysFollow, DayTypes
  <2> QED BY <1>1, <1>2, <2>1, DayTypes
<1>5. ~(today < e)
  <2> SUFFICES ASSUME today < e PROVE FALSE
    OBVIOUS
  <2>1. today + 1 \in Days
    <3>1. today + 1 \in today..e
      BY <1>3
    <3> QED BY <1>2, <3>1, DayTypes
  <2>2. Zones[zone][today + 1] <= Zones[zone][e]
    <3>1. today + 1 = e \/ today + 1 < e
      BY <1>3
    <3> QED BY <2>1, <3>1, DaysFollow, DayTypes
  <2> QED BY <1>1, <1>2, <2>1, <2>2, DayTypes
<1>6. today = e
  BY <1>3, <1>4, <1>5
<1> HIDE DEF today
<1> QED BY <1>1, <1>6 DEF today

-----------------------------------------------------------------------------
(* Templates *)

LEMMA ServiceDatesAre ==
  ASSUME NEW service, NEW x
  PROVE  x \in ServiceDates(service) <=>
           \/ \E calendar \in service.calendars : x = calendar.first \/ x = calendar.last
           \/ x \in DOMAIN service.exceptions /\ service.exceptions[x] = 1
<1> DEFINE pairs == UNION {{calendar.first, calendar.last} : calendar \in service.calendars}
           added == {date \in DOMAIN service.exceptions : service.exceptions[date] = 1}
<1>1. x \in pairs <=> \E calendar \in service.calendars : x = calendar.first \/ x = calendar.last
  OBVIOUS
<1>2. x \in added <=> x \in DOMAIN service.exceptions /\ service.exceptions[x] = 1
  OBVIOUS
<1>3. ServiceDates(service) = pairs \cup added
  BY DEF ServiceDates
<1> HIDE DEF pairs, added
<1> QED BY <1>1, <1>2, <1>3

LEMMA ServiceDatesFinite ==
  ASSUME NEW t, TemplateOK(t)
  PROVE  ServiceDates(t.service) \subseteq Int /\ IsFiniteSet(ServiceDates(t.service))
<1> DEFINE cs == t.service.calendars
           es == {date \in DOMAIN t.service.exceptions : t.service.exceptions[date] = 1}
           firsts == {calendar.first : calendar \in cs}
           lasts == {calendar.last : calendar \in cs}
           f == [calendar \in cs |-> calendar.first]
           l == [calendar \in cs |-> calendar.last]
<1>1. IsFiniteSet(cs) /\ IsFiniteSet(es) /\ es \subseteq Int
  BY FS_Subset DEF TemplateOK
<1>2. f \in Surjection(cs, firsts) /\ l \in Surjection(cs, lasts)
  BY DEF Surjection
<1>3. firsts \subseteq Int /\ lasts \subseteq Int
  BY DEF TemplateOK
<1>4. ServiceDates(t.service) = (firsts \cup lasts) \cup es
  BY ServiceDatesAre
<1> HIDE DEF cs, es, firsts, lasts, f, l
<1>5. IsFiniteSet(firsts) /\ IsFiniteSet(lasts)
  BY <1>1, <1>2, FS_Surjection
<1>6. IsFiniteSet(firsts \cup lasts)
  BY <1>5, FS_Union
<1>7. IsFiniteSet((firsts \cup lasts) \cup es)
  BY <1>1, <1>6, FS_Union
<1> QED BY <1>1, <1>3, <1>4, <1>7

(* A service is active between the first and the last of its dates. *)
LEMMA ActiveDates ==
  ASSUME NEW t, TemplateOK(t), NEW date \in Int, Active(t.service, date)
  PROVE  /\ ServiceDates(t.service) # {}
         /\ Min(ServiceDates(t.service)) <= date
         /\ date <= Max(ServiceDates(t.service))
<1> DEFINE dates == ServiceDates(t.service)
<1>1. dates \subseteq Int /\ IsFiniteSet(dates)
  BY ServiceDatesFinite
<1>2. \E a, b \in dates : a <= date /\ date <= b
  <2>1. CASE date \in DOMAIN t.service.exceptions
    <3>1. date \in dates
      BY <2>1, ServiceDatesAre DEF Active
    <3> QED BY <3>1
  <2>2. CASE date \notin DOMAIN t.service.exceptions
    <3>1. PICK calendar \in t.service.calendars : InRange(calendar, date)
      BY <2>2 DEF Active
    <3>2. calendar.first \in dates /\ calendar.last \in dates
      BY <3>1, ServiceDatesAre
    <3>3. calendar.first <= date /\ date <= calendar.last
      BY <3>1 DEF InRange, TemplateOK
    <3> QED BY <3>2, <3>3
  <2> QED BY <2>1, <2>2
<1> HIDE DEF dates
<1>3. PICK a \in dates, b \in dates : a <= date /\ date <= b
  BY <1>2
<1>4. /\ Min(dates) \in dates /\ Min(dates) <= a
      /\ Max(dates) \in dates /\ b <= Max(dates)
  <2>1. dates # {}
    BY <1>3
  <2> QED BY <1>1, <1>3, <2>1, LeastOf, GreatestOf
<1>5. Min(dates) \in Int /\ Max(dates) \in Int /\ a \in Int /\ b \in Int /\ dates # {}
  BY <1>1, <1>3, <1>4
<1>6. dates # {} /\ Min(dates) <= date /\ date <= Max(dates)
  BY <1>3, <1>4, <1>5
<1> QED BY <1>6 DEF dates

LEMMA RunsInWindow ==
  ASSUME NEW t, TemplateOK(t), ~Malformed(t)
  PROVE  /\ t.headway \in Nat \ {0} /\ t.start \in Int /\ t.end \in Int
         /\ LastRun(t) \in Nat /\ FirstDeparture(t) \in Int /\ LastDeparture(t) \in Int
         /\ \A k \in Nat :
              /\ k <= LastRun(t) <=> t.start + k * t.headway < t.end
              /\ k <= LastRun(t) =>
                   /\ k <= t.end - t.start
                   /\ FirstDeparture(t) <= FirstDeparture(t) + k * t.headway
                   /\ FirstDeparture(t) + k * t.headway <= LastDeparture(t)
<1> DEFINE h == t.headway
           n == t.end - t.start - 1
<1>1. /\ h \in Nat \ {0} /\ t.start \in Int /\ t.end \in Int /\ t.offset \in Int
      /\ n \in Nat
  BY DEF TemplateOK, Malformed
<1>2. LastRun(t) = n \div h /\ LastRun(t) \in Nat
  BY <1>1, Division DEF LastRun
<1>3. FirstDeparture(t) \in Int
  BY <1>1 DEF FirstDeparture
<1>4. LastRun(t) * h \in Int
  BY <1>1, <1>2, Products
<1>5. LastDeparture(t) = FirstDeparture(t) + LastRun(t) * h /\ LastDeparture(t) \in Int
  BY <1>3, <1>4 DEF LastDeparture
<1>6. ASSUME NEW k \in Nat
      PROVE  /\ k <= LastRun(t) <=> t.start + k * h < t.end
             /\ k <= LastRun(t) =>
                  /\ k <= t.end - t.start
                  /\ FirstDeparture(t) <= FirstDeparture(t) + k * h
                  /\ FirstDeparture(t) + k * h <= LastDeparture(t)
  <2> DEFINE x == k * h
             y == LastRun(t) * h
  <2>1. x \in Int /\ y \in Int /\ (k <= LastRun(t) <=> x <= y) /\ (k <= LastRun(t) <=> x <= n)
    BY <1>1, <1>2, <1>4, Products, RoundedDown
  <2>2. k <= x /\ 0 <= x
    <3>1. CASE k = 0
      BY <1>1, <3>1
    <3>2. CASE k # 0
      <4>1. 1 * k <= h * k
        BY <1>1, <3>2, Products
      <4>2. 1 * k = k /\ h * k = k * h
        BY <1>1
      <4>3. k <= k * h
        BY <4>1, <4>2
      <4> QED BY <2>1, <4>3
    <3> QED BY <3>1, <3>2
  <2> HIDE DEF x, y, h
  <2>3. /\ k <= LastRun(t) <=> t.start + x < t.end
        /\ k <= LastRun(t) =>
             /\ k <= t.end - t.start
             /\ FirstDeparture(t) <= FirstDeparture(t) + x
             /\ FirstDeparture(t) + x <= FirstDeparture(t) + y
    BY <1>1, <1>3, <2>1, <2>2
  <2> QED BY <1>5, <2>3 DEF x, y, h
<1> QED BY <1>1, <1>2, <1>3, <1>5, <1>6

(* The dates that are searched are those whose service days reach the
   horizon: an origin lies at most a day before its date begins, and two days
   are longer than that one. *)
LEMMA SearchedDatesAre ==
  ASSUME NEW t, TemplateOK(t), ~Malformed(t), NEW when \in Int, NEW until \in Int,
         Covered(t.zone, Seconds(when) - LastDeparture(t)),
         Covered(t.zone, Seconds(until) - FirstDeparture(t))
  PROVE  /\ IsFiniteSet(SearchedDates(t, when, until))
         /\ \A date \in SearchedDates(t, when, until) : date \in Days /\ date + 1 \in Days
         /\ \A date \in Days, at \in Int :
              /\ date + 1 \in Days /\ Active(t.service, date)
              /\ Origin(t.zone, date) + FirstDeparture(t) <= at
              /\ at <= Origin(t.zone, date) + LastDeparture(t)
              /\ when <= Ticks(at) /\ Ticks(at) < until
              => date \in SearchedDates(t, when, until)
<1> DEFINE zone == t.zone
           dates == ServiceDates(t.service)
           begin == Seconds(when) - LastDeparture(t)
           end == Seconds(until) - FirstDeparture(t)
           first == LocalDate(zone, begin)
           last == LocalDate(zone, end)
           lo == Max({Earliest(t, begin), Min(dates)})
           hi == Min({Latest(t, end), Max(dates)})
<1>1. /\ zone \in DOMAIN Zones /\ begin \in Int /\ end \in Int
      /\ FirstDeparture(t) \in Int /\ LastDeparture(t) \in Int
      /\ Seconds(when) \in Int /\ Seconds(until) \in Int
  <2>1. FirstDeparture(t) \in Int /\ LastDeparture(t) \in Int
    BY RunsInWindow
  <2>2. Seconds(when) \in Int /\ Seconds(until) \in Int
    BY Halves
  <2>3. zone \in DOMAIN Zones
    BY DEF TemplateOK
  <2> QED BY <2>1, <2>2, <2>3
<1>2. /\ {first - 1, first, first + 1} \subseteq Days
      /\ Zones[zone][first] <= begin
      /\ {last, last + 1, last + 2} \subseteq Days
      /\ end < Zones[zone][last + 1]
  BY <1>1, LocalDateIs
<1>3. first \in Int /\ last \in Int /\ Earliest(t, begin) = first - 1 /\ Latest(t, end) = last + 1
  BY <1>1, <1>2, DayTypes DEF Earliest, Latest
<1>4. SearchedDates(t, when, until) = IF dates = {} THEN {} ELSE lo..hi
  BY DEF SearchedDates
<1> HIDE DEF begin, end, zone
<1>5. ASSUME dates # {}
      PROVE  /\ Min(dates) \in Int /\ Max(dates) \in Int /\ lo \in Int /\ hi \in Int
             /\ \A date \in Int : date \in lo..hi <=>
                  /\ first - 1 <= date /\ date <= last + 1
                  /\ Min(dates) <= date /\ date <= Max(dates)
  <2>1. dates \subseteq Int /\ IsFiniteSet(dates)
    BY ServiceDatesFinite
  <2> HIDE DEF dates
  <2>2. Min(dates) \in Int /\ Max(dates) \in Int
    BY <1>5, <2>1, LeastOf, GreatestOf
  <2> DEFINE l == Earliest(t, begin)
             m == Min(dates)
             p == Latest(t, end)
             q == Max(dates)
  <2>3. l \in Int /\ m \in Int /\ p \in Int /\ q \in Int /\ l = first - 1 /\ p = last + 1
    BY <1>3, <2>2
  <2> HIDE DEF l, m, p, q, first, last
  <2>4. Max({l, m}) = (IF l <= m THEN m ELSE l) /\ Min({p, q}) = (IF p <= q THEN p ELSE q)
    BY <2>3, PairExtremes
  <2>5. lo = (IF l <= m THEN m ELSE l) /\ hi = (IF p <= q THEN p ELSE q)
    BY <2>4 DEF l, m, p, q
  <2> HIDE DEF lo, hi
  <2>6. /\ lo \in Int /\ hi \in Int
        /\ \A date \in Int : date \in lo..hi <=>
             /\ first - 1 <= date /\ date <= last + 1
             /\ m <= date /\ date <= q
    BY <2>3, <2>5
  <2> QED BY <2>2, <2>6 DEF m, q
<1>6. IsFiniteSet(SearchedDates(t, when, until))
  <2>1. CASE dates = {}
    BY <1>4, <2>1, FS_EmptySet
  <2>2. CASE dates # {}
    BY <1>4, <1>5, <2>2, FS_Interval
  <2> QED BY <2>1, <2>2
<1>7. ASSUME NEW date \in SearchedDates(t, when, until)
      PROVE  date \in Days /\ date + 1 \in Days
  <2>1. dates # {} /\ date \in lo..hi /\ date \in Int
    BY <1>4, <1>5
  <2>2. first - 1 <= date /\ date <= last + 1
    BY <1>5, <2>1
  <2> DEFINE a == first - 1
             b == last + 2
  <2>3. a \in Days /\ b \in Days
    BY <1>2
  <2>4. a \in Int /\ b \in Int /\ a <= date /\ date + 1 <= b
    BY <1>3, <2>1, <2>2
  <2> HIDE DEF a, b
  <2>5. date \in a..b /\ date + 1 \in a..b
    BY <2>1, <2>4
  <2> QED BY <1>1, <2>3, <2>5, DayTypes
<1>8. ASSUME NEW date \in Days, NEW at \in Int, date + 1 \in Days, Active(t.service, date),
             Origin(t.zone, date) + FirstDeparture(t) <= at,
             at <= Origin(t.zone, date) + LastDeparture(t),
             when <= Ticks(at), Ticks(at) < until
      PROVE  date \in SearchedDates(t, when, until)
  <2> DEFINE origin == Zones[zone][date + 1] - DayLength
  <2>1. date \in Int /\ Zones[zone][date + 1] \in Int /\ DayLength \in Nat
    BY <1>1, <1>8, DayTypes
  <2>2. dates # {} /\ Min(dates) <= date /\ date <= Max(dates)
    BY <2>1, <1>8, ActiveDates
  <2>3. origin + FirstDeparture(t) <= at /\ at <= origin + LastDeparture(t) /\ origin \in Int
    BY <1>8, <2>1 DEF Origin, zone
  <2>4. Seconds(when) <= at /\ at <= Seconds(until)
    <3>1. SecondsUp(when) <= at /\ Seconds(when) <= SecondsUp(when) /\ SecondsUp(when) \in Int
      BY <1>8, Halves
    <3>2. Ticks(at) <= until
      BY <1>8 DEF Ticks
    <3> QED BY <1>1, <3>1, <3>2, Halves
  <2>5. begin <= origin /\ origin <= end
    BY <1>1, <2>3, <2>4 DEF begin, end
  <2>6. first - 1 <= date
    <3> SUFFICES ASSUME ~(first - 1 <= date) PROVE FALSE
      OBVIOUS
    <3>1. Zones[zone][date + 1] < Zones[zone][first]
      <4>1. date + 1 < first
        BY <1>3, <2>1
      <4> QED BY <1>1, <1>2, <1>8, <4>1, DaysFollow
    <3>2. Zones[zone][first] \in Int
      BY <1>1, <1>2, DayTypes
    <3> HIDE DEF first
    <3> QED BY <1>1, <1>2, <2>1, <2>3, <2>5, <3>1, <3>2
  <2>7. date <= last + 1
    <3> SUFFICES ASSUME ~(date <= last + 1) PROVE FALSE
      OBVIOUS
    <3>1. date - 1 \in Days
      <4> DEFINE a == last + 1
      <4>1. a \in Days /\ a \in Int /\ a < date
        BY <1>2, <1>3, <2>1
      <4> HIDE DEF a
      <4>2. date - 1 \in a..date
        BY <2>1, <4>1
      <4> QED BY <1>1, <4>1, <4>2, DayTypes
    <3>2. Zones[zone][last + 1] <= Zones[zone][date - 1]
      <4>1. last + 1 = date - 1 \/ last + 1 < date - 1
        BY <1>3, <2>1
      <4> QED BY <1>1, <1>2, <3>1, <4>1, DaysFollow, DayTypes
    <3>3. Zones[zone][date - 1] + DayLength <= Zones[zone][date + 1]
      <4>1. (date - 1) + 2 = date + 1
        BY <2>1
      <4> QED BY <1>1, <1>8, <3>1, <4>1, DayTypes
    <3>4. Zones[zone][last + 1] \in Int /\ Zones[zone][date - 1] \in Int
      BY <1>1, <1>2, <3>1, DayTypes
    <3> HIDE DEF last
    <3> QED BY <1>1, <1>2, <2>1, <2>3, <2>5, <3>2, <3>3, <3>4
  <2>8. date \in lo..hi
    BY <1>3, <1>5, <2>1, <2>2, <2>6, <2>7
  <2> QED BY <1>4, <2>2, <2>8
<1> QED BY <1>6, <1>7, <1>8

(* The departures of ds in a window of time, and those of one template that
   the timetable has in it *)
Window(ds, when, until) == {d \in ds : Ticks(d.at) >= when /\ Ticks(d.at) < until}

Due(t, i, when, until) == Window(TimetableRuns(t, i, when), when, until)

LEMMA DepartureIs ==
  ASSUME NEW t, TemplateOK(t), ~Malformed(t), NEW i \in Nat, NEW when \in Int,
         NEW date \in Days, date + 1 \in Days, NEW run \in Nat
  PROVE  LET d == Departure(t, i, date, run, when)
         IN  /\ d \in Departures
             /\ d.at = Origin(t.zone, date) + FirstDeparture(t) + run * t.headway
             /\ d.wait = Wait(d.at, when)
             /\ run * t.headway \in Nat /\ Origin(t.zone, date) \in Int
             /\ d.start = t.start + run * t.headway
             /\ Key(d) = <<d.at, t.trip, date, t.start + run * t.headway>>
             /\ \A other : Waiting(d, other) = Departure(t, i, date, run, other)
<1> DEFINE x == run * t.headway
           origin == Origin(t.zone, date)
           at == origin + (t.start + x) + t.offset
           d == Departure(t, i, date, run, when)
<1>1. x \in Nat
  BY RunsInWindow
<1>2. origin \in Int /\ date \in Int
  BY DayTypes DEF Origin, TemplateOK
<1>3. t.start \in Int /\ t.offset \in Int /\ t.trip \in Int
  BY DEF TemplateOK
<1>4. d = [at |-> at, trip |-> t.trip, date |-> date, start |-> t.start + x,
           template |-> i, wait |-> Wait(at, when)]
  BY DEF Departure
<1>5. \A other : Departure(t, i, date, run, other) =
        [at |-> at, trip |-> t.trip, date |-> date, start |-> t.start + x,
         template |-> i, wait |-> Wait(at, other)]
  BY DEF Departure
<1> HIDE DEF x, origin, d
<1>6. at \in Int /\ at = origin + FirstDeparture(t) + x
  BY <1>1, <1>2, <1>3 DEF FirstDeparture
<1> HIDE DEF at
<1>7. Wait(at, when) \in Int
  BY <1>6, WaitType
<1>8. d \in Departures
  BY <1>1, <1>2, <1>3, <1>4, <1>6, <1>7 DEF Departures
<1>9. \A other : Waiting(d, other) = Departure(t, i, date, run, other)
  BY <1>4, <1>5 DEF Waiting
<1> QED BY <1>1, <1>2, <1>4, <1>6, <1>8, <1>9 DEF d, x, origin, Key

LEMMA FirstRunIs ==
  ASSUME NEW t, TemplateOK(t), ~Malformed(t), NEW when \in Int,
         NEW date \in Days, date + 1 \in Days
  PROVE  /\ FirstRun(t, date, when) \in Nat
         /\ \A run \in Nat :
              FirstRun(t, date, when) <= run <=>
                when <= Ticks(Origin(t.zone, date) + FirstDeparture(t) + run * t.headway)
<1> DEFINE h == t.headway
           first == Origin(t.zone, date) + FirstDeparture(t)
           x == SecondsUp(when) - Origin(t.zone, date) - FirstDeparture(t)
           n == Max({0, x})
<1>1. h \in Nat \ {0} /\ FirstDeparture(t) \in Int /\ Origin(t.zone, date) \in Int /\ SecondsUp(when) \in Int
  <2>1. h \in Nat \ {0} /\ FirstDeparture(t) \in Int
    BY RunsInWindow
  <2>2. Origin(t.zone, date) \in Int
    BY DayTypes DEF Origin, TemplateOK
  <2> QED BY <2>1, <2>2, Halves
<1>2. x \in Int /\ first \in Int /\ x = SecondsUp(when) - first
  BY <1>1
<1>3. FirstRun(t, date, when) = CeilDiv(n, h)
  BY DEF FirstRun
<1> HIDE DEF x, h, first
<1>4. n \in Nat /\ n = IF 0 <= x THEN x ELSE 0
  <2>1. 0 \in Int /\ x \in Int
    BY <1>2
  <2>2. Max({0, x}) = IF 0 <= x THEN x ELSE 0
    BY <2>1, PairExtremes
  <2> HIDE DEF n
  <2>3. n = IF 0 <= x THEN x ELSE 0
    BY <2>2 DEF n
  <2> QED BY <2>1, <2>3
<1> HIDE DEF n
<1>5. CeilDiv(n, h) \in Nat
  BY <1>1, <1>4, RoundedUp
<1>6. ASSUME NEW run \in Nat
      PROVE  CeilDiv(n, h) <= run <=> when <= Ticks(first + run * h)
  <2> DEFINE y == run * h
  <2>1. y \in Nat
    BY <1>1
  <2>2. CeilDiv(n, h) <= run <=> n <= y
    BY <1>1, <1>4, RoundedUp
  <2> HIDE DEF y
  <2>3. n <= y <=> SecondsUp(when) <= first + y
    BY <1>1, <1>2, <1>4, <2>1
  <2>4. SecondsUp(when) <= first + y <=> when <= Ticks(first + y)
    BY <1>2, <2>1, Halves
  <2> QED BY <2>2, <2>3, <2>4 DEF y
<1> QED BY <1>3, <1>5, <1>6 DEF h, first

LEMMA RunsAre ==
  ASSUME NEW t, NEW i, NEW when, NEW until, NEW limit, NEW d
  PROVE  d \in Runs(t, i, when, until, limit) <=>
           \E date \in SearchedDates(t, when, until) :
             /\ Active(t.service, date)
             /\ \E run \in FirstRun(t, date, when)
                             ..Min({LastRun(t), FirstRun(t, date, when) + limit - 1}) :
                  d = Departure(t, i, date, run, when) /\ Ticks(d.at) < until
<1> DEFINE Of(date) == {Departure(t, i, date, run, when) :
                          run \in FirstRun(t, date, when)
                                    ..Min({LastRun(t), FirstRun(t, date, when) + limit - 1})}
           dates == {date \in SearchedDates(t, when, until) : Active(t.service, date)}
           all == UNION {Of(date) : date \in dates}
<1>1. Runs(t, i, when, until, limit) = {e \in all : Ticks(e.at) < until}
  BY DEF Runs
<1>2. d \in all <=> \E date \in dates : d \in Of(date)
  OBVIOUS
<1>3. \A date : d \in Of(date) <=>
        \E run \in FirstRun(t, date, when)..Min({LastRun(t), FirstRun(t, date, when) + limit - 1}) :
          d = Departure(t, i, date, run, when)
  OBVIOUS
<1> HIDE DEF Of, all
<1> QED BY <1>1, <1>2, <1>3

(* What the timetable has is in the window of one run of one searched date. *)
LEMMA DueIs ==
  ASSUME NEW t, TemplateOK(t), ~Malformed(t), NEW i \in Nat, NEW when \in Int, NEW until \in Int,
         Covered(t.zone, Seconds(when) - LastDeparture(t)),
         Covered(t.zone, Seconds(until) - FirstDeparture(t))
  PROVE  /\ \A d \in Due(t, i, when, until) :
              \E date \in SearchedDates(t, when, until) :
                /\ Active(t.service, date)
                /\ \E run \in FirstRun(t, date, when)..LastRun(t) :
                     d = Departure(t, i, date, run, when) /\ Ticks(d.at) < until
         /\ \A date \in SearchedDates(t, when, until), run \in Nat :
              LET d == Departure(t, i, date, run, when)
              IN  /\ Active(t.service, date)
                  /\ FirstRun(t, date, when) <= run /\ run <= LastRun(t)
                  /\ Ticks(d.at) < until
                  => d \in Due(t, i, when, until)
<1>1. LastRun(t) \in Nat /\ FirstDeparture(t) \in Int /\ t.start \in Int /\ t.end \in Int
  BY RunsInWindow
<1>2. ASSUME NEW d \in Due(t, i, when, until)
      PROVE  \E date \in SearchedDates(t, when, until) :
               /\ Active(t.service, date)
               /\ \E run \in FirstRun(t, date, when)..LastRun(t) :
                    d = Departure(t, i, date, run, when) /\ Ticks(d.at) < until
  <2>1. PICK date \in Days, run \in 0..(t.end - t.start) :
          /\ date + 1 \in Days /\ Active(t.service, date)
          /\ t.start + run * t.headway < t.end
          /\ d = Departure(t, i, date, run, when)
    BY DEF Due, Window, TimetableRuns
  <2>2. run \in Nat /\ run <= LastRun(t)
    BY <1>1, <2>1, RunsInWindow
  <2>3. /\ d \in Departures /\ Origin(t.zone, date) \in Int /\ run * t.headway \in Nat
        /\ d.at = Origin(t.zone, date) + FirstDeparture(t) + run * t.headway
    <3> DEFINE e == Departure(t, i, date, run, when)
    <3>1. run \in Nat /\ date + 1 \in Days
      BY <2>1, <2>2
    <3>2. /\ e \in Departures /\ Origin(t.zone, date) \in Int /\ run * t.headway \in Nat
          /\ e.at = Origin(t.zone, date) + FirstDeparture(t) + run * t.headway
      BY <3>1, DepartureIs
    <3> HIDE DEF e
    <3>3. d = e
      BY <2>1 DEF e
    <3> QED BY <3>2, <3>3
  <2>4. when <= Ticks(d.at) /\ Ticks(d.at) < until
    <3>1. Ticks(d.at) >= when /\ Ticks(d.at) < until
      BY DEF Due, Window
    <3>2. Ticks(d.at) \in Int
      BY <2>3 DEF Ticks, Departures
    <3> QED BY <3>1, <3>2
  <2>5. /\ FirstDeparture(t) <= FirstDeparture(t) + run * t.headway
        /\ FirstDeparture(t) + run * t.headway <= LastDeparture(t) /\ LastDeparture(t) \in Int
    BY <2>2, RunsInWindow
  <2> DEFINE x == run * t.headway
             origin == Origin(t.zone, date)
  <2>6. /\ x \in Nat /\ origin \in Int /\ d.at = origin + FirstDeparture(t) + x
        /\ FirstDeparture(t) + x <= LastDeparture(t) /\ LastDeparture(t) \in Int
    BY <2>3, <2>5
  <2> HIDE DEF x, origin
  <2>7. d.at \in Int /\ origin + FirstDeparture(t) <= d.at /\ d.at <= origin + LastDeparture(t)
    BY <1>1, <2>6
  <2>8. date \in SearchedDates(t, when, until)
    BY <2>1, <2>4, <2>7, SearchedDatesAre DEF origin
  <2>9. FirstRun(t, date, when) <= run /\ FirstRun(t, date, when) \in Nat
    BY <2>1, <2>2, <2>3, <2>4, FirstRunIs
  <2>10. run \in FirstRun(t, date, when)..LastRun(t)
    BY <1>1, <2>2, <2>9
  <2> QED BY <2>1, <2>4, <2>8, <2>10
<1>3. ASSUME NEW date \in SearchedDates(t, when, until), NEW run \in Nat,
             Active(t.service, date),
             FirstRun(t, date, when) <= run, run <= LastRun(t),
             Ticks(Departure(t, i, date, run, when).at) < until
      PROVE  Departure(t, i, date, run, when) \in Due(t, i, when, until)
  <2> DEFINE d == Departure(t, i, date, run, when)
  <2>1. date \in Days /\ date + 1 \in Days
    BY SearchedDatesAre
  <2>2. d \in Departures /\ d.at = Origin(t.zone, date) + FirstDeparture(t) + run * t.headway
    BY <2>1, DepartureIs
  <2>3. when <= Ticks(d.at)
    BY <1>3, <2>1, <2>2, FirstRunIs
  <2>4. run \in 0..(t.end - t.start) /\ t.start + run * t.headway < t.end
    BY <1>1, <1>3, RunsInWindow
  <2>5. d \in TimetableRuns(t, i, when)
    BY <1>3, <2>1, <2>4 DEF TimetableRuns
  <2>6. Ticks(d.at) \in Int
    BY <2>2 DEF Ticks, Departures
  <2> HIDE DEF d
  <2>7. Ticks(d.at) >= when
    BY <2>3, <2>6
  <2> QED BY <1>3, <2>5, <2>7 DEF Due, Window, d
<1> QED BY <1>2, <1>3

LEMMA DueIsList ==
  ASSUME NEW t, TemplateOK(t), ~Malformed(t), NEW i \in Nat, NEW when \in Int, NEW until \in Int,
         Covered(t.zone, Seconds(when) - LastDeparture(t)),
         Covered(t.zone, Seconds(until) - FirstDeparture(t))
  PROVE  IsList(Due(t, i, when, until), when)
<1> DEFINE dates == SearchedDates(t, when, until)
           runs == 0..LastRun(t)
           f == [p \in dates \X runs |-> Departure(t, i, p[1], p[2], when)]
           image == {f[p] : p \in dates \X runs}
<1>1. LastRun(t) \in Nat
  BY RunsInWindow
<1>2. IsFiniteSet(dates \X runs)
  <2>1. IsFiniteSet(dates)
    BY SearchedDatesAre
  <2>2. IsFiniteSet(runs)
    BY <1>1, FS_Interval
  <2> HIDE DEF dates, runs
  <2> QED BY <2>1, <2>2, FS_Product
<1>3. f \in Surjection(dates \X runs, image)
  BY DEF Surjection
<1>4. ASSUME NEW d \in Due(t, i, when, until)
      PROVE  d \in image /\ d \in Departures /\ d.wait = Wait(d.at, when)
  <2>1. PICK date \in dates : \E run \in FirstRun(t, date, when)..LastRun(t) :
          d = Departure(t, i, date, run, when)
    BY DueIs
  <2>2. PICK run \in FirstRun(t, date, when)..LastRun(t) : d = Departure(t, i, date, run, when)
    BY <2>1
  <2>3. date \in Days /\ date + 1 \in Days
    BY SearchedDatesAre
  <2>4. FirstRun(t, date, when) \in Nat
    BY <2>3, FirstRunIs
  <2>5. run \in Nat /\ run \in runs
    BY <1>1, <2>4
  <2>6. <<date, run>> \in dates \X runs /\ f[<<date, run>>] = d
    BY <2>2, <2>5
  <2>7. d \in Departures /\ d.wait = Wait(d.at, when)
    BY <2>2, <2>3, <2>5, DepartureIs
  <2> HIDE DEF f
  <2> QED BY <2>6, <2>7
<1> HIDE DEF f, image
<1>5. IsFiniteSet(image)
  BY <1>2, <1>3, FS_Surjection
<1>6. IsFiniteSet(Due(t, i, when, until))
  BY <1>4, <1>5, FS_Subset
<1> QED BY <1>4, <1>6 DEF IsList

(* The calculation of one template finds departures of the timetable, and
   those that its limit leaves out come after as many as the limit. *)
LEMMA RunsOfTemplate ==
  ASSUME NEW t, TemplateOK(t), ~Malformed(t), NEW i \in Nat, NEW when \in Int, NEW until \in Int,
         Covered(t.zone, Seconds(when) - LastDeparture(t)),
         Covered(t.zone, Seconds(until) - FirstDeparture(t)),
         NEW limit \in Nat
  PROVE  LET runs == Runs(t, i, when, until, limit)
         IN  /\ runs \subseteq Due(t, i, when, until)
             /\ \A d \in Due(t, i, when, until) \ runs :
                  Cardinality(KeysBefore(runs, Key(d))) >= limit
<1> DEFINE runs == Runs(t, i, when, until, limit)
           h == t.headway
           first(date) == FirstRun(t, date, when)
           final(date) == first(date) + limit - 1
<1>1. LastRun(t) \in Nat /\ h \in Nat \ {0} /\ FirstDeparture(t) \in Int
  BY RunsInWindow
<1>2. \A date \in SearchedDates(t, when, until) :
        /\ date \in Days /\ date + 1 \in Days /\ date \in Int
        /\ first(date) \in Nat /\ final(date) \in Int
        /\ \A run : run \in first(date)..Min({LastRun(t), final(date)}) <=>
             run \in Nat /\ first(date) <= run /\ run <= LastRun(t) /\ run <= final(date)
  <2> TAKE date \in SearchedDates(t, when, until)
  <2>1. date \in Days /\ date + 1 \in Days /\ date \in Int
    <3>1. date \in Days /\ date + 1 \in Days
      BY SearchedDatesAre
    <3>2. Days \subseteq Int
      BY ScheduleAssumption
    <3> QED BY <3>1, <3>2
  <2>2. first(date) \in Nat
    BY <2>1, FirstRunIs
  <2>3. final(date) \in Int
    BY <2>2
  <2> DEFINE a == first(date)
             b == LastRun(t)
             c == final(date)
  <2>4. a \in Nat /\ b \in Int /\ c \in Int
    BY <1>1, <2>2, <2>3
  <2> HIDE DEF a, b, c
  <2>5. Min({b, c}) = IF b <= c THEN b ELSE c
    BY <2>4, PairExtremes
  <2>6. \A run : run \in a..Min({b, c}) <=> run \in Nat /\ a <= run /\ run <= b /\ run <= c
    BY <2>4, <2>5
  <2> QED BY <2>1, <2>2, <2>3, <2>6 DEF a, b, c
<1>3. runs \subseteq Due(t, i, when, until)
  <2> SUFFICES ASSUME NEW d \in runs PROVE d \in Due(t, i, when, until)
    OBVIOUS
  <2>1. PICK date \in SearchedDates(t, when, until) :
          /\ Active(t.service, date)
          /\ \E run \in first(date)..Min({LastRun(t), final(date)}) :
               d = Departure(t, i, date, run, when) /\ Ticks(d.at) < until
    BY RunsAre
  <2>2. PICK run \in first(date)..Min({LastRun(t), final(date)}) :
          d = Departure(t, i, date, run, when) /\ Ticks(d.at) < until
    BY <2>1
  <2>3. run \in Nat /\ first(date) <= run /\ run <= LastRun(t)
    BY <1>2
  <2> QED BY <2>1, <2>2, <2>3, DueIs
<1>4. ASSUME NEW d \in Due(t, i, when, until), d \notin runs
      PROVE  Cardinality(KeysBefore(runs, Key(d))) >= limit
  <2>1. PICK date \in SearchedDates(t, when, until) :
          /\ Active(t.service, date)
          /\ \E run \in first(date)..LastRun(t) :
               d = Departure(t, i, date, run, when) /\ Ticks(d.at) < until
    BY DueIs
  <2>2. PICK run \in first(date)..LastRun(t) :
          d = Departure(t, i, date, run, when) /\ Ticks(d.at) < until
    BY <2>1
  <2>3. /\ date \in Days /\ date + 1 \in Days /\ date \in Int
        /\ first(date) \in Nat /\ final(date) \in Int
    BY <1>2
  <2>4. run \in Nat /\ first(date) <= run /\ run <= LastRun(t)
    BY <1>1, <2>3
  <2>5. ~(run <= final(date))
    <3> SUFFICES ASSUME run <= final(date) PROVE FALSE
      OBVIOUS
    <3>1. run \in first(date)..Min({LastRun(t), final(date)})
      BY <1>2, <2>4
    <3> QED BY <1>4, <2>1, <2>2, <3>1, RunsAre
  <2> DEFINE earlier == first(date)..final(date)
             at(k) == Departure(t, i, date, k, when).at
             f == [k \in earlier |-> Key(Departure(t, i, date, k, when))]
  <2>6. ASSUME NEW k \in earlier
        PROVE  /\ k \in Nat /\ k < run
               /\ Departure(t, i, date, k, when) \in runs
               /\ KeyLess(f[k], Key(d))
    <3>1. k \in Nat /\ k < run /\ first(date) <= k /\ k <= final(date) /\ k <= LastRun(t)
      BY <1>1, <2>3, <2>4, <2>5
    <3>2. at(k) < at(run) /\ at(k) \in Int /\ at(run) \in Int
      <4> DEFINE x == k * h
                 y == run * h
                 origin == Origin(t.zone, date) + FirstDeparture(t)
      <4>1. at(k) = origin + x /\ Origin(t.zone, date) \in Int
        BY <2>3, <3>1, DepartureIs
      <4>2. at(run) = origin + y
        BY <2>3, <2>4, DepartureIs
      <4>3. origin \in Int /\ x \in Int /\ y \in Int
        BY <1>1, <2>4, <3>1, <4>1, Products
      <4>4. ~(y <= x)
        <5>1. ~(run <= k)
          BY <2>4, <3>1
        <5> QED BY <1>1, <2>4, <3>1, <5>1, Products
      <4> HIDE DEF x, y, origin, at
      <4> QED BY <4>1, <4>2, <4>3, <4>4
    <3>3. Ticks(at(k)) < until
      <4>1. Ticks(at(run)) < until
        BY <2>2
      <4> HIDE DEF at
      <4> QED BY <3>2, <4>1 DEF Ticks
    <3>4. k \in first(date)..Min({LastRun(t), final(date)})
      BY <1>2, <3>1
    <3>5. Departure(t, i, date, k, when) \in runs
      BY <2>1, <3>3, <3>4, RunsAre
    <3>6. KeyLess(Key(Departure(t, i, date, k, when)), Key(d))
      <4>1. /\ Key(Departure(t, i, date, k, when))[1] = at(k)
            /\ Key(Departure(t, i, date, run, when))[1] = at(run)
        BY DEF Key
      <4> HIDE DEF at
      <4> QED BY <2>2, <3>2, <4>1 DEF KeyLess
    <3> QED BY <3>1, <3>5, <3>6
  <2>7. f \in [earlier -> KeysBefore(runs, Key(d))]
    BY <2>6 DEF KeysBefore
  <2>8. ASSUME NEW k \in earlier, NEW l \in earlier, f[k] = f[l]
        PROVE  k = l
    <3>1. k \in Nat /\ l \in Nat
      BY <2>6
    <3>2. t.start + k * h = t.start + l * h
      <4>1. /\ Key(Departure(t, i, date, k, when)) = <<at(k), t.trip, date, t.start + k * h>>
            /\ Key(Departure(t, i, date, l, when)) = <<at(l), t.trip, date, t.start + l * h>>
        BY <2>3, <3>1, DepartureIs
      <4> HIDE DEF at
      <4> QED BY <2>8, <4>1
    <3> DEFINE x == k * h
               y == l * h
    <3>3. x \in Int /\ y \in Int /\ t.start \in Int
      BY <1>1, <3>1, Products DEF TemplateOK
    <3>4. x <= y /\ y <= x
      <4> HIDE DEF x, y
      <4>1. t.start + x = t.start + y
        BY <3>2 DEF x, y
      <4> QED BY <3>3, <4>1
    <3>5. k <= l /\ l <= k
      BY <1>1, <3>1, <3>4, Products
    <3> QED BY <3>1, <3>5
  <2>9. f \in Injection(earlier, KeysBefore(runs, Key(d)))
    BY <2>7, <2>8 DEF Injection, IsInjective
  <2>10. Cardinality(earlier) = limit
    BY <2>3, FS_Interval
  <2>11. IsFiniteSet(runs)
    BY <1>3, DueIsList, FS_Subset DEF IsList
  <2> HIDE DEF f, earlier, runs
  <2>12. /\ Cardinality(earlier) <= Cardinality(KeysBefore(runs, Key(d)))
         /\ Cardinality(KeysBefore(runs, Key(d))) \in Nat
    BY <2>9, <2>11, KeysBeforeFinite, FS_Injection
  <2> QED BY <2>10, <2>12 DEF runs
<1> QED BY <1>3, <1>4

-----------------------------------------------------------------------------
(* The calculation *)

(* What the first n templates have in a window *)
DueUpTo(templates, n, when, until) ==
  UNION {Due(templates[i], i, when, until) : i \in 1..n}

(* A feed that can be calculated with *)
Sound(templates) == templates \in Feeds /\ \A i \in DOMAIN templates : ~Malformed(templates[i])

LEMMA RequestedType ==
  /\ MaxLimit \in Nat /\ Ttl \in Nat /\ SearchTime \in Nat /\ Requested \subseteq Int
  /\ \A limit \in Limits : limit \in Nat /\ limit <= MaxLimit
  /\ \A when \in Int : Until(when) \in Int /\ CacheUntil(when) \in Int
<1>1. MaxLimit \in Nat /\ Ttl \in Nat /\ SearchTime \in Nat /\ Limits \subseteq 1..MaxLimit
  BY ScheduleAssumption
<1>2. \A time \in 0..LastTick, shift \in Shifts : time + shift \in Int
  BY ScheduleAssumption
<1>3. \A when \in Int : Until(when) \in Int /\ CacheUntil(when) \in Int
  BY <1>1 DEF Until, CacheUntil, Ticks
<1> QED BY <1>1, <1>2, <1>3 DEF Requested

LEMMA FeedType ==
  ASSUME NEW templates, Sound(templates)
  PROVE  /\ Len(templates) \in Nat /\ DOMAIN templates = 1..Len(templates)
         /\ \A i \in 1..Len(templates) :
              TemplateOK(templates[i]) /\ ~Malformed(templates[i]) /\ Searchable(templates[i])
<1>1. templates \in Seq({templates[i] : i \in DOMAIN templates})
  BY ScheduleAssumption DEF Sound
<1>2. Len(templates) \in Nat /\ DOMAIN templates = 1..Len(templates)
  BY <1>1
<1> QED BY <1>2, ScheduleAssumption DEF Sound

(* What is due is a list, and the runs that are calculated for a template
   suffice in its place. *)
LEMMA DueUpToStep ==
  ASSUME NEW templates, Sound(templates), NEW when \in Requested, NEW n \in 1..Len(templates),
         IsList(DueUpTo(templates, n - 1, when, CacheUntil(when)), when), NEW limit \in Nat
  PROVE  LET until == CacheUntil(when)
             sooner == DueUpTo(templates, n - 1, when, until)
             runs == Runs(templates[n], n, when, until, limit)
         IN  /\ IsList(DueUpTo(templates, n, when, until), when)
             /\ Merged(DueUpTo(templates, n, when, until), limit)
                  = Merged(Merged(sooner, limit) \cup runs, limit)
<1> DEFINE until == CacheUntil(when)
           t == templates[n]
           sooner == DueUpTo(templates, n - 1, when, until)
           due == Due(t, n, when, until)
           runs == Runs(t, n, when, until, limit)
<1>1. /\ TemplateOK(t) /\ ~Malformed(t) /\ n \in Nat /\ when \in Int /\ until \in Int
      /\ Covered(t.zone, Seconds(when) - LastDeparture(t))
      /\ Covered(t.zone, Seconds(until) - FirstDeparture(t))
  BY FeedType, RequestedType DEF Searchable
<1>2. DueUpTo(templates, n, when, until) = sooner \cup due
  <2>1. \A i : i \in 1..n <=> i \in 1..(n - 1) \/ i = n
    BY FeedType
  <2> QED BY <2>1 DEF DueUpTo
<1> HIDE DEF t, until
<1>3. IsList(due, when)
  BY <1>1, DueIsList
<1>4. runs \subseteq due /\ \A d \in due \ runs : Cardinality(KeysBefore(runs, Key(d))) >= limit
  BY <1>1, RunsOfTemplate
<1>5. IsList(sooner, when)
  BY DEF until
<1> DEFINE all == sooner \cup due
           some == sooner \cup runs
<1> HIDE DEF sooner, due, runs
<1>6. IsList(runs, when) /\ IsList(all, when) /\ some \subseteq all
  BY <1>3, <1>4, <1>5, SublistIsList, UnionIsList
<1>7. ASSUME NEW d \in all \ some
      PROVE  Cardinality(KeysBefore(some, Key(d))) >= limit
  <2>1. d \in due \ runs
    OBVIOUS
  <2>2. /\ IsFiniteSet(some) /\ IsFiniteSet(runs) /\ some \subseteq Departures /\ runs \in SUBSET some
    BY <1>6, FS_Subset DEF IsList
  <2> HIDE DEF some, all
  <2>3. /\ Cardinality(KeysBefore(runs, Key(d))) <= Cardinality(KeysBefore(some, Key(d)))
        /\ Cardinality(KeysBefore(runs, Key(d))) \in Nat
        /\ Cardinality(KeysBefore(some, Key(d))) \in Nat
    BY <2>2, KeysBeforeFinite, KeysBeforeGrow
  <2> QED BY <1>4, <2>1, <2>3
<1>8. Merged(some, limit) = Merged(all, limit)
  BY <1>6, <1>7, MergedOfSome
<1>9. Merged(Merged(sooner, limit) \cup runs, limit) = Merged(some, limit)
  BY <1>5, <1>6, MergedAgain
<1> QED BY <1>2, <1>6, <1>8, <1>9 DEF all, some, sooner, due, runs, t, until

LEMMA DueIsListUpTo ==
  ASSUME NEW templates, Sound(templates), NEW when \in Requested
  PROVE  \A n \in 0..Len(templates) : IsList(DueUpTo(templates, n, when, CacheUntil(when)), when)
<1> DEFINE Is(n) == IsList(DueUpTo(templates, n, when, CacheUntil(when)), when)
           T == {n \in 0..Len(templates) : ~Is(n)}
<1> SUFFICES ASSUME T # {} PROVE FALSE
  OBVIOUS
<1>1. T \subseteq Nat /\ Len(templates) \in Nat
  BY FeedType
<1>2. PICK m \in T : \A k \in T : m <= k
  <2> HIDE DEF T
  <2> QED BY <1>1, LeastElement
<1>3. Is(0)
  <2>1. DueUpTo(templates, 0, when, CacheUntil(when)) = {}
    BY DEF DueUpTo
  <2> QED BY <2>1, FS_EmptySet DEF IsList
<1>4. m \in 1..Len(templates) /\ m - 1 \in 0..Len(templates) /\ m - 1 \notin T
  BY <1>1, <1>2, <1>3
<1>5. Is(m - 1)
  BY <1>4
<1>6. 0 \in Nat
  OBVIOUS
<1>7. Is(m)
  BY <1>4, <1>5, <1>6, DueUpToStep
<1> QED BY <1>2, <1>7

(* The calculation is the timetable, up to its limit. *)
LEMMA NextDeparturesAre ==
  ASSUME NEW templates, Sound(templates), NEW when \in Requested, NEW limit \in Nat
  PROVE  NextDepartures(templates, when, CacheUntil(when), limit)
           = Merged(DueUpTo(templates, Len(templates), when, CacheUntil(when)), limit)
<1> DEFINE N == Len(templates)
           until == CacheUntil(when)
           runs(i) == Runs(templates[i], i, when, until, limit)
           merged(n) == Merged(DueUpTo(templates, n, when, until), limit)
           Is(g) == g = [n \in 0..N |-> IF n = 0 THEN {} ELSE Merged(g[n - 1] \cup runs(n), limit)]
           closed == [n \in 0..N |-> merged(n)]
<1>1. N \in Nat
  BY FeedType
<1>2. merged(0) = {}
  <2>1. DueUpTo(templates, 0, when, until) = {}
    BY DEF DueUpTo
  <2> QED BY <2>1 DEF Merged, First, Distinct
<1>3. \A n \in 1..N : merged(n) = Merged(merged(n - 1) \cup runs(n), limit)
  <2> TAKE n \in 1..N
  <2>1. IsList(DueUpTo(templates, n - 1, when, CacheUntil(when)), when)
    BY <1>1, DueIsListUpTo
  <2> QED BY <2>1, DueUpToStep
<1> HIDE DEF merged, runs
<1>4. Is(closed)
  <2>1. \A n \in 0..N : closed[n] = IF n = 0 THEN {} ELSE Merged(closed[n - 1] \cup runs(n), limit)
    <3> TAKE n \in 0..N
    <3>1. CASE n = 0
      BY <1>2, <3>1
    <3>2. CASE n # 0
      <4>1. n \in 1..N /\ n - 1 \in 0..N
        BY <1>1, <3>2
      <4> QED BY <1>3, <3>2, <4>1
    <3> QED BY <3>1, <3>2
  <2> QED BY <2>1
<1>5. PICK after : Is(after) /\ NextDepartures(templates, when, until, limit) = after[N]
  <2> DEFINE after == CHOOSE g : Is(g)
  <2>1. Is(after)
    <3> HIDE DEF closed, Is
    <3> QED BY <1>4
  <2>2. NextDepartures(templates, when, until, limit) = after[N]
    BY DEF NextDepartures, runs
  <2> QED BY <2>1, <2>2
<1>6. \A n \in 0..N : after[n] = IF n = 0 THEN {} ELSE Merged(after[n - 1] \cup runs(n), limit)
  BY <1>5
<1> DEFINE T == {n \in 0..N : after[n] # merged(n)}
<1>7. T = {}
  <2> SUFFICES ASSUME T # {} PROVE FALSE
    OBVIOUS
  <2>1. T \subseteq Nat
    BY <1>1
  <2>2. PICK m \in T : \A k \in T : m <= k
    <3> HIDE DEF T
    <3> QED BY <2>1, LeastElement
  <2>3. m # 0
    BY <1>2, <1>6, <2>2
  <2>4. m \in 1..N /\ m - 1 \in 0..N /\ m - 1 \notin T
    BY <1>1, <2>2, <2>3
  <2>5. after[m - 1] = merged(m - 1)
    BY <2>4
  <2> QED BY <1>3, <1>6, <2>2, <2>3, <2>4, <2>5
<1>8. after[N] = merged(N)
  BY <1>1, <1>7
<1> QED BY <1>5, <1>8 DEF merged

-----------------------------------------------------------------------------
(* Selection *)

(* All of a list without duplicates comes before a key if as many keys do. *)
LEMMA AllBefore ==
  ASSUME NEW when, NEW ds, IsList(ds, when), Distinct(ds) = ds, NEW key
  PROVE  (\A d \in ds : KeyLess(Key(d), key)) <=> Cardinality(KeysBefore(ds, key)) = Cardinality(ds)
<1> DEFINE all == {Key(d) : d \in ds}
           f == [d \in ds |-> Key(d)]
<1>1. ds \subseteq Departures /\ IsFiniteSet(ds)
  BY DEF IsList
<1>2. ASSUME NEW d \in ds, NEW e \in ds, Key(d) = Key(e)
      PROVE  d = e
  <2>1. d \in Distinct(ds) /\ e \in Distinct(ds)
    OBVIOUS
  <2>2. e.template >= d.template /\ d.template >= e.template
    BY <1>2, <2>1 DEF Distinct
  <2>3. d.template \in Nat /\ e.template \in Nat
    BY <1>1 DEF Departures
  <2> QED BY <1>2, <2>2, <2>3, SameDeparture
<1>3. f \in Bijection(ds, all)
  BY <1>2 DEF Bijection, Injection, Surjection, IsInjective
<1> HIDE DEF f
<1>4. IsFiniteSet(all) /\ Cardinality(all) = Cardinality(ds)
  <2> HIDE DEF all
  <2> QED BY <1>1, <1>3, FS_Bijection DEF ExistsBijection
<1>5. KeysBefore(ds, key) \in SUBSET all
  BY DEF KeysBefore
<1>6. ASSUME \A d \in ds : KeyLess(Key(d), key)
      PROVE  KeysBefore(ds, key) = all
  BY <1>6 DEF KeysBefore
<1>7. ASSUME KeysBefore(ds, key) = all, NEW d \in ds
      PROVE  KeyLess(Key(d), key)
  <2>1. Key(d) \in KeysBefore(ds, key)
    BY <1>7
  <2> QED BY <2>1 DEF KeysBefore
<1> HIDE DEF all
<1>8. Cardinality(KeysBefore(ds, key)) = Cardinality(all) => KeysBefore(ds, key) = all
  BY <1>4, <1>5, FS_Subset
<1> QED BY <1>4, <1>6, <1>7, <1>8

(* The departures of a calculation in a window are those of the timetable,
   unless the calculation is cut short. *)
LEMMA WindowMerged ==
  ASSUME NEW w, NEW ds, IsList(ds, w), NEW max \in Nat, NEW limit \in Nat,
         NEW when \in Int, NEW until \in Int,
         LET top == Merged(ds, max)
         IN  \/ Cardinality(First(Window(top, when, until), limit)) >= limit
             \/ Cardinality(top) # max
             \/ \E d \in top : ~(Ticks(d.at) < until)
  PROVE  First(Window(Merged(ds, max), when, until), limit) = Merged(Window(ds, when, until), limit)
<1> DEFINE top == Merged(ds, max)
           X == Window(top, when, until)
           Y == Window(ds, when, until)
           found == First(X, limit)
<1>1. /\ top \subseteq ds /\ IsList(top, w) /\ ds \subseteq Departures
      /\ IsFiniteSet(top) /\ Cardinality(top) \in 0..max
  BY MergedIsList, MergedAtMost DEF IsList
<1>2. X \subseteq top /\ Y \subseteq ds /\ X \subseteq Y
  BY <1>1 DEF Window
<1>3. IsList(X, w) /\ IsList(Y, w)
  BY <1>1, <1>2, SublistIsList
<1>4. Distinct(top) = top /\ Distinct(X) = X /\ found = Merged(X, limit)
  BY <1>2, SomeDistinct
<1>5. IsFiniteSet(X) /\ Cardinality(X) \in Nat /\ Cardinality(found) \in Nat /\ Cardinality(found) <= Cardinality(X)
  <2>1. IsFiniteSet(X) /\ found \subseteq X
    BY <1>3, <1>4, MergedIsList DEF IsList
  <2> HIDE DEF found, X
  <2> QED BY <2>1, FS_Subset, FS_CardinalityType
<1>6. ASSUME NEW d \in Y \ X
      PROVE  \/ \E e \in X : Key(e) = Key(d) /\ e.template < d.template
             \/ Cardinality(KeysBefore(X, Key(d))) >= limit
  <2>1. d \in ds \ top /\ Ticks(d.at) >= when /\ Ticks(d.at) < until
    BY <1>2 DEF Window
  <2>2. CASE \E e \in top : Key(e) = Key(d) /\ e.template < d.template
    <3>1. PICK e \in top : Key(e) = Key(d) /\ e.template < d.template
      BY <2>2
    <3>2. e.at = d.at
      BY <3>1 DEF Key
    <3>3. e \in X
      BY <2>1, <3>2 DEF Window
    <3> QED BY <3>1, <3>3
  <2>3. CASE Cardinality(KeysBefore(top, Key(d))) >= max
    <3>1. /\ Cardinality(KeysBefore(top, Key(d))) <= Cardinality(top)
          /\ Cardinality(KeysBefore(top, Key(d))) \in Nat
      BY <1>1, KeysBeforeFinite
    <3>2. Cardinality(KeysBefore(top, Key(d))) = Cardinality(top) /\ Cardinality(top) = max
      BY <1>1, <2>3, <3>1
    <3>3. \A e \in top : KeyLess(Key(e), Key(d))
      BY <1>1, <1>4, <3>2, AllBefore
    <3>4. ASSUME NEW e \in top
          PROVE  Ticks(e.at) < until
      <4>1. e.at \in Int /\ d.at \in Int /\ Key(e)[1] = e.at /\ Key(d)[1] = d.at
        BY <1>1, <2>1 DEF Departures, Key
      <4>2. e.at <= d.at
        BY <3>3, <4>1 DEF KeyLess
      <4> QED BY <2>1, <4>1, <4>2 DEF Ticks
    <3>5. Cardinality(found) >= limit
      <4> HIDE DEF top, X
      <4> QED BY <3>2, <3>4 DEF X, top
    <3>6. \A e \in X : KeyLess(Key(e), Key(d))
      BY <1>2, <3>3
    <3>7. Cardinality(KeysBefore(X, Key(d))) = Cardinality(X)
      BY <1>3, <1>4, <3>6, AllBefore
    <3> HIDE DEF X, found
    <3> QED BY <1>5, <3>5, <3>7
  <2> QED BY <2>1, <2>2, <2>3, MergedLacks
<1> HIDE DEF X, Y, top, found
<1>7. Merged(X, limit) = Merged(Y, limit)
  BY <1>2, <1>3, <1>6, MergedOfSome
<1> QED BY <1>4, <1>7 DEF X, Y, top, found

(* Every run of every template *)
AllRuns(templates, when) == UNION {TimetableRuns(templates[i], i, when) : i \in DOMAIN templates}

(* Another instant finds the same departures due, and other waits. *)
LEMMA RewaitedWindow ==
  ASSUME NEW templates, Sound(templates), NEW w \in Requested,
         NEW when \in Int, NEW until \in Int, w <= when, until <= CacheUntil(w)
  PROVE  Rewaited(Window(DueUpTo(templates, Len(templates), w, CacheUntil(w)), when, until), when)
           = Window(AllRuns(templates, when), when, until)
<1> DEFINE all == DueUpTo(templates, Len(templates), w, CacheUntil(w))
<1>1. w \in Int /\ CacheUntil(w) \in Int
  BY RequestedType
<1>2. /\ DOMAIN templates = 1..Len(templates) /\ Len(templates) \in Nat
      /\ \A i \in DOMAIN templates : TemplateOK(templates[i]) /\ ~Malformed(templates[i]) /\ i \in Nat
  BY FeedType
<1> DEFINE runs(i) == {k \in 0..(templates[i].end - templates[i].start) :
                         templates[i].start + k * templates[i].headway < templates[i].end}
           dates(i) == {d \in Days : d + 1 \in Days /\ Active(templates[i].service, d)}
           departure(i, date, run, from) == Departure(templates[i], i, date, run, from)
<1>3. ASSUME NEW i \in DOMAIN templates, NEW date \in dates(i), NEW run \in runs(i)
      PROVE  /\ Waiting(departure(i, date, run, w), when) = departure(i, date, run, when)
             /\ departure(i, date, run, w).at = departure(i, date, run, when).at
             /\ Ticks(departure(i, date, run, w).at) \in Int
  <2> DEFINE t == templates[i]
  <2>1. /\ date \in Days /\ date + 1 \in Days /\ run \in Nat
        /\ TemplateOK(t) /\ ~Malformed(t) /\ i \in Nat
    BY <1>2
  <2> HIDE DEF t
  <2>2. /\ Departure(t, i, date, run, w) \in Departures
        /\ Waiting(Departure(t, i, date, run, w), when) = Departure(t, i, date, run, when)
    BY <1>1, <2>1, DepartureIs
  <2>3. /\ departure(i, date, run, w) \in Departures
        /\ Waiting(departure(i, date, run, w), when) = departure(i, date, run, when)
    BY <2>2 DEF t
  <2> HIDE DEF departure
  <2>4. Waiting(departure(i, date, run, w), when).at = departure(i, date, run, w).at
    BY <2>3, WaitingIs
  <2> QED BY <2>3, <2>4 DEF Ticks, Departures
<1>4. \A from, d : d \in AllRuns(templates, from) <=>
        \E i \in DOMAIN templates : \E date \in dates(i) : \E run \in runs(i) :
          d = departure(i, date, run, from)
  BY DEF AllRuns, TimetableRuns
<1>5. \A d : d \in all <=>
        /\ \E i \in DOMAIN templates : \E date \in dates(i) : \E run \in runs(i) :
             d = departure(i, date, run, w)
        /\ Ticks(d.at) >= w /\ Ticks(d.at) < CacheUntil(w)
  BY <1>2 DEF DueUpTo, Due, Window, TimetableRuns
<1> HIDE DEF all, runs, dates, departure
<1>6. ASSUME NEW d \in Window(all, when, until)
      PROVE  Waiting(d, when) \in Window(AllRuns(templates, when), when, until)
  <2>1. d \in all /\ Ticks(d.at) >= when /\ Ticks(d.at) < until
    BY DEF Window
  <2>2. PICK i \in DOMAIN templates : \E date \in dates(i) : \E run \in runs(i) :
          d = departure(i, date, run, w)
    BY <1>5, <2>1
  <2>3. PICK date \in dates(i), run \in runs(i) : d = departure(i, date, run, w)
    BY <2>2
  <2>4. Waiting(d, when) = departure(i, date, run, when) /\ Waiting(d, when).at = d.at
    BY <1>3, <2>3
  <2>5. Waiting(d, when) \in AllRuns(templates, when)
    BY <1>4, <2>4
  <2> QED BY <2>1, <2>4, <2>5 DEF Window
<1>7. ASSUME NEW d \in Window(AllRuns(templates, when), when, until)
      PROVE  \E e \in Window(all, when, until) : Waiting(e, when) = d
  <2>1. d \in AllRuns(templates, when) /\ Ticks(d.at) >= when /\ Ticks(d.at) < until
    BY DEF Window
  <2>2. PICK i \in DOMAIN templates : \E date \in dates(i) : \E run \in runs(i) :
          d = departure(i, date, run, when)
    BY <1>4, <2>1
  <2>3. PICK date \in dates(i), run \in runs(i) : d = departure(i, date, run, when)
    BY <2>2
  <2> DEFINE e == departure(i, date, run, w)
  <2>4. Waiting(e, when) = d /\ e.at = d.at /\ Ticks(d.at) \in Int
    BY <1>3, <2>3
  <2>5. Ticks(d.at) >= w /\ Ticks(d.at) < CacheUntil(w)
    BY <1>1, <2>1, <2>4
  <2>6. e \in all
    BY <1>5, <2>4, <2>5
  <2> QED BY <2>1, <2>4, <2>6 DEF Window
<1>8. Rewaited(Window(all, when, until), when) \subseteq Window(AllRuns(templates, when), when, until)
  BY <1>6 DEF Rewaited
<1>9. Window(AllRuns(templates, when), when, until) \subseteq Rewaited(Window(all, when, until), when)
  BY <1>7 DEF Rewaited
<1> QED BY <1>8, <1>9 DEF all

-----------------------------------------------------------------------------
(* Calculations *)

(* Calculation and Timetable, of any feed *)
CalculationOf(templates, when) ==
  [from |-> when, until |-> CacheUntil(when),
   departures |-> NextDepartures(templates, when, CacheUntil(when), MaxLimit)]

TimetableOf(templates, when, limit) ==
  Merged(Window(AllRuns(templates, when), when, Until(when)), limit)

LEMMA CalculationIs ==
  ASSUME NEW templates, Sound(templates), NEW w \in Requested
  PROVE  LET p == CalculationOf(templates, w)
             all == DueUpTo(templates, Len(templates), w, CacheUntil(w))
         IN  /\ p.from = w /\ p.until = CacheUntil(w)
             /\ p.departures = Merged(all, MaxLimit)
             /\ IsList(all, w) /\ IsList(p.departures, w)
             /\ Cardinality(p.departures) \in 0..MaxLimit
             /\ \A d \in all : Ticks(d.at) >= w
<1> DEFINE p == CalculationOf(templates, w)
           all == DueUpTo(templates, Len(templates), w, CacheUntil(w))
<1>1. MaxLimit \in Nat /\ Len(templates) \in 0..Len(templates)
  BY RequestedType, FeedType
<1>2. p.from = w /\ p.until = CacheUntil(w) /\ p.departures = Merged(all, MaxLimit)
  BY <1>1, NextDeparturesAre DEF CalculationOf
<1>3. IsList(all, w)
  BY <1>1, DueIsListUpTo
<1>4. \A d \in all : Ticks(d.at) >= w
  BY DEF DueUpTo, Due, Window
<1> HIDE DEF p, all
<1>5. IsList(p.departures, w) /\ Cardinality(p.departures) \in 0..MaxLimit
  BY <1>1, <1>2, <1>3, MergedIsList, MergedAtMost
<1> QED BY <1>2, <1>3, <1>4, <1>5 DEF p, all

(* Whatever can be selected from a calculation is the timetable. *)
LEMMA SelectIs ==
  ASSUME NEW templates, Sound(templates), NEW w \in Requested, NEW when \in Int,
         NEW limit \in Limits,
         Selectable(CalculationOf(templates, w), when, Until(when), limit)
  PROVE  Select(CalculationOf(templates, w), when, Until(when), limit)
           = TimetableOf(templates, when, limit)
<1> DEFINE p == CalculationOf(templates, w)
           until == Until(when)
           all == DueUpTo(templates, Len(templates), w, CacheUntil(w))
           top == Merged(all, MaxLimit)
           found == First(Window(top, when, until), limit)
<1>1. /\ MaxLimit \in Nat /\ limit \in Nat /\ until \in Int /\ w \in Int
  BY RequestedType
<1>2. p.from = w /\ p.until = CacheUntil(w) /\ p.departures = top
  BY CalculationIs
<1>3. IsList(all, w) /\ IsList(top, w)
  BY CalculationIs
<1>4. Selectable(p, when, until, limit)
  OBVIOUS
<1> HIDE DEF p, all, top, until
<1>5. Chosen(p, when, until, limit) = found
  BY <1>2 DEF Chosen, Window
<1>6. Cardinality(found) \in Nat
  <2>1. found \subseteq top /\ IsFiniteSet(top)
    BY <1>3 DEF First, Window, IsList
  <2> HIDE DEF found
  <2> QED BY <2>1, FS_Subset, FS_CardinalityType
<1>7. \/ Cardinality(found) >= limit
      \/ Cardinality(top) # MaxLimit
      \/ \E d \in top : ~(Ticks(d.at) < until)
  <2> HIDE DEF found
  <2> QED BY <1>1, <1>2, <1>4, <1>5, <1>6 DEF Selectable, CutShort
<1>8. found = Merged(Window(all, when, until), limit)
  BY <1>1, <1>3, <1>7, WindowMerged DEF top
<1>9. w <= when /\ until <= CacheUntil(w)
  <2>1. Covers(p, when, until)
    BY <1>4 DEF Selectable
  <2>2. when >= w /\ until <= CacheUntil(w)
    BY <1>2, <2>1 DEF Covers
  <2> QED BY <1>1, <2>2
<1>10. Rewaited(Window(all, when, until), when) = Window(AllRuns(templates, when), when, until)
  BY <1>1, <1>9, RewaitedWindow DEF all
<1>11. IsList(Window(all, when, until), w)
  <2>1. Window(all, when, until) \subseteq all
    BY DEF Window
  <2> QED BY <1>3, <2>1, SublistIsList
<1>12. Rewaited(found, when) = Merged(Rewaited(Window(all, when, until), when), limit)
  BY <1>1, <1>8, <1>11, RewaitedMerged
<1>13. Select(p, when, until, limit) = Rewaited(found, when)
  <2> HIDE DEF found
  <2> QED BY <1>5 DEF Select, Rewaited, Waiting
<1> QED BY <1>10, <1>12, <1>13 DEF TimetableOf, p, until

(* A calculation answers the request it is made for. *)
LEMMA OwnIsSelectable ==
  ASSUME NEW templates, Sound(templates), NEW when \in Requested, NEW limit \in Limits
  PROVE  Selectable(CalculationOf(templates, when), when, Until(when), limit)
<1> DEFINE p == CalculationOf(templates, when)
           until == Until(when)
           all == DueUpTo(templates, Len(templates), when, CacheUntil(when))
           top == Merged(all, MaxLimit)
<1>1. /\ MaxLimit \in Nat /\ limit \in Nat /\ limit <= MaxLimit /\ when \in Int
  BY RequestedType
<1>2. p.from = when /\ p.until = CacheUntil(when) /\ p.departures = top
  BY CalculationIs
<1>3. IsList(all, when) /\ IsList(top, when) /\ \A d \in all : Ticks(d.at) >= when
  BY CalculationIs
<1>4. Covers(p, when, until)
  <2>1. until <= CacheUntil(when)
    BY <1>1, ScheduleAssumption DEF CacheUntil, Until, Ticks
  <2> HIDE DEF p
  <2> QED BY <1>1, <1>2, <2>1 DEF Covers
<1> HIDE DEF p, until, all
<1>5. ASSUME Cardinality(top) = MaxLimit, \A d \in top : Ticks(d.at) < until
      PROVE  ~(Cardinality(Chosen(p, when, until, limit)) < limit)
  <2>1. top \subseteq all
    BY <1>3, MergedIsList
  <2>2. {d \in top : Ticks(d.at) >= when /\ Ticks(d.at) < until} = top
    BY <1>3, <1>5, <2>1
  <2>3. Chosen(p, when, until, limit) = First(top, limit)
    BY <1>2, <2>2 DEF Chosen
  <2>4. Distinct(top) = top /\ First(top, limit) = Merged(top, limit)
    BY SomeDistinct
  <2> HIDE DEF top
  <2>5. Cardinality(Merged(top, limit)) >= limit
    BY <1>1, <1>3, <1>5, <2>4, MergedFull
  <2>6. Cardinality(Merged(top, limit)) \in Nat
    BY <1>1, <1>3, MergedAtMost
  <2> QED BY <1>1, <2>3, <2>4, <2>5, <2>6
<1> QED BY <1>2, <1>4, <1>5 DEF Selectable, CutShort, p, until

(* A calculation that is not truncated answers every request of its
   lifetime. *)
LEMMA CalculationLasts ==
  ASSUME NEW templates, Sound(templates), NEW w \in Requested, NEW limit,
         Cardinality(CalculationOf(templates, w).departures) < MaxLimit,
         NEW when \in w..w + Ticks(Ttl)
  PROVE  Selectable(CalculationOf(templates, w), when, Until(when), limit)
<1> DEFINE p == CalculationOf(templates, w)
<1>1. w \in Int /\ Ttl \in Nat /\ SearchTime \in Nat /\ MaxLimit \in Nat
  BY RequestedType
<1>2. p.from = w /\ p.until = CacheUntil(w) /\ Cardinality(p.departures) \in 0..MaxLimit
  BY CalculationIs
<1>3. when >= w /\ Until(when) <= CacheUntil(w)
  BY <1>1 DEF CacheUntil, Until, Ticks
<1>4. Cardinality(p.departures) # MaxLimit
  <2>1. Cardinality(p.departures) < MaxLimit
    OBVIOUS
  <2> HIDE DEF p
  <2> QED BY <1>1, <1>2, <2>1
<1> HIDE DEF p
<1>5. Selectable(p, when, Until(when), limit)
  BY <1>2, <1>3, <1>4 DEF Selectable, Covers, CutShort
<1> QED BY <1>5 DEF p

-----------------------------------------------------------------------------
(* The invariant *)

(* The cached entry is what some request calculated from the feed. *)
EntryIsCalculation ==
  entry # NoCalculation =>
    Sound(feed) /\ \E when \in Requested : entry.payload = CalculationOf(feed, when)

AnswerIs ==
  answer # NoAnswer =>
    IF answer.status = "unavailable"
      THEN \E i \in DOMAIN feed : Malformed(feed[i])
      ELSE answer.departures = TimetableOf(feed, answer.when, answer.limit)

ScheduleInv ==
  /\ feed \in Feeds /\ now \in 0..LastTick
  /\ EntryIsCalculation /\ AnswerIs

LEMMA ScheduleInvInit == ScheduleInit => ScheduleInv
BY ScheduleAssumption DEF ScheduleInit, ScheduleInv, EntryIsCalculation, AnswerIs

LEMMA ScheduleInvNext == ScheduleInv /\ [ScheduleNext]_scheduleVars => ScheduleInv'
<1> SUFFICES ASSUME ScheduleInv, [ScheduleNext]_scheduleVars PROVE ScheduleInv'
  OBVIOUS
<1> USE DEF ScheduleInv
<1>1. CASE Advance
  <2>1. feed' = feed /\ entry' = entry /\ answer' = NoAnswer /\ now' \in 0..LastTick
    BY <1>1, ScheduleAssumption DEF Advance
  <2> QED BY <2>1 DEF EntryIsCalculation, AnswerIs
<1>2. ASSUME NEW shift \in Shifts, NEW limit \in Limits, AnswerFromEntry(now + shift, limit)
      PROVE  ScheduleInv'
  <2> DEFINE when == now + shift
  <2>1. when \in Int
    BY ScheduleAssumption
  <2>2. Selectable(entry.payload, when, Until(when), limit) /\ entry # NoCalculation
    BY <1>2 DEF AnswerFromEntry, Hits, Live
  <2>3. /\ answer' = [status |-> "hit", when |-> when, limit |-> limit,
                      departures |-> Select(entry.payload, when, Until(when), limit)]
        /\ feed' = feed /\ now' = now /\ entry' = entry
    BY <1>2 DEF AnswerFromEntry, Answer
  <2> HIDE DEF when
  <2>4. PICK w \in Requested : Sound(feed) /\ entry.payload = CalculationOf(feed, w)
    BY <2>2 DEF EntryIsCalculation
  <2>5. Select(entry.payload, when, Until(when), limit) = TimetableOf(feed, when, limit)
    BY <2>1, <2>2, <2>4, SelectIs
  <2>6. EntryIsCalculation'
    BY <2>3 DEF EntryIsCalculation
  <2>7. AnswerIs'
    BY <2>3, <2>5 DEF AnswerIs
  <2> QED BY <2>3, <2>6, <2>7
<1>3. ASSUME NEW shift \in Shifts, NEW limit \in Limits, Calculate(now + shift, limit)
      PROVE  ScheduleInv'
  <2> DEFINE when == now + shift
  <2>1. when \in Int /\ when \in Requested
    BY ScheduleAssumption DEF Requested
  <2>2. Sound(feed)
    BY <1>3 DEF Calculate, Sound
  <2>3. Calculation(when) = CalculationOf(feed, when)
    BY DEF Calculation, CalculationOf
  <2>4. Selectable(CalculationOf(feed, when), when, Until(when), limit)
    BY <2>1, <2>2, OwnIsSelectable
  <2>5. feed' = feed /\ now' = now /\ Store(when, Calculation(when))
    BY <1>3 DEF Calculate
  <2>6. answer' = [status |-> "calculated", when |-> when, limit |-> limit,
                   departures |-> Select(CalculationOf(feed, when), when, Until(when), limit)]
    BY <1>3, <2>3, <2>4 DEF Calculate, Answer
  <2> HIDE DEF when
  <2>7. Select(CalculationOf(feed, when), when, Until(when), limit) = TimetableOf(feed, when, limit)
    BY <2>1, <2>2, <2>4, SelectIs
  <2>8. EntryIsCalculation'
    <3>1. entry' = entry \/ entry'.payload = CalculationOf(feed, when)
      BY <2>3, <2>5 DEF Store
    <3> QED BY <2>1, <2>2, <2>5, <3>1 DEF EntryIsCalculation
  <2>9. AnswerIs'
    BY <2>5, <2>6, <2>7 DEF AnswerIs
  <2> QED BY <2>5, <2>8, <2>9
<1>4. ASSUME NEW shift \in Shifts, NEW limit \in Limits, Fail(now + shift, limit)
      PROVE  ScheduleInv'
  <2>1. /\ feed' = feed /\ now' = now /\ entry' = entry /\ answer'.status = "unavailable"
        /\ \E i \in DOMAIN feed : Malformed(feed[i])
    BY <1>4 DEF Fail, Answer
  <2> QED BY <2>1 DEF EntryIsCalculation, AnswerIs
<1>5. CASE UNCHANGED scheduleVars
  BY <1>5 DEF scheduleVars, EntryIsCalculation, AnswerIs
<1> QED BY <1>1, <1>2, <1>3, <1>4, <1>5 DEF ScheduleNext

LEMMA ScheduleInvariance == ScheduleSpec => []ScheduleInv
BY ScheduleInvInit, ScheduleInvNext, PTL DEF ScheduleSpec

(* Every answer is the timetable: at any instant, with any limit, from its own
   calculation or from one that an earlier request left in the cache - and no
   request fails but for a malformed template. *)
THEOREM AnswerIsTimetableHolds == ScheduleSpec => []AnswerIsTimetable
<1>1. ScheduleInv => AnswerIsTimetable
  <2>1. \A when, limit : Timetable(when, limit) = TimetableOf(feed, when, limit)
    BY DEF Timetable, TimetableOf, AllRuns, Window, Merged
  <2> QED BY <2>1 DEF ScheduleInv, AnswerIs, AnswerIsTimetable
<1> QED BY <1>1, ScheduleInvariance, PTL

(* A cached calculation fits in its row, and one that is not truncated
   answers every request for an instant up to Ttl after its own. *)
THEOREM EntryLastsHolds == ScheduleSpec => []EntryLasts
<1>1. ASSUME ScheduleInv, entry # NoCalculation
      PROVE  /\ Cardinality(entry.payload.departures) <= MaxLimit
             /\ Cardinality(entry.payload.departures) < MaxLimit
                  => \A limit \in Limits,
                        when \in entry.payload.from..entry.payload.from + Ticks(Ttl) :
                       Selectable(entry.payload, when, Until(when), limit)
  <2>1. PICK w \in Requested : Sound(feed) /\ entry.payload = CalculationOf(feed, w)
    BY <1>1 DEF ScheduleInv, EntryIsCalculation
  <2>2. entry.payload.from = w /\ Cardinality(entry.payload.departures) \in 0..MaxLimit
    BY <2>1, CalculationIs
  <2>3. MaxLimit \in Nat
    BY RequestedType
  <2> QED BY <2>1, <2>2, <2>3, CalculationLasts
<1>2. ScheduleInv => EntryLasts
  BY <1>1 DEF EntryLasts
<1> QED BY <1>2, ScheduleInvariance, PTL
=============================================================================

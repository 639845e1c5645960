-------------------------- MODULE ProviderSyncProofs --------------------------
(***************************************************************************)
(* For any files, parts, contents and any feeds an origin publishes:       *)
(* import_progress is honest, a version is recorded only when every file   *)
(* of its feed is in the tables, and a provider is skipped only if the     *)
(* tables hold the feed that was not sent.                                 *)
(*                                                                         *)
(* ProgressHonest says what the rows of import_progress claim.  To be      *)
(* inductive it needs what the run knows when it writes them: that the     *)
(* checkpoints in memory belong to the content at hand, that the parts of  *)
(* a wave are in the tables, and that a request nobody awaits carries the  *)
(* content that its file's row already names.                              *)
(***************************************************************************)
EXTENDS ProviderSync, TLAPS

USE SyncAssumption

(* The rows of import_progress say that feed n is complete. *)
Done(n) ==
  \A f \in Files : feeds[n].crc[f] # None =>
    progress[f].crc = feeds[n].crc[f] /\ progress[f].status = 0

(* Requests that nobody awaits exist only from a failure of a file to the
   next run, and only a wave has files that are active. *)
Stray ==
  /\ feed <= published
  /\ active # {} => pc = "importing"
  /\ late # {} => pc \in {"importing", "idle"}
  /\ late # {} /\ pc = "importing" => failed
  /\ failed => failures # 0

(* They carry the content that the row of their file names. *)
LateContent == \A request \in late : progress[request[1]].crc = request[3]

(* The files to import are those that the feed has and that are not complete,
   and the parts before a checkpoint have the content at hand. *)
Planned ==
  pc = "planned" =>
    /\ todo # {}
    /\ \A f \in todo :
         /\ Crc(f) # None /\ ~Completed(f)
         /\ \A i \in 1..at[f] : stored[f][i] = Crc(f)

(* While a file is imported its row names the content at hand; until it saves
   or loses a checkpoint the row is the one it started from, and the parts it
   sent are in the tables. *)
InWave ==
  pc = "importing" =>
    \A f \in todo :
      /\ Crc(f) # None /\ progress[f].crc = Crc(f)
      /\ f \in active \/ ~failed => progress[f] = Restarted(f)
      /\ f \in active => \A i \in sent[f] : stored[f][i] = Crc(f)

(* The other files of the feed are complete. *)
OthersDone ==
  /\ pc \in {"planned", "importing"} =>
       \A f \in Files \ todo : Crc(f) # None => Completed(f)
  /\ pc = "versioning" => Done(feed)

(* Until it is answered, the conditional GET is about the recorded version. *)
Asked ==
  /\ pc \in {"asking", "unmodified"} => known = version
  /\ pc = "unmodified" => known # NoTag /\ feeds[feed].tag = known

Support == Stray /\ LateContent /\ Planned /\ InWave /\ OthersDone /\ Asked

IInv == TypeOK /\ Support /\ ProgressHonest

(* The recorded version belongs to a feed, and as long as no feed with another
   content was looked at since, that feed is complete. *)
VersionOfFeed ==
  version # NoTag =>
    \E n \in DOMAIN feeds :
      /\ n <= feed /\ feeds[n].tag = version
      /\ (\A k \in n..feed : feeds[k].crc = feeds[n].crc) => Done(n)

(* Without a failure, a run ends with a row that is incomplete or with the
   version of what it imported. *)
NothingUnrecorded ==
  failures = 0 /\ (\A n \in DOMAIN feeds : feeds[n].tag # NoTag) =>
    \/ \E f \in Files : progress[f].crc # None /\ progress[f].status = 1
    \/ \A f \in Files : progress[f].crc = None
    \/ \E n \in DOMAIN feeds : feeds[n].tag = version /\ Done(n)
    \/ pc = "versioning"
    \/ pc = "importing" /\ todo = {}

(* An origin that goes back to a tag has not served other content since. *)
NeverReturns ==
  \A i, j \in DOMAIN feeds : feeds[i].tag # NoTag /\ feeds[i].tag = feeds[j].tag =>
    \A k \in i..j : feeds[k].crc = feeds[i].crc

(* A tag names one content, every feed has one, and nothing failed. *)
TaggedAndUnfailed ==
  /\ failures = 0
  /\ \A i \in DOMAIN feeds : feeds[i].tag # NoTag
  /\ \A i, j \in DOMAIN feeds : feeds[i].tag = feeds[j].tag => feeds[i].crc = feeds[j].crc

SkipCondition == NeverReturns \/ TaggedAndUnfailed

SkipIsSafeIf == SkipCondition => SkipIsSafe
-----------------------------------------------------------------------------
(* Typing *)

LEMMA FeedType ==
  ASSUME TypeOK
  PROVE  /\ Len(feeds) \in Nat \ {0} /\ DOMAIN feeds = 1..Len(feeds)
         /\ \A n \in DOMAIN feeds :
              feeds[n].tag \in Tags \cup {NoTag} /\ feeds[n].crc \in [Files -> Crcs \cup {None}]
         /\ \A f \in Files : Crc(f) \in Crcs \cup {None}
<1> DEFINE Feeds == [tag : Tags \cup {NoTag}, crc : [Files -> Crcs \cup {None}]]
<1>1. feeds \in Seq(Feeds) /\ feeds # <<>>
  BY DEF TypeOK
<1>2. /\ Len(feeds) \in Nat \ {0} /\ DOMAIN feeds = 1..Len(feeds)
      /\ \A n \in DOMAIN feeds : feeds[n] \in Feeds
  <2> HIDE DEF Feeds
  <2> QED BY <1>1
<1>3. feed \in DOMAIN feeds
  BY DEF TypeOK
<1> QED BY <1>2, <1>3 DEF Crc

LEMMA TypeInit == Init => TypeOK
<1> SUFFICES ASSUME Init PROVE TypeOK
  OBVIOUS
<1>1. Len(feeds) \in Nat \ {0} /\ DOMAIN feeds = 1..Len(feeds)
  <2>1. feeds \in Seq([tag : Tags \cup {NoTag}, crc : [Files -> Crcs \cup {None}]])
    BY DEF Init
  <2>2. feeds # <<>>
    BY DEF Init
  <2> QED BY <2>1, <2>2
<1>2. MaxFailures[feeds] \in Nat
  BY DEF Init
<1>3. /\ progress \in [Files -> [crc : Crcs \cup {None}, mark : 0..NumParts, status : {0, 1}]]
      /\ stored \in [Files -> [Parts -> Crcs \cup {None}]]
  BY DEF Init, NoRow
<1>4. at \in [Files -> 0..NumParts] /\ sent \in [Files -> SUBSET Parts]
  BY DEF Init
<1>5. published \in DOMAIN feeds /\ feed \in DOMAIN feeds
  BY <1>1 DEF Init
<1>6. failures \in 0..MaxFailures[feeds]
  BY <1>2 DEF Init
<1> QED BY <1>3, <1>4, <1>5, <1>6 DEF Init, TypeOK

LEMMA FailureType ==
  ASSUME TypeOK, Failure
  PROVE  failures' \in 0..MaxFailures[feeds] /\ failures' # 0
<1>1. MaxFailures[feeds] \in Nat
  BY DEF TypeOK
<1> QED BY <1>1 DEF TypeOK, Failure

LEMMA TypeStep ==
  ASSUME TypeOK, Support, [Next]_vars
  PROVE  TypeOK'
<1> USE DEF origin, database, wave, run
<1>0. NumParts \in Nat /\ Parts = 1..NumParts
  BY DEF Parts
<1>1. CASE Publish
  <2>1. published' \in DOMAIN feeds
    BY <1>1, FeedType DEF Publish, TypeOK
  <2> QED BY <1>1, <2>1 DEF Publish, TypeOK
<1>2. ASSUME NEW request \in late, Land(request) PROVE TypeOK'
  <2>0. PICK f \in Files, i \in Parts, c \in Crcs :
          request[1] = f /\ request[2] = i /\ request[3] = c
    BY DEF TypeOK
  <2>1. stored' \in [Files -> [Parts -> Crcs \cup {None}]]
    <3>1. stored \in [Files -> [Parts -> Crcs \cup {None}]]
      BY DEF TypeOK
    <3>2. stored' = stored \/ stored' = [stored EXCEPT ![f][i] = c]
      BY <1>2, <2>0 DEF Land
    <3>3. CASE stored' = [stored EXCEPT ![f][i] = c]
      <4>1. [stored[f] EXCEPT ![i] = c] \in [Parts -> Crcs \cup {None}]
        BY <3>1
      <4> QED BY <3>1, <3>3, <4>1
    <3> QED BY <3>1, <3>2, <3>3
  <2>2. late' \subseteq late
    BY <1>2 DEF Land
  <2> QED BY <1>2, <2>1, <2>2 DEF Land, TypeOK
<1>3. CASE StartRun
  BY <1>3 DEF StartRun, TypeOK
<1>4. CASE Ask
  BY <1>4 DEF Ask, TypeOK
<1>5. CASE Skip
  BY <1>5 DEF Skip, TypeOK
<1>6. CASE Refetch
  BY <1>6 DEF Refetch, TypeOK
<1>7. CASE Plan
  <2>1. todo' \subseteq Files /\ active = {} /\ active' = active
    BY <1>7 DEF Plan, Support, Stray
  <2>2. at' \in [Files -> 0..NumParts]
    BY <1>0, <1>7 DEF Plan, ResumeMark, TypeOK
  <2>3. pc' \in {"versioning", "planned"}
    BY <1>7 DEF Plan
  <2>4. UNCHANGED <<origin, database, known, feed, sent, failed, late, failures>>
    BY <1>7 DEF Plan
  <2> QED BY <2>1, <2>2, <2>3, <2>4 DEF TypeOK
<1>8. CASE InitFilesProgress
  <2>1. \A f \in Files : Restarted(f) \in
          [crc : Crcs \cup {None}, mark : 0..NumParts, status : {0, 1}]
    BY FeedType DEF Restarted, TypeOK
  <2>2. progress' \in
          [Files -> [crc : Crcs \cup {None}, mark : 0..NumParts, status : {0, 1}]]
    BY <1>8, <2>1 DEF InitFilesProgress, TypeOK
  <2> QED BY <1>8, <2>2 DEF InitFilesProgress, StartWave, TypeOK
<1>9. ASSUME NEW f \in Files, NEW i \in Parts, Upload(f, i) PROVE TypeOK'
  BY <1>9, FeedType DEF Upload, TypeOK
<1>10. ASSUME NEW f \in Files, NEW mark \in 0..NumParts, NEW status \in {0, 1},
              SaveFile(f, mark, status)
       PROVE TypeOK'
  BY <1>10 DEF SaveFile, Save, TypeOK
<1>11. CASE NextWave
  BY <1>11 DEF NextWave, StartWave, TypeOK
<1>12. CASE EndRun
  BY <1>12 DEF EndRun, TypeOK
<1>13. CASE Complete
  BY <1>13 DEF Complete, TypeOK
<1>14. CASE SetVersion
  BY <1>14, FeedType DEF SetVersion, TypeOK
<1>15. ASSUME NEW f \in Files, SaveNothing(f) PROVE TypeOK'
  <2>1. at[f] \in 0..NumParts /\ failures' \in 0..MaxFailures[feeds]
    BY <1>15, FailureType DEF SaveNothing, TypeOK
  <2> QED BY <1>15, <2>1 DEF SaveNothing, Save, TypeOK
<1>16. ASSUME NEW f \in Files, NEW mark \in 0..NumParts, NEW status \in {0, 1},
              LoseSave(f, mark, status)
       PROVE TypeOK'
  <2>1. failures' \in 0..MaxFailures[feeds]
    BY <1>16, FailureType DEF LoseSave
  <2> QED BY <1>16, <2>1 DEF LoseSave, Save, TypeOK
<1>17. ASSUME NEW f \in Files, NEW i \in Parts, FailFile(f, i) PROVE TypeOK'
  <2>1. failures' \in 0..MaxFailures[feeds]
    BY <1>17, FailureType DEF FailFile
  <2>2. Crc(f) \in Crcs
    BY <1>17, FeedType DEF FailFile, Importing, Support, InWave, TypeOK
  <2> QED BY <1>17, <2>1, <2>2 DEF FailFile, TypeOK
<1>18. CASE Die
  <2>1. failures' \in 0..MaxFailures[feeds]
    BY <1>18, FailureType DEF Die
  <2>2. \A f \in active : f \in Files /\ Crc(f) \in Crcs
    BY FeedType DEF Support, Stray, InWave, TypeOK
  <2>3. late' \subseteq Files \X Parts \X Crcs
    BY <1>18, <2>2 DEF Die, TypeOK
  <2> QED BY <1>18, <2>1, <2>3 DEF Die, TypeOK
<1>19. CASE UNCHANGED vars
  BY <1>19 DEF vars, TypeOK
<1> QED BY <1>1, <1>2, <1>3, <1>4, <1>5, <1>6, <1>7, <1>8, <1>9, <1>10, <1>11, <1>12,
           <1>13, <1>14, <1>15, <1>16, <1>17, <1>18, <1>19
        DEF Next, Prepare, Import, Fail

-----------------------------------------------------------------------------
(* The support of the invariant, one lemma for each part *)

LEMMA StrayStep ==
  ASSUME TypeOK, Stray, [Next]_vars
  PROVE  Stray'
<1> USE DEF Stray, origin, database, wave, run
<1>0. published \in Nat /\ feed \in Nat /\ failures \in Nat
  <2>1. MaxFailures[feeds] \in Nat
    BY DEF TypeOK
  <2> QED BY <2>1, FeedType DEF TypeOK
<1>1. CASE Publish
  BY <1>0, <1>1 DEF Publish
<1>2. ASSUME NEW request \in late, Land(request) PROVE Stray'
  BY <1>2 DEF Land
<1>3. CASE Prepare
  BY <1>0, <1>3 DEF Prepare, StartRun, Ask, Skip, Refetch, Plan, InitFilesProgress, StartWave
<1>4. CASE Import
  <2>1. ASSUME NEW f \in Files, NEW i \in Parts, Upload(f, i) PROVE Stray'
    BY <2>1 DEF Upload
  <2>2. ASSUME NEW f \in Files, NEW mark \in 0..NumParts, NEW status \in {0, 1},
               SaveFile(f, mark, status)
        PROVE  Stray'
    BY <2>2 DEF SaveFile, Save, Importing
  <2>3. CASE NextWave
    BY <2>3 DEF NextWave, StartWave, Returned
  <2>4. CASE EndRun \/ Complete \/ SetVersion
    BY <2>4 DEF EndRun, Complete, AllImported, Returned, SetVersion
  <2> QED BY <1>4, <2>1, <2>2, <2>3, <2>4 DEF Import
<1>5. CASE Fail
  <2>1. failures' # 0
    BY <1>0, <1>5 DEF Fail, SaveNothing, LoseSave, FailFile, Die, Failure
  <2>2. CASE Die
    BY <1>0, <2>1, <2>2 DEF Die
  <2>3. CASE ~Die
    BY <1>5, <2>1, <2>3 DEF Fail, SaveNothing, LoseSave, FailFile, Save, Importing
  <2> QED BY <2>2, <2>3
<1>6. CASE UNCHANGED vars
  BY <1>6 DEF vars
<1> QED BY <1>1, <1>2, <1>3, <1>4, <1>5, <1>6 DEF Next

(* A row is rewritten before the first wave, when no request is late, and
   later only for the same content. *)
LEMMA LateContentStep ==
  ASSUME TypeOK, Support, [Next]_vars
  PROVE  LateContent'
<1> USE DEF Support, LateContent, origin, database, wave, run
<1>0. \A request \in late : request[1] \in Files
  BY DEF TypeOK
<1>1. ASSUME UNCHANGED <<progress, late>> PROVE LateContent'
  BY <1>1
<1>2. ASSUME NEW request \in late, Land(request) PROVE LateContent'
  BY <1>2 DEF Land
<1>3. CASE InitFilesProgress
  <2>1. late = {} /\ late' = late
    BY <1>3 DEF InitFilesProgress, Stray
  <2> QED BY <2>1
<1>4. ASSUME NEW f \in Files, NEW mark \in 0..NumParts, NEW status \in {0, 1},
             Save(f, mark, status)
      PROVE  LateContent'
  <2>1. \A g \in Files : progress'[g].crc = progress[g].crc
    BY <1>4 DEF Save, TypeOK
  <2> QED BY <1>0, <1>4, <2>1 DEF Save
<1>5. ASSUME NEW f \in Files, NEW i \in Parts, FailFile(f, i) PROVE LateContent'
  BY <1>5 DEF FailFile, Importing, InWave, TypeOK
<1>6. CASE Die
  <2>1. \A f \in active : progress[f].crc = Crc(f)
    BY DEF Stray, InWave, TypeOK
  <2> QED BY <1>6, <2>1 DEF Die
<1>7. ASSUME NEW f \in Files, SaveNothing(f) PROVE LateContent'
  <2>1. at[f] \in 0..NumParts
    BY DEF TypeOK
  <2> QED BY <1>4, <1>7, <2>1 DEF SaveNothing
<1>8. CASE Prepare
  BY <1>1, <1>3, <1>8 DEF Prepare, StartRun, Ask, Skip, Refetch, Plan
<1>9. CASE Import
  BY <1>1, <1>4, <1>9 DEF Import, Upload, SaveFile, NextWave, EndRun, Complete, SetVersion
<1>10. CASE Fail
  BY <1>4, <1>5, <1>6, <1>7, <1>10 DEF Fail, LoseSave
<1> QED BY <1>1, <1>2, <1>8, <1>9, <1>10 DEF Next, Publish, vars

LEMMA PlannedStep ==
  ASSUME IInv, [Next]_vars
  PROVE  Planned'
<1> USE DEF IInv, Support, origin, database, wave, run
<1>1. ASSUME pc' # "planned" PROVE Planned'
  BY <1>1 DEF Planned
<1>2. ASSUME UNCHANGED <<feeds, stored, progress, pc, feed, at, todo>> PROVE Planned'
  BY <1>2 DEF Planned, Completed, SameContent, Crc
<1>3. ASSUME NEW request \in late, Land(request) PROVE Planned'
  BY <1>1, <1>3 DEF Land, Stray
<1>4. CASE Plan
  <2>1. ASSUME NEW f \in todo'
        PROVE  /\ Crc(f) # None /\ ~Completed(f)
               /\ \A i \in 1..at'[f] : stored[f][i] = Crc(f)
    <3>1. f \in Files /\ Crc(f) # None /\ ~Completed(f) /\ at'[f] = ResumeMark(f)
      BY <1>4, <2>1 DEF Plan
    <3>2. \A i \in 1..ResumeMark(f) : stored[f][i] = Crc(f)
      BY <3>1 DEF ResumeMark, SameContent, ProgressHonest
    <3> QED BY <3>1, <3>2
  <2>2. UNCHANGED <<feeds, feed, stored, progress>>
    BY <1>4 DEF Plan
  <2>3. pc' = "planned" => todo' # {}
    BY <1>4 DEF Plan
  <2> QED BY <2>1, <2>2, <2>3 DEF Planned, Completed, SameContent, Crc
<1>5. CASE Prepare
  BY <1>1, <1>4, <1>5 DEF Prepare, StartRun, Ask, Skip, Refetch, InitFilesProgress
<1>6. CASE Import
  BY <1>1, <1>6 DEF Import, Upload, SaveFile, Save, Importing, NextWave, Returned, EndRun,
                    Complete, SetVersion
<1>7. CASE Fail
  <2>1. CASE Die
    BY <1>1, <2>1 DEF Die
  <2>2. CASE ~Die
    BY <1>1, <1>7, <2>2 DEF Fail, SaveNothing, LoseSave, Save, FailFile, Importing
  <2> QED BY <2>1, <2>2
<1> QED BY <1>2, <1>3, <1>5, <1>6, <1>7 DEF Next, Publish, vars

(* What Save writes *)
LEMMA RowSaved ==
  ASSUME TypeOK, NEW f \in Files, NEW mark, NEW status, Save(f, mark, status)
  PROVE  /\ progress'[f] = [crc |-> progress[f].crc, mark |-> mark, status |-> status]
         /\ \A g \in Files : g # f => progress'[g] = progress[g]
<1>1. DOMAIN progress = Files
  BY DEF TypeOK
<1>2. progress[f] \in [crc : Crcs \cup {None}, mark : 0..NumParts, status : {0, 1}]
  BY DEF TypeOK
<1>3. progress' = [progress EXCEPT ![f].mark = mark, ![f].status = status]
  BY DEF Save
<1> QED BY <1>1, <1>2, <1>3

(* The tables after a part of file f is written *)
Put(f, i, c) == [stored EXCEPT ![f][i] = c]

LEMMA PutAt ==
  ASSUME TypeOK, NEW f \in Files, NEW i \in Parts, NEW c
  PROVE  \A g \in Files, j \in Parts :
           Put(f, i, c)[g][j] = IF g = f /\ j = i THEN c ELSE stored[g][j]
<1>1. DOMAIN stored = Files /\ DOMAIN stored[f] = Parts
  BY DEF TypeOK
<1>2. ASSUME NEW g \in Files, NEW j \in Parts
      PROVE  Put(f, i, c)[g][j] = IF g = f /\ j = i THEN c ELSE stored[g][j]
  <2>1. CASE g = f
    BY <1>1, <2>1 DEF Put
  <2>2. CASE g # f
    BY <1>1, <2>2 DEF Put
  <2> QED BY <2>1, <2>2
<1> QED BY <1>2

LEMMA InWaveStep ==
  ASSUME IInv, [Next]_vars
  PROVE  InWave'
<1> USE DEF IInv, Support, origin, database, wave, run
<1>0. todo \subseteq Files /\ active \subseteq todo
  BY DEF TypeOK
<1>1. ASSUME pc' # "importing" PROVE InWave'
  BY <1>1 DEF InWave
<1>2. ASSUME UNCHANGED <<feeds, stored, progress, pc, feed, at, todo, active, sent, failed>>
      PROVE  InWave'
  BY <1>2 DEF InWave, Restarted, Crc
<1>3. ASSUME NEW request \in late, Land(request) PROVE InWave'
  <2>1. PICK f \in Files, i \in Parts, c \in Crcs :
          request[1] = f /\ request[2] = i /\ request[3] = c
    BY DEF TypeOK
  <2>2. progress[f].crc = c
    BY <2>1 DEF LateContent
  <2>3. stored' = stored \/ stored' = Put(f, i, c)
    BY <1>3, <2>1 DEF Land, Put
  <2>4. \A g \in Files, j \in Parts :
          stored'[g][j] = stored[g][j] \/ stored'[g][j] = progress[g].crc
    <3>1. CASE stored' = stored
      BY <3>1
    <3>2. CASE stored' = Put(f, i, c)
      <4>1. \A g \in Files, j \in Parts :
              stored'[g][j] = IF g = f /\ j = i THEN c ELSE stored[g][j]
        BY <3>2, PutAt
      <4> QED BY <2>2, <4>1
    <3> QED BY <2>3, <3>1, <3>2
  <2>5. sent \in [Files -> SUBSET Parts]
    BY DEF TypeOK
  <2>6. UNCHANGED <<feeds, progress, pc, feed, at, todo, active, sent, failed>>
    BY <1>3 DEF Land
  <2> QED BY <1>0, <2>4, <2>5, <2>6 DEF InWave, Restarted, Crc
<1>4. CASE InitFilesProgress
  <2>1. \A f \in todo : progress'[f] = Restarted(f)
    BY <1>0, <1>4 DEF InitFilesProgress
  <2>2. \A f \in todo : Crc(f) # None /\ sent'[f] = {}
    BY <1>0, <1>4 DEF InitFilesProgress, Planned, StartWave
  <2>3. UNCHANGED <<feeds, feed, at, todo>>
    BY <1>4 DEF InitFilesProgress
  <2>4. \A f \in todo : Restarted(f)' = Restarted(f) /\ Crc(f)' = Crc(f)
    BY <1>0, <1>4, <2>3 DEF InitFilesProgress, Restarted, Crc
  <2>5. \A f \in todo : Restarted(f).crc = Crc(f)
    BY DEF Restarted
  <2> QED BY <2>1, <2>2, <2>3, <2>4, <2>5 DEF InWave
<1>5. ASSUME NEW f \in Files, NEW i \in Parts, Upload(f, i) PROVE InWave'
  <2>1. \A g \in Files, j \in Parts :
          stored'[g][j] = IF g = f /\ j = i THEN Crc(f) ELSE stored[g][j]
    <3>1. stored' = Put(f, i, Crc(f))
      BY <1>5 DEF Upload, Put
    <3> QED BY <3>1, PutAt
  <2>2. \A g \in Files : sent'[g] = IF g = f THEN sent[f] \cup {i} ELSE sent[g]
    BY <1>5 DEF Upload, TypeOK
  <2>3. sent \in [Files -> SUBSET Parts]
    BY DEF TypeOK
  <2>4. UNCHANGED <<feeds, feed, progress, pc, at, todo, active, failed>>
    BY <1>5 DEF Upload
  <2> QED BY <1>0, <2>1, <2>2, <2>3, <2>4 DEF InWave, Restarted, Crc
<1>6. ASSUME NEW f \in Files, NEW mark \in 0..NumParts, NEW status \in {0, 1},
             Save(f, mark, status), todo' \subseteq todo,
             \A g \in Files : g # f => at'[g] = at[g],
             failed' \/ (status = 1 /\ at'[f] = mark) \/ f \notin todo',
             failed => failed'
      PROVE  InWave'
  <2>1. \A g \in Files : g # f => progress'[g] = progress[g]
    BY <1>6, RowSaved
  <2>2. progress'[f] = [crc |-> progress[f].crc, mark |-> mark, status |-> status]
    BY <1>6, RowSaved
  <2>3. UNCHANGED <<feeds, feed, stored, sent, pc>> /\ active' = active \ {f}
    BY <1>6 DEF Save
  <2>4. pc = "importing" /\ f \in todo
    BY <1>0, <1>6 DEF Save, Importing
  <2>5. ASSUME NEW g \in todo', g # f
        PROVE  /\ Crc(g)' # None /\ progress'[g].crc = Crc(g)'
               /\ g \in active' \/ ~failed' => progress'[g] = Restarted(g)'
               /\ g \in active' => \A i \in sent'[g] : stored'[g][i] = Crc(g)'
    BY <1>0, <1>6, <2>1, <2>3, <2>4, <2>5 DEF InWave, Restarted, Crc
  <2>6. ASSUME f \in todo'
        PROVE  /\ Crc(f)' # None /\ progress'[f].crc = Crc(f)'
               /\ f \in active' \/ ~failed' => progress'[f] = Restarted(f)'
               /\ f \in active' => \A i \in sent'[f] : stored'[f][i] = Crc(f)'
    <3>1. Crc(f) # None /\ progress[f].crc = Crc(f) /\ Crc(f)' = Crc(f)
      BY <2>3, <2>4 DEF InWave, Crc
    <3>2. f \notin active'
      BY <2>3
    <3>3. ~failed' => status = 1 /\ at'[f] = mark
      BY <1>6, <2>6
    <3> QED BY <2>2, <3>1, <3>2, <3>3 DEF Restarted, Crc
  <2> QED BY <2>5, <2>6 DEF InWave
<1>7. ASSUME NEW f \in Files, NEW mark \in 0..NumParts, NEW status \in {0, 1},
             SaveFile(f, mark, status)
      PROVE  InWave'
  <2>1. todo' \subseteq todo /\ (f \notin todo' \/ status = 1) /\ failed' = failed
    BY <1>7 DEF SaveFile
  <2>2. at'[f] = mark /\ \A g \in Files : g # f => at'[g] = at[g]
    BY <1>7 DEF SaveFile, TypeOK
  <2> QED BY <1>6, <1>7, <2>1, <2>2 DEF SaveFile
<1>8. CASE NextWave
  <2>1. \A f \in todo : sent'[f] = {}
    BY <1>0, <1>8 DEF NextWave, StartWave
  <2> QED BY <1>8, <2>1 DEF NextWave, Returned, StartWave, InWave, Restarted, Crc
<1>9. ASSUME NEW f \in Files, SaveNothing(f) PROVE InWave'
  <2>1. at[f] \in 0..NumParts
    BY DEF TypeOK
  <2> QED BY <1>6, <1>9, <2>1 DEF SaveNothing
<1>10. ASSUME NEW f \in Files, NEW mark \in 0..NumParts, NEW status \in {0, 1},
              LoseSave(f, mark, status)
       PROVE  InWave'
  BY <1>6, <1>10 DEF LoseSave
<1>11. ASSUME NEW f \in Files, NEW i \in Parts, FailFile(f, i) PROVE InWave'
  BY <1>11 DEF FailFile, Importing, InWave, Restarted, Crc
<1>12. CASE Prepare
  BY <1>1, <1>4, <1>12 DEF Prepare, StartRun, Ask, Skip, Refetch, Plan
<1>13. CASE EndRun \/ Complete \/ SetVersion \/ Die
  BY <1>1, <1>13 DEF EndRun, Complete, SetVersion, Die
<1>14. CASE Publish \/ UNCHANGED vars
  BY <1>2, <1>14 DEF Publish, vars
<1> QED BY <1>3, <1>5, <1>7, <1>8, <1>9, <1>10, <1>11, <1>12, <1>13, <1>14
        DEF Next, Import, Fail

(* A file leaves todo when it is complete, and nothing writes its row then. *)
LEMMA OthersDoneStep ==
  ASSUME IInv, [Next]_vars
  PROVE  OthersDone'
<1> USE DEF IInv, Support, origin, database, wave, run
<1>0. todo \subseteq Files /\ active \subseteq todo
  BY DEF TypeOK
<1>1. ASSUME pc' \notin {"planned", "importing", "versioning"} PROVE OthersDone'
  BY <1>1 DEF OthersDone
<1>2. ASSUME UNCHANGED <<feeds, progress, pc, feed, todo>> PROVE OthersDone'
  BY <1>2 DEF OthersDone, Completed, SameContent, Crc, Done
<1>3. CASE Plan
  <2>1. \A f \in Files \ todo' : Crc(f) # None => Completed(f)
    BY <1>3 DEF Plan
  <2>2. UNCHANGED <<feeds, feed, progress>> /\ (pc' = "versioning" => todo' = {})
    BY <1>3 DEF Plan
  <2> QED BY <2>1, <2>2 DEF OthersDone, Completed, SameContent, Crc, Done
<1>4. CASE InitFilesProgress
  <2>1. \A f \in Files \ todo : progress'[f] = progress[f]
    BY <1>4 DEF InitFilesProgress
  <2>2. UNCHANGED <<feeds, feed, todo>> /\ pc = "planned" /\ pc' = "importing"
    BY <1>4 DEF InitFilesProgress
  <2> QED BY <2>1, <2>2 DEF OthersDone, Completed, SameContent, Crc
<1>5. ASSUME NEW f \in Files, NEW mark \in 0..NumParts, NEW status \in {0, 1},
             Save(f, mark, status), todo' = todo \/ (todo' = todo \ {f} /\ status = 0)
      PROVE  OthersDone'
  <2>1. \A g \in Files : g # f => progress'[g] = progress[g]
    BY <1>5 DEF Save, TypeOK
  <2>2. progress'[f].crc = progress[f].crc /\ progress'[f].status = status
    BY <1>5 DEF Save, TypeOK
  <2>3. UNCHANGED <<feeds, feed, pc>> /\ pc = "importing" /\ f \in todo
    BY <1>0, <1>5 DEF Save, Importing
  <2>4. progress[f].crc = Crc(f)
    BY <2>3 DEF InWave
  <2> QED BY <1>5, <2>1, <2>2, <2>3, <2>4 DEF OthersDone, Completed, SameContent, Crc
<1>6. ASSUME NEW f \in Files, NEW mark \in 0..NumParts, NEW status \in {0, 1},
             SaveFile(f, mark, status)
      PROVE  OthersDone'
  BY <1>5, <1>6 DEF SaveFile
<1>7. ASSUME NEW f \in Files, SaveNothing(f) PROVE OthersDone'
  <2>1. at[f] \in 0..NumParts
    BY DEF TypeOK
  <2> QED BY <1>5, <1>7, <2>1 DEF SaveNothing
<1>8. ASSUME NEW f \in Files, NEW mark \in 0..NumParts, NEW status \in {0, 1},
             LoseSave(f, mark, status)
      PROVE  OthersDone'
  BY <1>5, <1>8 DEF LoseSave
<1>9. CASE Complete
  BY <1>9 DEF Complete, AllImported, Returned, OthersDone, Completed, SameContent, Crc, Done
<1>10. CASE Prepare
  BY <1>1, <1>3, <1>4, <1>10 DEF Prepare, StartRun, Ask, Skip, Refetch
<1>11. CASE EndRun \/ SetVersion \/ Die
  BY <1>1, <1>11 DEF EndRun, SetVersion, Die
<1>12. CASE Publish \/ NextWave \/ UNCHANGED vars
  BY <1>2, <1>12 DEF Publish, NextWave, vars
<1>13. ASSUME NEW f \in Files, NEW i \in Parts, Upload(f, i) \/ FailFile(f, i)
       PROVE  OthersDone'
  BY <1>2, <1>13 DEF Upload, FailFile
<1>14. ASSUME NEW request \in late, Land(request) PROVE OthersDone'
  BY <1>2, <1>14 DEF Land
<1> QED BY <1>6, <1>7, <1>8, <1>9, <1>10, <1>11, <1>12, <1>13, <1>14
        DEF Next, Import, Fail

LEMMA AskedStep ==
  ASSUME TypeOK, Asked, [Next]_vars
  PROVE  Asked'
<1> USE DEF Asked, origin, database, wave, run
<1>1. ASSUME pc' \notin {"asking", "unmodified"} PROVE Asked'
  BY <1>1
<1>2. ASSUME UNCHANGED <<feeds, version, pc, known, feed>> PROVE Asked'
  BY <1>2
<1>3. CASE StartRun
  BY <1>3 DEF StartRun
<1>4. CASE Ask
  BY <1>4 DEF Ask, Matches
<1>5. CASE Prepare
  BY <1>1, <1>3, <1>4, <1>5 DEF Prepare, Skip, Refetch, Plan, InitFilesProgress
<1>6. CASE Import
  <2>1. CASE EndRun \/ Complete \/ SetVersion
    BY <1>1, <2>1 DEF EndRun, Complete, SetVersion
  <2>2. CASE ~(EndRun \/ Complete \/ SetVersion)
    BY <1>2, <1>6, <2>2 DEF Import, Upload, SaveFile, Save, NextWave
  <2> QED BY <2>1, <2>2
<1>7. CASE Fail
  <2>1. CASE Die
    BY <1>1, <2>1 DEF Die
  <2>2. CASE ~Die
    BY <1>2, <1>7, <2>2 DEF Fail, SaveNothing, LoseSave, Save, FailFile
  <2> QED BY <2>1, <2>2
<1> QED BY <1>2, <1>5, <1>6, <1>7 DEF Next, Publish, Land, vars

-----------------------------------------------------------------------------
(* ProgressHonest itself *)

(* Whatever a file in a wave may save is in the tables: the parts before its
   checkpoint, which its row already claimed, and those it has sent. *)
LEMMA CoveredStored ==
  ASSUME IInv, NEW f \in Files, NEW mark \in 0..NumParts, NEW status \in {0, 1},
         Save(f, mark, status)
  PROVE  /\ \A i \in 1..mark : stored[f][i] = progress[f].crc
         /\ f \in todo /\ progress[f] = Restarted(f) /\ progress[f].crc = Crc(f)
<1> USE DEF IInv, Support
<1>1. pc = "importing" /\ f \in active /\ f \in todo
  BY DEF Save, Importing, TypeOK
<1>2. progress[f] = Restarted(f) /\ progress[f].crc = Crc(f)
  BY <1>1 DEF InWave
<1>3. \A i \in 1..at[f] : stored[f][i] = Crc(f)
  <2>1. progress[f].mark = at[f]
    BY <1>2 DEF Restarted
  <2> QED BY <1>2, <2>1 DEF ProgressHonest
<1>4. \A i \in at[f]+1..mark : stored[f][i] = Crc(f)
  BY <1>1 DEF Save, Covered, InWave
<1>5. at[f] \in Nat /\ NumParts \in Nat
  BY DEF TypeOK
<1>6. \A i \in 1..mark : i \in 1..at[f] \/ i \in at[f]+1..mark
  BY <1>5
<1> QED BY <1>1, <1>2, <1>3, <1>4, <1>6

LEMMA HonestStep ==
  ASSUME IInv, [Next]_vars
  PROVE  ProgressHonest'
<1> USE DEF IInv, Support, origin, database, wave, run
<1>0. \A f \in Files : 1..progress[f].mark \subseteq Parts /\ progress[f].mark \in 0..NumParts
  <2>1. \A f \in Files : progress[f].mark \in 0..NumParts /\ NumParts \in Nat
    BY DEF TypeOK
  <2> QED BY <2>1 DEF Parts
<1>1. ASSUME UNCHANGED <<stored, progress>> PROVE ProgressHonest'
  BY <1>1 DEF ProgressHonest
<1>2. ASSUME NEW request \in late, Land(request) PROVE ProgressHonest'
  <2>1. PICK f \in Files, i \in Parts, c \in Crcs :
          request[1] = f /\ request[2] = i /\ request[3] = c
    BY DEF TypeOK
  <2>2. progress[f].crc = c
    BY <2>1 DEF LateContent
  <2>3. stored' = stored \/ stored' = Put(f, i, c)
    BY <1>2, <2>1 DEF Land, Put
  <2>4. CASE stored' = Put(f, i, c)
    <3>1. \A g \in Files, j \in Parts :
            stored'[g][j] = IF g = f /\ j = i THEN c ELSE stored[g][j]
      BY <2>4, PutAt
    <3>2. progress' = progress
      BY <1>2 DEF Land
    <3> QED BY <1>0, <2>2, <3>1, <3>2 DEF ProgressHonest
  <2>5. CASE stored' = stored
    BY <1>1, <1>2, <2>5 DEF Land
  <2> QED BY <2>3, <2>4, <2>5
<1>3. CASE InitFilesProgress
  <2>1. \A f \in todo : \A i \in 1..at[f] : stored[f][i] = Crc(f)
    BY <1>3 DEF InitFilesProgress, Planned
  <2>2. \A f \in Files : progress'[f] = IF f \in todo THEN Restarted(f) ELSE progress[f]
    BY <1>3 DEF InitFilesProgress
  <2>3. stored' = stored
    BY <1>3 DEF InitFilesProgress
  <2>4. ASSUME NEW f \in Files
        PROVE  /\ \A i \in 1..progress'[f].mark : stored[f][i] = progress'[f].crc
               /\ progress'[f].status = 0 => progress'[f].mark = NumParts
    <3>1. CASE f \in todo
      <4>1. progress'[f] = [crc |-> Crc(f), mark |-> at[f], status |-> 1]
        BY <2>2, <3>1 DEF Restarted
      <4>2. \A i \in 1..at[f] : stored[f][i] = Crc(f)
        BY <2>1, <3>1
      <4> QED BY <4>1, <4>2
    <3>2. CASE f \notin todo
      BY <2>2, <3>2 DEF ProgressHonest
    <3> QED BY <3>1, <3>2
  <2> QED BY <2>3, <2>4 DEF ProgressHonest
<1>4. ASSUME NEW f \in Files, NEW i \in Parts, Upload(f, i) PROVE ProgressHonest'
  <2>1. stored' = Put(f, i, Crc(f)) /\ progress' = progress
    BY <1>4 DEF Upload, Put
  <2>2. \A g \in Files, j \in Parts :
          stored'[g][j] = IF g = f /\ j = i THEN Crc(f) ELSE stored[g][j]
    BY <2>1, PutAt
  <2>3. progress[f].crc = Crc(f)
    BY <1>4 DEF Upload, Importing, InWave, TypeOK
  <2> QED BY <1>0, <2>1, <2>2, <2>3 DEF ProgressHonest
<1>5. ASSUME NEW f \in Files, NEW mark \in 0..NumParts, NEW status \in {0, 1},
             Save(f, mark, status)
      PROVE  ProgressHonest'
  <2>1. /\ progress'[f] = [crc |-> progress[f].crc, mark |-> mark, status |-> status]
        /\ \A g \in Files : g # f => progress'[g] = progress[g]
    BY <1>5, RowSaved
  <2>2. \A i \in 1..mark : stored[f][i] = progress[f].crc
    BY <1>5, CoveredStored
  <2>3. stored' = stored /\ (status = 0 => mark = NumParts)
    BY <1>5 DEF Save
  <2> QED BY <2>1, <2>2, <2>3 DEF ProgressHonest
<1>6. ASSUME NEW f \in Files, SaveNothing(f) PROVE ProgressHonest'
  <2>1. at[f] \in 0..NumParts
    BY DEF TypeOK
  <2> QED BY <1>5, <1>6, <2>1 DEF SaveNothing
<1>7. CASE Prepare
  BY <1>1, <1>3, <1>7 DEF Prepare, StartRun, Ask, Skip, Refetch, Plan
<1>8. CASE Import
  BY <1>1, <1>4, <1>5, <1>8 DEF Import, SaveFile, NextWave, EndRun, Complete, SetVersion
<1>9. CASE Fail
  BY <1>1, <1>5, <1>6, <1>9 DEF Fail, LoseSave, FailFile, Die
<1> QED BY <1>1, <1>2, <1>7, <1>8, <1>9 DEF Next, Publish, vars

-----------------------------------------------------------------------------
LEMMA InvInit == Init => IInv
<1> SUFFICES ASSUME Init PROVE IInv
  OBVIOUS
<1>1. TypeOK
  BY TypeInit
<1>2. Support
  BY DEF Init, Support, Stray, LateContent, Planned, InWave, OthersDone, Asked
<1>3. ProgressHonest
  BY DEF Init, ProgressHonest, NoRow
<1> QED BY <1>1, <1>2, <1>3 DEF IInv

LEMMA InvStep == IInv /\ [Next]_vars => IInv'
<1> SUFFICES ASSUME IInv, [Next]_vars PROVE IInv'
  OBVIOUS
<1>1. TypeOK'
  BY TypeStep DEF IInv
<1>2. Stray' /\ LateContent'
  BY StrayStep, LateContentStep DEF IInv, Support
<1>3. Planned' /\ InWave' /\ OthersDone' /\ Asked'
  BY PlannedStep, InWaveStep, OthersDoneStep, AskedStep DEF IInv, Support
<1>4. ProgressHonest'
  BY HonestStep
<1> QED BY <1>1, <1>2, <1>3, <1>4 DEF IInv, Support

LEMMA Invariance == Spec => []IInv
<1> QED BY InvInit, InvStep, PTL DEF Spec

(* The variables keep their types, for any feeds. *)
THEOREM TypeCorrect == Spec => []TypeOK
<1>1. IInv => TypeOK
  BY DEF IInv
<1> QED BY <1>1, Invariance, PTL

(* import_progress never claims what the tables do not hold, whatever the
   origin publishes, whatever fails, and whenever a late request lands
   (get_resume_state, init_files_progress, update_file_progress). *)
THEOREM ProgressIsHonest == Spec => []ProgressHonest
<1>1. IInv => ProgressHonest
  BY DEF IInv
<1> QED BY <1>1, Invariance, PTL

(* What is complete by its row is in the tables. *)
LEMMA DoneImported ==
  ASSUME TypeOK, ProgressHonest, NEW n \in DOMAIN feeds, Done(n)
  PROVE  Imported(n)
<1> SUFFICES ASSUME NEW f \in Files, feeds[n].crc[f] # None
             PROVE  stored[f] = [i \in Parts |-> feeds[n].crc[f]]
  BY DEF Imported
<1>1. progress[f].crc = feeds[n].crc[f] /\ progress[f].mark = NumParts
  BY DEF Done, ProgressHonest
<1>2. \A i \in Parts : stored[f][i] = feeds[n].crc[f]
  BY <1>1 DEF ProgressHonest, Parts
<1>3. stored[f] \in [Parts -> Crcs \cup {None}]
  BY DEF TypeOK
<1> QED BY <1>2, <1>3

LEMMA VersionStep ==
  ASSUME IInv, [Next]_vars, version' # version
  PROVE  SetVersion /\ Done(feed) /\ Imported(feed)
<1> USE DEF origin, database, wave, run
<1>1. SetVersion
  <2>1. CASE Prepare
    BY <2>1 DEF Prepare, StartRun, Ask, Skip, Refetch, Plan, InitFilesProgress
  <2>2. CASE Import
    BY <2>2 DEF Import, Upload, SaveFile, Save, NextWave, EndRun, Complete
  <2>3. CASE Fail
    <3>1. CASE Die
      BY <3>1 DEF Die
    <3>2. CASE ~Die
      BY <2>3, <3>2 DEF Fail, SaveNothing, LoseSave, Save, FailFile
    <3> QED BY <3>1, <3>2
  <2> QED BY <2>1, <2>2, <2>3 DEF Next, Publish, Land, vars
<1>2. Done(feed)
  BY <1>1 DEF SetVersion, IInv, Support, OthersDone
<1>3. feed \in DOMAIN feeds
  BY DEF IInv, TypeOK
<1> QED BY <1>1, <1>2, <1>3, DoneImported DEF IInv

(* A dataset version is recorded only when every file of the feed that was
   downloaded is in the tables (process_prepared_provider,
   set_dataset_version). *)
THEOREM VersionComesAfterFiles == Spec => VersionAfterFiles
<1>1. IInv /\ [Next]_vars => [version' # version => Imported(feed)]_vars
  BY VersionStep
<1> QED BY <1>1, Invariance, PTL DEF Spec, VersionAfterFiles

-----------------------------------------------------------------------------
(* Skipping *)

(* A row that a wave rewrites is not complete: if every feed since n has the
   content of n, then n is not complete either. *)
LEMMA VersionOfFeedStep ==
  ASSUME IInv, VersionOfFeed, [Next]_vars
  PROVE  VersionOfFeed'
<1> USE DEF IInv, Support, origin, database, wave, run
<1>0. /\ DOMAIN feeds = 1..Len(feeds) /\ Len(feeds) \in Nat
      /\ feed \in 1..Len(feeds) /\ published \in 1..Len(feeds) /\ feed <= published
  BY FeedType DEF TypeOK, Stray
<1>1. ASSUME UNCHANGED <<feeds, version, progress>>, feed' \in {feed, published}
      PROVE  VersionOfFeed'
  <2> SUFFICES ASSUME version # NoTag
               PROVE  \E n \in DOMAIN feeds :
                        /\ n <= feed' /\ feeds[n].tag = version
                        /\ (\A k \in n..feed' : feeds[k].crc = feeds[n].crc) => Done(n)
    BY <1>1 DEF VersionOfFeed, Done
  <2>1. PICK n \in DOMAIN feeds :
          /\ n <= feed /\ feeds[n].tag = version
          /\ (\A k \in n..feed : feeds[k].crc = feeds[n].crc) => Done(n)
    BY DEF VersionOfFeed
  <2>2. n \in Nat /\ feed' \in Nat /\ feed <= feed'
    BY <1>0, <1>1
  <2>3. n <= feed' /\ n..feed \subseteq n..feed'
    BY <1>0, <2>1, <2>2
  <2> QED BY <2>1, <2>3
<1>2. ASSUME UNCHANGED <<feeds, feed, version>>,
             NEW f \in Files, Crc(f) # None, ~Completed(f)
      PROVE  VersionOfFeed'
  <2> SUFFICES ASSUME version # NoTag
               PROVE  \E n \in DOMAIN feeds :
                        /\ n <= feed /\ feeds[n].tag = version
                        /\ (\A k \in n..feed : feeds[k].crc = feeds[n].crc) => Done(n)'
    BY <1>2 DEF VersionOfFeed
  <2>1. PICK n \in DOMAIN feeds :
          /\ n <= feed /\ feeds[n].tag = version
          /\ (\A k \in n..feed : feeds[k].crc = feeds[n].crc) => Done(n)
    BY DEF VersionOfFeed
  <2>2. feed \in n..feed
    BY <1>0, <2>1
  <2>3. ~(\A k \in n..feed : feeds[k].crc = feeds[n].crc)
    <3> SUFFICES ASSUME \A k \in n..feed : feeds[k].crc = feeds[n].crc PROVE FALSE
      OBVIOUS
    <3>1. feeds[feed].crc = feeds[n].crc /\ Done(n)
      BY <2>1, <2>2
    <3> QED BY <1>2, <3>1 DEF Done, Completed, SameContent, Crc
  <2> QED BY <2>1, <2>3
<1>3. CASE InitFilesProgress
  <2>1. PICK f \in todo : Crc(f) # None /\ ~Completed(f)
    BY <1>3 DEF InitFilesProgress, Planned
  <2>2. f \in Files
    BY DEF TypeOK
  <2> QED BY <1>2, <1>3, <2>1, <2>2 DEF InitFilesProgress
<1>4. ASSUME NEW f \in Files, NEW mark \in 0..NumParts, NEW status \in {0, 1},
             Save(f, mark, status)
      PROVE  VersionOfFeed'
  <2>1. progress[f] = Restarted(f) /\ f \in todo /\ pc = "importing"
    BY <1>4, CoveredStored DEF Save, Importing
  <2>2. Crc(f) # None /\ ~Completed(f)
    BY <2>1 DEF InWave, Restarted, Completed
  <2> QED BY <1>2, <1>4, <2>2 DEF Save
<1>5. ASSUME NEW f \in Files, SaveNothing(f) PROVE VersionOfFeed'
  <2>1. at[f] \in 0..NumParts
    BY DEF TypeOK
  <2> QED BY <1>4, <1>5, <2>1 DEF SaveNothing
<1>6. CASE SetVersion
  <2>1. Done(feed)
    BY <1>6 DEF SetVersion, OthersDone
  <2>2. CASE feeds[feed].tag = NoTag
    BY <1>1, <1>6, <2>2 DEF SetVersion
  <2>3. CASE feeds[feed].tag # NoTag
    <3>1. version' = feeds[feed].tag /\ UNCHANGED <<feeds, feed, progress>>
      BY <1>6, <2>3 DEF SetVersion
    <3>2. feed \in DOMAIN feeds /\ feed <= feed
      BY <1>0
    <3> QED BY <2>1, <3>1, <3>2 DEF VersionOfFeed, Done
  <2> QED BY <2>2, <2>3
<1>7. CASE Prepare
  BY <1>1, <1>3, <1>7 DEF Prepare, StartRun, Ask, Skip, Refetch, Plan
<1>8. CASE Import
  BY <1>1, <1>4, <1>6, <1>8 DEF Import, Upload, SaveFile, NextWave, EndRun, Complete
<1>9. CASE Fail
  BY <1>1, <1>4, <1>5, <1>9 DEF Fail, LoseSave, FailFile, Die
<1> QED BY <1>1, <1>7, <1>8, <1>9 DEF Next, Publish, Land, vars

LEMMA NothingUnrecordedStep ==
  ASSUME IInv, NothingUnrecorded, [Next]_vars
  PROVE  NothingUnrecorded'
<1> USE DEF IInv, Support, origin, database, wave, run
<1>0. failures \in Nat /\ todo \subseteq Files
  <2>1. MaxFailures[feeds] \in Nat
    BY DEF TypeOK
  <2> QED BY <2>1 DEF TypeOK
<1>1. ASSUME failures' # 0 PROVE NothingUnrecorded'
  BY <1>1 DEF NothingUnrecorded
<1>2. ASSUME UNCHANGED <<feeds, progress, version, todo, failures>>,
             pc' = pc \/ pc \notin {"importing", "versioning"}
      PROVE  NothingUnrecorded'
  <2>1. \A n \in DOMAIN feeds : Done(n)' <=> Done(n)
    BY <1>2 DEF Done
  <2> QED BY <1>2, <2>1 DEF NothingUnrecorded
<1>3. ASSUME pc' = "versioning" PROVE NothingUnrecorded'
  BY <1>3 DEF NothingUnrecorded
<1>4. ASSUME NEW f \in Files, progress'[f].crc # None, progress'[f].status = 1
      PROVE  NothingUnrecorded'
  BY <1>4 DEF NothingUnrecorded
<1>5. CASE Plan
  <2>1. CASE pc' = "versioning"
    BY <1>3, <2>1
  <2>2. CASE pc' # "versioning"
    <3>1. pc = "scanned" /\ UNCHANGED <<feeds, progress, version, failures>>
      BY <1>5 DEF Plan
    <3>2. \A n \in DOMAIN feeds : Done(n)' <=> Done(n)
      BY <3>1 DEF Done
    <3> QED BY <3>1, <3>2 DEF NothingUnrecorded
  <2> QED BY <2>1, <2>2
<1>6. CASE InitFilesProgress
  <2>1. PICK f \in todo : Crc(f) # None
    BY <1>6 DEF InitFilesProgress, Planned
  <2>2. progress'[f] = Restarted(f) /\ f \in Files
    BY <1>0, <1>6 DEF InitFilesProgress
  <2> QED BY <1>4, <2>1, <2>2 DEF Restarted
<1>7. ASSUME NEW f \in Files, NEW mark \in 0..NumParts, NEW status \in {0, 1},
             SaveFile(f, mark, status)
      PROVE  NothingUnrecorded'
  <2>0. Save(f, mark, status) /\ UNCHANGED failures
    BY <1>7 DEF SaveFile
  <2>1. /\ progress'[f] = [crc |-> progress[f].crc, mark |-> mark, status |-> status]
        /\ \A g \in Files : g # f => progress'[g] = progress[g]
    BY <2>0, RowSaved
  <2>2. pc = "importing" /\ pc' = pc /\ f \in todo
    BY <2>0, CoveredStored DEF Save, Importing
  <2>3. progress[f].crc # None
    BY <2>2 DEF InWave
  <2>4. CASE status = 1
    BY <1>4, <2>1, <2>3, <2>4
  <2>5. CASE status = 0 /\ todo' = {}
    BY <2>2, <2>5 DEF NothingUnrecorded
  <2>6. CASE status = 0 /\ todo' # {}
    <3>1. PICK g \in todo' : TRUE
      BY <2>6
    <3>2. g \in todo /\ g # f /\ g \in Files
      BY <1>0, <1>7, <2>6 DEF SaveFile
    <3>3. CASE failed
      BY <1>1, <2>0, <3>3 DEF Stray
    <3>4. CASE ~failed
      <4>1. progress[g] = Restarted(g) /\ Crc(g) # None
        BY <2>2, <3>2, <3>4 DEF InWave
      <4> QED BY <1>4, <2>1, <3>2, <4>1 DEF Restarted
    <3> QED BY <3>3, <3>4
  <2> QED BY <2>4, <2>5, <2>6
<1>8. CASE EndRun
  <2>1. CASE failed
    BY <1>1, <1>8, <2>1 DEF EndRun, Stray
  <2>2. CASE ~failed
    <3>1. PICK g \in todo : TRUE
      BY <1>8, <2>2 DEF EndRun
    <3>2. progress[g] = Restarted(g) /\ Crc(g) # None /\ g \in Files
      BY <1>0, <1>8, <2>2, <3>1 DEF EndRun, Returned, InWave
    <3>3. progress' = progress
      BY <1>8 DEF EndRun
    <3> QED BY <1>4, <3>2, <3>3 DEF Restarted
  <2> QED BY <2>1, <2>2
<1>9. CASE SetVersion
  <2>1. Done(feed) /\ feed \in DOMAIN feeds
    BY <1>9 DEF SetVersion, OthersDone, TypeOK
  <2>2. UNCHANGED <<feeds, feed, progress, failures>>
    BY <1>9 DEF SetVersion
  <2>3. feeds[feed].tag # NoTag => version' = feeds[feed].tag
    BY <1>9 DEF SetVersion
  <2> QED BY <2>1, <2>2, <2>3 DEF NothingUnrecorded, Done
<1>10. CASE Complete
  BY <1>3, <1>10 DEF Complete
<1>11. CASE Fail
  <2>1. failures' # 0
    BY <1>0, <1>11 DEF Fail, SaveNothing, LoseSave, FailFile, Die, Failure
  <2> QED BY <1>1, <2>1
<1>12. CASE StartRun \/ Ask \/ Skip \/ Refetch \/ NextWave \/ Publish \/ UNCHANGED vars
  BY <1>2, <1>12 DEF StartRun, Ask, Skip, Refetch, NextWave, Publish, vars
<1>13. ASSUME NEW f \in Files, NEW i \in Parts, Upload(f, i) PROVE NothingUnrecorded'
  BY <1>2, <1>13 DEF Upload
<1>14. ASSUME NEW request \in late, Land(request) PROVE NothingUnrecorded'
  BY <1>2, <1>14 DEF Land
<1> QED BY <1>5, <1>6, <1>7, <1>8, <1>9, <1>10, <1>11, <1>12, <1>13, <1>14
        DEF Next, Prepare, Import

(* When the feed that was not sent is the recorded version, it is complete. *)
LEMMA UnmodifiedDone ==
  ASSUME IInv, VersionOfFeed, NothingUnrecorded, SkipCondition,
         pc = "unmodified", UpToDate
  PROVE  Done(feed)
<1> USE DEF IInv, Support
<1>1. version # NoTag /\ feeds[feed].tag = version /\ feed \in DOMAIN feeds
  BY DEF Asked, TypeOK
<1>2. CASE NeverReturns
  <2>1. PICK n \in DOMAIN feeds :
          /\ n <= feed /\ feeds[n].tag = version
          /\ (\A k \in n..feed : feeds[k].crc = feeds[n].crc) => Done(n)
    BY <1>1 DEF VersionOfFeed
  <2>2. \A k \in n..feed : feeds[k].crc = feeds[n].crc
    BY <1>1, <1>2, <2>1 DEF NeverReturns
  <2>3. feed \in n..feed
    BY <1>1, <2>1, FeedType
  <2> QED BY <2>1, <2>2, <2>3 DEF Done
<1>3. CASE TaggedAndUnfailed
  <2>1. PICK n \in DOMAIN feeds : feeds[n].tag = version /\ Done(n)
    <3>1. \A f \in Files : progress[f].crc # None => progress[f].status = 0
      BY DEF UpToDate, Rows
    <3>2. \E f \in Files : progress[f].crc # None
      BY DEF UpToDate, Rows
    <3> QED BY <1>3, <3>1, <3>2 DEF NothingUnrecorded, TaggedAndUnfailed
  <2>2. feeds[n].crc = feeds[feed].crc
    BY <1>1, <1>3, <2>1 DEF TaggedAndUnfailed
  <2> QED BY <2>1, <2>2 DEF Done
<1> QED BY <1>2, <1>3 DEF SkipCondition

LEMMA FeedsFixed ==
  ASSUME [Next]_vars
  PROVE  feeds' = feeds /\ (failures' = failures \/ Failure)
<1> USE DEF origin, database, wave, run
<1>1. CASE Prepare
  BY <1>1 DEF Prepare, StartRun, Ask, Skip, Refetch, Plan, InitFilesProgress
<1>2. CASE Import
  BY <1>2 DEF Import, Upload, SaveFile, Save, NextWave, EndRun, Complete, SetVersion
<1>3. CASE Fail
  <2>1. CASE Die
    BY <2>1 DEF Die
  <2>2. CASE ~Die
    BY <1>3, <2>2 DEF Fail, SaveNothing, LoseSave, Save, FailFile
  <2> QED BY <2>1, <2>2
<1> QED BY <1>1, <1>2, <1>3 DEF Next, Publish, Land, vars

(* A provider that was skipped stays so until the next run, and nothing writes
   to its tables. *)
LEMMA SkippedStays ==
  ASSUME Stray, [Next]_vars, pc' = "skipped"
  PROVE  Skip \/ (pc = "skipped" /\ UNCHANGED <<feed, stored>>)
<1> USE DEF origin, database, wave, run
<1>1. CASE Prepare
  BY <1>1 DEF Prepare, StartRun, Ask, Refetch, Plan, InitFilesProgress
<1>2. CASE Import
  BY <1>2 DEF Import, Upload, SaveFile, Save, Importing, NextWave, Returned, EndRun,
              Complete, SetVersion
<1>3. CASE Fail
  <2>1. CASE Die
    BY <2>1 DEF Die
  <2>2. CASE ~Die
    BY <1>3, <2>2 DEF Fail, SaveNothing, LoseSave, Save, Importing, FailFile
  <2> QED BY <2>1, <2>2
<1>4. ASSUME NEW request \in late, Land(request) PROVE FALSE
  BY <1>4 DEF Land, Stray
<1> QED BY <1>1, <1>2, <1>3, <1>4 DEF Next, Publish, vars

LEMMA SkipStep ==
  ASSUME IInv, VersionOfFeed, NothingUnrecorded, SkipIsSafeIf, [Next]_vars
  PROVE  SkipIsSafeIf'
<1> USE DEF origin, database, wave, run
<1> SUFFICES ASSUME pc' = "skipped", SkipCondition' PROVE Imported(feed)'
  BY DEF SkipIsSafeIf, SkipIsSafe
<1>1. UNCHANGED feeds /\ (failures' = 0 => failures = 0)
  <2>1. failures \in Nat
    <3>1. MaxFailures[feeds] \in Nat
      BY DEF IInv, TypeOK
    <3> QED BY <3>1 DEF IInv, TypeOK
  <2>2. feeds' = feeds /\ (failures' = failures \/ Failure)
    BY FeedsFixed
  <2> QED BY <2>1, <2>2 DEF Failure
<1>2. SkipCondition
  BY <1>1 DEF SkipCondition, NeverReturns, TaggedAndUnfailed
<1>3. CASE Skip
  <2>1. pc = "unmodified" /\ UpToDate /\ UNCHANGED <<feeds, feed, stored>>
    BY <1>3 DEF Skip
  <2>2. Imported(feed)
    BY <1>2, <2>1, UnmodifiedDone, DoneImported DEF IInv, TypeOK
  <2> QED BY <2>1, <2>2 DEF Imported
<1>4. CASE pc = "skipped" /\ UNCHANGED <<feed, stored>>
  <2>1. Imported(feed)
    BY <1>2, <1>4 DEF SkipIsSafeIf, SkipIsSafe
  <2> QED BY <1>1, <1>4, <2>1 DEF Imported
<1> QED BY <1>3, <1>4, SkippedStays DEF IInv, Support

(* A provider is skipped only if the tables hold the feed that was not sent,
   provided that the origin does not go back to a tag after other content -
   or, if it does, that every feed has a tag of its own content and nothing
   has failed (prepare_provider).  Without that condition it is false: see
   ProviderSyncWithdrawn. *)
THEOREM SkippingIsSafe == Spec => [](SkipCondition => SkipIsSafe)
<1> DEFINE J == IInv /\ VersionOfFeed /\ NothingUnrecorded /\ SkipIsSafeIf
<1>1. Init => J
  <2> SUFFICES ASSUME Init PROVE VersionOfFeed /\ NothingUnrecorded /\ SkipIsSafeIf
    BY InvInit
  <2> QED BY DEF Init, VersionOfFeed, NothingUnrecorded, SkipIsSafeIf, SkipIsSafe, NoRow
<1>2. J /\ [Next]_vars => J'
  BY InvStep, VersionOfFeedStep, NothingUnrecordedStep, SkipStep
<1>3. J => (SkipCondition => SkipIsSafe)
  BY DEF SkipIsSafeIf
<1> QED BY <1>1, <1>2, <1>3, PTL DEF Spec

(* What the configuration of a run may say of an origin: it does not go back to
   a tag after other content; or it tags every feed, each content differently,
   and nothing fails *)
NothingWithdrawn ==
  \A h \in Histories :
    \/ \A i, j \in DOMAIN h : h[i].tag # NoTag /\ h[i].tag = h[j].tag =>
         \A k \in i..j : h[k].crc = h[i].crc
    \/ /\ MaxFailures[h] = 0
       /\ \A i \in DOMAIN h : h[i].tag # NoTag
       /\ \A i, j \in DOMAIN h : h[i].tag = h[j].tag => h[i].crc = h[j].crc

(* Of origins like those of the run provider_sync, a provider is never skipped
   while a file of the feed that was not sent is missing from the tables. *)
THEOREM SkipIsSafeHolds ==
  ASSUME NothingWithdrawn
  PROVE  Spec => []SkipIsSafe
<1>1. TypeOK => SkipCondition
  <2> SUFFICES ASSUME TypeOK PROVE SkipCondition
    OBVIOUS
  <2>1. feeds \in Histories
    BY DEF TypeOK
  <2>2. ASSUME MaxFailures[feeds] = 0 PROVE failures = 0
    BY <2>2 DEF TypeOK
  <2> QED BY <2>1, <2>2 DEF NothingWithdrawn, SkipCondition, NeverReturns, TaggedAndUnfailed
<1> QED BY <1>1, TypeCorrect, SkippingIsSafe, PTL
=============================================================================

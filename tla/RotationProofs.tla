---------------------------- MODULE RotationProofs ----------------------------
(***************************************************************************)
(* Correctness of rotation for any number of providers, limit of databases *)
(* and number of faults.                                                   *)
(***************************************************************************)
EXTENDS Rotation, FiniteSetTheorems, TLAPS

(* Stages in which a task holds the lock *)
Holding == {"counting", "creating", "setup", "deleting"}

Unrotated == {"checking", "waiting"} \cup Holding

Control ==
  /\ \A p \in Providers : task[p] \in Holding => lock = p
  /\ \A p \in Providers : new[p] # None <=> task[p] \in {"setup", "deleting"}
  /\ phase # "importing" => \A p \in Providers : task[p] = "none"
  /\ task[BudgetProvider] \notin Holding \cup {"waiting"}

(* The count on which a creation rests is still good: only the holder of the
   lock adds databases. *)
Room ==
  /\ IsFiniteSet(account)
  /\ WithinAccount
  /\ \A p \in Providers : task[p] = "creating" => Cardinality(account) < MaxDatabases

(* The working directory is ahead of the main branch by one rotation of a
   provider at most. *)
Versions ==
  /\ database = checkout.database
  /\ repo.retired \subseteq checkout.retired
  /\ checkout.retired \subseteq Recorded(repo)
  /\ \A p \in Providers :
       /\ repo.database[p] \in Recorded(checkout)
       /\ task[p] \in Unrotated => checkout.database[p] = repo.database[p]
  /\ repo.database[BudgetProvider] = checkout.database[BudgetProvider]
  /\ phase = "deploying" => checkout = repo

Fresh ==
  /\ Recorded(checkout) \subseteq created
  /\ \A p \in Providers : new[p] # None => new[p] \in account \ Recorded(checkout)

IInv ==
  /\ TypeOK /\ Control /\ Room /\ Versions /\ Fresh
  /\ Usable(repo) /\ Usable(checkout)
  /\ NothingUnrecorded

-----------------------------------------------------------------------------
(* Every action preserves the invariant. *)

LEMMA InitInv == Init => IInv
<1> SUFFICES ASSUME Init PROVE IInv
  OBVIOUS
<1> USE RotationAssumption
<1> DEFINE Some == {First[p] : p \in Providers}
<1>1. IsFiniteSet(Some) /\ Cardinality(Some) <= Cardinality(Providers)
  <2>1. First \in Surjection(Providers, Some)
    BY DEF Surjection
  <2> QED BY <2>1, FS_Surjection
<1>2. TypeOK
  BY DEF TypeOK, Init, Documents, Tasks
<1>3. Control
  BY DEF Init, Control, Holding
<1>4. Room
  <2>1. Cardinality(Some) \in Nat /\ Cardinality(Providers) \in Nat
    BY <1>1, FS_CardinalityType
  <2> QED BY <1>1, <2>1 DEF Init, Room, WithinAccount
<1>5. Versions /\ Fresh
  BY DEF Init, Versions, Fresh, Recorded, Named, Unrotated, Holding
<1>6. Usable(repo) /\ Usable(checkout)
  BY DEF Init, Usable
<1>7. NothingUnrecorded
  BY DEF Init, NothingUnrecorded, Recorded, Named
<1> QED BY <1>2, <1>3, <1>4, <1>5, <1>6, <1>7 DEF IInv

(* TypeOK: what a task created, or a push lost, was created. *)
LEMMA TypeStep == TypeOK /\ Control /\ Fresh /\ [Next]_vars => TypeOK'
<1> SUFFICES ASSUME TypeOK /\ Control /\ Fresh, [Next]_vars PROVE TypeOK'
  OBVIOUS
<1> USE RotationAssumption DEF TypeOK, Control, Fresh, Recorded, Named, Documents, Tasks
<1>1. ASSUME NEW p \in Providers, Keep(p) PROVE TypeOK'
  BY <1>1 DEF Keep, Check, Move, databases, files, tasks
<1>2. ASSUME NEW p \in Providers, RefuseBudget(p) PROVE TypeOK'
  BY <1>2 DEF RefuseBudget, Check, Move, databases, files, tasks
<1>3. ASSUME NEW p \in Providers, WantRotation(p) PROVE TypeOK'
  BY <1>3 DEF WantRotation, Check, Move, databases, files, tasks
<1>4. ASSUME NEW p \in Providers, TakeLock(p) PROVE TypeOK'
  BY <1>4 DEF TakeLock, Free, Move, databases, files, tasks
<1>5. ASSUME NEW p \in Providers, Count(p) PROVE TypeOK'
  BY <1>5 DEF Count, Move, databases, files, tasks
<1>6. ASSUME NEW p \in Providers, TooMany(p) PROVE TypeOK'
  BY <1>6 DEF TooMany, Return, Move, databases, files, tasks
<1>7. ASSUME NEW p \in Providers, NEW d \in Ids, Create(p, d) PROVE TypeOK'
  BY <1>7 DEF Create, NewDatabase, Move, databases, files, tasks
<1>8. ASSUME NEW p \in Providers, ApplySchema(p) PROVE TypeOK'
  BY <1>8 DEF ApplySchema, databases, files, tasks
<1>9. ASSUME NEW p \in Providers, Persist(p) PROVE TypeOK'
  BY <1>9 DEF Persist, Return, Move, Rotated, SchemaDone, databases, files, tasks
<1>10. ASSUME NEW p \in Providers, Delete(p) PROVE TypeOK'
  BY <1>10 DEF Delete, Return, Move, WithoutOrphan, databases, files, tasks
<1>11. ASSUME NEW p \in Providers, FailCheck(p) PROVE TypeOK'
  BY <1>11 DEF FailCheck, Check, Move, Fault, databases, files, tasks
<1>12. ASSUME NEW p \in Providers, FailCount(p) PROVE TypeOK'
  BY <1>12 DEF FailCount, Return, Move, Fault, databases, files, tasks
<1>13. ASSUME NEW p \in Providers, FailCreate(p) PROVE TypeOK'
  BY <1>13 DEF FailCreate, Return, Move, Fault, databases, files, tasks
<1>14. ASSUME NEW p \in Providers, NEW d \in Ids, CreateUnseen(p, d) PROVE TypeOK'
  BY <1>14 DEF CreateUnseen, NewDatabase, Return, Move, Fault, databases, files, tasks
<1>15. ASSUME NEW p \in Providers, FailSetup(p) PROVE TypeOK'
  BY <1>15 DEF FailSetup, Move, Fault, databases, files, tasks
<1>16. ASSUME NEW p \in Providers, FailDelete(p) PROVE TypeOK'
  BY <1>16 DEF FailDelete, Return, Move, Fault, databases, files, tasks
<1>17. CASE StartRun
  BY <1>17 DEF StartRun, databases, files, tasks
<1>18. CASE Exit
  BY <1>18 DEF Exit, EndImporter, databases, files, tasks
<1>19. CASE NoRotation
  BY <1>19 DEF NoRotation, Publish, Changed, databases, files, tasks
<1>20. CASE Push
  BY <1>20 DEF Push, Publish, Changed, databases, files, tasks
<1>21. CASE Deploy
  BY <1>21 DEF Deploy, Publish, databases, files, tasks
<1>22. CASE Crash
  BY <1>22 DEF Crash, EndImporter, Fault, InProgress, databases, files, tasks
<1>23. CASE CrashRunner
  BY <1>23 DEF CrashRunner, EndImporter, Fault, InProgress, Unpushed, databases, files, tasks
<1>24. CASE FailPush
  BY <1>24 DEF FailPush, Publish, Changed, Fault, Unpushed, databases, files, tasks
<1>25. CASE FailDeploy
  BY <1>25 DEF FailDeploy, Publish, Fault, databases, files, tasks
<1>26. ASSUME NEW d \in Ids, Archive(d) PROVE TypeOK'
  BY <1>26 DEF Archive, databases, files, tasks
<1>27. CASE UNCHANGED vars
  BY <1>27 DEF vars, databases, files, tasks
<1> QED
  BY <1>1, <1>2, <1>3, <1>4, <1>5, <1>6, <1>7, <1>8, <1>9, <1>10, <1>11, <1>12, <1>13, <1>14,
     <1>15, <1>16, <1>17, <1>18, <1>19, <1>20, <1>21, <1>22, <1>23, <1>24, <1>25, <1>26, <1>27
  DEF Next, Rotate, FailRotation, Steps, Fail

(* Only the holder of the lock is past TakeLock, and has a new database. *)
LEMMA ControlStep == TypeOK /\ Control /\ [Next]_vars => Control'
<1> SUFFICES ASSUME TypeOK /\ Control, [Next]_vars PROVE Control'
  OBVIOUS
<1> USE RotationAssumption DEF TypeOK, Control, Tasks, Holding
<1>1. ASSUME NEW p \in Providers, Keep(p) PROVE Control'
  BY <1>1 DEF Keep, Check, Move, databases, files, tasks
<1>2. ASSUME NEW p \in Providers, RefuseBudget(p) PROVE Control'
  BY <1>2 DEF RefuseBudget, Check, Move, databases, files, tasks
<1>3. ASSUME NEW p \in Providers, WantRotation(p) PROVE Control'
  BY <1>3 DEF WantRotation, Check, Move, databases, files, tasks
<1>4. ASSUME NEW p \in Providers, TakeLock(p) PROVE Control'
  BY <1>4 DEF TakeLock, Free, Move, databases, files, tasks
<1>5. ASSUME NEW p \in Providers, Count(p) PROVE Control'
  BY <1>5 DEF Count, Move, databases, files, tasks
<1>6. ASSUME NEW p \in Providers, TooMany(p) PROVE Control'
  BY <1>6 DEF TooMany, Return, Move, databases, files, tasks
<1>7. ASSUME NEW p \in Providers, NEW d \in Ids, Create(p, d) PROVE Control'
  BY <1>7 DEF Create, NewDatabase, Move, databases, files, tasks
<1>8. ASSUME NEW p \in Providers, ApplySchema(p) PROVE Control'
  BY <1>8 DEF ApplySchema, databases, files, tasks
<1>9. ASSUME NEW p \in Providers, Persist(p) PROVE Control'
  BY <1>9 DEF Persist, Return, Move, Rotated, SchemaDone, databases, files, tasks
<1>10. ASSUME NEW p \in Providers, Delete(p) PROVE Control'
  BY <1>10 DEF Delete, Return, Move, WithoutOrphan, databases, files, tasks
<1>11. ASSUME NEW p \in Providers, FailCheck(p) PROVE Control'
  BY <1>11 DEF FailCheck, Check, Move, Fault, databases, files, tasks
<1>12. ASSUME NEW p \in Providers, FailCount(p) PROVE Control'
  BY <1>12 DEF FailCount, Return, Move, Fault, databases, files, tasks
<1>13. ASSUME NEW p \in Providers, FailCreate(p) PROVE Control'
  BY <1>13 DEF FailCreate, Return, Move, Fault, databases, files, tasks
<1>14. ASSUME NEW p \in Providers, NEW d \in Ids, CreateUnseen(p, d) PROVE Control'
  BY <1>14 DEF CreateUnseen, NewDatabase, Return, Move, Fault, databases, files, tasks
<1>15. ASSUME NEW p \in Providers, FailSetup(p) PROVE Control'
  BY <1>15 DEF FailSetup, Move, Fault, databases, files, tasks
<1>16. ASSUME NEW p \in Providers, FailDelete(p) PROVE Control'
  BY <1>16 DEF FailDelete, Return, Move, Fault, databases, files, tasks
<1>17. CASE StartRun
  BY <1>17 DEF StartRun, databases, files, tasks
<1>18. CASE Exit
  BY <1>18 DEF Exit, EndImporter, databases, files, tasks
<1>19. CASE NoRotation
  BY <1>19 DEF NoRotation, Publish, Changed, databases, files, tasks
<1>20. CASE Push
  BY <1>20 DEF Push, Publish, Changed, databases, files, tasks
<1>21. CASE Deploy
  BY <1>21 DEF Deploy, Publish, databases, files, tasks
<1>22. CASE Crash
  BY <1>22 DEF Crash, EndImporter, Fault, InProgress, databases, files, tasks
<1>23. CASE CrashRunner
  BY <1>23 DEF CrashRunner, EndImporter, Fault, InProgress, Unpushed, databases, files, tasks
<1>24. CASE FailPush
  BY <1>24 DEF FailPush, Publish, Changed, Fault, Unpushed, databases, files, tasks
<1>25. CASE FailDeploy
  BY <1>25 DEF FailDeploy, Publish, Fault, databases, files, tasks
<1>26. ASSUME NEW d \in Ids, Archive(d) PROVE Control'
  BY <1>26 DEF Archive, databases, files, tasks
<1>27. CASE UNCHANGED vars
  BY <1>27 DEF vars, databases, files, tasks
<1> QED
  BY <1>1, <1>2, <1>3, <1>4, <1>5, <1>6, <1>7, <1>8, <1>9, <1>10, <1>11, <1>12, <1>13, <1>14,
     <1>15, <1>16, <1>17, <1>18, <1>19, <1>20, <1>21, <1>22, <1>23, <1>24, <1>25, <1>26, <1>27
  DEF Next, Rotate, FailRotation, Steps, Fail

(* A set gains and loses one member at a time. *)
LEMMA OneMore ==
  ASSUME NEW S, IsFiniteSet(S), NEW x
  PROVE  /\ IsFiniteSet(S \cup {x})
         /\ Cardinality(S) \in Nat /\ Cardinality(S \cup {x}) \in Nat
         /\ Cardinality(S \cup {x}) <= Cardinality(S) + 1
<1>1. IsFiniteSet(S \cup {x})
  BY FS_AddElement
<1>2. Cardinality(S) \in Nat /\ Cardinality(S \cup {x}) \in Nat
  BY <1>1, FS_CardinalityType
<1>3. Cardinality(S \cup {x}) = IF x \in S THEN Cardinality(S) ELSE Cardinality(S) + 1
  BY FS_AddElement
<1> QED BY <1>1, <1>2, <1>3

LEMMA OneLess ==
  ASSUME NEW S, IsFiniteSet(S), NEW x
  PROVE  /\ IsFiniteSet(S \ {x})
         /\ Cardinality(S) \in Nat /\ Cardinality(S \ {x}) \in Nat
         /\ Cardinality(S \ {x}) <= Cardinality(S)
<1>1. IsFiniteSet(S \ {x})
  BY FS_RemoveElement
<1>2. Cardinality(S) \in Nat /\ Cardinality(S \ {x}) \in Nat
  BY <1>1, FS_CardinalityType
<1>3. Cardinality(S \ {x}) = IF x \in S THEN Cardinality(S) - 1 ELSE Cardinality(S)
  BY FS_RemoveElement
<1> QED BY <1>1, <1>2, <1>3

(* A task that has counted creates into the room it counted. *)
LEMMA RoomStep == TypeOK /\ Control /\ Room /\ [Next]_vars => Room'
<1> SUFFICES ASSUME TypeOK /\ Control /\ Room, [Next]_vars PROVE Room'
  OBVIOUS
<1> USE RotationAssumption DEF TypeOK, Control, Room, WithinAccount, Holding
<1>1. ASSUME NEW p \in Providers, Keep(p) PROVE Room'
  BY <1>1 DEF Keep, Check, Move, databases, files, tasks
<1>2. ASSUME NEW p \in Providers, RefuseBudget(p) PROVE Room'
  BY <1>2 DEF RefuseBudget, Check, Move, databases, files, tasks
<1>3. ASSUME NEW p \in Providers, WantRotation(p) PROVE Room'
  BY <1>3 DEF WantRotation, Check, Move, databases, files, tasks
<1>4. ASSUME NEW p \in Providers, TakeLock(p) PROVE Room'
  BY <1>4 DEF TakeLock, Free, Move, databases, files, tasks
<1>5. ASSUME NEW p \in Providers, Count(p) PROVE Room'
  BY <1>5 DEF Count, Move, databases, files, tasks
<1>6. ASSUME NEW p \in Providers, TooMany(p) PROVE Room'
  BY <1>6 DEF TooMany, Return, Move, databases, files, tasks
<1>7. ASSUME NEW p \in Providers, NEW d \in Ids, Create(p, d) PROVE Room'
  <2>1. /\ IsFiniteSet(account \cup {d})
        /\ Cardinality(account) \in Nat /\ Cardinality(account \cup {d}) \in Nat
        /\ Cardinality(account \cup {d}) <= Cardinality(account) + 1
    BY OneMore
  <2>2. account' = account \cup {d}
    BY <1>7 DEF Create, NewDatabase, Move, databases, files, tasks
  <2>3. (IsFiniteSet(account) /\ WithinAccount)'
    BY <1>7, <2>1, <2>2 DEF Create, NewDatabase, Move, databases, files, tasks
  <2>4. \A q \in Providers : task'[q] = "creating" => task[q] = "creating" /\ lock = q
    BY <1>7 DEF Create, NewDatabase, Move, databases, files, tasks
  <2>5. ASSUME NEW q \in Providers, task'[q] = "creating" PROVE Cardinality(account') < MaxDatabases
    BY <1>7, <2>1, <2>2, <2>4, <2>5 DEF Create, NewDatabase, Move, databases, files, tasks
  <2> QED BY <2>3, <2>5
<1>8. ASSUME NEW p \in Providers, ApplySchema(p) PROVE Room'
  BY <1>8 DEF ApplySchema, databases, files, tasks
<1>9. ASSUME NEW p \in Providers, Persist(p) PROVE Room'
  BY <1>9 DEF Persist, Return, Move, Rotated, SchemaDone, databases, files, tasks
<1>10. ASSUME NEW p \in Providers, Delete(p) PROVE Room'
  <2>1. /\ IsFiniteSet(account \ {new[p]})
        /\ Cardinality(account) \in Nat /\ Cardinality(account \ {new[p]}) \in Nat
        /\ Cardinality(account \ {new[p]}) <= Cardinality(account)
    BY OneLess
  <2>2. account' = account \ {new[p]}
    BY <1>10 DEF Delete, Return, Move, WithoutOrphan, databases, files, tasks
  <2>3. (IsFiniteSet(account) /\ WithinAccount)'
    BY <1>10, <2>1, <2>2 DEF Delete, Return, Move, WithoutOrphan, databases, files, tasks
  <2>4. \A q \in Providers : task'[q] = "creating" => task[q] = "creating" /\ lock = q
    BY <1>10 DEF Delete, Return, Move, WithoutOrphan, databases, files, tasks
  <2>5. ASSUME NEW q \in Providers, task'[q] = "creating" PROVE Cardinality(account') < MaxDatabases
    BY <1>10, <2>1, <2>2, <2>4, <2>5 DEF Delete, Return, Move, WithoutOrphan, databases, files, tasks
  <2> QED BY <2>3, <2>5
<1>11. ASSUME NEW p \in Providers, FailCheck(p) PROVE Room'
  BY <1>11 DEF FailCheck, Check, Move, Fault, databases, files, tasks
<1>12. ASSUME NEW p \in Providers, FailCount(p) PROVE Room'
  BY <1>12 DEF FailCount, Return, Move, Fault, databases, files, tasks
<1>13. ASSUME NEW p \in Providers, FailCreate(p) PROVE Room'
  BY <1>13 DEF FailCreate, Return, Move, Fault, databases, files, tasks
<1>14. ASSUME NEW p \in Providers, NEW d \in Ids, CreateUnseen(p, d) PROVE Room'
  <2>1. /\ IsFiniteSet(account \cup {d})
        /\ Cardinality(account) \in Nat /\ Cardinality(account \cup {d}) \in Nat
        /\ Cardinality(account \cup {d}) <= Cardinality(account) + 1
    BY OneMore
  <2>2. account' = account \cup {d}
    BY <1>14 DEF CreateUnseen, NewDatabase, Return, Move, Fault, databases, files, tasks
  <2>3. (IsFiniteSet(account) /\ WithinAccount)'
    BY <1>14, <2>1, <2>2 DEF CreateUnseen, NewDatabase, Return, Move, Fault, databases, files, tasks
  <2>4. \A q \in Providers : task'[q] = "creating" => task[q] = "creating" /\ lock = q
    BY <1>14 DEF CreateUnseen, NewDatabase, Return, Move, Fault, databases, files, tasks
  <2>5. ASSUME NEW q \in Providers, task'[q] = "creating" PROVE Cardinality(account') < MaxDatabases
    BY <1>14, <2>1, <2>2, <2>4, <2>5 DEF CreateUnseen, NewDatabase, Return, Move, Fault, databases, files, tasks
  <2> QED BY <2>3, <2>5
<1>15. ASSUME NEW p \in Providers, FailSetup(p) PROVE Room'
  BY <1>15 DEF FailSetup, Move, Fault, databases, files, tasks
<1>16. ASSUME NEW p \in Providers, FailDelete(p) PROVE Room'
  BY <1>16 DEF FailDelete, Return, Move, Fault, databases, files, tasks
<1>17. CASE StartRun
  BY <1>17 DEF StartRun, databases, files, tasks
<1>18. CASE Exit
  BY <1>18 DEF Exit, EndImporter, databases, files, tasks
<1>19. CASE NoRotation
  BY <1>19 DEF NoRotation, Publish, Changed, databases, files, tasks
<1>20. CASE Push
  BY <1>20 DEF Push, Publish, Changed, databases, files, tasks
<1>21. CASE Deploy
  BY <1>21 DEF Deploy, Publish, databases, files, tasks
<1>22. CASE Crash
  BY <1>22 DEF Crash, EndImporter, Fault, InProgress, databases, files, tasks
<1>23. CASE CrashRunner
  BY <1>23 DEF CrashRunner, EndImporter, Fault, InProgress, Unpushed, databases, files, tasks
<1>24. CASE FailPush
  BY <1>24 DEF FailPush, Publish, Changed, Fault, Unpushed, databases, files, tasks
<1>25. CASE FailDeploy
  BY <1>25 DEF FailDeploy, Publish, Fault, databases, files, tasks
<1>26. ASSUME NEW d \in Ids, Archive(d) PROVE Room'
  <2>1. /\ IsFiniteSet(account \ {d})
        /\ Cardinality(account) \in Nat /\ Cardinality(account \ {d}) \in Nat
        /\ Cardinality(account \ {d}) <= Cardinality(account)
    BY OneLess
  <2>2. account' = account \ {d}
    BY <1>26 DEF Archive, databases, files, tasks
  <2>3. (IsFiniteSet(account) /\ WithinAccount)'
    BY <1>26, <2>1, <2>2 DEF Archive, databases, files, tasks
  <2>4. \A q \in Providers : task'[q] = "creating" => task[q] = "creating" /\ lock = q
    BY <1>26 DEF Archive, databases, files, tasks
  <2>5. ASSUME NEW q \in Providers, task'[q] = "creating" PROVE Cardinality(account') < MaxDatabases
    BY <1>26, <2>1, <2>2, <2>4, <2>5 DEF Archive, databases, files, tasks
  <2> QED BY <2>3, <2>5
<1>27. CASE UNCHANGED vars
  BY <1>27 DEF vars, databases, files, tasks
<1> QED
  BY <1>1, <1>2, <1>3, <1>4, <1>5, <1>6, <1>7, <1>8, <1>9, <1>10, <1>11, <1>12, <1>13, <1>14,
     <1>15, <1>16, <1>17, <1>18, <1>19, <1>20, <1>21, <1>22, <1>23, <1>24, <1>25, <1>26, <1>27
  DEF Next, Rotate, FailRotation, Steps, Fail

(* The working directory moves ahead of the main branch, one rotation of a
   provider at a time, and the main branch moves to it. *)
LEMMA VersionsStep == TypeOK /\ Control /\ Versions /\ [Next]_vars => Versions'
<1> SUFFICES ASSUME TypeOK /\ Control /\ Versions, [Next]_vars PROVE Versions'
  OBVIOUS
<1> USE RotationAssumption DEF TypeOK, Documents, Control, Versions, Unrotated, Recorded, Named, Holding
<1>1. ASSUME NEW p \in Providers, Keep(p) PROVE Versions'
  BY <1>1 DEF Keep, Check, Move, databases, files, tasks
<1>2. ASSUME NEW p \in Providers, RefuseBudget(p) PROVE Versions'
  BY <1>2 DEF RefuseBudget, Check, Move, databases, files, tasks
<1>3. ASSUME NEW p \in Providers, WantRotation(p) PROVE Versions'
  BY <1>3 DEF WantRotation, Check, Move, databases, files, tasks
<1>4. ASSUME NEW p \in Providers, TakeLock(p) PROVE Versions'
  BY <1>4 DEF TakeLock, Free, Move, databases, files, tasks
<1>5. ASSUME NEW p \in Providers, Count(p) PROVE Versions'
  BY <1>5 DEF Count, Move, databases, files, tasks
<1>6. ASSUME NEW p \in Providers, TooMany(p) PROVE Versions'
  BY <1>6 DEF TooMany, Return, Move, databases, files, tasks
<1>7. ASSUME NEW p \in Providers, NEW d \in Ids, Create(p, d) PROVE Versions'
  BY <1>7 DEF Create, NewDatabase, Move, databases, files, tasks
<1>8. ASSUME NEW p \in Providers, ApplySchema(p) PROVE Versions'
  BY <1>8 DEF ApplySchema, databases, files, tasks
<1>9. ASSUME NEW p \in Providers, Persist(p) PROVE Versions'
  BY <1>9 DEF Persist, Return, Move, Rotated, SchemaDone, databases, files, tasks
<1>10. ASSUME NEW p \in Providers, Delete(p) PROVE Versions'
  BY <1>10 DEF Delete, Return, Move, WithoutOrphan, databases, files, tasks
<1>11. ASSUME NEW p \in Providers, FailCheck(p) PROVE Versions'
  BY <1>11 DEF FailCheck, Check, Move, Fault, databases, files, tasks
<1>12. ASSUME NEW p \in Providers, FailCount(p) PROVE Versions'
  BY <1>12 DEF FailCount, Return, Move, Fault, databases, files, tasks
<1>13. ASSUME NEW p \in Providers, FailCreate(p) PROVE Versions'
  BY <1>13 DEF FailCreate, Return, Move, Fault, databases, files, tasks
<1>14. ASSUME NEW p \in Providers, NEW d \in Ids, CreateUnseen(p, d) PROVE Versions'
  BY <1>14 DEF CreateUnseen, NewDatabase, Return, Move, Fault, databases, files, tasks
<1>15. ASSUME NEW p \in Providers, FailSetup(p) PROVE Versions'
  BY <1>15 DEF FailSetup, Move, Fault, databases, files, tasks
<1>16. ASSUME NEW p \in Providers, FailDelete(p) PROVE Versions'
  BY <1>16 DEF FailDelete, Return, Move, Fault, databases, files, tasks
<1>17. CASE StartRun
  BY <1>17 DEF StartRun, databases, files, tasks
<1>18. CASE Exit
  BY <1>18 DEF Exit, EndImporter, databases, files, tasks
<1>19. CASE NoRotation
  BY <1>19 DEF NoRotation, Publish, Changed, databases, files, tasks
<1>20. CASE Push
  BY <1>20 DEF Push, Publish, Changed, databases, files, tasks
<1>21. CASE Deploy
  BY <1>21 DEF Deploy, Publish, databases, files, tasks
<1>22. CASE Crash
  BY <1>22 DEF Crash, EndImporter, Fault, InProgress, databases, files, tasks
<1>23. CASE CrashRunner
  BY <1>23 DEF CrashRunner, EndImporter, Fault, InProgress, Unpushed, databases, files, tasks
<1>24. CASE FailPush
  BY <1>24 DEF FailPush, Publish, Changed, Fault, Unpushed, databases, files, tasks
<1>25. CASE FailDeploy
  BY <1>25 DEF FailDeploy, Publish, Fault, databases, files, tasks
<1>26. ASSUME NEW d \in Ids, Archive(d) PROVE Versions'
  BY <1>26 DEF Archive, databases, files, tasks
<1>27. CASE UNCHANGED vars
  BY <1>27 DEF vars, databases, files, tasks
<1> QED
  BY <1>1, <1>2, <1>3, <1>4, <1>5, <1>6, <1>7, <1>8, <1>9, <1>10, <1>11, <1>12, <1>13, <1>14,
     <1>15, <1>16, <1>17, <1>18, <1>19, <1>20, <1>21, <1>22, <1>23, <1>24, <1>25, <1>26, <1>27
  DEF Next, Rotate, FailRotation, Steps, Fail

(* A database in progress is not yet recorded. *)
LEMMA FreshStep == TypeOK /\ Control /\ Versions /\ Fresh /\ [Next]_vars => Fresh'
<1> SUFFICES ASSUME TypeOK /\ Control /\ Versions /\ Fresh, [Next]_vars PROVE Fresh'
  OBVIOUS
<1> USE RotationAssumption DEF TypeOK, Documents, Control, Versions, Fresh, Recorded, Named, Holding
<1>1. ASSUME NEW p \in Providers, Keep(p) PROVE Fresh'
  BY <1>1 DEF Keep, Check, Move, databases, files, tasks
<1>2. ASSUME NEW p \in Providers, RefuseBudget(p) PROVE Fresh'
  BY <1>2 DEF RefuseBudget, Check, Move, databases, files, tasks
<1>3. ASSUME NEW p \in Providers, WantRotation(p) PROVE Fresh'
  BY <1>3 DEF WantRotation, Check, Move, databases, files, tasks
<1>4. ASSUME NEW p \in Providers, TakeLock(p) PROVE Fresh'
  BY <1>4 DEF TakeLock, Free, Move, databases, files, tasks
<1>5. ASSUME NEW p \in Providers, Count(p) PROVE Fresh'
  BY <1>5 DEF Count, Move, databases, files, tasks
<1>6. ASSUME NEW p \in Providers, TooMany(p) PROVE Fresh'
  BY <1>6 DEF TooMany, Return, Move, databases, files, tasks
<1>7. ASSUME NEW p \in Providers, NEW d \in Ids, Create(p, d) PROVE Fresh'
  BY <1>7 DEF Create, NewDatabase, Move, databases, files, tasks
<1>8. ASSUME NEW p \in Providers, ApplySchema(p) PROVE Fresh'
  BY <1>8 DEF ApplySchema, databases, files, tasks
<1>9. ASSUME NEW p \in Providers, Persist(p) PROVE Fresh'
  BY <1>9 DEF Persist, Return, Move, Rotated, SchemaDone, databases, files, tasks
<1>10. ASSUME NEW p \in Providers, Delete(p) PROVE Fresh'
  BY <1>10 DEF Delete, Return, Move, WithoutOrphan, databases, files, tasks
<1>11. ASSUME NEW p \in Providers, FailCheck(p) PROVE Fresh'
  BY <1>11 DEF FailCheck, Check, Move, Fault, databases, files, tasks
<1>12. ASSUME NEW p \in Providers, FailCount(p) PROVE Fresh'
  BY <1>12 DEF FailCount, Return, Move, Fault, databases, files, tasks
<1>13. ASSUME NEW p \in Providers, FailCreate(p) PROVE Fresh'
  BY <1>13 DEF FailCreate, Return, Move, Fault, databases, files, tasks
<1>14. ASSUME NEW p \in Providers, NEW d \in Ids, CreateUnseen(p, d) PROVE Fresh'
  BY <1>14 DEF CreateUnseen, NewDatabase, Return, Move, Fault, databases, files, tasks
<1>15. ASSUME NEW p \in Providers, FailSetup(p) PROVE Fresh'
  BY <1>15 DEF FailSetup, Move, Fault, databases, files, tasks
<1>16. ASSUME NEW p \in Providers, FailDelete(p) PROVE Fresh'
  BY <1>16 DEF FailDelete, Return, Move, Fault, databases, files, tasks
<1>17. CASE StartRun
  BY <1>17 DEF StartRun, databases, files, tasks
<1>18. CASE Exit
  BY <1>18 DEF Exit, EndImporter, databases, files, tasks
<1>19. CASE NoRotation
  BY <1>19 DEF NoRotation, Publish, Changed, databases, files, tasks
<1>20. CASE Push
  BY <1>20 DEF Push, Publish, Changed, databases, files, tasks
<1>21. CASE Deploy
  BY <1>21 DEF Deploy, Publish, databases, files, tasks
<1>22. CASE Crash
  BY <1>22 DEF Crash, EndImporter, Fault, InProgress, databases, files, tasks
<1>23. CASE CrashRunner
  BY <1>23 DEF CrashRunner, EndImporter, Fault, InProgress, Unpushed, databases, files, tasks
<1>24. CASE FailPush
  BY <1>24 DEF FailPush, Publish, Changed, Fault, Unpushed, databases, files, tasks
<1>25. CASE FailDeploy
  BY <1>25 DEF FailDeploy, Publish, Fault, databases, files, tasks
<1>26. ASSUME NEW d \in Ids, Archive(d) PROVE Fresh'
  BY <1>26 DEF Archive, databases, files, tasks
<1>27. CASE UNCHANGED vars
  BY <1>27 DEF vars, databases, files, tasks
<1> QED
  BY <1>1, <1>2, <1>3, <1>4, <1>5, <1>6, <1>7, <1>8, <1>9, <1>10, <1>11, <1>12, <1>13, <1>14,
     <1>15, <1>16, <1>17, <1>18, <1>19, <1>20, <1>21, <1>22, <1>23, <1>24, <1>25, <1>26, <1>27
  DEF Next, Rotate, FailRotation, Steps, Fail

(* Deletions spare what is named: a task deletes what it created, and the
   operator what the main branch has retired. *)
LEMMA UsableStep == TypeOK /\ Control /\ Versions /\ Fresh /\ Usable(repo) /\ Usable(checkout) /\ [Next]_vars => (Usable(repo) /\ Usable(checkout))'
<1> SUFFICES ASSUME TypeOK /\ Control /\ Versions /\ Fresh /\ Usable(repo) /\ Usable(checkout), [Next]_vars PROVE (Usable(repo) /\ Usable(checkout))'
  OBVIOUS
<1> USE RotationAssumption DEF TypeOK, Documents, Control, Versions, Fresh, Usable, Recorded, Named, Holding
<1>1. ASSUME NEW p \in Providers, Keep(p) PROVE (Usable(repo) /\ Usable(checkout))'
  BY <1>1 DEF Keep, Check, Move, databases, files, tasks
<1>2. ASSUME NEW p \in Providers, RefuseBudget(p) PROVE (Usable(repo) /\ Usable(checkout))'
  BY <1>2 DEF RefuseBudget, Check, Move, databases, files, tasks
<1>3. ASSUME NEW p \in Providers, WantRotation(p) PROVE (Usable(repo) /\ Usable(checkout))'
  BY <1>3 DEF WantRotation, Check, Move, databases, files, tasks
<1>4. ASSUME NEW p \in Providers, TakeLock(p) PROVE (Usable(repo) /\ Usable(checkout))'
  BY <1>4 DEF TakeLock, Free, Move, databases, files, tasks
<1>5. ASSUME NEW p \in Providers, Count(p) PROVE (Usable(repo) /\ Usable(checkout))'
  BY <1>5 DEF Count, Move, databases, files, tasks
<1>6. ASSUME NEW p \in Providers, TooMany(p) PROVE (Usable(repo) /\ Usable(checkout))'
  BY <1>6 DEF TooMany, Return, Move, databases, files, tasks
<1>7. ASSUME NEW p \in Providers, NEW d \in Ids, Create(p, d) PROVE (Usable(repo) /\ Usable(checkout))'
  BY <1>7 DEF Create, NewDatabase, Move, databases, files, tasks
<1>8. ASSUME NEW p \in Providers, ApplySchema(p) PROVE (Usable(repo) /\ Usable(checkout))'
  BY <1>8 DEF ApplySchema, databases, files, tasks
<1>9. ASSUME NEW p \in Providers, Persist(p) PROVE (Usable(repo) /\ Usable(checkout))'
  BY <1>9 DEF Persist, Return, Move, Rotated, SchemaDone, databases, files, tasks
<1>10. ASSUME NEW p \in Providers, Delete(p) PROVE (Usable(repo) /\ Usable(checkout))'
  BY <1>10 DEF Delete, Return, Move, WithoutOrphan, databases, files, tasks
<1>11. ASSUME NEW p \in Providers, FailCheck(p) PROVE (Usable(repo) /\ Usable(checkout))'
  BY <1>11 DEF FailCheck, Check, Move, Fault, databases, files, tasks
<1>12. ASSUME NEW p \in Providers, FailCount(p) PROVE (Usable(repo) /\ Usable(checkout))'
  BY <1>12 DEF FailCount, Return, Move, Fault, databases, files, tasks
<1>13. ASSUME NEW p \in Providers, FailCreate(p) PROVE (Usable(repo) /\ Usable(checkout))'
  BY <1>13 DEF FailCreate, Return, Move, Fault, databases, files, tasks
<1>14. ASSUME NEW p \in Providers, NEW d \in Ids, CreateUnseen(p, d) PROVE (Usable(repo) /\ Usable(checkout))'
  BY <1>14 DEF CreateUnseen, NewDatabase, Return, Move, Fault, databases, files, tasks
<1>15. ASSUME NEW p \in Providers, FailSetup(p) PROVE (Usable(repo) /\ Usable(checkout))'
  BY <1>15 DEF FailSetup, Move, Fault, databases, files, tasks
<1>16. ASSUME NEW p \in Providers, FailDelete(p) PROVE (Usable(repo) /\ Usable(checkout))'
  BY <1>16 DEF FailDelete, Return, Move, Fault, databases, files, tasks
<1>17. CASE StartRun
  BY <1>17 DEF StartRun, databases, files, tasks
<1>18. CASE Exit
  BY <1>18 DEF Exit, EndImporter, databases, files, tasks
<1>19. CASE NoRotation
  BY <1>19 DEF NoRotation, Publish, Changed, databases, files, tasks
<1>20. CASE Push
  BY <1>20 DEF Push, Publish, Changed, databases, files, tasks
<1>21. CASE Deploy
  BY <1>21 DEF Deploy, Publish, databases, files, tasks
<1>22. CASE Crash
  BY <1>22 DEF Crash, EndImporter, Fault, InProgress, databases, files, tasks
<1>23. CASE CrashRunner
  BY <1>23 DEF CrashRunner, EndImporter, Fault, InProgress, Unpushed, databases, files, tasks
<1>24. CASE FailPush
  BY <1>24 DEF FailPush, Publish, Changed, Fault, Unpushed, databases, files, tasks
<1>25. CASE FailDeploy
  BY <1>25 DEF FailDeploy, Publish, Fault, databases, files, tasks
<1>26. ASSUME NEW d \in Ids, Archive(d) PROVE (Usable(repo) /\ Usable(checkout))'
  BY <1>26 DEF Archive, databases, files, tasks
<1>27. CASE UNCHANGED vars
  BY <1>27 DEF vars, databases, files, tasks
<1> QED
  BY <1>1, <1>2, <1>3, <1>4, <1>5, <1>6, <1>7, <1>8, <1>9, <1>10, <1>11, <1>12, <1>13, <1>14,
     <1>15, <1>16, <1>17, <1>18, <1>19, <1>20, <1>21, <1>22, <1>23, <1>24, <1>25, <1>26, <1>27
  DEF Next, Rotate, FailRotation, Steps, Fail

(* A database leaves the working directory's record only by a fault, which
   counts it as lost. *)
LEMMA RecordedStep == TypeOK /\ Control /\ Versions /\ NothingUnrecorded /\ [Next]_vars => NothingUnrecorded'
<1> SUFFICES ASSUME TypeOK /\ Control /\ Versions /\ NothingUnrecorded, [Next]_vars PROVE NothingUnrecorded'
  OBVIOUS
<1> USE RotationAssumption DEF TypeOK, Documents, Control, Versions, NothingUnrecorded, Recorded, Named, InProgress, Holding
<1>1. ASSUME NEW p \in Providers, Keep(p) PROVE NothingUnrecorded'
  BY <1>1 DEF Keep, Check, Move, databases, files, tasks
<1>2. ASSUME NEW p \in Providers, RefuseBudget(p) PROVE NothingUnrecorded'
  BY <1>2 DEF RefuseBudget, Check, Move, databases, files, tasks
<1>3. ASSUME NEW p \in Providers, WantRotation(p) PROVE NothingUnrecorded'
  BY <1>3 DEF WantRotation, Check, Move, databases, files, tasks
<1>4. ASSUME NEW p \in Providers, TakeLock(p) PROVE NothingUnrecorded'
  BY <1>4 DEF TakeLock, Free, Move, databases, files, tasks
<1>5. ASSUME NEW p \in Providers, Count(p) PROVE NothingUnrecorded'
  BY <1>5 DEF Count, Move, databases, files, tasks
<1>6. ASSUME NEW p \in Providers, TooMany(p) PROVE NothingUnrecorded'
  BY <1>6 DEF TooMany, Return, Move, databases, files, tasks
<1>7. ASSUME NEW p \in Providers, NEW d \in Ids, Create(p, d) PROVE NothingUnrecorded'
  BY <1>7 DEF Create, NewDatabase, Move, databases, files, tasks
<1>8. ASSUME NEW p \in Providers, ApplySchema(p) PROVE NothingUnrecorded'
  BY <1>8 DEF ApplySchema, databases, files, tasks
<1>9. ASSUME NEW p \in Providers, Persist(p) PROVE NothingUnrecorded'
  BY <1>9 DEF Persist, Return, Move, Rotated, SchemaDone, databases, files, tasks
<1>10. ASSUME NEW p \in Providers, Delete(p) PROVE NothingUnrecorded'
  BY <1>10 DEF Delete, Return, Move, WithoutOrphan, databases, files, tasks
<1>11. ASSUME NEW p \in Providers, FailCheck(p) PROVE NothingUnrecorded'
  BY <1>11 DEF FailCheck, Check, Move, Fault, databases, files, tasks
<1>12. ASSUME NEW p \in Providers, FailCount(p) PROVE NothingUnrecorded'
  BY <1>12 DEF FailCount, Return, Move, Fault, databases, files, tasks
<1>13. ASSUME NEW p \in Providers, FailCreate(p) PROVE NothingUnrecorded'
  BY <1>13 DEF FailCreate, Return, Move, Fault, databases, files, tasks
<1>14. ASSUME NEW p \in Providers, NEW d \in Ids, CreateUnseen(p, d) PROVE NothingUnrecorded'
  BY <1>14 DEF CreateUnseen, NewDatabase, Return, Move, Fault, databases, files, tasks
<1>15. ASSUME NEW p \in Providers, FailSetup(p) PROVE NothingUnrecorded'
  BY <1>15 DEF FailSetup, Move, Fault, databases, files, tasks
<1>16. ASSUME NEW p \in Providers, FailDelete(p) PROVE NothingUnrecorded'
  BY <1>16 DEF FailDelete, Return, Move, Fault, databases, files, tasks
<1>17. CASE StartRun
  BY <1>17 DEF StartRun, databases, files, tasks
<1>18. CASE Exit
  <2>1. \A p \in Providers : new[p] = None
    BY <1>18 DEF Exit, EndImporter, databases, files, tasks
  <2>2. InProgress = {}
    BY <2>1
  <2>3. account' \ lost' \subseteq Recorded(repo') \cup Recorded(checkout')
    BY <1>18, <2>2 DEF Exit, EndImporter, databases, files, tasks
  <2>4. phase' /= "idle"
    BY <1>18 DEF Exit, EndImporter, databases, files, tasks
  <2> QED BY <2>3, <2>4
<1>19. CASE NoRotation
  BY <1>19 DEF NoRotation, Publish, Changed, databases, files, tasks
<1>20. CASE Push
  BY <1>20 DEF Push, Publish, Changed, databases, files, tasks
<1>21. CASE Deploy
  BY <1>21 DEF Deploy, Publish, databases, files, tasks
<1>22. CASE Crash
  BY <1>22 DEF Crash, EndImporter, Fault, InProgress, databases, files, tasks
<1>23. CASE CrashRunner
  BY <1>23 DEF CrashRunner, EndImporter, Fault, InProgress, Unpushed, databases, files, tasks
<1>24. CASE FailPush
  BY <1>24 DEF FailPush, Publish, Changed, Fault, Unpushed, databases, files, tasks
<1>25. CASE FailDeploy
  BY <1>25 DEF FailDeploy, Publish, Fault, databases, files, tasks
<1>26. ASSUME NEW d \in Ids, Archive(d) PROVE NothingUnrecorded'
  BY <1>26 DEF Archive, databases, files, tasks
<1>27. CASE UNCHANGED vars
  BY <1>27 DEF vars, databases, files, tasks
<1> QED
  BY <1>1, <1>2, <1>3, <1>4, <1>5, <1>6, <1>7, <1>8, <1>9, <1>10, <1>11, <1>12, <1>13, <1>14,
     <1>15, <1>16, <1>17, <1>18, <1>19, <1>20, <1>21, <1>22, <1>23, <1>24, <1>25, <1>26, <1>27
  DEF Next, Rotate, FailRotation, Steps, Fail

(* Together they are inductive. *)
LEMMA InvStep == IInv /\ [Next]_vars => IInv'
BY TypeStep, ControlStep, RoomStep, VersionsStep, FreshStep, UsableStep, RecordedStep DEF IInv

LEMMA Invariance == Spec => []IInv
BY InitInv, InvStep, PTL DEF Spec

-----------------------------------------------------------------------------
(* Rotation stays within its types, for any number of providers. *)
THEOREM TypeCorrect == Spec => []TypeOK
<1>1. IInv => TypeOK
  BY DEF IInv
<1> QED BY <1>1, Invariance, PTL

(* Providers that rotate concurrently never pass the limit of the account. *)
THEOREM WithinAccountHolds == Spec => []WithinAccount
<1>1. IInv => WithinAccount
  BY DEF IInv, Room
<1> QED BY <1>1, Invariance, PTL

(* Whatever fails, providers.toml names a complete database of its own for
   each provider, on the main branch and in the working directory. *)
THEOREM NamedUsableHolds == Spec => []NamedUsable
<1>1. IInv => NamedUsable
  BY DEF IInv, NamedUsable, Versions
<1> QED BY <1>1, Invariance, PTL

(* Only faults take a database out of sight. *)
THEOREM NothingUnrecordedHolds == Spec => []NothingUnrecorded
<1>1. IInv => NothingUnrecorded
  BY DEF IInv
<1> QED BY <1>1, Invariance, PTL

(* A step changes the main branch only by a push, and the working directory
   records all that the main branch does. *)
LEMMA HistoryStep ==
  IInv /\ [Next]_vars =>
    /\ Recorded(repo) \subseteq Recorded(repo')
    /\ repo'.database[BudgetProvider] = repo.database[BudgetProvider]
<1> SUFFICES ASSUME IInv, [Next]_vars
             PROVE  /\ Recorded(repo) \subseteq Recorded(repo')
                    /\ repo'.database[BudgetProvider] = repo.database[BudgetProvider]
  OBVIOUS
<1>1. CASE repo' = repo
  BY <1>1
<1>2. CASE Push
  BY <1>2, RotationAssumption DEF Push, IInv, TypeOK, Documents, Versions, Recorded, Named
<1>3. repo' = repo \/ Push
  <2>1. CASE UNCHANGED vars
    BY <2>1 DEF vars, files
  <2>2. CASE Next
    BY <2>2 DEF Next, Rotate, FailRotation, Steps, Fail, files, databases, tasks,
         Keep, RefuseBudget, WantRotation, Check, TakeLock, Count, TooMany, Create,
         ApplySchema, Persist, Delete, FailCheck, FailCount, FailCreate,
         CreateUnseen, FailSetup, FailDelete, StartRun, Exit, EndImporter,
         NoRotation, Deploy, Crash, CrashRunner, FailPush, FailDeploy, Archive
  <2> QED BY <2>1, <2>2
<1> QED BY <1>1, <1>2, <1>3

(* What the main branch once recorded it records for ever, and the ledger's
   database keeps its place. *)
THEOREM HistoryKeptHolds == Spec => HistoryKept
<1>1. IInv /\ [Next]_vars =>
        [/\ Recorded(repo) \subseteq Recorded(repo')
         /\ repo'.database[BudgetProvider] = repo.database[BudgetProvider]]_vars
  BY HistoryStep
<1> QED BY <1>1, Invariance, PTL DEF Spec, HistoryKept
=============================================================================

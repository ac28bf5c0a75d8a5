------------------------- MODULE ParallelHashProofs -------------------------
(***************************************************************************)
(* Proofs about ParallelHash, for every set of tables, any number of pages *)
(* and any limit: type correctness, and the safety properties.  That the   *)
(* call returns is a liveness property, which TLC checks.                  *)
(***************************************************************************)
EXTENDS ParallelHash, FiniteSetTheorems, FunctionTheorems, TLAPS

(***************************************************************************)
(* The inductive invariant.                                                *)
(***************************************************************************)

Running == {t \in Tables : at[t] \notin {"start", "done"}}

\* Each running goroutine has one permit, and there are `limit` of them.
Pool ==
    /\ permits = Cardinality(Running)
    /\ permits <= limit

\* What a goroutine has read when it is there.
Progress ==
    \A t \in Tables :
        /\ at[t] \in {"start", "page"} => left[t] > 0
        /\ at[t] \in {"lock", "storing"} => left[t] = 0
        /\ at[t] = "done" => first # "none" \/ (t \in results /\ left[t] = 0)

\* The group's error is of a table, and cancels the context.
Errors ==
    /\ cancelled <=> first # "none"
    /\ first # "cancelled"
    /\ outcome # "none" => /\ \A t \in Tables : at[t] = "done"
                           /\ outcome = "ok" <=> first = "none"

\* Who writes to `results` has the mutex.
Exclusive == \A t \in Tables : at[t] = "storing" <=> mu = t

SavingLabels == {"update", "changing", "marshalling", "writing", "rename",
                 "remove"}

\* Without a manager nobody saves.
SavesOnlyIf == \A t \in Tables : at[t] \in SavingLabels => saving

\* One at a time, a goroutine finds the temporary file as it has left it.
Sequential ==
    limit = 1 =>
        /\ content[file] = "whole"
        /\ tmp # file
        /\ \A t \in Tables :
            /\ at[t] = "writing" =>
                   fd[t] = tmp /\ tmp # NoFile /\ content[tmp] = "empty"
            /\ at[t] = "rename" => tmp # NoFile /\ content[tmp] = "whole"

ParallelInv ==
    /\ ParallelTypeOK
    /\ Pool
    /\ Progress
    /\ Errors
    /\ Exclusive
    /\ SavesOnlyIf
    /\ Sequential
    /\ RacesOnlyInCheckpoint

(***************************************************************************)
(* The pool.                                                               *)
(***************************************************************************)

\* There are finitely many running goroutines.
LEMMA RunningFinite == IsFiniteSet(Running) /\ Cardinality(Running) \in Nat
<1>1. Running \in SUBSET Tables
  BY DEF Running
<1>2. IsFiniteSet(Running)
  BY <1>1, FS_Subset, ParallelAssumption
<1>3. QED
  BY <1>2, FS_CardinalityType

\* A goroutine that moves on within its function keeps its permit.
LEMMA StaysRunning ==
    ASSUME at \in [Tables -> Labels], NEW t \in Tables, NEW l,
           at[t] \notin {"start", "done"}, l \notin {"start", "done"},
           GoTo(t, l)
    PROVE  Running' = Running
  BY DEF Running, GoTo

\* One that gets a permit is new among the running.
LEMMA StartsRunning ==
    ASSUME at \in [Tables -> Labels], NEW t \in Tables, at[t] = "start",
           GoTo(t, "page")
    PROVE  Cardinality(Running') = Cardinality(Running) + 1
<1>1. Running' = Running \cup {t} /\ t \notin Running
  BY DEF Running, GoTo
<1>2. QED
  BY <1>1, RunningFinite, FS_AddElement

\* One that returns leaves the running.
LEMMA StopsRunning ==
    ASSUME at \in [Tables -> Labels], NEW t \in Tables,
           at[t] \notin {"start", "done"}, GoTo(t, "done")
    PROVE  Cardinality(Running') = Cardinality(Running) - 1
<1>1. Running' = Running \ {t} /\ t \in Running
  BY DEF Running, GoTo
<1>2. QED
  BY <1>1, RunningFinite, FS_RemoveElement

\* With one permit, only one goroutine runs.
LEMMA Alone ==
    ASSUME ParallelTypeOK, Pool, limit = 1, NEW t \in Running, NEW u \in Running
    PROVE  t = u
<1>1. Cardinality(Running) <= 1
  BY DEF Pool
<1>2. Running # {}
  OBVIOUS
<1>3. Cardinality(Running) = 1
  BY <1>1, <1>2, RunningFinite, FS_EmptySet
<1>4. PICK x : Running = {x}
  BY <1>3, RunningFinite, FS_Singleton
<1>5. QED
  BY <1>4

(***************************************************************************)
(* The steps of a goroutine, sorted by what they do to the pool.           *)
(***************************************************************************)

\* The steps between Acquire and Return.
Middle(t) ==
    \/ ReadPage(t)
    \/ ChangeState(t)
    \/ Marshal(t)
    \/ OpenTemp(t)
    \/ WriteTemp(t)
    \/ SaveFails(t)
    \/ Rename(t)
    \/ RenameFails(t)
    \/ RemoveTemp(t)
    \/ Lock(t)

\* Such a step keeps the goroutine running, and leaves the group alone.
LEMMA MiddleMoves ==
    ASSUME at \in [Tables -> Labels], NEW t \in Tables, Middle(t)
    PROVE  /\ at[t] \notin {"start", "done"}
           /\ \E l \in Labels \ {"start", "done"} : GoTo(t, l)
           /\ UNCHANGED <<limit, saving, permits, cancelled, first, results,
                          outcome>>
<1> USE DEF Labels, group
<1>1. CASE ReadPage(t)
  <2>1. \E l \in {"update", "page", "lock"} : GoTo(t, l)
    BY <1>1 DEF ReadPage
  <2>2. QED
    BY <1>1, <2>1 DEF ReadPage
<1>2. CASE ChangeState(t)
  BY <1>2 DEF ChangeState, Enter
<1>3. CASE Marshal(t)
  BY <1>3 DEF Marshal, Enter
<1>4. CASE OpenTemp(t)
  BY <1>4 DEF OpenTemp
<1>5. CASE WriteTemp(t)
  BY <1>5 DEF WriteTemp
<1>6. ASSUME Updated(t)
      PROVE  \E l \in {"page", "lock", "update"} : GoTo(t, l)
  BY <1>6 DEF Updated
<1>7. CASE SaveFails(t)
  BY <1>6, <1>7 DEF SaveFails, Updated
<1>8. CASE Rename(t)
  BY <1>6, <1>8 DEF Rename, Updated
<1>9. CASE RenameFails(t)
  BY <1>9 DEF RenameFails
<1>10. CASE RemoveTemp(t)
  BY <1>6, <1>10 DEF RemoveTemp, Updated
<1>11. CASE Lock(t)
  BY <1>11 DEF Lock, Enter
<1>12. QED
  BY <1>1, <1>2, <1>3, <1>4, <1>5, <1>7, <1>8, <1>9, <1>10, <1>11 DEF Middle

\* Every step is one of six.
LEMMA Steps ==
    ASSUME [ParallelNext]_parallelVars
    PROVE  \/ UNCHANGED parallelVars
           \/ Wait
           \/ \E t \in Tables : \/ Acquire(t)
                                \/ GiveUp(t)
                                \/ PageFails(t)
                                \/ Middle(t)
                                \/ Store(t)
  BY DEF ParallelNext, Goroutine, Middle

\* A step of the code between Acquire and Return, or any other, keeps the count.
LEMMA PoolStep ==
    ASSUME ParallelTypeOK, Pool, [ParallelNext]_parallelVars
    PROVE  Pool' /\ permits' \in Nat
<1> USE DEF ParallelTypeOK
<1>1. CASE UNCHANGED parallelVars
  BY <1>1 DEF Pool, Running, parallelVars, group
<1>2. CASE Wait
  BY <1>2 DEF Pool, Running, Wait, group
<1>3. ASSUME NEW t \in Tables, Acquire(t) PROVE Pool' /\ permits' \in Nat
  BY <1>3, StartsRunning DEF Pool, Acquire
<1>4. ASSUME NEW t \in Tables, GiveUp(t) PROVE Pool' /\ permits' \in Nat
  <2>1. Running' = Running
    BY <1>4 DEF GiveUp, GoTo, Running
  <2>2. QED
    BY <1>4, <2>1 DEF Pool, GiveUp
<1>5. ASSUME NEW t \in Tables, NEW e, at[t] \notin {"start", "done"},
             Return(t, e), limit' = limit
      PROVE  Pool' /\ permits' \in Nat
  <2>1. Cardinality(Running') = Cardinality(Running) - 1
    BY <1>5, StopsRunning DEF Return
  <2>2. Cardinality(Running') \in Nat
    <3>1. Running' \in SUBSET Tables
      BY DEF Running
    <3>2. QED
      BY <3>1, FS_Subset, FS_CardinalityType, ParallelAssumption
  <2>3. QED
    BY <1>5, <2>1, <2>2 DEF Pool, Return
<1>6. ASSUME NEW t \in Tables, PageFails(t) PROVE Pool' /\ permits' \in Nat
  BY <1>5, <1>6 DEF PageFails
<1>7. ASSUME NEW t \in Tables, Store(t) PROVE Pool' /\ permits' \in Nat
  BY <1>5, <1>7 DEF Store
<1>8. ASSUME NEW t \in Tables, Middle(t) PROVE Pool' /\ permits' \in Nat
  <2>1. Running' = Running
    BY <1>8, MiddleMoves, StaysRunning
  <2>2. QED
    BY <1>8, <2>1, MiddleMoves DEF Pool
<1>9. QED
  BY <1>1, <1>2, <1>3, <1>4, <1>6, <1>7, <1>8, Steps

(***************************************************************************)
(* Types.                                                                  *)
(***************************************************************************)

\* One more element makes a set at most one larger.
LEMMA OneMore ==
    ASSUME NEW S, IsFiniteSet(S), NEW x, NEW n \in Nat, Cardinality(S) <= n
    PROVE  IsFiniteSet(S \cup {x}) /\ Cardinality(S \cup {x}) <= n + 1
<1>1. Cardinality(S) \in Nat
  BY FS_CardinalityType
<1>2. QED
  BY <1>1, FS_AddElement

\* A file system of Inodes never runs out of them.
LEMMA FreeInode ==
    ASSUME ParallelTypeOK
    PROVE  Inodes \ ({file, tmp} \cup {fd[u] : u \in Tables}) # {}
<1> DEFINE open == {fd[u] : u \in Tables}
           n == Cardinality(Tables)
<1>1. IsFiniteSet(Tables) /\ n \in Nat
  BY ParallelAssumption, FS_CardinalityType
<1>2. fd \in Surjection(Tables, open)
  BY DEF Surjection, ParallelTypeOK
<1>3. IsFiniteSet(open) /\ Cardinality(open) <= n
  BY <1>1, <1>2, FS_Surjection
<1> HIDE DEF open
<1>4. /\ IsFiniteSet(open \cup {file})
      /\ Cardinality(open \cup {file}) <= n + 1
  BY <1>1, <1>3, OneMore
<1>5. /\ IsFiniteSet((open \cup {file}) \cup {tmp})
      /\ Cardinality((open \cup {file}) \cup {tmp}) <= n + 2
  <2>1. n + 1 \in Nat /\ (n + 1) + 1 = n + 2
    BY <1>1
  <2>2. QED
    BY <1>4, <2>1, OneMore
<1>6. IsFiniteSet(Inodes) /\ Cardinality(Inodes) = n + 3
  BY <1>1, FS_Interval DEF Inodes
<1>7. CASE Inodes \subseteq (open \cup {file}) \cup {tmp}
  <2>1. Cardinality(Inodes) <= Cardinality((open \cup {file}) \cup {tmp})
    BY <1>5, <1>7, FS_Subset
  <2>2. Cardinality((open \cup {file}) \cup {tmp}) \in Nat
    BY <1>5, FS_CardinalityType
  <2>3. QED
    BY <1>1, <1>5, <1>6, <2>1, <2>2
<1>8. QED
  BY <1>7 DEF open

\* Opening the temporary path opens the file there, or a new one.
LEMMA OpensInode ==
    ASSUME ParallelTypeOK, NEW t \in Tables, OpenTemp(t)
    PROVE  \E i \in Inodes :
               /\ tmp # NoFile => i = tmp
               /\ tmp = NoFile => i # file
               /\ tmp' = i
               /\ fd' = [fd EXCEPT ![t] = i]
               /\ content' = [content EXCEPT ![i] = "empty"]
<1> DEFINE unused == Inodes \ ({file, tmp} \cup {fd[u] : u \in Tables})
           inode == IF tmp # NoFile THEN tmp ELSE CHOOSE i \in unused : TRUE
<1>1. inode \in Inodes /\ (tmp = NoFile => inode \in unused)
  BY FreeInode DEF ParallelTypeOK
<1>2. /\ tmp' = inode
      /\ fd' = [fd EXCEPT ![t] = inode]
      /\ content' = [content EXCEPT ![inode] = "empty"]
  BY DEF OpenTemp
<1>3. QED
  BY <1>1, <1>2

\* What Update leaves of a goroutine.
LEMMA UpdatedType ==
    ASSUME ParallelTypeOK, NEW t \in Tables, Updated(t)
    PROVE  /\ at' \in [Tables -> Labels]
           /\ last' \in [Tables -> BOOLEAN]
           /\ fd' \in [Tables -> Inodes \cup {NoFile}]
           /\ UNCHANGED <<limit, saving, left, group, results, mu, outcome,
                          crashed>>
<1>1. at' \in [Tables -> Labels]
  BY DEF Updated, GoTo, ParallelTypeOK, Labels
<1>2. last' \in [Tables -> BOOLEAN]
  <2>1. (left[t] = 0) \in BOOLEAN
    OBVIOUS
  <2>2. last' = [last EXCEPT ![t] = (left[t] = 0)]
    BY DEF Updated
  <2>3. QED
    BY <2>1, <2>2 DEF ParallelTypeOK
<1>3. QED
  BY <1>1, <1>2 DEF Updated, ParallelTypeOK

\* A function returns with an error, or without.
LEMMA ReturnType ==
    ASSUME ParallelTypeOK, NEW t \in Tables, NEW e \in {"none", "own", "cancelled"},
           Return(t, e)
    PROVE  /\ at' \in [Tables -> Labels]
           /\ cancelled' \in BOOLEAN
           /\ first' \in {"none", "own", "cancelled"}
  BY DEF ParallelTypeOK, Return, GoTo, Labels

\* A step from Acquire to Return keeps the types.
LEMMA MiddleType ==
    ASSUME ParallelTypeOK, Progress, NEW t \in Tables, Middle(t)
    PROVE  ParallelTypeOK'
<1> USE DEF ParallelTypeOK, group
<1>1. at' \in [Tables -> Labels]
  BY MiddleMoves DEF GoTo
<1>2. CASE ReadPage(t)
  <2>1. left[t] - 1 \in Nat
    BY <1>2 DEF ReadPage, Progress
  <2>2. QED
    BY <1>1, <1>2, <2>1 DEF ReadPage, files
<1>3. CASE ChangeState(t)
  <2>1. crashed' \in BOOLEAN
    BY <1>3 DEF ChangeState, Enter
  <2>2. QED
    BY <1>1, <1>3, <2>1 DEF ChangeState, files
<1>4. CASE Marshal(t)
  <2>1. crashed' \in BOOLEAN
    BY <1>4 DEF Marshal, Enter
  <2>2. QED
    BY <1>1, <1>4, <2>1 DEF Marshal, files
<1>5. CASE OpenTemp(t)
  BY <1>1, <1>5, OpensInode DEF OpenTemp
<1>6. CASE WriteTemp(t)
  <2>1. content' \in [Inodes -> {"empty", "whole", "mixed"}]
    BY <1>6 DEF WriteTemp
  <2>2. fd' \in [Tables -> Inodes \cup {NoFile}]
    BY <1>6 DEF WriteTemp
  <2>3. QED
    BY <1>1, <1>6, <2>1, <2>2 DEF WriteTemp
<1>7. CASE SaveFails(t)
  BY <1>7, UpdatedType DEF SaveFails
<1>8. CASE Rename(t)
  BY <1>8, UpdatedType DEF Rename
<1>9. CASE RenameFails(t)
  BY <1>1, <1>9 DEF RenameFails, files
<1>10. CASE RemoveTemp(t)
  BY <1>10, UpdatedType DEF RemoveTemp
<1>11. CASE Lock(t)
  <2>1. crashed' \in BOOLEAN
    BY <1>11 DEF Lock, Enter
  <2>2. QED
    BY <1>1, <1>11, <2>1 DEF Lock, files
<1>12. QED
  BY <1>2, <1>3, <1>4, <1>5, <1>6, <1>7, <1>8, <1>9, <1>10, <1>11 DEF Middle

\* Every step keeps the types.
LEMMA TypeStep ==
    ASSUME ParallelTypeOK, Pool, Progress, [ParallelNext]_parallelVars
    PROVE  ParallelTypeOK'
<1> USE DEF ParallelTypeOK, group, files
<1>1. CASE UNCHANGED parallelVars
  BY <1>1 DEF parallelVars
<1>2. CASE Wait
  BY <1>2 DEF Wait
<1>3. ASSUME NEW t \in Tables, Acquire(t) PROVE ParallelTypeOK'
  BY <1>3, PoolStep DEF Acquire, GoTo, Labels
<1>4. ASSUME NEW t \in Tables, GiveUp(t) PROVE ParallelTypeOK'
  BY <1>4 DEF GiveUp, GoTo, Labels
<1>5. ASSUME NEW t \in Tables, PageFails(t) PROVE ParallelTypeOK'
  <2>1. PICK e \in {"own", "cancelled"} : Return(t, e)
    BY <1>5 DEF PageFails
  <2>2. QED
    BY <1>5, <2>1, ReturnType, PoolStep DEF PageFails
<1>6. ASSUME NEW t \in Tables, Store(t) PROVE ParallelTypeOK'
  BY <1>6, ReturnType, PoolStep DEF Store
<1>7. ASSUME NEW t \in Tables, Middle(t) PROVE ParallelTypeOK'
  BY <1>7, MiddleType
<1>8. QED
  BY <1>1, <1>2, <1>3, <1>4, <1>5, <1>6, <1>7, Steps

(***************************************************************************)
(* Success is complete, an error is a failure.                             *)
(***************************************************************************)

\* What a step in the middle makes of a goroutine's progress.
LEMMA MiddleProgress ==
    ASSUME ParallelTypeOK, Progress, NEW t \in Tables, Middle(t)
    PROVE  /\ \A u \in Tables \ {t} : at'[u] = at[u] /\ left'[u] = left[u]
           /\ at'[t] = "page" => left'[t] > 0
           /\ at'[t] \in {"lock", "storing"} => left'[t] = 0
           /\ at'[t] \notin {"start", "done"}
<1> USE DEF ParallelTypeOK, Labels, GoTo, Progress
<1>1. \A u \in Tables \ {t} : at'[u] = at[u]
  BY MiddleMoves
<1>2. at'[t] \notin {"start", "done"}
  BY MiddleMoves
<1>3. CASE ReadPage(t)
  BY <1>1, <1>2, <1>3 DEF ReadPage
<1>4. CASE ChangeState(t) \/ Marshal(t)
  BY <1>1, <1>4 DEF ChangeState, Marshal, Enter
<1>5. CASE OpenTemp(t) \/ WriteTemp(t) \/ RenameFails(t)
  BY <1>1, <1>5 DEF OpenTemp, WriteTemp, RenameFails
<1>6. ASSUME Updated(t)
      PROVE  /\ left' = left
             /\ at'[t] = "page" => left[t] > 0
             /\ at'[t] = "lock" => left[t] = 0
             /\ at'[t] # "storing"
  BY <1>6 DEF Updated
<1>7. CASE SaveFails(t) \/ Rename(t) \/ RemoveTemp(t)
  BY <1>1, <1>2, <1>6, <1>7 DEF SaveFails, Rename, RemoveTemp
<1>8. CASE Lock(t)
  BY <1>1, <1>8 DEF Lock, Enter
<1>9. QED
  BY <1>3, <1>4, <1>5, <1>7, <1>8 DEF Middle

\* A return keeps what is known of the others' progress.
LEMMA ReturnProgress ==
    ASSUME ParallelTypeOK, Progress, NEW t \in Tables, NEW e, Return(t, e),
           left' = left, results \subseteq results',
           e = "none" => t \in results' /\ left[t] = 0
    PROVE  Progress'
  BY DEF ParallelTypeOK, Progress, Return, GoTo, Labels

\* Every step keeps what is known of progress.
LEMMA ProgressStep ==
    ASSUME ParallelTypeOK, Progress, Errors, [ParallelNext]_parallelVars
    PROVE  Progress'
<1> USE DEF ParallelTypeOK, group, files, Labels, GoTo
<1>1. CASE UNCHANGED parallelVars
  BY <1>1 DEF Progress, parallelVars
<1>2. CASE Wait
  BY <1>2 DEF Progress, Wait
<1>3. ASSUME NEW t \in Tables, Acquire(t) PROVE Progress'
  BY <1>3 DEF Acquire, Progress
<1>4. ASSUME NEW t \in Tables, GiveUp(t) PROVE Progress'
  BY <1>4 DEF GiveUp, Progress, Errors
<1>5. ASSUME NEW t \in Tables, PageFails(t) PROVE Progress'
  BY <1>5, ReturnProgress DEF PageFails
<1>6. ASSUME NEW t \in Tables, Store(t) PROVE Progress'
  <2>1. left[t] = 0
    BY <1>6 DEF Store, Progress
  <2>2. QED
    BY <1>6, <2>1, ReturnProgress DEF Store
<1>7. ASSUME NEW t \in Tables, Middle(t) PROVE Progress'
  <2>1. first' = first /\ results' = results
    BY <1>7, MiddleMoves
  <2>2. QED
    BY <1>7, <2>1, MiddleProgress DEF Progress
<1>8. QED
  BY <1>1, <1>2, <1>3, <1>4, <1>5, <1>6, <1>7, Steps

\* Only a failure sets the error, and the call returns once.
LEMMA ErrorsStep ==
    ASSUME ParallelTypeOK, Errors, [ParallelNext]_parallelVars
    PROVE  Errors'
<1> USE DEF ParallelTypeOK, group, Labels, GoTo
<1>1. CASE UNCHANGED parallelVars
  BY <1>1 DEF Errors, parallelVars
<1>2. CASE Wait
  BY <1>2 DEF Errors, Wait
<1>3. ASSUME NEW t \in Tables, Acquire(t) PROVE Errors'
  BY <1>3 DEF Acquire, Errors
<1>4. ASSUME NEW t \in Tables, GiveUp(t) PROVE Errors'
  BY <1>4 DEF GiveUp, Errors
<1>5. ASSUME NEW t \in Tables, PageFails(t) PROVE Errors'
  BY <1>5 DEF PageFails, Return, Errors
<1>6. ASSUME NEW t \in Tables, Store(t) PROVE Errors'
  BY <1>6 DEF Store, Return, Errors
<1>7. ASSUME NEW t \in Tables, Middle(t) PROVE Errors'
  BY <1>7, MiddleMoves DEF Errors
<1>8. QED
  BY <1>1, <1>2, <1>3, <1>4, <1>5, <1>6, <1>7, Steps

(***************************************************************************)
(* The mutex, and who saves.                                               *)
(***************************************************************************)

\* Who writes to `results` holds the mutex, after every step.
LEMMA ExclusiveStep ==
    ASSUME ParallelTypeOK, Exclusive, [ParallelNext]_parallelVars
    PROVE  Exclusive'
<1> USE DEF ParallelTypeOK, group, Labels, GoTo, Exclusive
<1> USE ParallelAssumption
<1>1. CASE UNCHANGED parallelVars
  BY <1>1 DEF parallelVars
<1>2. CASE Wait
  BY <1>2 DEF Wait
<1>3. ASSUME NEW t \in Tables, Acquire(t) \/ GiveUp(t) PROVE Exclusive'
  BY <1>3 DEF Acquire, GiveUp
<1>4. ASSUME NEW t \in Tables, PageFails(t) PROVE Exclusive'
  BY <1>4 DEF PageFails, Return
<1>5. ASSUME NEW t \in Tables, Store(t) PROVE Exclusive'
  BY <1>5 DEF Store, Return
<1>6. ASSUME NEW t \in Tables, Lock(t) PROVE Exclusive'
  BY <1>6 DEF Lock, Enter
<1>7. ASSUME NEW t \in Tables, Middle(t), ~Lock(t) PROVE Exclusive'
  <2>1. at[t] # "storing" /\ at'[t] # "storing" /\ mu' = mu
    <3>1. CASE ReadPage(t)
      BY <3>1 DEF ReadPage
    <3>2. CASE ChangeState(t) \/ Marshal(t)
      BY <3>2 DEF ChangeState, Marshal, Enter
    <3>3. CASE OpenTemp(t) \/ WriteTemp(t) \/ RenameFails(t)
      BY <3>3 DEF OpenTemp, WriteTemp, RenameFails
    <3>4. CASE SaveFails(t) \/ Rename(t) \/ RemoveTemp(t)
      BY <3>4 DEF SaveFails, Rename, RemoveTemp, Updated
    <3>5. QED
      BY <1>7, <3>1, <3>2, <3>3, <3>4 DEF Middle
  <2>2. \A u \in Tables \ {t} : at'[u] = at[u]
    BY <1>7, MiddleMoves
  <2>3. QED
    BY <2>1, <2>2
<1>8. QED
  BY <1>1, <1>2, <1>3, <1>4, <1>5, <1>6, <1>7, Steps

\* Only with a manager does a goroutine save, after every step.
LEMMA SavesStep ==
    ASSUME ParallelTypeOK, SavesOnlyIf, [ParallelNext]_parallelVars
    PROVE  SavesOnlyIf'
<1> USE DEF ParallelTypeOK, group, Labels, GoTo, SavesOnlyIf, SavingLabels
<1>1. CASE UNCHANGED parallelVars
  BY <1>1 DEF parallelVars
<1>2. CASE Wait
  BY <1>2 DEF Wait
<1>3. ASSUME NEW t \in Tables, Acquire(t) \/ GiveUp(t) PROVE SavesOnlyIf'
  BY <1>3 DEF Acquire, GiveUp
<1>4. ASSUME NEW t \in Tables, PageFails(t) PROVE SavesOnlyIf'
  BY <1>4 DEF PageFails, Return
<1>5. ASSUME NEW t \in Tables, Store(t) PROVE SavesOnlyIf'
  BY <1>5 DEF Store, Return
<1>6. ASSUME NEW t \in Tables, Middle(t) PROVE SavesOnlyIf'
  <2>1. at'[t] \in SavingLabels => saving
    <3>1. CASE ReadPage(t)
      BY <3>1 DEF ReadPage
    <3>2. CASE ChangeState(t) \/ Marshal(t)
      BY <3>2 DEF ChangeState, Marshal, Enter
    <3>3. CASE OpenTemp(t) \/ WriteTemp(t) \/ RenameFails(t)
      BY <3>3 DEF OpenTemp, WriteTemp, RenameFails
    <3>4. CASE SaveFails(t) \/ Rename(t) \/ RemoveTemp(t)
      BY <3>4 DEF SaveFails, Rename, RemoveTemp, Updated
    <3>5. CASE Lock(t)
      BY <3>5 DEF Lock, Enter
    <3>6. QED
      BY <1>6, <3>1, <3>2, <3>3, <3>4, <3>5 DEF Middle
  <2>2. \A u \in Tables \ {t} : at'[u] = at[u]
    BY <1>6, MiddleMoves
  <2>3. saving' = saving
    BY <1>6, MiddleMoves
  <2>4. QED
    BY <2>1, <2>2, <2>3
<1>7. QED
  BY <1>1, <1>2, <1>3, <1>4, <1>5, <1>6, Steps

(***************************************************************************)
(* Races.                                                                  *)
(***************************************************************************)

\* The runtime can find a race only between two that save at the same time.
LEMMA RacesStep ==
    ASSUME ParallelTypeOK, Pool, Exclusive, SavesOnlyIf, RacesOnlyInCheckpoint,
           [ParallelNext]_parallelVars
    PROVE  RacesOnlyInCheckpoint'
<1> USE DEF RacesOnlyInCheckpoint, ParallelTypeOK, group
<1>1. CASE UNCHANGED parallelVars
  BY <1>1 DEF parallelVars
<1>2. CASE Wait
  BY <1>2 DEF Wait
<1>3. ASSUME NEW t \in Tables, Acquire(t) \/ GiveUp(t)
      PROVE  RacesOnlyInCheckpoint'
  BY <1>3 DEF Acquire, GiveUp
<1>4. ASSUME NEW t \in Tables, PageFails(t) \/ Store(t)
      PROVE  RacesOnlyInCheckpoint'
  BY <1>4 DEF PageFails, Store
<1>5. ASSUME NEW t \in Tables, Lock(t) PROVE RacesOnlyInCheckpoint'
  <2>1. \A u \in Tables : at[u] # "storing"
    BY <1>5, ParallelAssumption DEF Lock, Exclusive
  <2>2. crashed' = FALSE
    BY <1>5, <2>1 DEF Lock, Enter, Conflicting
  <2>3. QED
    BY <2>2
<1>6. ASSUME NEW t \in Tables, ChangeState(t) \/ Marshal(t)
      PROVE  RacesOnlyInCheckpoint'
  <2>1. /\ t \in Running
        /\ saving
        /\ UNCHANGED <<limit, saving>>
    BY <1>6 DEF Running, ChangeState, Marshal, SavesOnlyIf, SavingLabels
  <2>2. ASSUME crashed' PROVE limit > 1
    <3>1. PICK u \in Tables \ {t} : at[u] \in {"changing", "marshalling"}
      BY <1>6, <2>2 DEF ChangeState, Marshal, Enter, Conflicting
    <3>2. u \in Running
      BY <3>1 DEF Running
    <3>3. limit # 1
      BY <2>1, <3>1, <3>2, Alone
    <3>4. QED
      BY <3>3
  <2>3. QED
    BY <2>1, <2>2
<1>7. ASSUME NEW t \in Tables, Middle(t), ~Lock(t), ~ChangeState(t), ~Marshal(t)
      PROVE  RacesOnlyInCheckpoint'
  <2>1. UNCHANGED <<crashed, limit, saving>>
    BY <1>7 DEF Middle, ReadPage, OpenTemp, WriteTemp, SaveFails, Rename,
                RenameFails, RemoveTemp, Updated
  <2>2. QED
    BY <2>1
<1>8. QED
  BY <1>1, <1>2, <1>3, <1>4, <1>5, <1>6, <1>7, Steps

(***************************************************************************)
(* The checkpoint file.                                                    *)
(***************************************************************************)

\* A step that does not touch the files, and lets nobody write or rename,
\* leaves them as they are.
LEMMA FilesKept ==
    ASSUME Sequential, NEW t \in Tables, UNCHANGED <<limit, files>>,
           \A u \in Tables \ {t} : at'[u] = at[u],
           at'[t] \notin {"writing", "rename"}
    PROVE  Sequential'
  BY DEF Sequential, files

\* With one permit, after every step of a save the file is whole.
LEMMA SaveStep ==
    ASSUME ParallelTypeOK, Pool, Sequential, limit = 1, limit' = limit,
           NEW t \in Tables,
           \/ OpenTemp(t)
           \/ WriteTemp(t)
           \/ SaveFails(t)
           \/ Rename(t)
           \/ RemoveTemp(t)
    PROVE  Sequential'
<1> USE DEF ParallelTypeOK, Sequential
<1>1. ASSUME NEW u \in Tables \ {t}
      PROVE  at[u] \in {"start", "done"} /\ at'[u] = at[u]
  <2>1. t \in Running
    BY DEF Running, OpenTemp, WriteTemp, SaveFails, Rename, RemoveTemp
  <2>2. at[u] \in {"start", "done"}
    BY <2>1, Alone DEF Running
  <2>3. QED
    BY <2>2 DEF OpenTemp, WriteTemp, SaveFails, Rename, RemoveTemp, Updated, GoTo
<1>2. CASE OpenTemp(t)
  <2>1. PICK i \in Inodes :
            /\ tmp # NoFile => i = tmp
            /\ tmp = NoFile => i # file
            /\ tmp' = i
            /\ fd' = [fd EXCEPT ![t] = i]
            /\ content' = [content EXCEPT ![i] = "empty"]
    BY <1>2, OpensInode
  <2>2. i # file /\ i # NoFile
    BY <2>1, ParallelAssumption, FS_CardinalityType DEF Inodes
  <2>3. file' = file /\ at'[t] = "writing"
    BY <1>2 DEF OpenTemp, GoTo
  <2>4. QED
    BY <1>1, <2>1, <2>2, <2>3
<1>3. CASE WriteTemp(t)
  <2>1. content' = [content EXCEPT ![tmp] = "whole"]
    BY <1>3 DEF WriteTemp
  <2>2. file' = file /\ tmp' = tmp /\ at'[t] = "rename" /\ tmp # NoFile
    BY <1>3 DEF WriteTemp, GoTo
  <2>3. QED
    BY <1>1, <2>1, <2>2
<1>4. CASE SaveFails(t)
  <2>1. content' = [content EXCEPT ![tmp] = "mixed"]
    BY <1>4 DEF SaveFails
  <2>2. file' = file /\ tmp' = tmp /\ at'[t] \notin {"writing", "rename"}
    BY <1>4 DEF SaveFails, Updated, GoTo
  <2>3. QED
    BY <1>1, <2>1, <2>2
<1>5. CASE Rename(t)
  <2>1. /\ file' = tmp /\ tmp' = NoFile /\ content' = content
        /\ content[tmp] = "whole" /\ tmp # NoFile
        /\ at'[t] \notin {"writing", "rename"}
    BY <1>5 DEF Rename, Updated, GoTo
  <2>2. QED
    BY <1>1, <2>1
<1>6. CASE RemoveTemp(t)
  <2>1. /\ file' = file /\ tmp' = NoFile /\ content' = content
        /\ at'[t] \notin {"writing", "rename"}
    BY <1>6 DEF RemoveTemp, Updated, GoTo
  <2>2. file # NoFile
    BY ParallelAssumption, FS_CardinalityType DEF Inodes
  <2>3. QED
    BY <1>1, <2>1, <2>2
<1>7. QED
  BY <1>2, <1>3, <1>4, <1>5, <1>6

\* The temporary file is as its only writer left it, after every step.
LEMMA SequentialStep ==
    ASSUME ParallelTypeOK, Pool, Sequential, [ParallelNext]_parallelVars
    PROVE  Sequential'
<1> USE DEF ParallelTypeOK
<1>1. CASE UNCHANGED parallelVars
  BY <1>1 DEF Sequential, parallelVars, files
<1>2. CASE Wait
  BY <1>2 DEF Sequential, Wait, files
<1>3. ASSUME NEW t \in Tables,
             \/ Acquire(t) \/ GiveUp(t) \/ PageFails(t) \/ Store(t)
             \/ ReadPage(t) \/ ChangeState(t) \/ Marshal(t)
             \/ RenameFails(t) \/ Lock(t)
      PROVE  Sequential'
  <2>1. UNCHANGED <<limit, files>>
    BY <1>3 DEF Acquire, GiveUp, PageFails, Store, ReadPage, ChangeState,
                Marshal, RenameFails, Lock
  <2>2. /\ \A u \in Tables \ {t} : at'[u] = at[u]
        /\ at'[t] \notin {"writing", "rename"}
    BY <1>3 DEF Acquire, GiveUp, PageFails, Store, ReadPage, ChangeState,
                Marshal, RenameFails, Lock, Return, Enter, GoTo
  <2>3. QED
    BY <2>1, <2>2, FilesKept
<1>4. ASSUME NEW t \in Tables,
             \/ OpenTemp(t) \/ WriteTemp(t) \/ SaveFails(t) \/ Rename(t)
             \/ RemoveTemp(t)
      PROVE  Sequential'
  <2>1. limit' = limit
    BY <1>4 DEF OpenTemp, WriteTemp, SaveFails, Rename, RemoveTemp, Updated
  <2>2. CASE limit = 1
    BY <1>4, <2>1, <2>2, SaveStep
  <2>3. CASE limit # 1
    BY <2>1, <2>3 DEF Sequential
  <2>4. QED
    BY <2>2, <2>3
<1>5. QED
  BY <1>1, <1>2, <1>3, <1>4, Steps DEF Middle

(***************************************************************************)
(* Theorems.                                                               *)
(***************************************************************************)

\* The invariant holds when hashTablesParallel is called.
LEMMA ParallelInitInv == ParallelInit => ParallelInv
<1> SUFFICES ASSUME ParallelInit PROVE ParallelInv
  OBVIOUS
<1> USE ParallelAssumption DEF ParallelInit
<1>1. 1 \in Inodes
  BY FS_CardinalityType DEF Inodes
<1>2. limit \in Nat \ {0}
  BY DEF Limit
<1>3. ParallelTypeOK
  BY <1>1, <1>2 DEF ParallelTypeOK, Labels
<1>4. Running = {}
  BY DEF Running
<1>5. Pool
  BY <1>2, <1>4, FS_EmptySet DEF Pool
<1>6. Progress
  BY DEF Progress
<1>7. Errors
  BY DEF Errors
<1>8. Exclusive /\ SavesOnlyIf /\ RacesOnlyInCheckpoint
  BY DEF Exclusive, SavesOnlyIf, SavingLabels, RacesOnlyInCheckpoint
<1>9. Sequential
  <2>1. NoFile # 1
    OBVIOUS
  <2>2. QED
    BY <1>1, <2>1 DEF Sequential
<1>10. QED
  BY <1>3, <1>5, <1>6, <1>7, <1>8, <1>9 DEF ParallelInv

\* The invariant holds always.
THEOREM ParallelInvariant == ParallelSpec => []ParallelInv
<1>1. ParallelInv /\ [ParallelNext]_parallelVars => ParallelInv'
  BY TypeStep, PoolStep, ProgressStep, ErrorsStep, ExclusiveStep, SavesStep,
     RacesStep, SequentialStep DEF ParallelInv
<1>2. QED
  BY <1>1, ParallelInitInv, PTL DEF ParallelSpec

\* Every variable of hashTablesParallel has its type, always.
THEOREM ParallelTypeCorrect == ParallelSpec => []ParallelTypeOK
<1>1. ParallelInv => ParallelTypeOK
  BY DEF ParallelInv
<1>2. QED
  BY <1>1, ParallelInvariant, PTL

\* hashTablesParallel returns the hashes of all tables or an error that is the
\* failure of one, for any number of tables, pages and permits.
THEOREM AllOrTheErrorHolds == ParallelSpec => []AllOrTheError
<1>1. ParallelInv => AllOrTheError
  BY DEF ParallelInv, ParallelTypeOK, Errors, Progress, AllOrTheError
<1>2. QED
  BY <1>1, ParallelInvariant, PTL

\* The mutex keeps `results` from races; only the shared manager has them.
THEOREM RacesOnlyInCheckpointHolds == ParallelSpec => []RacesOnlyInCheckpoint
<1>1. ParallelInv => RacesOnlyInCheckpoint
  BY DEF ParallelInv
<1>2. QED
  BY <1>1, ParallelInvariant, PTL

\* With --parallel 1, the default, the checkpoint file is whole at any time.
THEOREM WholeWhenSequentialHolds == ParallelSpec => []WholeWhenSequential
<1>1. ParallelInv => WholeWhenSequential
  BY DEF ParallelInv, Sequential, WholeWhenSequential
<1>2. QED
  BY <1>1, ParallelInvariant, PTL
=============================================================================

-------------------------- MODULE OutputDirProofs --------------------------
(***************************************************************************)
(* Proofs about the two commands that share an output directory. ApplyPack, *)
(* for every set of packs, paths, configurations and every                 *)
(* checkpointBatchSize: type correctness, the three safety properties, and *)
(* that apply implements AtomicApply. GenPack, for any number of tables, any *)
(* drift, any contents and any number of runs, kills and changes of the    *)
(* databases.                                                              *)
(***************************************************************************)
EXTENDS ApplyPack, GenPack, TLAPS, FiniteSetTheorems, SequenceTheorems

(***************************************************************************)
(* apply: types.                                                           *)
(***************************************************************************)

\* What the manager saves is a state when what it is given is one.
LEMMA StampedType ==
    ASSUME NEW s \in State
    PROVE  Stamped(s) \in State
  BY DEF Stamped, State

\* An Update with a state leaves a state, or nothing, on file and in memory.
LEMMA UpdateType ==
    ASSUME ApplyTypeOK, NEW changed, manager # NoState => changed \in State,
           Update(changed)
    PROVE  /\ checkpointFile' \in State \cup {NoState}
           /\ manager' \in State \cup {NoState}
  BY StampedType DEF ApplyTypeOK, Update, AfterSave, DiskOutcomes

\* The progress that the loop of ApplyPack records makes a state.
LEMMA RecordedType ==
    ASSUME manager \in State, path \in Paths, NEW n \in Nat
    PROVE  Recorded(n) \in State
<1>1. [path     |-> IF manager.apply = NoProgress THEN path
                    ELSE manager.apply.path,
       executed |-> n] \in ApplyProgress
  BY DEF State, ApplyProgress
<1>2. QED
  BY <1>1 DEF Recorded, State

\* A checkpoint of a well-formed file continues after some statement.
LEMMA ResumePointType ==
    ASSUME NEW file \in State \cup {NoState}, NEW p \in Paths
    PROVE  ResumePoint(file, p) \in Nat
  BY DEF ResumePoint, State, ApplyProgress

\* What a killed gen-pack leaves is a state.
LEMMA LeftBehindType ==
    ASSUME NEW file \in State \cup {NoState}
    PROVE  LeftBehind(file) \subseteq State
  BY DEF LeftBehind, State

\* What a commit makes visible is a transaction.
LEMMA OpenPieceType == ApplyTypeOK => OpenPiece \in Transaction
  BY DEF ApplyTypeOK, OpenPiece, Transaction

\* Every step of the process, the user and the other commands keeps the types.
LEMMA TypeStep == ApplyTypeOK /\ [ApplyNext]_applyVars => ApplyTypeOK'
<1> SUFFICES ASSUME ApplyTypeOK, [ApplyNext]_applyVars PROVE ApplyTypeOK'
  OBVIOUS
<1> USE DEF ApplyTypeOK
<1>1. ASSUME NEW p \in Paths, ApplyStart(p) PROVE ApplyTypeOK'
  BY <1>1 DEF ApplyStart
<1>2. CASE OpenFails
  BY <1>2 DEF OpenFails, Return, dirVars, runVars
<1>3. CASE DryRun
  BY <1>3 DEF DryRun, Return, dirVars, runVars
<1>4. CASE Begin
  <2>1. manager' \in State \cup {NoState}
    BY <1>4 DEF Begin, Load
  <2>2. content' \in Seq(Statement)
    BY <1>4 DEF Begin
  <2>3. start' \in Nat
    BY <1>4, ResumePointType DEF Begin
  <2>4. tx' \in Seq(Statement)
    BY <1>4 DEF Begin
  <2>5. QED
    BY <1>4, <2>1, <2>2, <2>3, <2>4 DEF Begin
<1>5. CASE ExecStatement
  <2>1. executed + 1 \in 1 .. Len(content)
    BY <1>5 DEF ExecStatement
  <2>2. content[executed + 1] \in Statement
    BY <2>1, ElementOfSeq
  <2>3. tx' \in Seq(Statement)
    BY <1>5, <2>2, AppendProperties DEF ExecStatement
  <2>4. executed' \in Nat
    BY <1>5 DEF ExecStatement
  <2>5. /\ checkpointFile' \in State \cup {NoState}
        /\ manager' \in State \cup {NoState}
    <3>1. CASE executed' % CheckpointBatch = 0
      <4>1. Update(Recorded(executed'))
        BY <1>5, <3>1 DEF ExecStatement
      <4>2. manager # NoState => Recorded(executed') \in State
        BY <2>4, RecordedType
      <4>3. QED
        BY <4>1, <4>2, UpdateType
    <3>2. CASE executed' % CheckpointBatch # 0
      BY <1>5, <3>2 DEF ExecStatement
    <3>3. QED
      BY <3>1, <3>2
  <2>6. QED
    BY <1>5, <2>3, <2>4, <2>5 DEF ExecStatement
<1>6. CASE ExecFails
  BY <1>6 DEF ExecFails, Return, dirVars
<1>7. CASE Commit
  <2>1. db' \in Seq(Transaction)
    BY <1>7, OpenPieceType, AppendProperties DEF Commit
  <2>2. QED
    BY <1>7, <2>1 DEF Commit, Return, dirVars
<1>8. CASE Cleanup
  <2>1. undeleted' \in BOOLEAN
    BY <1>8, Zenon DEF Cleanup
  <2>2. checkpointFile' \in State \cup {NoState}
    BY <1>8 DEF Cleanup, Delete
  <2>3. QED
    BY <1>8, <2>1, <2>2 DEF Cleanup, ApplyExits
<1>9. CASE ApplyKill
  <2>1. undeleted' \in BOOLEAN
    BY <1>9 DEF ApplyKill
  <2>2. QED
    BY <1>9, <2>1 DEF ApplyKill, ApplyExits
<1>10. CASE GenPackRan
  <2>1. checkpointFile' \in State \cup {NoState}
    BY <1>10, LeftBehindType DEF GenPackRan
  <2>2. packs' \in [Paths -> Seq(Statement)]
    BY <1>10, ApplyAssumption DEF GenPackRan
  <2>3. leftover' \in BOOLEAN
    BY <1>10 DEF GenPackRan
  <2>4. QED
    BY <1>10, <2>1, <2>2, <2>3 DEF GenPackRan, runVars
<1>11. CASE ADayPasses
  <2>1. checkpointFile' \in State
    BY <1>11 DEF ADayPasses, Expire, State
  <2>2. QED
    BY <1>11, <2>1 DEF ADayPasses, Expire, runVars
<1>12. CASE UNCHANGED applyVars
  BY <1>12 DEF applyVars
<1>13. CASE EngineCommits
  <2>1. db' \in Seq(Transaction)
    BY <1>13, OpenPieceType, AppendProperties DEF EngineCommits
  <2>2. QED
    BY <1>13, <2>1 DEF EngineCommits, dirVars
<1>14. QED
  BY <1>1, <1>2, <1>3, <1>4, <1>5, <1>6, <1>7, <1>8, <1>9, <1>10, <1>11, <1>12,
     <1>13      DEF ApplyNext, ApplyStep, Outside

\* The initial values have their types.
LEMMA InitType == ApplyInit => ApplyTypeOK
<1>1. ApplyInit => packs \in [Paths -> Seq(Statement)]
  BY ApplyAssumption DEF ApplyInit
<1>2. /\ <<>> \in Seq(Statement)
      /\ <<>> \in Seq(Transaction)
  BY EmptySeq
<1>3. ApplyInit => undeleted \in BOOLEAN /\ leftover \in BOOLEAN
  BY DEF ApplyInit
<1>4. QED
  BY <1>1, <1>2, <1>3 DEF ApplyInit, ApplyTypeOK

\* Every variable of apply has its type, always.
THEOREM ApplyTypeCorrect == ApplySpec => []ApplyTypeOK
  BY InitType, TypeStep, PTL DEF ApplySpec

(***************************************************************************)
(* apply: the inductive invariant.                                         *)
(***************************************************************************)

\* What apply executes is a pack that was at its path.
ContentIsPack ==
    /\ packs \in [Paths -> Packs]
    /\ apc = "exec" => content \in Packs

\* Progress of apply, if a state has any, is at a multiple of the batch size.
AtBatch(state) ==
    state # NoState /\ state.apply # NoProgress
        => state.apply.executed % CheckpointBatch = 0

\* Every point a run may start from is one.
CutsAtBatch ==
    /\ AtBatch(checkpointFile)
    /\ AtBatch(manager)
    /\ start % CheckpointBatch = 0

\* Apply never makes a checkpoint, it only adds to one it has found.
NothingToResume ==
    ~leftover => /\ checkpointFile = NoState
                 /\ manager = NoState
                 /\ start = 0

\* The open transaction holds the statements from `base` to `executed`; all
\* counts may lie beyond the end of a pack that a resumed one does not fit.
TxIsSlice ==
    apc = "exec" => /\ tx = SubSeq(content, base + 1, executed)
                    /\ start <= base
                    /\ base <= executed
                    /\ executed <= Len(content) \/ executed = start

\* A transaction begins where the run does, or after a schema change.
BaseIsCut ==
    apc = "exec" => base = start \/ SchemaChanged(content, start, base)

\* The next commit of a run continues where its last one ended.
Continues ==
    /\ \A k \in DOMAIN db : db[k].run <= runs
    /\ apc = "open" => \A k \in DOMAIN db : db[k].run # runs
    /\ apc = "exec" =>
           IF db # <<>> /\ db[Len(db)].run = runs THEN base = db[Len(db)].to
           ELSE base = start

ApplyInv ==
    /\ ApplyTypeOK
    /\ ContentIsPack
    /\ CutsAtBatch
    /\ NothingToResume
    /\ TxIsSlice
    /\ BaseIsCut
    /\ Continues
    /\ ProgressOnlyFromKill
    /\ PiecesOfPack
    /\ WholePacks

\* Recording a count leaves progress with that count.
LEMMA AtBatchUpdate ==
    ASSUME ApplyTypeOK, CutsAtBatch, NEW n \in Nat, n % CheckpointBatch = 0,
           Update(Recorded(n))
    PROVE  AtBatch(checkpointFile') /\ AtBatch(manager')
<1>1. CASE manager = NoState
  BY <1>1 DEF Update, CutsAtBatch, AtBatch
<1>2. CASE manager # NoState
  <2>1. manager \in State
    BY <1>2 DEF ApplyTypeOK
  <2>2. Stamped(Recorded(n)).apply.executed = n
    BY <2>1 DEF Stamped, Recorded, State
  <2>3. AtBatch(Stamped(Recorded(n)))
    BY <2>2 DEF AtBatch
  <2>4. QED
    BY <1>2, <2>3 DEF Update, AfterSave, CutsAtBatch
<1>3. QED
  BY <1>1, <1>2

\* What a run holds as its pack, it read from one of the packs there are.
LEMMA ContentStep ==
    ApplyTypeOK /\ ContentIsPack /\ [ApplyNext]_applyVars => ContentIsPack'
<1> SUFFICES ASSUME ApplyTypeOK, ContentIsPack, [ApplyNext]_applyVars
             PROVE  ContentIsPack'
  OBVIOUS
<1> USE DEF ContentIsPack
<1>1. ASSUME NEW p \in Paths, ApplyStart(p) PROVE ContentIsPack'
  BY <1>1 DEF ApplyStart
<1>2. CASE OpenFails
  BY <1>2 DEF OpenFails, Return, dirVars, runVars
<1>3. CASE DryRun
  BY <1>3 DEF DryRun, Return, dirVars, runVars
<1>4. CASE Begin
  BY <1>4 DEF Begin, ApplyTypeOK
<1>5. CASE ExecStatement
  BY <1>5 DEF ExecStatement
<1>6. CASE ExecFails
  BY <1>6 DEF ExecFails, Return, dirVars
<1>7. CASE Commit
  BY <1>7 DEF Commit, Return, dirVars
<1>8. CASE Cleanup
  BY <1>8 DEF Cleanup, ApplyExits
<1>9. CASE ApplyKill
  BY <1>9 DEF ApplyKill, ApplyExits
<1>10. CASE GenPackRan
  BY <1>10 DEF GenPackRan, runVars
<1>11. CASE ADayPasses
  BY <1>11 DEF ADayPasses, Expire, runVars
<1>12. CASE UNCHANGED applyVars
  BY <1>12 DEF applyVars
<1>13. CASE EngineCommits
  BY <1>13 DEF EngineCommits, dirVars
<1>14. QED
  BY <1>1, <1>2, <1>3, <1>4, <1>5, <1>6, <1>7, <1>8, <1>9, <1>10, <1>11, <1>12,
     <1>13      DEF ApplyNext, ApplyStep, Outside

\* Zero is a multiple of every batch size.
LEMMA ZeroAtBatch == 0 % CheckpointBatch = 0
  BY ApplyAssumption

\* Every count on file, in memory or started from is one a checkpoint was due at.
LEMMA CutsStep ==
    ApplyTypeOK /\ CutsAtBatch /\ [ApplyNext]_applyVars => CutsAtBatch'
<1> SUFFICES ASSUME ApplyTypeOK, CutsAtBatch, [ApplyNext]_applyVars
             PROVE  CutsAtBatch'
  OBVIOUS
<1> USE DEF CutsAtBatch
<1>1. ASSUME NEW p \in Paths, ApplyStart(p) PROVE CutsAtBatch'
  BY <1>1 DEF ApplyStart, AtBatch
<1>2. CASE OpenFails
  BY <1>2 DEF OpenFails, Return, dirVars, runVars
<1>3. CASE DryRun
  BY <1>3 DEF DryRun, Return, dirVars, runVars
<1>4. CASE Begin
  <2>1. start' % CheckpointBatch = 0
    BY <1>4, ZeroAtBatch DEF Begin, ResumePoint, AtBatch
  <2>2. AtBatch(manager')
    BY <1>4 DEF Begin, Load
  <2>3. QED
    BY <1>4, <2>1, <2>2 DEF Begin
<1>5. CASE ExecStatement
  <2>1. executed' \in Nat
    BY <1>5 DEF ExecStatement, ApplyTypeOK
  <2>2. AtBatch(checkpointFile') /\ AtBatch(manager')
    BY <1>5, <2>1, AtBatchUpdate DEF ExecStatement
  <2>3. QED
    BY <1>5, <2>2 DEF ExecStatement
<1>6. CASE ExecFails
  BY <1>6 DEF ExecFails, Return, dirVars
<1>7. CASE Commit
  BY <1>7 DEF Commit, Return, dirVars
<1>8. CASE Cleanup
  BY <1>8, ZeroAtBatch DEF Cleanup, ApplyExits, Delete, AtBatch
<1>9. CASE ApplyKill
  BY <1>9, ZeroAtBatch DEF ApplyKill, ApplyExits, AtBatch
<1>10. CASE GenPackRan
  <2>1. AtBatch(checkpointFile')
    BY <1>10 DEF GenPackRan, LeftBehind, AtBatch, ApplyTypeOK
  <2>2. QED
    BY <1>10, <2>1 DEF GenPackRan, runVars
<1>11. CASE ADayPasses
  <2>1. checkpointFile'.apply = checkpointFile.apply
    BY <1>11 DEF ADayPasses, Expire, State, ApplyTypeOK
  <2>2. QED
    BY <1>11, <2>1 DEF ADayPasses, Expire, runVars, AtBatch
<1>12. CASE UNCHANGED applyVars
  BY <1>12 DEF applyVars
<1>13. CASE EngineCommits
  BY <1>13 DEF EngineCommits, dirVars
<1>14. QED
  BY <1>1, <1>2, <1>3, <1>4, <1>5, <1>6, <1>7, <1>8, <1>9, <1>10, <1>11, <1>12,
     <1>13      DEF ApplyNext, ApplyStep, Outside

\* As long as no gen-pack left a checkpoint, apply has none to resume from.
LEMMA NothingToResumeStep ==
    NothingToResume /\ ApplyTypeOK /\ [ApplyNext]_applyVars => NothingToResume'
<1> SUFFICES ASSUME NothingToResume, ApplyTypeOK, [ApplyNext]_applyVars
             PROVE  NothingToResume'
  OBVIOUS
<1> USE DEF NothingToResume
<1>1. ASSUME NEW p \in Paths, ApplyStart(p) PROVE NothingToResume'
  BY <1>1 DEF ApplyStart
<1>2. CASE OpenFails
  BY <1>2 DEF OpenFails, Return, dirVars, runVars
<1>3. CASE DryRun
  BY <1>3 DEF DryRun, Return, dirVars, runVars
<1>4. CASE Begin
  BY <1>4 DEF Begin, Load, ResumePoint
<1>5. CASE ExecStatement
  BY <1>5 DEF ExecStatement, Update
<1>6. CASE ExecFails
  BY <1>6 DEF ExecFails, Return, dirVars
<1>7. CASE Commit
  BY <1>7 DEF Commit, Return, dirVars
<1>8. CASE Cleanup
  BY <1>8 DEF Cleanup, ApplyExits, Delete
<1>9. CASE ApplyKill
  BY <1>9 DEF ApplyKill, ApplyExits
<1>10. CASE GenPackRan
  BY <1>10 DEF GenPackRan, runVars, ApplyTypeOK
<1>11. CASE ADayPasses
  BY <1>11 DEF ADayPasses, Expire, runVars
<1>12. CASE UNCHANGED applyVars
  BY <1>12 DEF applyVars
<1>13. CASE EngineCommits
  BY <1>13 DEF EngineCommits, dirVars
<1>14. QED
  BY <1>1, <1>2, <1>3, <1>4, <1>5, <1>6, <1>7, <1>8, <1>9, <1>10, <1>11, <1>12,
     <1>13      DEF ApplyNext, ApplyStep, Outside

\* A run starts with nothing executed.
LEMMA EmptySlice ==
    ASSUME NEW s, NEW n \in Nat
    PROVE  SubSeq(s, n + 1, n) = <<>>
<1>1. n + 1 \in Int /\ n \in Int /\ n < n + 1
  OBVIOUS
<1>2. QED
  BY <1>1, SubSeqEmpty

\* Executing one more statement makes the slice one longer.
LEMMA SliceGrows ==
    ASSUME NEW s \in Seq(Statement), NEW m \in Nat, NEW n \in Nat,
           m <= n, n < Len(s)
    PROVE  SubSeq(s, m + 1, n + 1) = Append(SubSeq(s, m + 1, n), s[n + 1])
<1> DEFINE short == SubSeq(s, m + 1, n)
           long == SubSeq(s, m + 1, n + 1)
<1>1. /\ s[n + 1] \in Statement
      /\ \A i \in m + 1 .. n + 1 : s[i] \in Statement
      /\ \A i \in m + 1 .. n : s[i] \in Statement
  BY ElementOfSeq
<1>2. /\ short \in Seq(Statement)
      /\ Len(short) = n - m
      /\ \A i \in 1 .. n - m : short[i] = s[m + i]
  <2>1. /\ short \in Seq(Statement)
        /\ Len(short) = IF m + 1 <= n THEN n - (m + 1) + 1 ELSE 0
        /\ \A i \in 1 .. n - (m + 1) + 1 : short[i] = s[(m + 1) + i - 1]
    BY <1>1, SubSeqProperties
  <2>2. QED
    BY <2>1
<1>3. /\ long \in Seq(Statement)
      /\ Len(long) = n + 1 - m
      /\ \A i \in 1 .. n + 1 - m : long[i] = s[m + i]
  <2>1. /\ long \in Seq(Statement)
        /\ Len(long) = IF m + 1 <= n + 1 THEN n + 1 - (m + 1) + 1 ELSE 0
        /\ \A i \in 1 .. n + 1 - (m + 1) + 1 : long[i] = s[(m + 1) + i - 1]
    BY <1>1, SubSeqProperties
  <2>2. QED
    BY <2>1
<1> HIDE DEF short, long
<1>4. /\ Append(short, s[n + 1]) \in Seq(Statement)
      /\ Len(Append(short, s[n + 1])) = n + 1 - m
      /\ \A i \in 1 .. n - m : Append(short, s[n + 1])[i] = short[i]
      /\ Append(short, s[n + 1])[n - m + 1] = s[n + 1]
  BY <1>1, <1>2, AppendProperties
<1>5. ASSUME NEW i \in 1 .. Len(long)
      PROVE  long[i] = Append(short, s[n + 1])[i]
  <2>1. CASE i \in 1 .. n - m
    BY <2>1, <1>2, <1>3, <1>4
  <2>2. CASE i = n - m + 1
    BY <2>2, <1>3, <1>4
  <2>3. i \in 1 .. n - m \/ i = n - m + 1
    <3>1. i \in 1 .. n + 1 - m
      BY <1>3
    <3>2. QED
      BY <3>1
  <2>4. QED
    BY <2>1, <2>2, <2>3
<1>6. long = Append(short, s[n + 1])
  BY <1>3, <1>4, <1>5, SeqEqual
<1>7. QED
  BY <1>6 DEF short, long

\* The other steps end the loop, or leave it and what belongs to it alone.
LEMMA LeavesLoop ==
    ASSUME [ApplyNext]_applyVars, ~(Begin \/ ExecStatement \/ EngineCommits)
    PROVE  \/ apc' # "exec"
           \/ UNCHANGED <<apc, content, start, executed, tx, base, db, runs>>
<1>1. ASSUME NEW p \in Paths, ApplyStart(p) PROVE apc' # "exec"
  BY <1>1 DEF ApplyStart
<1>2. CASE OpenFails \/ DryRun \/ ExecFails \/ Commit
  BY <1>2 DEF OpenFails, DryRun, ExecFails, Commit, Return
<1>3. CASE Cleanup \/ ApplyKill
  BY <1>3 DEF Cleanup, ApplyKill, ApplyExits
<1>4. CASE GenPackRan \/ ADayPasses
  BY <1>4 DEF GenPackRan, ADayPasses, runVars
<1>5. CASE UNCHANGED applyVars
  BY <1>5 DEF applyVars
<1>6. QED
  BY <1>1, <1>2, <1>3, <1>4, <1>5 DEF ApplyNext, ApplyStep, Outside

\* The open transaction is what lies between the last commit and executedCount.
LEMMA SliceStep ==
    ApplyTypeOK /\ TxIsSlice /\ [ApplyNext]_applyVars => TxIsSlice'
<1> SUFFICES ASSUME ApplyTypeOK, TxIsSlice, [ApplyNext]_applyVars
             PROVE  TxIsSlice'
  OBVIOUS
<1> USE DEF TxIsSlice
<1>1. CASE Begin
  <2>1. start' \in Nat
    BY <1>1, ResumePointType DEF Begin, ApplyTypeOK
  <2>2. SubSeq(content', start' + 1, start') = <<>>
    BY <2>1, EmptySlice
  <2>3. QED
    BY <1>1, <2>1, <2>2 DEF Begin
<1>2. CASE ExecStatement
  <2>1. tx' = SubSeq(content, base + 1, executed + 1)
    <3>1. /\ content \in Seq(Statement) /\ base \in Nat /\ executed \in Nat
          /\ base <= executed /\ executed < Len(content)
          /\ tx = SubSeq(content, base + 1, executed)
          /\ tx' = Append(tx, content[executed + 1])
      BY <1>2 DEF ExecStatement, ApplyTypeOK
    <3> QED BY <3>1, SliceGrows
  <2>2. base \in Nat /\ executed \in Nat
    BY DEF ApplyTypeOK
  <2>3. QED
    BY <1>2, <2>1, <2>2 DEF ExecStatement
<1>3. CASE EngineCommits
  <2>1. SubSeq(content, executed + 1, executed) = <<>>
    BY EmptySlice DEF ApplyTypeOK
  <2>2. QED
    BY <1>3, <2>1 DEF EngineCommits, ApplyTypeOK
<1>4. CASE ~(Begin \/ ExecStatement \/ EngineCommits)
  BY <1>4, LeavesLoop
<1>5. QED
  BY <1>1, <1>2, <1>3, <1>4

\* A run that ends by itself leaves no progress behind, unless it could not
\* delete the file.
LEMMA ProgressStep ==
    ApplyTypeOK /\ ProgressOnlyFromKill /\ [ApplyNext]_applyVars
        => ProgressOnlyFromKill'
<1> SUFFICES ASSUME ApplyTypeOK, ProgressOnlyFromKill, [ApplyNext]_applyVars
             PROVE  ProgressOnlyFromKill'
  OBVIOUS
<1> USE DEF ProgressOnlyFromKill
<1>1. ASSUME NEW p \in Paths, ApplyStart(p) PROVE ProgressOnlyFromKill'
  BY <1>1 DEF ApplyStart
<1>2. CASE OpenFails
  BY <1>2 DEF OpenFails, Return
<1>3. CASE DryRun
  BY <1>3 DEF DryRun, Return
<1>4. CASE Begin
  BY <1>4 DEF Begin
<1>5. CASE ExecStatement
  BY <1>5 DEF ExecStatement
<1>6. CASE ExecFails
  BY <1>6 DEF ExecFails, Return
<1>7. CASE Commit
  BY <1>7 DEF Commit, Return
<1>8. CASE Cleanup
  BY <1>8 DEF Cleanup, Delete
<1>9. CASE ApplyKill
  BY <1>9 DEF ApplyKill
<1>10. CASE GenPackRan
  BY <1>10 DEF GenPackRan, LeftBehind
<1>11. CASE ADayPasses
  <2>1. checkpointFile'.apply = checkpointFile.apply
    BY <1>11 DEF ADayPasses, Expire, State, ApplyTypeOK
  <2>2. QED
    BY <1>11, <2>1 DEF ADayPasses, Expire
<1>12. CASE UNCHANGED applyVars
  BY <1>12 DEF applyVars
<1>13. CASE EngineCommits
  BY <1>13 DEF EngineCommits
<1>14. QED
  BY <1>1, <1>2, <1>3, <1>4, <1>5, <1>6, <1>7, <1>8, <1>9, <1>10, <1>11, <1>12,
     <1>13      DEF ApplyNext, ApplyStep, Outside

\* Where a transaction begins is a cut.
LEMMA BaseStep ==
    ASSUME TxIsSlice, BaseIsCut, [ApplyNext]_applyVars
    PROVE  BaseIsCut'
<1> USE DEF BaseIsCut
<1>1. CASE Begin
  BY <1>1 DEF Begin
<1>2. CASE ExecStatement
  BY <1>2 DEF ExecStatement
<1>3. CASE EngineCommits
  BY <1>3 DEF EngineCommits
<1>4. CASE ~(Begin \/ ExecStatement \/ EngineCommits)
  BY <1>4, LeavesLoop
<1>5. QED
  BY <1>1, <1>2, <1>3, <1>4

\* Only a commit changes the target database; only a gen-pack can set
\* `leftover`, and nothing resets it.
LEMMA OnlyCommits ==
    ASSUME ApplyTypeOK, [ApplyNext]_applyVars, ~Commit, ~EngineCommits
    PROVE  /\ UNCHANGED db
           /\ leftover => leftover'
<1>1. ASSUME NEW p \in Paths, ApplyStart(p) PROVE UNCHANGED <<db, leftover>>
  BY <1>1 DEF ApplyStart
<1>2. CASE OpenFails \/ DryRun
  BY <1>2 DEF OpenFails, DryRun
<1>3. CASE Begin \/ ExecStatement \/ ExecFails
  BY <1>3 DEF Begin, ExecStatement, ExecFails
<1>4. CASE Cleanup \/ ApplyKill
  BY <1>4 DEF Cleanup, ApplyKill, ApplyExits
<1>5. CASE GenPackRan
  BY <1>5 DEF GenPackRan
<1>6. CASE ADayPasses
  BY <1>6 DEF ADayPasses
<1>7. CASE UNCHANGED applyVars
  BY <1>7 DEF applyVars
<1>8. QED
  BY <1>1, <1>2, <1>3, <1>4, <1>5, <1>6, <1>7
     DEF ApplyNext, ApplyStep, Outside

\* A commit adds one transaction.
LEMMA Publishes ==
    ASSUME ApplyTypeOK, Commit \/ EngineCommits
    PROVE  /\ db' = Append(db, OpenPiece)
           /\ db' \in Seq(Transaction)
           /\ Len(db) \in Nat
           /\ Len(db') = Len(db) + 1
           /\ DOMAIN db = 1 .. Len(db)
           /\ DOMAIN db' = 1 .. Len(db) + 1
           /\ \A k \in DOMAIN db : db'[k] = db[k]
           /\ db'[Len(db')] = OpenPiece
<1>1. db' = Append(db, OpenPiece)
  BY DEF Commit, EngineCommits
<1>2. OpenPiece \in Transaction /\ db \in Seq(Transaction)
  BY OpenPieceType DEF ApplyTypeOK
<1>3. Len(db) \in Nat /\ DOMAIN db = 1 .. Len(db)
  BY <1>2, LenProperties
<1>4. /\ db' \in Seq(Transaction)
      /\ Len(db') = Len(db) + 1
      /\ \A k \in 1 .. Len(db) : db'[k] = db[k]
      /\ db'[Len(db) + 1] = OpenPiece
  BY <1>1, <1>2, AppendProperties
<1>5. DOMAIN db' = 1 .. Len(db) + 1
  BY <1>3, <1>4, LenProperties
<1> HIDE DEF OpenPiece
<1>6. QED
  BY <1>1, <1>3, <1>4, <1>5

\* The transactions of the database are those of before and the new one.
LEMMA CommittedGrows ==
    ASSUME ApplyTypeOK, Commit \/ EngineCommits
    PROVE  Committed' \subseteq Committed \cup {OpenPiece}
<1>1. ASSUME NEW k \in DOMAIN db' PROVE db'[k] \in Committed \cup {OpenPiece}
  <2>1. k \in DOMAIN db \/ k = Len(db')
    BY Publishes
  <2>2. QED
    BY <2>1, Publishes DEF Committed
<1>2. QED
  BY <1>1 DEF Committed

\* What the last commit makes visible: the slice up to the end of the pack.
LEMMA CommitsTail ==
    ASSUME ApplyTypeOK, TxIsSlice, Commit
    PROVE  tx = SubSeq(content, base + 1, Len(content))
<1>1. /\ tx = SubSeq(content, base + 1, executed)
      /\ start <= base /\ base <= executed
      /\ executed <= Len(content) \/ executed = start
      /\ executed >= Len(content)
  BY DEF TxIsSlice, Commit
<1>2. Len(content) \in Nat
  BY LenProperties DEF ApplyTypeOK
<1>3. CASE executed = Len(content)
  BY <1>1, <1>3
<1>4. CASE executed # Len(content)
  <2>1. executed = base /\ Len(content) < base
    BY <1>1, <1>2, <1>4 DEF ApplyTypeOK
  <2>2. SubSeq(content, base + 1, Len(content)) = <<>>
    BY <2>1, <1>2, SubSeqEmpty DEF ApplyTypeOK
  <2>3. tx = <<>>
    BY <1>1, <2>1, EmptySlice DEF ApplyTypeOK
  <2>4. QED
    BY <2>2, <2>3
<1>5. QED
  BY <1>3, <1>4

\* A new run has committed nothing yet, and a commit is what the next one of
\* its run continues.
LEMMA ContinuesStep ==
    ASSUME ApplyTypeOK, Continues, [ApplyNext]_applyVars
    PROVE  Continues'
<1> USE DEF Continues
<1>0. ApplyTypeOK'
  BY TypeStep
<1>1. ASSUME NEW p \in Paths, ApplyStart(p) PROVE Continues'
  <2>1. \A k \in DOMAIN db : db[k].run \in Nat /\ db[k].run <= runs
    <3>1. \A k \in DOMAIN db : db[k] \in Transaction
      BY LenProperties, ElementOfSeq DEF ApplyTypeOK
    <3>2. QED
      BY <3>1 DEF Transaction
  <2>2. QED
    BY <1>1, <2>1 DEF ApplyStart, ApplyTypeOK
<1>2. CASE Begin
  <2>1. db # <<>> => Len(db) \in DOMAIN db
    BY LenProperties, EmptySeq DEF ApplyTypeOK
  <2>2. QED
    BY <1>2, <2>1 DEF Begin
<1>3. CASE ExecStatement
  BY <1>3 DEF ExecStatement
<1>4. CASE Commit \/ EngineCommits
  <2>1. apc' # "open" /\ runs' = runs /\ base' = executed
    BY <1>4 DEF Commit, EngineCommits, Return
  <2>2. OpenPiece.run = runs /\ OpenPiece.to = executed
    BY DEF OpenPiece
  <2>3. \A k \in DOMAIN db' : k \in DOMAIN db \/ k = Len(db')
    BY <1>4, Publishes
  <2>4. \A k \in DOMAIN db' : db'[k].run <= runs
    BY <1>4, <2>2, <2>3, Publishes DEF ApplyTypeOK
  <2>5. db' # <<>>
    BY <1>4, Publishes, EmptySeq
  <2>6. QED
    BY <1>4, <2>1, <2>2, <2>4, <2>5, Publishes
<1>5. CASE OpenFails \/ DryRun \/ ExecFails
  BY <1>5 DEF OpenFails, DryRun, ExecFails, Return
<1>6. CASE Cleanup \/ ApplyKill
  BY <1>6 DEF Cleanup, ApplyKill, ApplyExits
<1>7. CASE GenPackRan \/ ADayPasses
  BY <1>7 DEF GenPackRan, ADayPasses, runVars
<1>8. CASE UNCHANGED applyVars
  BY <1>8 DEF applyVars
<1>9. QED
  BY <1>1, <1>2, <1>3, <1>4, <1>5, <1>6, <1>7, <1>8
     DEF ApplyNext, ApplyStep, Outside

\* What a commit makes visible is a piece of its pack.
LEMMA PublishesPiece ==
    ASSUME ApplyTypeOK, TxIsSlice, BaseIsCut, CutsAtBatch, Commit \/ EngineCommits
    PROVE  /\ tx = SubSeq(content, base + 1, executed)
           /\ start % CheckpointBatch = 0
           /\ base = start \/ SchemaChanged(content, start, base)
           /\ executed >= Len(content) \/ SchemaChanged(content, start, executed)
<1>1. apc = "exec"
  BY DEF Commit, EngineCommits
<1>2. QED
  BY <1>1 DEF TxIsSlice, BaseIsCut, CutsAtBatch, Commit, EngineCommits

\* Every committed transaction is a piece of its pack, next to the one before.
LEMMA PiecesStep ==
    ApplyTypeOK /\ CutsAtBatch /\ TxIsSlice /\ BaseIsCut /\ Continues
        /\ PiecesOfPack /\ [ApplyNext]_applyVars => PiecesOfPack'
<1> SUFFICES ASSUME ApplyTypeOK, CutsAtBatch, TxIsSlice, BaseIsCut, Continues,
                    PiecesOfPack, [ApplyNext]_applyVars
             PROVE  PiecesOfPack'
  OBVIOUS
<1>1. CASE Commit \/ EngineCommits
  <2>1. apc = "exec"
    BY <1>1 DEF Commit, EngineCommits
  <2>2. \A t \in Committed' :
            /\ t.stmts = SubSeq(t.content, t.from + 1, t.to)
            /\ t.start % CheckpointBatch = 0
            /\ t.from = t.start \/ SchemaChanged(t.content, t.start, t.from)
            /\ t.to >= Len(t.content) \/ SchemaChanged(t.content, t.start, t.to)
    BY <1>1, CommittedGrows, PublishesPiece DEF PiecesOfPack, OpenPiece
  <2>3. ASSUME NEW k \in 2 .. Len(db')
        PROVE  IF db'[k - 1].run = db'[k].run THEN db'[k].from = db'[k - 1].to
               ELSE db'[k].from = db'[k].start
    <3>1. k - 1 \in DOMAIN db /\ db'[k - 1] = db[k - 1]
      BY <1>1, Publishes
    <3>2. CASE k \in 2 .. Len(db)
      <4>1. k \in DOMAIN db /\ db'[k] = db[k]
        BY <1>1, <3>2, Publishes
      <4>2. QED
        BY <3>1, <3>2, <4>1 DEF PiecesOfPack
    <3>3. CASE k = Len(db')
      <4>1. db'[k] = OpenPiece /\ k - 1 = Len(db) /\ db # <<>>
        BY <1>1, <3>1, <3>3, Publishes, EmptySeq
      <4>2. /\ db'[k].run = runs /\ db'[k].from = base /\ db'[k].start = start
        BY <4>1 DEF OpenPiece
      <4>3. QED
        BY <2>1, <3>1, <4>1, <4>2 DEF Continues
    <3>4. QED
      BY <1>1, <3>2, <3>3, Publishes
  <2>4. QED
    BY <2>2, <2>3 DEF PiecesOfPack
<1>2. CASE ~(Commit \/ EngineCommits)
  BY <1>2, OnlyCommits DEF PiecesOfPack, Committed
<1>3. QED
  BY <1>1, <1>2

\* A schema change on the way through a pack is one of the pack.
LEMMA ChangeIsOfPack ==
    ASSUME NEW pack \in Seq(Statement), NEW s \in Nat, NEW n \in Nat,
           SchemaChanged(pack, s, n)
    PROVE  ChangesSchema(pack)
<1>1. PICK i \in DOMAIN pack : s < i /\ pack[i] \in Ddl
  BY DEF SchemaChanged
<1>2. i \in 1 .. Len(pack) /\ Len(pack) \in Nat
  BY LenProperties
<1>3. QED
  BY <1>1, <1>2 DEF ChangesSchema, SchemaChanged

\* With nothing to resume from and no schema change, a commit is of the whole.
LEMMA CommitsWhole ==
    ASSUME ApplyTypeOK, NothingToResume, TxIsSlice, BaseIsCut, ~leftover,
           Commit \/ EngineCommits, ~ChangesSchema(content)
    PROVE  Commit /\ tx = content
<1>1. content \in Seq(Statement) /\ start \in Nat /\ base \in Nat /\ executed \in Nat
  BY DEF ApplyTypeOK
<1>2. ~EngineCommits
  BY <1>1, ChangeIsOfPack DEF EngineCommits
<1>3. base = start
  BY <1>1, <1>2, ChangeIsOfPack DEF BaseIsCut, Commit
<1>4. tx = SubSeq(content, 1, Len(content))
  BY <1>1, <1>2, <1>3, CommitsTail DEF NothingToResume
<1>5. QED
  BY <1>1, <1>2, <1>4, SubSeqFull

\* Then every transaction is a whole pack.
LEMMA WholeStep ==
    ApplyTypeOK /\ NothingToResume /\ TxIsSlice /\ BaseIsCut /\ WholePacks
        /\ [ApplyNext]_applyVars => WholePacks'
<1> SUFFICES ASSUME ApplyTypeOK, NothingToResume, TxIsSlice, BaseIsCut,
                    WholePacks, [ApplyNext]_applyVars, ~leftover'
             PROVE  \A t \in Committed' :
                        ChangesSchema(t.content) \/ t.stmts = t.content
  BY DEF WholePacks
<1>1. CASE Commit \/ EngineCommits
  <2>1. ~leftover
    BY <1>1 DEF Commit, EngineCommits
  <2>2. ChangesSchema(OpenPiece.content) \/ OpenPiece.stmts = OpenPiece.content
    BY <1>1, <2>1, CommitsWhole DEF OpenPiece
  <2>3. QED
    BY <1>1, <2>1, <2>2, CommittedGrows DEF WholePacks
<1>2. CASE ~(Commit \/ EngineCommits)
  BY <1>2, OnlyCommits DEF WholePacks, Committed
<1>3. QED
  BY <1>1, <1>2

\* The invariant holds always.
THEOREM ApplyInvariant == ApplySpec => []ApplyInv
<1>1. ApplyInit => ApplyInv
  <2> SUFFICES ASSUME ApplyInit PROVE ApplyInv
    OBVIOUS
  <2>1. ApplyTypeOK
    BY InitType
  <2>2. ContentIsPack /\ NothingToResume /\ TxIsSlice
    BY DEF ApplyInit, ContentIsPack, NothingToResume, TxIsSlice
  <2>6. BaseIsCut /\ Continues
    BY DEF ApplyInit, BaseIsCut, Continues
  <2>3. CutsAtBatch
    BY ZeroAtBatch DEF ApplyInit, CutsAtBatch, AtBatch
  <2>4. Committed = {}
    BY DEF ApplyInit, Committed
  <2>5. ProgressOnlyFromKill /\ PiecesOfPack /\ WholePacks
    BY <2>4 DEF ApplyInit, ProgressOnlyFromKill, PiecesOfPack, WholePacks
  <2>7. QED
    BY <2>1, <2>2, <2>3, <2>5, <2>6 DEF ApplyInv
<1>2. ApplyInv /\ [ApplyNext]_applyVars => ApplyInv'
  BY TypeStep, ContentStep, CutsStep, NothingToResumeStep, SliceStep,
     BaseStep, ContinuesStep, ProgressStep, PiecesStep, WholeStep DEF ApplyInv
<1>3. QED
  BY <1>1, <1>2, PTL DEF ApplySpec

\* README.md "Atomic application (all or nothing)": without a checkpoint that a
\* gen-pack left behind, every transaction is a whole pack.
THEOREM WholePacksHolds == ApplySpec => []WholePacks
<1>1. ApplyInv => WholePacks
  BY DEF ApplyInv
<1>2. QED
  BY <1>1, ApplyInvariant, PTL

\* Whatever is resumed and wherever the engine commits by itself, what a run
\* commits are consecutive pieces of its pack.
THEOREM PiecesOfPackHolds == ApplySpec => []PiecesOfPack
<1>1. ApplyInv => PiecesOfPack
  BY DEF ApplyInv
<1>2. QED
  BY <1>1, ApplyInvariant, PTL

\* An apply that returned has left no progress on file.
THEOREM ProgressOnlyFromKillHolds == ApplySpec => []ProgressOnlyFromKill
<1>1. ApplyInv => ProgressOnlyFromKill
  BY DEF ApplyInv
<1>2. QED
  BY <1>1, ApplyInvariant, PTL

(***************************************************************************)
(* apply implements AtomicApply.                                           *)
(***************************************************************************)

\* The target database as AtomicApply sees it: the statements of each commit.
Visible == [k \in DOMAIN db |-> db[k].stmts]

\* A function on 1 .. n is a sequence of length n.
LEMMA FunctionIsSeq ==
    ASSUME NEW S, NEW n \in Nat, NEW f \in [1 .. n -> S]
    PROVE  f \in Seq(S) /\ Len(f) = n
<1>1. f \in Seq(S)
  BY SeqDef
<1>2. Len(f) \in Nat /\ DOMAIN f = 1 .. Len(f)
  BY <1>1, LenProperties
<1>3. 1 .. n = 1 .. Len(f)
  BY <1>2
<1>4. QED
  BY <1>1, <1>2, <1>3

\* A commit appends its statements to what is visible.
LEMMA VisibleGrows ==
    ASSUME ApplyTypeOK, Commit \/ EngineCommits
    PROVE  Visible' = Append(Visible, tx)
<1> DEFINE n == Len(db)
<1>1. /\ db \in Seq(Transaction) /\ n \in Nat /\ DOMAIN db = 1 .. n
      /\ db' \in Seq(Transaction) /\ DOMAIN db' = 1 .. n + 1
      /\ \A k \in 1 .. n : db'[k] = db[k]
      /\ db'[n + 1].stmts = tx
  BY Publishes DEF ApplyTypeOK, OpenPiece
<1> HIDE DEF n
<1>2. \A k \in 1 .. n : db[k].stmts \in Seq(Statement)
  <2>1. \A k \in 1 .. n : db[k] \in Transaction
    BY <1>1, ElementOfSeq DEF n
  <2>2. QED
    BY <2>1 DEF Transaction
<1>3. Visible = [k \in 1 .. n |-> db[k].stmts]
  BY <1>1 DEF Visible
<1>4. Visible \in Seq(Seq(Statement)) /\ Len(Visible) = n
  BY <1>1, <1>2, <1>3, FunctionIsSeq
<1>5. Visible' = [k \in 1 .. n + 1 |-> db'[k].stmts]
  BY <1>1 DEF Visible
<1>6. \A k \in 1 .. n + 1 : db'[k].stmts \in Seq(Statement)
  <2>1. ASSUME NEW k \in 1 .. n + 1 PROVE k \in 1 .. n \/ k = n + 1
    BY <1>1
  <2>2. tx \in Seq(Statement)
    BY DEF ApplyTypeOK
  <2>3. QED
    BY <1>1, <1>2, <2>1, <2>2
<1>7. Visible' \in Seq(Seq(Statement)) /\ Len(Visible') = n + 1
  BY <1>1, <1>5, <1>6, FunctionIsSeq
<1>8. /\ Append(Visible, tx) \in Seq(Seq(Statement))
      /\ Len(Append(Visible, tx)) = n + 1
      /\ \A k \in 1 .. n : Append(Visible, tx)[k] = Visible[k]
      /\ Append(Visible, tx)[n + 1] = tx
  BY <1>4, AppendProperties DEF ApplyTypeOK
<1>9. ASSUME NEW k \in 1 .. n + 1 PROVE Visible'[k] = Append(Visible, tx)[k]
  <2>1. k \in 1 .. n \/ k = n + 1
    BY <1>1
  <2>2. CASE k \in 1 .. n
    BY <2>2, <1>1, <1>3, <1>5, <1>8
  <2>3. CASE k = n + 1
    BY <2>3, <1>1, <1>5, <1>8
  <2>4. QED
    BY <2>1, <2>2, <2>3
<1>10. QED
  BY <1>7, <1>8, <1>9, SeqEqual

\* A commit is ApplyWhole, ApplyTail when a checkpoint was left behind, or
\* ApplyPiece when the pack changes the schema.
LEMMA CommitImplements ==
    ASSUME ApplyInv, Commit \/ EngineCommits
    PROVE  Promise!Next
<1>1. /\ ApplyTypeOK /\ ContentIsPack /\ NothingToResume /\ TxIsSlice
      /\ BaseIsCut /\ apc = "exec" /\ UNCHANGED leftover
  BY DEF ApplyInv, Commit, EngineCommits
<1>2. /\ content \in Packs /\ content \in Seq(Statement)
      /\ start \in Nat /\ base \in Nat /\ executed \in Nat
  BY <1>1 DEF ContentIsPack, ApplyTypeOK
<1>3. Visible' = Append(Visible, tx)
  BY <1>1, VisibleGrows
<1>4. Len(content) \in Nat
  BY <1>2, LenProperties
<1>5. ASSUME ChangesSchema(content), NEW m \in 0 .. Len(content),
             NEW n \in 0 .. Len(content), tx = SubSeq(content, m + 1, n)
      PROVE  Promise!Next
  BY <1>1, <1>2, <1>3, <1>5
     DEF Promise!Next, Promise!ApplyPiece, Promise!Piece, Visible
<1>6. CASE EngineCommits
  <2>1. ChangesSchema(content) /\ tx # <<>>
    BY <1>2, <1>6, ChangeIsOfPack DEF EngineCommits
  <2>2. /\ tx = SubSeq(content, base + 1, executed)
        /\ start <= base /\ base <= executed
        /\ executed <= Len(content) \/ executed = start
    BY <1>1 DEF TxIsSlice
  <2>3. base # executed
    BY <1>2, <2>1, <2>2, EmptySlice
  <2>4. base \in 0 .. Len(content) /\ executed \in 0 .. Len(content)
    BY <1>2, <1>4, <2>2, <2>3
  <2>5. QED
    BY <1>5, <2>1, <2>2, <2>4
<1>7. CASE Commit
  <2>1. PICK n \in 0 .. Len(content) : tx = SubSeq(content, n + 1, Len(content))
    <3>1. tx = SubSeq(content, base + 1, Len(content))
      BY <1>1, <1>7, CommitsTail
    <3>2. CASE base <= Len(content)
      BY <1>2, <1>4, <3>1, <3>2
    <3>3. CASE ~(base <= Len(content))
      <4>1. tx = <<>>
        BY <1>2, <1>4, <3>1, <3>3, SubSeqEmpty
      <4>2. SubSeq(content, Len(content) + 1, Len(content)) = <<>>
        BY <1>4, EmptySlice
      <4>3. Len(content) \in 0 .. Len(content)
        BY <1>4
      <4>4. QED
        BY <4>1, <4>2, <4>3
    <3>4. QED
      BY <3>2, <3>3
  <2>2. CASE leftover
    BY <1>1, <1>2, <1>3, <2>1, <2>2
       DEF Promise!Next, Promise!ApplyTail, Promise!Piece, Visible
  <2>3. CASE ~leftover /\ ChangesSchema(content)
    <3>1. Len(content) \in 0 .. Len(content)
      BY <1>4
    <3>2. QED
      BY <1>5, <2>1, <2>3, <3>1
  <2>4. CASE ~leftover /\ ~ChangesSchema(content)
    <3>1. tx = content
      BY <1>1, <1>7, <2>4, CommitsWhole
    <3>2. QED
      BY <1>1, <1>2, <1>3, <3>1 DEF Promise!Next, Promise!ApplyWhole, Visible
  <2>5. QED
    BY <2>2, <2>3, <2>4
<1>8. QED
  BY <1>6, <1>7

\* Any other step shows nothing, or leaves a checkpoint behind.
LEMMA OthersImplement ==
    ASSUME ApplyInv, [ApplyNext]_applyVars, ~Commit, ~EngineCommits
    PROVE  [Promise!Next]_(Promise!vars)
<1>1. ApplyTypeOK /\ ApplyTypeOK'
  BY TypeStep DEF ApplyInv
<1>2. UNCHANGED db /\ (leftover => leftover')
  BY <1>1, OnlyCommits
<1>3. leftover \in BOOLEAN /\ leftover' \in BOOLEAN
  BY <1>1 DEF ApplyTypeOK
<1>4. Visible' = Visible
  BY <1>2 DEF Visible
<1>5. leftover' = leftover \/ leftover' = TRUE
  BY <1>2, <1>3
<1>6. QED
  BY <1>4, <1>5
     DEF Promise!Next, Promise!LeaveCheckpoint, Promise!vars, Visible

\* The documentation's promise: apply changes the target by whole packs, with a
\* checkpoint left behind by tails of packs, and by pieces of a pack that changes
\* the schema; nothing is visible before a commit and nothing is undone.
THEOREM ApplyIsAtomic == ApplySpec => ImplementsAtomicApply
<1>1. ApplyInit => Promise!Init
  <2>1. ApplyInit => Visible = <<>>
    <3> SUFFICES ASSUME ApplyInit PROVE Visible = <<>>
      OBVIOUS
    <3>1. db = <<>> /\ DOMAIN db = {}
      BY DEF ApplyInit
    <3>2. QED
      BY <3>1 DEF Visible
  <2>2. QED
    BY <2>1 DEF ApplyInit, Promise!Init, Visible
<1>2. ApplyInv /\ [ApplyNext]_applyVars => [Promise!Next]_(Promise!vars)
  BY CommitImplements, OthersImplement
<1>3. QED
  BY <1>1, <1>2, ApplyInvariant, PTL
     DEF ApplySpec, ImplementsAtomicApply, Promise!Spec

(***************************************************************************)
(* gen-pack: the states of a run.                                          *)
(***************************************************************************)

Statements == [kind    : {"header", "alter", "rows", "update", "footer"},
               table   : Nat,
               version : Versions \cup {0}]

\* The states that gen-pack makes and loads.
GenStates == [config  : Configs,
              expired : BOOLEAN,
              gen     : [completed : SUBSET Tables, statements : Seq(Statements)],
              apply   : {NoProgress}]

GenTypeOK ==
    /\ checkpointFile \in GenStates \cup {NoState}
    /\ manager \in GenStates \cup {NoState}
    /\ packs \in [Paths -> Seq(Statements)]
    /\ gpc \in {"idle", "hash", "load", "tables", "cleanup"}
    /\ config \in Configs /\ loaded \in Configs
    /\ todo \in SUBSET Tables /\ done \in SUBSET Tables /\ diff \in SUBSET Tables
    /\ stmts \in Seq(Statements)
    /\ dev \in [Tables -> Versions] /\ prod \in [Tables -> Versions]
    /\ resumed \in BOOLEAN /\ unsaved \in BOOLEAN /\ steady \in BOOLEAN

\* The tables whose rows a script has.
RowTables(script) == {t \in Tables : At(script, "rows", t) # {}}

\* A script that more statements may be appended to.
Open(script) ==
    /\ \A t \in Tables : \A i, j \in At(script, "rows", t) : i = j
    /\ At(script, "header", 0) = {1}
    /\ At(script, "footer", 0) = {}

\* A script that was begun by this run: the tables' rows follow its first
\* statements, among which each new column is added once.
Begun(script) ==
    /\ Len(script) > Cardinality(Drift) /\ script[1] = Header
    /\ \A i \in DOMAIN script :
           script[i].kind = "rows" <=> i > 1 + Cardinality(Drift)
    /\ \A t \in Tables : At(script, "update", t) = {}
    /\ \A t \in Drift : Cardinality(At(script, "alter", t)) = 1

\* Until GeneratePack reads the checkpoint, the manager has what is on file, if it
\* has anything, and that is of this configuration, unless it is an old file in
\* whose place no new one could be saved.
FileIsOurs ==
    gpc \in {"hash", "load"} =>
        /\ manager # NoState => checkpointFile = manager /\ ~ manager.expired
        /\ ~ unsaved /\ checkpointFile # NoState => checkpointFile.config = config

\* While the rows are written the script has those of the tables that were
\* completed before and of those of the diff that are behind, and so says the
\* manager.
ScriptKept ==
    gpc = "tables" =>
        /\ Open(stmts)
        /\ todo \subseteq diff
        /\ RowTables(stmts) = done \cup (diff \ todo)
        /\ manager # NoState => manager.gen.completed = RowTables(stmts)
        /\ ~ resumed => done = {} /\ Begun(stmts)

\* The whole diff is to be done; and while the databases stand still, the diff
\* and the rows are theirs.
DiffStands ==
    /\ gpc = "load" => todo = diff
    /\ steady =>
           /\ gpc \in {"load", "tables"} => diff = DiffTables
           /\ gpc = "tables" /\ ~ resumed =>
                  \A t \in Tables : \A i \in At(stmts, "rows", t) :
                      stmts[i].version = Literal[dev[t]]

GenInv ==
    /\ GenTypeOK
    /\ FileIsOurs
    /\ ScriptKept
    /\ DiffStands
    /\ CheckpointConsistent
    /\ RowsOnce
    /\ FreshPackConverges
    /\ ResumeValidated

----------------------------------------------------------------------------
(* Listings. *)

LEMMA TablesAreFinite ==
    ASSUME NEW S \in SUBSET Tables
    PROVE  IsFiniteSet(S) /\ Cardinality(S) \in Nat
<1>1. IsFiniteSet(Tables)
  BY FS_Interval, GenAssumption DEF Tables
<1> QED BY <1>1, FS_Subset, FS_CardinalityType

\* A listing of a set has all of it.
LEMMA ListingIsOnto ==
    ASSUME NEW S \in SUBSET Tables, NEW f \in Listings(S), NEW t \in S
    PROVE  \E i \in 1 .. Cardinality(S) : f[i] = t
<1> DEFINE n == Cardinality(S)
<1>1. n \in Nat /\ IsFiniteSet(S)
  BY TablesAreFinite
<1>2. IsFiniteSet(1 .. n) /\ Cardinality(1 .. n) = n
  BY <1>1, FS_Interval
<1>3. f \in Injection(1 .. n, S)
  BY DEF Listings, Injection, IsInjective
<1>4. f \in Surjection(1 .. n, S)
  <2> HIDE DEF n
  <2>1. Cardinality(1 .. n) = Cardinality(S) <=> f \in Surjection(1 .. n, S)
    BY <1>1, <1>3, FS_Injection
  <2> QED BY <1>2, <2>1 DEF n
<1> QED BY <1>4 DEF Surjection

\* A set of tables can be listed in the order of names: a table's place is how
\* many there are up to it.
LEMMA InOrderLists ==
    ASSUME NEW S \in SUBSET Tables
    PROVE  InOrder(S) \in Listings(S)
<1> DEFINE n == Cardinality(S)
           Upto(t) == {u \in S : u <= t}
           place == [t \in S |-> Cardinality(Upto(t))]
           f == [i \in 1 .. n |-> CHOOSE t \in S : place[t] = i]
<1>1. n \in Nat /\ IsFiniteSet(S) /\ S \subseteq Nat
  BY TablesAreFinite DEF Tables
<1>2. \A t \in S : Upto(t) \in SUBSET S /\ Upto(t) \in SUBSET Tables /\ t \in Upto(t)
  <2>1. \A t \in S : t \in Nat
    BY <1>1
  <2>2. \A t \in S : t \in Upto(t)
    BY <2>1
  <2>3. \A t \in S : Upto(t) \in SUBSET S /\ Upto(t) \in SUBSET Tables
    OBVIOUS
  <2> QED BY <2>2, <2>3
<1>3. \A t \in S : IsFiniteSet(Upto(t)) /\ Cardinality(Upto(t)) \in 1 .. n
  <2> SUFFICES ASSUME NEW t \in S
               PROVE IsFiniteSet(Upto(t)) /\ Cardinality(Upto(t)) \in 1 .. n
    OBVIOUS
  <2> DEFINE U == Upto(t)
  <2>1. U \in SUBSET S /\ U \in SUBSET Tables /\ U # {}
    BY <1>2
  <2> HIDE DEF U
  <2>2. IsFiniteSet(U) /\ Cardinality(U) \in Nat /\ Cardinality(U) # 0
    BY <2>1, TablesAreFinite, FS_EmptySet
  <2>3. Cardinality(U) <= n
    BY <1>1, <2>1, FS_Subset
  <2> QED BY <1>1, <2>2, <2>3 DEF U
<1>4. ASSUME NEW t \in S, NEW u \in S, t < u
      PROVE  Cardinality(Upto(t)) < Cardinality(Upto(u))
  <2> DEFINE T == Upto(t)
             U == Upto(u)
  <2>1. T \subseteq U /\ u \in U /\ u \notin T
    <3>1. \A v \in S : v \in Nat
      BY <1>1
    <3> QED BY <1>4, <3>1
  <2>2. IsFiniteSet(U) /\ Cardinality(T) \in Nat /\ Cardinality(U) \in Nat
    BY <1>3
  <2> HIDE DEF T, U
  <2>3. Cardinality(T) <= Cardinality(U) /\ (Cardinality(U) = Cardinality(T) => U = T)
    BY <2>1, <2>2, FS_Subset
  <2>4. Cardinality(T) < Cardinality(U)
    BY <2>1, <2>2, <2>3
  <2> QED BY <2>4 DEF T, U
<1>5. place \in [S -> 1 .. n]
  BY <1>3
<1>6. \A t, u \in S : t < u => place[t] < place[u]
  BY <1>4
<1> HIDE DEF place
<1>7. place \in Injection(S, 1 .. n)
  <2>1. ASSUME NEW t \in S, NEW u \in S, place[t] = place[u] PROVE t = u
    <3>1. t < u \/ u < t \/ t = u
      BY <1>1
    <3> QED BY <1>5, <1>6, <2>1, <3>1
  <2> QED BY <1>5, <2>1 DEF Injection, IsInjective
<1>8. IsFiniteSet(1 .. n) /\ Cardinality(1 .. n) = n
  BY <1>1, FS_Interval
<1>9. \A i \in 1 .. n : \E t \in S : place[t] = i
  <2> DEFINE N == 1 .. n
  <2>1. Cardinality(S) = Cardinality(N)
    BY <1>8
  <2> HIDE DEF N
  <2>2. place \in Surjection(S, N)
    <3>1. place \in Injection(S, N) /\ IsFiniteSet(N)
      BY <1>7, <1>8 DEF N
    <3> QED BY <2>1, <3>1, FS_Injection
  <2> QED BY <2>2 DEF Surjection, N
<1>10. \A i \in 1 .. n : f[i] \in S /\ place[f[i]] = i
  BY <1>9
<1>11. f \in [1 .. n -> S] /\ DOMAIN f = 1 .. n
  BY <1>10
<1> HIDE DEF f
<1>12. \A i, j \in 1 .. n : i < j => f[i] < f[j]
  <2> SUFFICES ASSUME NEW i \in 1 .. n, NEW j \in 1 .. n, i < j PROVE f[i] < f[j]
    OBVIOUS
  <2>1. f[i] \in S /\ f[j] \in S /\ place[f[i]] = i /\ place[f[j]] = j
    BY <1>10
  <2>2. ~ (f[j] < f[i])
    <3> SUFFICES ASSUME f[j] < f[i] PROVE FALSE
      OBVIOUS
    <3>1. place[f[j]] < place[f[i]]
      BY <1>6, <2>1
    <3> QED BY <2>1, <3>1
  <2>3. f[i] # f[j]
    BY <2>1
  <2>4. f[i] \in Nat /\ f[j] \in Nat
    BY <1>1, <2>1
  <2> QED BY <2>2, <2>3, <2>4
<1>13. f \in Listings(S) /\ \A i, j \in DOMAIN f : i < j => f[i] < f[j]
  <2>1. \A i, j \in 1 .. n : i # j => f[i] # f[j]
    BY <1>10
  <2> QED BY <1>11, <1>12, <2>1 DEF Listings
<1> QED BY <1>13 DEF InOrder

----------------------------------------------------------------------------
(* Scripts. *)

\* Where the statements of a kind for a table are in a script that goes on.
LEMMA AtOfExtended ==
    ASSUME NEW s \in Seq(Statements), NEW r \in Seq(Statements), NEW k, NEW t
    PROVE  /\ \A i \in At(s \o r, k, t) : i <= Len(s) => i \in At(s, k, t)
           /\ \A i \in At(s \o r, k, t) : i > Len(s) => i - Len(s) \in At(r, k, t)
           /\ \A i \in At(s, k, t) : i \in At(s \o r, k, t)
           /\ \A i \in At(r, k, t) : i + Len(s) \in At(s \o r, k, t)
<1>1. /\ s \o r \in Seq(Statements)
      /\ Len(s \o r) = Len(s) + Len(r)
      /\ \A i \in 1 .. Len(s) + Len(r) :
             (s \o r)[i] = IF i <= Len(s) THEN s[i] ELSE r[i - Len(s)]
  BY ConcatProperties
<1>2. Len(s) \in Nat /\ Len(r) \in Nat
  BY LenProperties
<1>3. DOMAIN s = 1 .. Len(s) /\ DOMAIN r = 1 .. Len(r) /\
      DOMAIN (s \o r) = 1 .. Len(s) + Len(r)
  BY <1>1, LenProperties
<1> DEFINE c == s \o r
<1>4. DOMAIN c = 1 .. Len(s) + Len(r)
  BY <1>3
<1>5. \A i \in 1 .. Len(s) + Len(r) : c[i] = IF i <= Len(s) THEN s[i] ELSE r[i - Len(s)]
  BY <1>1
<1> HIDE DEF c
<1>6. \A i \in At(c, k, t) :
          i \in 1 .. Len(s) + Len(r) /\ c[i].kind = k /\ c[i].table = t
  BY <1>4 DEF At
<1>7. \A i \in At(c, k, t) : i <= Len(s) => i \in At(s, k, t)
  <2> SUFFICES ASSUME NEW i \in At(c, k, t), i <= Len(s) PROVE i \in At(s, k, t)
    OBVIOUS
  <2>1. i \in 1 .. Len(s) /\ c[i] = s[i]
    BY <1>2, <1>5, <1>6
  <2> QED BY <1>3, <1>6, <2>1 DEF At
<1>8. \A i \in At(c, k, t) : i > Len(s) => i - Len(s) \in At(r, k, t)
  <2> SUFFICES ASSUME NEW i \in At(c, k, t), i > Len(s) PROVE i - Len(s) \in At(r, k, t)
    OBVIOUS
  <2>1. i - Len(s) \in 1 .. Len(r) /\ c[i] = r[i - Len(s)]
    BY <1>2, <1>5, <1>6
  <2> QED BY <1>3, <1>6, <2>1 DEF At
<1>9. \A i \in At(s, k, t) : i \in At(c, k, t)
  <2> SUFFICES ASSUME NEW i \in At(s, k, t) PROVE i \in At(c, k, t)
    OBVIOUS
  <2>1. i \in 1 .. Len(s) /\ s[i].kind = k /\ s[i].table = t
    BY <1>3 DEF At
  <2>2. i \in 1 .. Len(s) + Len(r) /\ c[i] = s[i]
    BY <1>2, <1>5, <2>1
  <2> QED BY <1>4, <2>1, <2>2 DEF At
<1>10. \A i \in At(r, k, t) : i + Len(s) \in At(c, k, t)
  <2> SUFFICES ASSUME NEW i \in At(r, k, t) PROVE i + Len(s) \in At(c, k, t)
    OBVIOUS
  <2>1. i \in 1 .. Len(r) /\ r[i].kind = k /\ r[i].table = t
    BY <1>3 DEF At
  <2>2. i + Len(s) \in 1 .. Len(s) + Len(r) /\ c[i + Len(s)] = r[i]
    <3>1. i + Len(s) \in 1 .. Len(s) + Len(r)
      BY <1>2, <2>1
    <3>2. ~ (i + Len(s) <= Len(s)) /\ (i + Len(s)) - Len(s) = i
      BY <1>2, <2>1
    <3>3. c[i + Len(s)] = r[(i + Len(s)) - Len(s)]
      BY <1>5, <3>1, <3>2
    <3> QED BY <3>1, <3>2, <3>3
  <2> QED BY <1>4, <2>1, <2>2 DEF At
<1> QED BY <1>7, <1>8, <1>9, <1>10 DEF c

\* What is appended is of other kinds.
LEMMA AtOfUnchanged ==
    ASSUME NEW s \in Seq(Statements), NEW r \in Seq(Statements), NEW k, NEW t,
           At(r, k, t) = {}
    PROVE  At(s \o r, k, t) = At(s, k, t)
<1> DEFINE c == s \o r
<1>1. c \in Seq(Statements)
  BY ConcatProperties
<1>2. Len(s) \in Nat
  BY LenProperties
<1>3. /\ \A i \in At(c, k, t) : i <= Len(s) => i \in At(s, k, t)
      /\ \A i \in At(c, k, t) : i > Len(s) => i - Len(s) \in At(r, k, t)
      /\ \A i \in At(s, k, t) : i \in At(c, k, t)
  BY AtOfExtended
<1> HIDE DEF c
<1>4. \A i \in At(c, k, t) : i \in Nat
  <2>1. DOMAIN c = 1 .. Len(c) /\ Len(c) \in Nat
    BY <1>1, LenProperties
  <2> QED BY <2>1 DEF At
<1>5. \A i \in At(c, k, t) : i <= Len(s)
  BY <1>2, <1>3, <1>4
<1>6. At(c, k, t) = At(s, k, t)
  BY <1>3, <1>5
<1> QED BY <1>6 DEF c

\* The statements that gen-pack makes.
LEMMA StatementTypes ==
    /\ Header \in Statements /\ Footer \in Statements
    /\ \A v \in Versions : Literal[v] \in Versions
    /\ \A t \in Tables : Alter(t) \in Statements
    /\ \A t \in Tables, v \in Versions : Rows(t, v) \in Statements
    /\ dev \in [Tables -> Versions] => \A t \in Tables : FillColumn(t) \in Statements
  BY GenAssumption DEF Statements, Header, Footer, Alter, FillColumn, Rows, Tables

\* The statements of a script of one statement.
LEMMA AtOfOne ==
    ASSUME NEW x \in Statements, NEW k, NEW t
    PROVE  /\ <<x>> \in Seq(Statements) /\ Len(<<x>>) = 1
           /\ At(<<x>>, k, t) = IF x.kind = k /\ x.table = t THEN {1} ELSE {}
  BY DEF At

\* The ALTER TABLEs at the top of a script.
Alters == [i \in 1 .. Cardinality(Drift) |-> Alter(InOrder(Drift)[i])]

LEMMA AltersAre ==
    /\ Alters \in Seq(Statements) /\ Len(Alters) = Cardinality(Drift)
    /\ \A i \in 1 .. Cardinality(Drift) : Alters[i].kind = "alter"
    /\ \A k, t : k # "alter" => At(Alters, k, t) = {}
    /\ \A t \in Drift : \E i \in Nat : At(Alters, "alter", t) = {i}
<1> DEFINE n == Cardinality(Drift)
           f == InOrder(Drift)
<1>1. n \in Nat /\ Drift \in SUBSET Tables
  BY TablesAreFinite, GenAssumption
<1>2. f \in Listings(Drift)
  BY <1>1, InOrderLists
<1>3. f \in [1 .. n -> Drift] /\ \A i, j \in 1 .. n : i # j => f[i] # f[j]
  BY <1>2 DEF Listings
<1>4. \A t \in Drift : \E i \in 1 .. n : f[i] = t
  BY <1>1, <1>2, ListingIsOnto
<1>5. Alters = [i \in 1 .. n |-> Alter(f[i])]
  BY DEF Alters
<1> HIDE DEF n, f
<1>6. \A i \in 1 .. n : Alter(f[i]) \in Statements
  BY <1>1, <1>3, StatementTypes
<1>7. Alters \in [1 .. n -> Statements]
  BY <1>5, <1>6
<1>8. Alters \in Seq(Statements) /\ Len(Alters) = n /\ DOMAIN Alters = 1 .. n
  BY <1>1, <1>7
<1>9. \A i \in 1 .. n : Alters[i].kind = "alter" /\ Alters[i].table = f[i]
  BY <1>5 DEF Alter
<1>10. \A k, t : k # "alter" => At(Alters, k, t) = {}
  BY <1>8, <1>9 DEF At
<1>11. \A t \in Drift : \E i \in Nat : At(Alters, "alter", t) = {i}
  <2> SUFFICES ASSUME NEW t \in Drift PROVE \E i \in Nat : At(Alters, "alter", t) = {i}
    OBVIOUS
  <2>1. PICK i \in 1 .. n : f[i] = t
    BY <1>4
  <2>2. i \in Nat
    BY <1>1
  <2>3. At(Alters, "alter", t) = {j \in 1 .. n : f[j] = t}
    BY <1>8, <1>9 DEF At
  <2>4. {j \in 1 .. n : f[j] = t} = {i}
    BY <1>3, <2>1
  <2> QED BY <2>2, <2>3, <2>4
<1> QED BY <1>8, <1>9, <1>10, <1>11 DEF n

\* A script is continued: what it has of rows does not change.
LEMMA Continued ==
    ASSUME NEW s \in Seq(Statements), Open(s)
    PROVE  /\ s \o Alters \in Seq(Statements)
           /\ Open(s \o Alters)
           /\ RowTables(s \o Alters) = RowTables(s)
<1>1. Alters \in Seq(Statements) /\ \A k, t : k # "alter" => At(Alters, k, t) = {}
  BY AltersAre
<1>2. \A k, t : k # "alter" => At(s \o Alters, k, t) = At(s, k, t)
  BY <1>1, AtOfUnchanged
<1>3. s \o Alters \in Seq(Statements)
  BY <1>1, ConcatProperties
<1> DEFINE c == s \o Alters
<1>4. \A k, t : k # "alter" => At(c, k, t) = At(s, k, t)
  BY <1>2
<1> HIDE DEF c
<1>5. Open(c) /\ RowTables(c) = RowTables(s)
  BY <1>4 DEF Open, RowTables
<1> QED BY <1>3, <1>5 DEF c

\* A script is begun.
LEMMA BegunHere ==
    /\ <<Header>> \in Seq(Statements)
    /\ Open(<<Header>>)
    /\ RowTables(<<Header>>) = {}
    /\ Begun(<<Header>> \o Alters)
<1> DEFINE s == <<Header>>
           c == s \o Alters
           n == Cardinality(Drift)
<1>1. /\ s \in Seq(Statements) /\ Len(s) = 1
      /\ \A k, t : At(s, k, t) = IF k = "header" /\ t = 0 THEN {1} ELSE {}
  <2>1. Header.kind = "header" /\ Header.table = 0 /\ Header \in Statements
    BY StatementTypes DEF Header
  <2> QED BY <2>1, AtOfOne
<1>2. Open(s) /\ RowTables(s) = {}
  <2> HIDE DEF s
  <2> QED BY <1>1 DEF Open, RowTables
<1>3. /\ Alters \in Seq(Statements) /\ Len(Alters) = n
      /\ \A i \in 1 .. n : Alters[i].kind = "alter"
      /\ \A t \in Drift : \E i \in Nat : At(Alters, "alter", t) = {i}
  BY AltersAre
<1>4. n \in Nat
  BY <1>3, LenProperties
<1>5. /\ c \in Seq(Statements) /\ Len(c) = 1 + n /\ DOMAIN c = 1 .. 1 + n
      /\ \A i \in 1 .. 1 + n : c[i] = IF i <= 1 THEN s[i] ELSE Alters[i - 1]
  <2> HIDE DEF s
  <2>1. /\ s \o Alters \in Seq(Statements)
        /\ Len(s \o Alters) = 1 + n
        /\ \A i \in 1 .. 1 + n : (s \o Alters)[i] = IF i <= 1 THEN s[i] ELSE Alters[i - 1]
    BY <1>1, <1>3, ConcatProperties
  <2> QED BY <2>1, LenProperties
<1>6. \A t \in Drift : Cardinality(At(c, "alter", t)) = 1
  <2> SUFFICES ASSUME NEW t \in Drift PROVE Cardinality(At(c, "alter", t)) = 1
    OBVIOUS
  <2>1. PICK i \in Nat : At(Alters, "alter", t) = {i}
    BY <1>3
  <2>2. At(s, "alter", t) = {}
    <3> HIDE DEF s
    <3> QED BY <1>1
  <2>3. /\ \A j \in At(c, "alter", t) : j <= 1 => j \in At(s, "alter", t)
        /\ \A j \in At(c, "alter", t) : j > 1 => j - 1 \in At(Alters, "alter", t)
        /\ \A j \in At(Alters, "alter", t) : j + 1 \in At(c, "alter", t)
    <3> HIDE DEF s
    <3>1. /\ \A j \in At(s \o Alters, "alter", t) :
                 j <= Len(s) => j \in At(s, "alter", t)
          /\ \A j \in At(s \o Alters, "alter", t) :
                 j > Len(s) => j - Len(s) \in At(Alters, "alter", t)
          /\ \A j \in At(Alters, "alter", t) : j + Len(s) \in At(s \o Alters, "alter", t)
      BY <1>1, <1>3, AtOfExtended, Zenon
    <3> HIDE DEF c
    <3>2. s \o Alters = c /\ Len(s) = 1
      BY <1>1 DEF c
    <3> QED BY <3>1, <3>2
  <2>4. \A j \in At(c, "alter", t) : j \in Nat
    <3> HIDE DEF c
    <3> QED BY <1>4, <1>5 DEF At
  <2> HIDE DEF c, s
  <2>5. At(c, "alter", t) = {i + 1}
    BY <2>1, <2>2, <2>3, <2>4
  <2> QED BY <2>5, FS_Singleton
<1>7. Begun(c)
  <2>1. c[1] = Header
    <3>1. c[1] = s[1]
      BY <1>4, <1>5
    <3> QED BY <3>1
  <2>2. \A i \in DOMAIN c : ~ (i > 1 + n) /\ c[i].kind # "rows"
    <3> SUFFICES ASSUME NEW i \in DOMAIN c PROVE ~ (i > 1 + n) /\ c[i].kind # "rows"
      OBVIOUS
    <3> HIDE DEF c, s
    <3>1. i \in 1 .. 1 + n
      BY <1>5
    <3>2. CASE i = 1
      <4>1. c[i].kind = "header"
        BY <2>1, <3>2 DEF Header
      <4> QED BY <1>4, <3>2, <4>1
    <3>3. CASE i # 1
      <4>1. i - 1 \in 1 .. n /\ c[i] = Alters[i - 1]
        BY <1>4, <1>5, <3>1, <3>3
      <4> QED BY <1>3, <1>4, <3>1, <4>1
    <3> QED BY <3>2, <3>3
  <2>3. \A t \in Tables : At(c, "update", t) = {}
    <3> HIDE DEF s
    <3>1. \A t : At(Alters, "update", t) = {} /\ At(s, "update", t) = {}
      BY <1>1, AltersAre
    <3> QED BY <1>1, <1>3, <3>1, AtOfUnchanged
  <2> HIDE DEF c
  <2> QED BY <1>4, <1>5, <1>6, <2>1, <2>2, <2>3 DEF Begun
<1> QED BY <1>1, <1>2, <1>7

\* A script c is script s with the rows of one more table.
OneMore(c, s, t, v) ==
    /\ c \in Seq(Statements)
    /\ Open(c)
    /\ RowTables(c) = RowTables(s) \cup {t}
    /\ Begun(s) => Begun(c)
    /\ \A u \in Tables : \A i \in At(c, "rows", u) :
           \/ i \in At(s, "rows", u) /\ c[i] = s[i]
           \/ u = t /\ c[i].version = v

LEMMA WithRows ==
    ASSUME NEW s \in Seq(Statements), NEW t \in Tables, NEW v \in Versions,
           Open(s), t \notin RowTables(s)
    PROVE  OneMore(Append(s, Rows(t, v)), s, t, Literal[v])
<1> DEFINE x == Rows(t, v)
           r == <<x>>
           c == s \o r
<1>1. /\ x \in Statements /\ x.kind = "rows" /\ x.table = t /\ x.version = Literal[v]
      /\ Append(s, x) = c
  BY StatementTypes DEF Rows
<1>2. /\ r \in Seq(Statements) /\ Len(r) = 1
      /\ \A k, u : At(r, k, u) = IF k = "rows" /\ u = t THEN {1} ELSE {}
  <2> HIDE DEF x
  <2> QED BY <1>1, AtOfOne
<1>3. r[1] = x
  OBVIOUS
<1> HIDE DEF x, r
<1>4. Len(s) \in Nat /\ DOMAIN s = 1 .. Len(s)
  BY LenProperties
<1>5. /\ c \in Seq(Statements) /\ DOMAIN c = 1 .. Len(s) + 1 /\ Len(c) = Len(s) + 1
      /\ \A i \in 1 .. Len(s) + 1 : c[i] = IF i <= Len(s) THEN s[i] ELSE r[i - Len(s)]
  <2>1. /\ s \o r \in Seq(Statements)
        /\ Len(s \o r) = Len(s) + 1
        /\ \A i \in 1 .. Len(s) + 1 :
               (s \o r)[i] = IF i <= Len(s) THEN s[i] ELSE r[i - Len(s)]
    BY <1>2, ConcatProperties
  <2> QED BY <2>1, LenProperties
<1>6. \A k, u : k # "rows" \/ u # t => At(c, k, u) = At(s, k, u)
  BY <1>2, AtOfUnchanged
<1>7. /\ \A i \in At(c, "rows", t) : i <= Len(s) => i \in At(s, "rows", t)
      /\ \A i \in At(c, "rows", t) : i > Len(s) => i - Len(s) \in At(r, "rows", t)
      /\ \A i \in At(r, "rows", t) : i + Len(s) \in At(c, "rows", t)
  BY <1>2, AtOfExtended
<1> HIDE DEF c
<1>8. At(c, "rows", t) = {Len(s) + 1}
  <2>1. At(s, "rows", t) = {}
    BY DEF RowTables
  <2>2. \A i \in At(c, "rows", t) : i \in 1 .. Len(s) + 1
    BY <1>5 DEF At
  <2>3. At(r, "rows", t) = {1}
    BY <1>2
  <2>4. 1 + Len(s) \in At(c, "rows", t)
    BY <1>7, <2>3
  <2>5. ASSUME NEW i \in At(c, "rows", t) PROVE i = Len(s) + 1
    <3>1. ~ (i <= Len(s))
      BY <1>7, <2>1
    <3> QED BY <1>4, <2>2, <3>1
  <2>6. Len(s) + 1 = 1 + Len(s)
    BY <1>4
  <2> QED BY <2>4, <2>5, <2>6
<1>9. c[Len(s) + 1] = x /\ \A i \in 1 .. Len(s) : c[i] = s[i]
  <2>1. Len(s) + 1 \in 1 .. Len(s) + 1 /\ ~ (Len(s) + 1 <= Len(s))
        /\ (Len(s) + 1) - Len(s) = 1
    BY <1>4
  <2>2. c[Len(s) + 1] = r[1]
    BY <1>5, <2>1
  <2>3. \A i \in 1 .. Len(s) : c[i] = s[i]
    BY <1>4, <1>5
  <2> QED BY <1>3, <2>2, <2>3
<1>10. Open(c)
  BY <1>6, <1>8 DEF Open
<1>11. RowTables(c) = RowTables(s) \cup {t}
  BY <1>6, <1>8 DEF RowTables
<1>12. ASSUME Begun(s) PROVE Begun(c)
  <2>1. /\ Len(s) > Cardinality(Drift) /\ s[1] = Header
        /\ \A i \in DOMAIN s : s[i].kind = "rows" <=> i > 1 + Cardinality(Drift)
        /\ \A u \in Tables : At(s, "update", u) = {}
        /\ \A u \in Drift : Cardinality(At(s, "alter", u)) = 1
    BY <1>12 DEF Begun
  <2>2. Cardinality(Drift) \in Nat
    BY TablesAreFinite, GenAssumption
  <2>3. Len(c) > Cardinality(Drift) /\ c[1] = Header
    BY <1>4, <1>5, <1>9, <2>1, <2>2
  <2>4. \A i \in DOMAIN c : c[i].kind = "rows" <=> i > 1 + Cardinality(Drift)
    <3> SUFFICES ASSUME NEW i \in DOMAIN c
                 PROVE c[i].kind = "rows" <=> i > 1 + Cardinality(Drift)
      OBVIOUS
    <3>1. CASE i = Len(s) + 1
      BY <1>1, <1>4, <1>9, <2>1, <2>2, <3>1
    <3>2. CASE i # Len(s) + 1
      <4>1. i \in DOMAIN s /\ c[i] = s[i]
        BY <1>4, <1>5, <1>9, <3>2
      <4> QED BY <2>1, <4>1
    <3> QED BY <3>1, <3>2
  <2>5. \A u \in Drift : Cardinality(At(c, "alter", u)) = 1
    BY <1>6, <2>1
  <2>6. \A u \in Tables : At(c, "update", u) = {}
    BY <1>6, <2>1
  <2> QED BY <2>3, <2>4, <2>5, <2>6 DEF Begun
<1>13. \A u \in Tables : \A i \in At(c, "rows", u) :
           \/ i \in At(s, "rows", u) /\ c[i] = s[i]
           \/ u = t /\ c[i].version = Literal[v]
  <2> SUFFICES ASSUME NEW u \in Tables, NEW i \in At(c, "rows", u)
               PROVE  \/ i \in At(s, "rows", u) /\ c[i] = s[i]
                      \/ u = t /\ c[i].version = Literal[v]
    OBVIOUS
  <2>1. CASE u = t
    BY <1>1, <1>8, <1>9, <2>1
  <2>2. CASE u # t
    <3>1. i \in At(s, "rows", u)
      BY <1>6, <2>2
    <3> QED BY <1>4, <1>9, <3>1 DEF At
  <2> QED BY <2>1, <2>2
<1> QED BY <1>1, <1>5, <1>10, <1>11, <1>12, <1>13 DEF x, OneMore

\* The script that is written: columns are filled after all that was there.
LEMMA ScriptOfPack ==
    ASSUME GenTypeOK, NEW script \in Scripts
    PROVE  /\ script \in Seq(Statements)
           /\ Len(script) > Len(stmts)
           /\ \A i \in 1 .. Len(stmts) : script[i] = stmts[i]
           /\ script[Len(script)] = Footer
           /\ \A k, t : k \notin {"update", "footer"} =>
                            At(script, k, t) = At(stmts, k, t)
           /\ \A t : At(stmts, "update", t) = {} =>
                         \A i \in At(script, "update", t) :
                             i > Len(stmts) /\ script[i].version = Literal[dev[t]]
           /\ \A t \in Drift \ done : At(script, "update", t) # {}
<1> DEFINE new == Drift \ done
           n == Cardinality(new)
<1>1. PICK order \in Listings(new) :
          script = stmts \o [i \in DOMAIN order |-> FillColumn(order[i])] \o <<Footer>>
  BY DEF Scripts
<1>2. n \in Nat /\ new \in SUBSET Tables
  BY TablesAreFinite, GenAssumption
<1>3. order \in [1 .. n -> new] /\ \A t \in new : \E i \in 1 .. n : order[i] = t
  BY <1>2, ListingIsOnto DEF Listings
<1> DEFINE fills == [i \in 1 .. n |-> FillColumn(order[i])]
           last == <<Footer>>
           s == stmts
           begin == s \o fills
<1>4. script = begin \o last
  BY <1>1, <1>3
<1> HIDE DEF n, new
<1>5. /\ fills \in Seq(Statements) /\ Len(fills) = n /\ DOMAIN fills = 1 .. n
      /\ \A i \in 1 .. n : /\ fills[i].kind = "update" /\ fills[i].table = order[i]
                          /\ fills[i].version = Literal[dev[order[i]]]
  <2>1. \A i \in 1 .. n : FillColumn(order[i]) \in Statements
    BY <1>2, <1>3, StatementTypes DEF GenTypeOK
  <2>2. fills \in [1 .. n -> Statements]
    BY <2>1
  <2>3. fills \in Seq(Statements) /\ Len(fills) = n /\ DOMAIN fills = 1 .. n
    BY <1>2, <2>2
  <2> QED BY <2>3 DEF FillColumn
<1>6. /\ last \in Seq(Statements) /\ Len(last) = 1
      /\ \A k, t : At(last, k, t) = IF k = "footer" /\ t = 0 THEN {1} ELSE {}
  <2>1. Footer.kind = "footer" /\ Footer.table = 0 /\ Footer \in Statements
    BY StatementTypes DEF Footer
  <2> QED BY <2>1, AtOfOne
<1>7. last[1] = Footer
  OBVIOUS
<1>8. s \in Seq(Statements) /\ Len(s) \in Nat
  BY LenProperties DEF GenTypeOK
<1> HIDE DEF fills, last, s
<1>9. /\ begin \in Seq(Statements) /\ Len(begin) = Len(s) + n
      /\ \A i \in 1 .. Len(s) : begin[i] = s[i]
      /\ \A i \in 1 .. n : begin[Len(s) + i] = fills[i]
  <2>1. /\ begin \in Seq(Statements) /\ Len(begin) = Len(s) + Len(fills)
        /\ \A i \in 1 .. Len(s) + Len(fills) :
               begin[i] = IF i <= Len(s) THEN s[i] ELSE fills[i - Len(s)]
    BY <1>5, <1>8, ConcatProperties
  <2> HIDE DEF begin
  <2>2. Len(fills) = n /\ n \in Nat /\ Len(s) \in Nat
    BY <1>2, <1>5, <1>8
  <2>3. \A i \in 1 .. Len(s) : i \in 1 .. Len(s) + Len(fills) /\ i <= Len(s)
    BY <2>2
  <2>4. \A i \in 1 .. Len(s) : begin[i] = s[i]
    BY <2>1, <2>3
  <2>5. \A i \in 1 .. n : /\ Len(s) + i \in 1 .. Len(s) + Len(fills)
                         /\ ~ (Len(s) + i <= Len(s)) /\ (Len(s) + i) - Len(s) = i
    BY <2>2
  <2>6. \A i \in 1 .. n : begin[Len(s) + i] = fills[i]
    BY <2>1, <2>5
  <2> QED BY <2>1, <2>2, <2>4, <2>6
<1>10. \A k, t : k # "update" => At(fills, k, t) = {}
  BY <1>5 DEF At
<1>11. \A k, t : k # "update" => At(begin, k, t) = At(s, k, t)
  BY <1>5, <1>8, <1>10, AtOfUnchanged
<1>12. \A t : \A i \in At(begin, "update", t) :
           /\ i <= Len(s) => i \in At(s, "update", t)
           /\ i > Len(s) => i - Len(s) \in At(fills, "update", t)
  BY <1>5, <1>8, AtOfExtended
<1>13. \A t \in new : At(begin, "update", t) # {}
  <2> SUFFICES ASSUME NEW t \in new PROVE At(begin, "update", t) # {}
    OBVIOUS
  <2>1. PICK i \in 1 .. n : order[i] = t
    BY <1>3
  <2>2. i \in At(fills, "update", t)
    BY <1>5, <2>1 DEF At
  <2> QED BY <1>5, <1>8, <2>2, AtOfExtended
<1> HIDE DEF begin
<1>14. /\ script \in Seq(Statements) /\ Len(script) = Len(begin) + 1
       /\ \A i \in 1 .. Len(begin) : script[i] = begin[i]
       /\ script[Len(begin) + 1] = Footer
  <2>1. /\ begin \o last \in Seq(Statements) /\ Len(begin \o last) = Len(begin) + 1
        /\ \A i \in 1 .. Len(begin) + 1 :
               (begin \o last)[i] = IF i <= Len(begin) THEN begin[i]
                                    ELSE last[i - Len(begin)]
    <3>1. /\ begin \o last \in Seq(Statements)
          /\ Len(begin \o last) = Len(begin) + Len(last)
          /\ \A i \in 1 .. Len(begin) + Len(last) :
                 (begin \o last)[i] = IF i <= Len(begin) THEN begin[i]
                                      ELSE last[i - Len(begin)]
      BY <1>6, <1>9, ConcatProperties
    <3>2. Len(last) = 1
      BY <1>6
    <3> QED BY <3>1, <3>2
  <2>2. Len(begin) \in Nat
    BY <1>9, LenProperties
  <2>3. Len(begin) + 1 \in 1 .. Len(begin) + 1 /\ ~ (Len(begin) + 1 <= Len(begin))
        /\ (Len(begin) + 1) - Len(begin) = 1
    BY <2>2
  <2>4. script[Len(begin) + 1] = last[1]
    BY <1>4, <2>1, <2>3
  <2>5. \A i \in 1 .. Len(begin) : script[i] = begin[i]
    BY <1>4, <2>1, <2>2
  <2> QED BY <1>4, <1>7, <2>1, <2>4, <2>5
<1>15. \A k, t : k # "footer" => At(script, k, t) = At(begin, k, t)
  BY <1>4, <1>6, <1>9, AtOfUnchanged
<1>16. Len(script) > Len(s) /\ \A i \in 1 .. Len(s) : script[i] = s[i]
  BY <1>2, <1>8, <1>9, <1>14
<1>17. \A k, t : k \notin {"update", "footer"} => At(script, k, t) = At(s, k, t)
  BY <1>11, <1>15
<1>18. \A t : At(s, "update", t) = {} =>
                  \A i \in At(script, "update", t) :
                      i > Len(s) /\ script[i].version = Literal[dev[t]]
  <2> SUFFICES ASSUME NEW t, At(s, "update", t) = {}, NEW i \in At(begin, "update", t)
               PROVE  i > Len(s) /\ script[i].version = Literal[dev[t]]
    BY <1>15
  <2>1. ~ (i <= Len(s))
    BY <1>12
  <2>2. DOMAIN begin = 1 .. Len(begin) /\ Len(begin) \in Nat
    BY <1>9, LenProperties
  <2>3. i \in Nat /\ i \in 1 .. Len(begin)
    BY <2>2 DEF At
  <2>4. i > Len(s)
    BY <1>8, <2>1, <2>3
  <2>5. i - Len(s) \in 1 .. n /\ fills[i - Len(s)].table = t
    BY <1>5, <1>12, <2>4 DEF At
  <2>6. fills[i - Len(s)].version = Literal[dev[t]]
    BY <1>5, <2>5
  <2>7. Len(s) + (i - Len(s)) = i
    BY <1>8, <2>3
  <2>8. begin[i] = fills[i - Len(s)]
    BY <1>9, <2>5, <2>7
  <2> QED BY <1>14, <2>3, <2>4, <2>6, <2>8
<1>19. \A t \in new : At(script, "update", t) # {}
  BY <1>13, <1>15
<1>20. script[Len(script)] = Footer
  BY <1>14
<1> QED BY <1>14, <1>16, <1>17, <1>18, <1>19, <1>20 DEF s, new

\* The rows of the pack are those of the script, and of every table of the diff.
LEMMA PackHasRows ==
    ASSUME GenInv, gpc = "tables", todo = {}, NEW script \in Scripts, NEW t \in Tables
    PROVE  /\ t \in diff => At(script, "rows", t) # {}
           /\ \A i, j \in At(script, "rows", t) : i = j
<1>1. At(script, "rows", t) = At(stmts, "rows", t)
  BY ScriptOfPack DEF GenInv
<1>2. Open(stmts) /\ diff \subseteq RowTables(stmts)
  BY DEF GenInv, ScriptKept
<1> QED BY <1>1, <1>2 DEF Open, RowTables

\* A pack made in one go converges.
LEMMA PackConverges ==
    ASSUME GenInv, gpc = "tables", todo = {}, ~ resumed, steady, NEW script \in Scripts
    PROVE  Converges(script)
<1>1. /\ GenTypeOK /\ done = {} /\ Begun(stmts) /\ Open(stmts)
      /\ RowTables(stmts) = diff /\ diff = DiffTables
      /\ \A t \in Tables : \A i \in At(stmts, "rows", t) :
             stmts[i].version = Literal[dev[t]]
  BY DEF GenInv, ScriptKept, DiffStands
<1>2. /\ script \in Seq(Statements)
      /\ Len(script) > Len(stmts)
      /\ \A i \in 1 .. Len(stmts) : script[i] = stmts[i]
      /\ script[Len(script)] = Footer
      /\ \A t : At(script, "rows", t) = At(stmts, "rows", t)
      /\ \A t : At(script, "alter", t) = At(stmts, "alter", t)
      /\ \A t : At(stmts, "update", t) = {} =>
                    \A i \in At(script, "update", t) :
                        i > Len(stmts) /\ script[i].version = Literal[dev[t]]
      /\ \A t \in Drift : At(script, "update", t) # {}
  BY <1>1, ScriptOfPack
<1>3. /\ DOMAIN stmts = 1 .. Len(stmts) /\ Len(stmts) \in Nat /\ Len(script) \in Nat
      /\ Drift \subseteq Tables /\ Cardinality(Drift) \in Nat
  BY <1>1, <1>2, LenProperties, TablesAreFinite, GenAssumption DEF GenTypeOK
<1>4. /\ Len(stmts) > Cardinality(Drift) /\ stmts[1] = Header
      /\ \A i \in DOMAIN stmts : stmts[i].kind = "rows" <=> i > 1 + Cardinality(Drift)
      /\ \A t \in Tables : At(stmts, "update", t) = {}
      /\ \A t \in Drift : Cardinality(At(stmts, "alter", t)) = 1
  BY <1>1 DEF Begun
<1>5. Len(script) > 1 /\ script[1] = Header
  BY <1>2, <1>3, <1>4
<1>6. ASSUME NEW t \in Tables
      PROVE  /\ At(stmts, "rows", t) = {} => prod[t] = dev[t]
             /\ \A i \in At(stmts, "rows", t) : script[i].version = Literal[dev[t]]
             /\ \A i \in At(script, "update", t) : script[i].version = Literal[dev[t]]
             /\ At(stmts, "rows", t) # {} <=> t \in diff
  <2>1. At(stmts, "rows", t) = {} => t \notin DiffTables
    BY <1>1 DEF RowTables
  <2>2. \A i \in At(stmts, "rows", t) : i \in 1 .. Len(stmts)
    BY <1>3 DEF At
  <2>3. At(stmts, "rows", t) # {} <=> t \in diff
    BY <1>1 DEF RowTables
  <2> QED BY <1>1, <1>2, <1>4, <2>1, <2>2, <2>3 DEF DiffTables
<1>7. ASSUME NEW t \in Drift
      PROVE  /\ Before(At(stmts, "alter", t), At(stmts, "rows", t))
             /\ Before(At(stmts, "rows", t), At(script, "update", t))
  <2>1. \A i \in At(stmts, "alter", t) :
            i \in 1 .. Len(stmts) /\ ~ (i > 1 + Cardinality(Drift))
    BY <1>3, <1>4 DEF At
  <2>2. \A i \in At(stmts, "rows", t) :
            i \in 1 .. Len(stmts) /\ i > 1 + Cardinality(Drift)
    BY <1>3, <1>4 DEF At
  <2>3. \A i \in At(script, "update", t) : i > Len(stmts) /\ i \in Nat
    <3>1. DOMAIN script = 1 .. Len(script)
      BY <1>2, LenProperties
    <3>2. \A i \in At(script, "update", t) : i \in Nat
      BY <1>3, <3>1 DEF At
    <3> QED BY <1>2, <1>3, <1>4, <3>2
  <2> QED BY <1>3, <2>1, <2>2, <2>3 DEF Before
<1>8. ASSUME NEW t \in Tables, t \in diff => Literal[dev[t]] = dev[t]
      PROVE  Reaches(script, t)
  <2>1. /\ At(script, "rows", t) = At(stmts, "rows", t)
        /\ At(script, "alter", t) = At(stmts, "alter", t)
    BY <1>2
  <2>2. t \in Drift => t \in diff
    BY <1>1 DEF DiffTables
  <2>3. \A i \in At(script, "update", t) : t \in Drift => script[i].version = dev[t]
    BY <1>6, <1>8, <2>2
  <2>4. \A i \in At(script, "rows", t) : script[i].version = dev[t]
    BY <1>6, <1>8, <2>1
  <2> QED BY <1>2, <1>4, <1>6, <1>7, <1>8, <2>1, <2>2, <2>3, <2>4 DEF Reaches
<1> QED BY <1>2, <1>5, <1>8 DEF Converges

----------------------------------------------------------------------------
(* States that are saved. *)

\* What is said of a state on file or in memory.
Trusted(state) == state # NoState => ConsistentProgress(state.gen)

LEMMA BothAreTrusted == CheckpointConsistent <=> Trusted(checkpointFile) /\ Trusted(manager)
  BY DEF CheckpointConsistent, Trusted

LEMMA StampedIs ==
    ASSUME NEW state \in GenStates
    PROVE  /\ Stamped(state) \in GenStates
           /\ Stamped(state).gen = state.gen /\ Stamped(state).config = state.config
           /\ ~ Stamped(state).expired
           /\ ~ state.expired => Stamped(state) = state
  BY DEF GenStates, Stamped

\* A saved script that is not empty is open; an empty one has no table.
LEMMA ConsistentIsOpen ==
    ASSUME NEW progress, ConsistentProgress(progress)
    PROVE  /\ progress.completed = RowTables(progress.statements)
           /\ progress.statements # << >> => Open(progress.statements)
           /\ progress.statements = << >> => progress.completed = {}
<1>1. \A t : progress.statements = << >> => At(progress.statements, "rows", t) = {}
  BY DEF At
<1> QED BY <1>1 DEF ConsistentProgress, RowTables, Open

LEMMA OpenIsConsistent ==
    ASSUME NEW progress, Open(progress.statements),
           progress.completed = RowTables(progress.statements)
    PROVE  ConsistentProgress(progress)
  BY DEF ConsistentProgress, RowTables, Open

\* A new state is empty.
LEMMA NewStateIs ==
    ASSUME NEW c \in Configs
    PROVE  LET new == NewState(c, [completed |-> {}, statements |-> << >>])
           IN  /\ new \in GenStates /\ new.config = c /\ ~ new.expired
               /\ ConsistentProgress(new.gen)
<1> DEFINE gen == [completed |-> {}, statements |-> << >>]
           new == NewState(c, gen)
<1>1. /\ gen \in [completed : SUBSET Tables, statements : Seq(Statements)]
      /\ gen.completed = {} /\ gen.statements = << >>
  OBVIOUS
<1>2. ConsistentProgress(gen)
  <2>1. \A k, t : At(gen.statements, k, t) = {}
    BY DEF At
  <2> HIDE DEF gen
  <2> QED BY <1>1, <2>1 DEF ConsistentProgress
<1> HIDE DEF gen
<1>3. new \in GenStates /\ new.config = c /\ ~ new.expired /\ new.gen = gen
  BY <1>1 DEF NewState, GenStates
<1> QED BY <1>2, <1>3 DEF gen

\* An update of what is in memory, which may or may not come to the file.
LEMMA UpdateGives ==
    ASSUME NEW changed, Update(changed)
    PROVE  /\ manager = NoState => UNCHANGED <<checkpointFile, manager>>
           /\ manager # NoState => /\ manager' = Stamped(changed)
                                   /\ checkpointFile' \in {Stamped(changed), checkpointFile}
  BY DEF Update, AfterSave

----------------------------------------------------------------------------
(* The steps. *)

LEMMA InitHolds == GenInit => GenInv
<1> SUFFICES ASSUME GenInit PROVE GenInv
  OBVIOUS
<1> USE DEF GenInit
<1>1. GenTypeOK
  <2>1. packs \in [Paths -> Seq(Statements)]
    OBVIOUS
  <2>2. stmts \in Seq(Statements)
    OBVIOUS
  <2>3. todo \in SUBSET Tables /\ done \in SUBSET Tables /\ diff \in SUBSET Tables
    OBVIOUS
  <2>4. dev \in [Tables -> Versions] /\ prod \in [Tables -> Versions]
    OBVIOUS
  <2>5. /\ config \in Configs /\ loaded \in Configs /\ gpc = "idle"
        /\ resumed = FALSE /\ unsaved = FALSE /\ steady = TRUE
        /\ checkpointFile = NoState /\ manager = NoState
    OBVIOUS
  <2> HIDE DEF GenInit
  <2> QED BY <2>1, <2>2, <2>3, <2>4, <2>5 DEF GenTypeOK
<1>2. FileIsOurs /\ ScriptKept /\ DiffStands
  BY DEF FileIsOurs, ScriptKept, DiffStands
<1>3. CheckpointConsistent
  BY DEF CheckpointConsistent
<1>4. RowsOnce /\ FreshPackConverges /\ ResumeValidated
  BY DEF RowsOnce, FreshPackConverges, ResumeValidated, PackDone
<1> QED BY <1>1, <1>2, <1>3, <1>4 DEF GenInv

LEMMA StartKeeps ==
    ASSUME GenInv, NEW c \in Configs,
           StartFresh(c) \/ StartResumed(c) \/ StartWithNothing(c)
    PROVE  GenInv'
<1>1. /\ gpc' = "hash" /\ config' = c /\ loaded' = c /\ steady' = TRUE
      /\ UNCHANGED <<packs, todo, stmts, done, verdict, dev, prod, resumed, diff>>
  BY DEF StartFresh, StartResumed, StartWithNothing, Begins
<1>2. GenTypeOK /\ Trusted(checkpointFile)
  BY BothAreTrusted DEF GenInv
<1>3. /\ checkpointFile' \in GenStates \cup {NoState} /\ manager' \in GenStates \cup {NoState}
      /\ unsaved' \in BOOLEAN
      /\ manager' # NoState => checkpointFile' = manager' /\ ~ manager'.expired
      /\ ~ unsaved' /\ checkpointFile' # NoState => checkpointFile'.config = c
      /\ Trusted(checkpointFile') /\ Trusted(manager')
  <2>1. CASE StartFresh(c)
    <3> DEFINE new == NewState(c, [completed |-> {}, statements |-> << >>])
    <3>1. /\ new \in GenStates /\ new.config = c /\ ~ new.expired
          /\ ConsistentProgress(new.gen)
      BY NewStateIs
    <3>2. PICK ok \in DiskOutcomes : /\ checkpointFile' = AfterSave(new, ok)
                                     /\ manager' = IF ok THEN new ELSE NoState
                                     /\ unsaved' = ~ ok
      BY <2>1 DEF StartFresh
    <3> HIDE DEF new
    <3>3. Stamped(new) = new /\ ok \in BOOLEAN
      BY <3>1, StampedIs DEF DiskOutcomes
    <3>4. CASE ok
      BY <3>1, <3>2, <3>3, <3>4 DEF AfterSave, Trusted
    <3>5. CASE ~ ok
      BY <1>2, <3>2, <3>3, <3>5 DEF AfterSave, Trusted, GenTypeOK
    <3> QED BY <3>4, <3>5
  <2>2. CASE StartResumed(c)
    BY <1>2, <2>2 DEF StartResumed, Load, Invalid, GenTypeOK, GenStates, Trusted
  <2>3. CASE StartWithNothing(c)
    BY <2>3 DEF StartWithNothing, Trusted
  <2> QED BY <2>1, <2>2, <2>3
<1>4. GenTypeOK'
  BY <1>1, <1>2, <1>3 DEF GenTypeOK
<1>5. FileIsOurs'
  BY <1>1, <1>3 DEF FileIsOurs
<1>6. ScriptKept' /\ DiffStands'
  BY <1>1 DEF ScriptKept, DiffStands
<1>7. CheckpointConsistent'
  BY <1>3 DEF CheckpointConsistent, Trusted
<1>8. RowsOnce' /\ FreshPackConverges' /\ ResumeValidated'
  BY <1>1 DEF RowsOnce, FreshPackConverges, ResumeValidated, PackDone
<1> QED BY <1>4, <1>5, <1>6, <1>7, <1>8 DEF GenInv

\* At the end of a process what is on file stays, or is deleted.
LEMMA ExitKeeps ==
    ASSUME GenInv, GenExits, checkpointFile' \in {checkpointFile, NoState},
           packs' \in [Paths -> Seq(Statements)]
    PROVE  GenInv'
<1>1. /\ gpc' = "idle" /\ manager' = NoState /\ todo' = {} /\ stmts' = << >>
      /\ done' = {} /\ resumed' = FALSE /\ loaded' = config /\ unsaved' = FALSE
      /\ diff' = {} /\ UNCHANGED <<config, dev, prod, steady>>
  BY DEF GenExits
<1>2. GenTypeOK /\ CheckpointConsistent
  BY DEF GenInv
<1>3. GenTypeOK'
  <2>1. stmts' \in Seq(Statements)
    BY <1>1, EmptySeq
  <2>2. checkpointFile' \in GenStates \cup {NoState} /\ manager' \in GenStates \cup {NoState}
    BY <1>1, <1>2 DEF GenTypeOK
  <2>3. todo' \in SUBSET Tables /\ done' \in SUBSET Tables /\ diff' \in SUBSET Tables
    BY <1>1
  <2>4. /\ config' \in Configs /\ loaded' \in Configs /\ gpc' = "idle"
        /\ resumed' \in BOOLEAN /\ unsaved' \in BOOLEAN /\ steady' \in BOOLEAN
        /\ dev' \in [Tables -> Versions] /\ prod' \in [Tables -> Versions]
    BY <1>1, <1>2 DEF GenTypeOK
  <2> QED BY <2>1, <2>2, <2>3, <2>4 DEF GenTypeOK
<1>4. FileIsOurs' /\ ScriptKept' /\ DiffStands'
  BY <1>1 DEF FileIsOurs, ScriptKept, DiffStands
<1>5. CheckpointConsistent'
  BY <1>1, <1>2 DEF CheckpointConsistent
<1>6. RowsOnce' /\ FreshPackConverges' /\ ResumeValidated'
  BY <1>1 DEF RowsOnce, FreshPackConverges, ResumeValidated, PackDone
<1> QED BY <1>3, <1>4, <1>5, <1>6 DEF GenInv

LEMMA HashTablesKeeps ==
    ASSUME GenInv, HashTables
    PROVE  GenInv'
<1>1. /\ gpc = "hash" /\ gpc' = "load" /\ todo' = DiffTables /\ diff' = DiffTables
      /\ Update(manager)
      /\ UNCHANGED <<packs, config, stmts, done, verdict, dev, prod,
                     resumed, loaded, unsaved, steady>>
  BY DEF HashTables
<1>2. GenTypeOK /\ FileIsOurs /\ CheckpointConsistent /\ ResumeValidated
  BY DEF GenInv
<1>3. UNCHANGED <<checkpointFile, manager>>
  <2>1. manager # NoState => /\ manager \in GenStates
                             /\ checkpointFile = manager /\ ~ manager.expired
    BY <1>1, <1>2 DEF GenTypeOK, FileIsOurs
  <2>2. manager # NoState => Stamped(manager) = manager
    BY <2>1, StampedIs
  <2> QED BY <1>1, <2>1, <2>2, UpdateGives
<1>4. DiffTables \in SUBSET Tables
  BY GenAssumption DEF DiffTables
<1>5. GenTypeOK'
  BY <1>1, <1>2, <1>3, <1>4 DEF GenTypeOK
<1>6. FileIsOurs'
  BY <1>1, <1>2, <1>3 DEF FileIsOurs
<1>7. ScriptKept' /\ DiffStands'
  BY <1>1 DEF ScriptKept, DiffStands, DiffTables
<1>8. CheckpointConsistent'
  BY <1>2, <1>3 DEF CheckpointConsistent
<1>9. RowsOnce' /\ FreshPackConverges' /\ ResumeValidated'
  BY <1>1, <1>2 DEF RowsOnce, FreshPackConverges, ResumeValidated, PackDone
<1> QED BY <1>5, <1>6, <1>7, <1>8, <1>9 DEF GenInv

LEMMA LoadStatementsKeeps ==
    ASSUME GenInv, LoadStatements
    PROVE  GenInv'
<1> DEFINE saved == IF checkpointFile = NoState THEN << >> ELSE checkpointFile.gen.statements
           begin == IF saved = << >> THEN <<Header>> ELSE saved
<1>1. /\ gpc = "load" /\ gpc' = "tables" /\ Load
      /\ stmts' = begin \o Alters
      /\ done' = Completed(checkpointFile)
      /\ resumed' = (saved # << >>)
      /\ loaded' = IF resumed' THEN checkpointFile.config ELSE config
      /\ UNCHANGED <<checkpointFile, packs, config, todo, verdict, dev, prod, unsaved,
                     steady, diff>>
  BY DEF LoadStatements, Alters
<1>2. GenTypeOK /\ FileIsOurs /\ DiffStands /\ Trusted(checkpointFile)
  BY BothAreTrusted DEF GenInv
<1>3. /\ saved \in Seq(Statements) /\ done' \in SUBSET Tables
      /\ done' = RowTables(saved)
      /\ saved # << >> => checkpointFile # NoState /\ Open(saved)
      /\ saved = << >> => done' = {}
  <2>1. CASE checkpointFile = NoState
    <3>1. saved = << >> /\ done' = {}
      BY <1>1, <2>1 DEF Completed
    <3>2. RowTables(<< >>) = {}
      BY DEF RowTables, At
    <3> HIDE DEF saved
    <3> QED BY <3>1, <3>2, EmptySeq
  <2>2. CASE checkpointFile # NoState
    <3>1. saved = checkpointFile.gen.statements /\ done' = checkpointFile.gen.completed
      BY <1>1, <2>2 DEF Completed
    <3>2. /\ checkpointFile.gen.statements \in Seq(Statements)
          /\ checkpointFile.gen.completed \in SUBSET Tables
      BY <1>2, <2>2 DEF GenTypeOK, GenStates
    <3>3. ConsistentProgress(checkpointFile.gen)
      BY <1>2, <2>2 DEF Trusted
    <3> HIDE DEF saved
    <3> QED BY <2>2, <3>1, <3>2, <3>3, ConsistentIsOpen
  <2> QED BY <2>1, <2>2
<1> HIDE DEF saved
<1>4. begin \in Seq(Statements) /\ Open(begin) /\ RowTables(begin) = done'
  <2>1. CASE saved = << >>
    BY <1>3, <2>1, BegunHere
  <2>2. CASE saved # << >>
    BY <1>3, <2>2
  <2> QED BY <2>1, <2>2
<1>5. saved = << >> => Begun(stmts')
  BY <1>1, BegunHere
<1> HIDE DEF begin
<1>6. stmts' \in Seq(Statements) /\ Open(stmts') /\ RowTables(stmts') = done'
  BY <1>1, <1>4, Continued
<1>7. manager' = checkpointFile
  BY <1>1, <1>2 DEF Load, FileIsOurs
<1>8. loaded' \in Configs /\ resumed' \in BOOLEAN
  BY <1>1, <1>2, <1>3 DEF GenTypeOK, GenStates
<1>9. GenTypeOK'
  BY <1>1, <1>2, <1>3, <1>6, <1>7, <1>8 DEF GenTypeOK
<1>10. FileIsOurs'
  BY <1>1 DEF FileIsOurs
<1>11. ScriptKept'
  <2>1. todo' = diff' /\ (~ resumed' => done' = {} /\ Begun(stmts'))
    BY <1>1, <1>2, <1>3, <1>5 DEF DiffStands
  <2>2. manager' # NoState => manager'.gen.completed = RowTables(stmts')
    BY <1>1, <1>6, <1>7 DEF Completed
  <2> QED BY <1>6, <2>1, <2>2 DEF ScriptKept
<1>12. DiffStands'
  <2>1. ~ resumed' => \A t \in Tables : At(stmts', "rows", t) = {}
    BY <1>1, <1>3, <1>6 DEF RowTables
  <2> QED BY <1>1, <1>2, <2>1 DEF DiffStands, DiffTables
<1>13. CheckpointConsistent'
  BY <1>1, <1>2, <1>7 DEF CheckpointConsistent, Trusted
<1>14. RowsOnce' /\ FreshPackConverges'
  BY <1>1 DEF RowsOnce, FreshPackConverges, PackDone
<1>15. ResumeValidated'
  BY <1>1, <1>2, <1>3 DEF ResumeValidated, FileIsOurs
<1> QED BY <1>9, <1>10, <1>11, <1>12, <1>13, <1>14, <1>15 DEF GenInv

LEMMA SkipTableKeeps ==
    ASSUME GenInv, NEW t \in Tables, SkipTable(t)
    PROVE  GenInv'
<1>1. /\ gpc = "tables" /\ t \in todo /\ t \in done /\ todo' = todo \ {t}
      /\ UNCHANGED <<checkpointFile, manager, packs, gpc, config, stmts, done, verdict,
                     dev, prod, resumed, loaded, unsaved, diff, steady>>
  BY DEF SkipTable, IsNext, dirVars, runHistory
<1>2. /\ GenTypeOK /\ FileIsOurs /\ ScriptKept /\ DiffStands
      /\ CheckpointConsistent /\ ResumeValidated
  BY DEF GenInv
<1>3. GenTypeOK'
  BY <1>1, <1>2 DEF GenTypeOK
<1>4. FileIsOurs' /\ DiffStands'
  BY <1>1, <1>2 DEF FileIsOurs, DiffStands, DiffTables
<1>5. ScriptKept'
  BY <1>1, <1>2 DEF ScriptKept
<1>6. CheckpointConsistent' /\ ResumeValidated'
  BY <1>1, <1>2 DEF CheckpointConsistent, ResumeValidated
<1>7. RowsOnce' /\ FreshPackConverges'
  BY <1>1 DEF RowsOnce, FreshPackConverges, PackDone
<1> QED BY <1>3, <1>4, <1>5, <1>6, <1>7 DEF GenInv

LEMMA EmitTableKeeps ==
    ASSUME GenInv, NEW t \in Tables, EmitTable(t)
    PROVE  GenInv'
<1> DEFINE changed == [manager EXCEPT !.gen = [completed  |-> @.completed \cup {t},
                                               statements |-> stmts']]
<1>1. /\ gpc = "tables" /\ t \in todo /\ t \notin done /\ todo' = todo \ {t}
      /\ stmts' = Append(stmts, Rows(t, dev[t]))
      /\ Update(changed)
      /\ UNCHANGED <<packs, gpc, config, done, verdict, dev, prod, resumed, loaded,
                     unsaved, diff, steady>>
  BY DEF EmitTable, IsNext, WithTable, runHistory
<1>2. /\ GenTypeOK /\ ScriptKept /\ DiffStands /\ ResumeValidated
      /\ Trusted(checkpointFile) /\ Trusted(manager)
  BY BothAreTrusted DEF GenInv
<1>3. /\ stmts \in Seq(Statements) /\ dev[t] \in Versions /\ Open(stmts)
      /\ t \in diff /\ t \notin RowTables(stmts)
  BY <1>1, <1>2 DEF GenTypeOK, ScriptKept
<1>4. /\ stmts' \in Seq(Statements) /\ Open(stmts')
      /\ RowTables(stmts') = RowTables(stmts) \cup {t}
      /\ Begun(stmts) => Begun(stmts')
      /\ \A u \in Tables : \A i \in At(stmts', "rows", u) :
             \/ i \in At(stmts, "rows", u) /\ stmts'[i] = stmts[i]
             \/ u = t /\ stmts'[i].version = Literal[dev[t]]
  <2>1. OneMore(stmts', stmts, t, Literal[dev[t]])
    BY <1>1, <1>3, WithRows
  <2> QED BY <2>1 DEF OneMore
<1>5. manager # NoState =>
          /\ changed \in GenStates
          /\ changed.gen.completed = RowTables(stmts') /\ changed.gen.statements = stmts'
  <2> SUFFICES ASSUME manager # NoState
               PROVE  /\ changed \in GenStates
                      /\ changed.gen.completed = RowTables(stmts')
                      /\ changed.gen.statements = stmts'
    OBVIOUS
  <2>1. manager \in GenStates /\ manager.gen.completed = RowTables(stmts)
    BY <1>1, <1>2 DEF GenTypeOK, ScriptKept
  <2> QED BY <1>4, <2>1 DEF GenStates
<1> HIDE DEF changed
<1>6. /\ manager = NoState => UNCHANGED <<checkpointFile, manager>>
      /\ manager # NoState => /\ manager' = Stamped(changed)
                              /\ checkpointFile' \in {Stamped(changed), checkpointFile}
  BY <1>1, UpdateGives
<1>7. manager # NoState =>
          /\ Stamped(changed) \in GenStates
          /\ Stamped(changed).gen.completed = RowTables(stmts')
          /\ Trusted(Stamped(changed))
  <2>1. manager # NoState => ConsistentProgress(changed.gen)
    BY <1>4, <1>5, OpenIsConsistent
  <2> QED BY <1>5, <2>1, StampedIs DEF Trusted
<1>8. GenTypeOK'
  BY <1>1, <1>2, <1>4, <1>6, <1>7 DEF GenTypeOK
<1>9. FileIsOurs'
  BY <1>1 DEF FileIsOurs
<1>10. ScriptKept'
  <2>1. todo' \subseteq diff' /\ RowTables(stmts') = done' \cup (diff' \ todo')
    BY <1>1, <1>2, <1>3, <1>4 DEF ScriptKept
  <2>2. manager' # NoState => manager'.gen.completed = RowTables(stmts')
    BY <1>6, <1>7
  <2>3. ~ resumed' => done' = {} /\ Begun(stmts')
    BY <1>1, <1>2, <1>4 DEF ScriptKept
  <2> QED BY <1>4, <2>1, <2>2, <2>3 DEF ScriptKept
<1>11. DiffStands'
  <2>1. steady' => diff' = DiffTables'
    BY <1>1, <1>2 DEF DiffStands, DiffTables
  <2>2. ASSUME steady', ~ resumed', NEW u \in Tables, NEW i \in At(stmts', "rows", u)
        PROVE  stmts'[i].version = Literal[dev'[u]]
    BY <1>1, <1>2, <1>4, <2>2 DEF DiffStands
  <2> QED BY <1>1, <2>1, <2>2 DEF DiffStands
<1>12. CheckpointConsistent'
  BY <1>2, <1>6, <1>7 DEF CheckpointConsistent, Trusted
<1>13. RowsOnce' /\ FreshPackConverges' /\ ResumeValidated'
  BY <1>1, <1>2 DEF RowsOnce, FreshPackConverges, ResumeValidated, PackDone
<1> QED BY <1>8, <1>9, <1>10, <1>11, <1>12, <1>13 DEF GenInv

LEMMA WritePackKeeps ==
    ASSUME GenInv, WritePack
    PROVE  GenInv'
<1>1. PICK script \in Scripts : packs' = [packs EXCEPT ![OutPath] = script]
  BY DEF WritePack
<1>2. /\ gpc = "tables" /\ todo = {} /\ gpc' = "cleanup"
      /\ UNCHANGED <<checkpointFile, manager, config, todo, stmts, done, dev, prod,
                     resumed, loaded, unsaved, diff, steady>>
  BY DEF WritePack, runHistory
<1>3. GenTypeOK /\ CheckpointConsistent /\ ResumeValidated
  BY DEF GenInv
<1>4. script \in Seq(Statements)
  BY <1>3, ScriptOfPack
<1>5. packs' \in [Paths -> Seq(Statements)] /\ packs'[OutPath] = script
  BY <1>1, <1>3, <1>4, GenAssumption DEF GenTypeOK
<1>6. GenTypeOK'
  BY <1>2, <1>3, <1>5 DEF GenTypeOK
<1>7. FileIsOurs' /\ ScriptKept' /\ DiffStands'
  BY <1>2 DEF FileIsOurs, ScriptKept, DiffStands
<1>8. CheckpointConsistent' /\ ResumeValidated'
  BY <1>2, <1>3 DEF CheckpointConsistent, ResumeValidated
<1>9. RowsOnce'
  <2>1. \A t \in Tables : /\ t \in diff => At(script, "rows", t) # {}
                          /\ \A i, j \in At(script, "rows", t) : i = j
    BY <1>2, PackHasRows
  <2> QED BY <1>2, <1>5, <2>1 DEF RowsOnce
<1>10. FreshPackConverges'
  <2>1. ~ resumed /\ steady => Converges(script)
    BY <1>2, PackConverges
  <2>2. Converges(script) => Converges(packs[OutPath])'
    BY <1>2, <1>5 DEF Converges, Reaches
  <2> QED BY <1>2, <2>1, <2>2 DEF FreshPackConverges, Taken
<1> QED BY <1>6, <1>7, <1>8, <1>9, <1>10 DEF GenInv

\* A pack that is cut off is not reported as written.
LEMMA TornWriteKeeps ==
    ASSUME GenInv, TornWrite
    PROVE  GenInv'
<1>0. PICK script \in Scripts : \E n \in 0 .. Len(script) - 1 :
          packs' = [packs EXCEPT ![OutPath] = SubSeq(script, 1, n)]
  BY DEF TornWrite
<1>1. PICK n \in 0 .. Len(script) - 1 :
          packs' = [packs EXCEPT ![OutPath] = SubSeq(script, 1, n)]
  BY <1>0
<1>2. GenTypeOK /\ CheckpointConsistent /\ ResumeValidated
  BY DEF GenInv
<1>3. SubSeq(script, 1, n) \in Seq(Statements)
  <2>1. script \in Seq(Statements)
    BY <1>2, ScriptOfPack
  <2>2. \A i \in 1 .. n : script[i] \in Statements
    BY <2>1, ElementOfSeq
  <2>3. n \in Int
    BY <2>1, LenProperties
  <2> QED BY <2>2, <2>3, SubSeqProperties
<1>4. packs' \in [Paths -> Seq(Statements)]
  BY <1>1, <1>2, <1>3 DEF GenTypeOK
<1>5. CASE GenExits
  <2>1. checkpointFile' = checkpointFile
    BY DEF TornWrite
  <2> QED BY <1>4, <1>5, <2>1, ExitKeeps
<1>6. CASE /\ verdict' = "error" /\ gpc' = "cleanup"
           /\ UNCHANGED <<manager, config, todo, stmts, done, dev, prod, runHistory, steady>>
  <2>1. UNCHANGED <<checkpointFile, resumed, loaded, unsaved, diff>>
    BY <1>6 DEF TornWrite, runHistory
  <2>2. GenTypeOK'
    BY <1>2, <1>4, <1>6, <2>1 DEF GenTypeOK
  <2>3. FileIsOurs' /\ ScriptKept' /\ DiffStands'
    BY <1>6 DEF FileIsOurs, ScriptKept, DiffStands
  <2>4. CheckpointConsistent' /\ ResumeValidated'
    BY <1>2, <1>6, <2>1 DEF CheckpointConsistent, ResumeValidated
  <2>5. RowsOnce' /\ FreshPackConverges'
    BY <1>6 DEF RowsOnce, FreshPackConverges, PackDone
  <2> QED BY <2>2, <2>3, <2>4, <2>5 DEF GenInv
<1> QED BY <1>5, <1>6 DEF TornWrite

LEMMA GenFailsKeeps ==
    ASSUME GenInv, GenFails
    PROVE  GenInv'
<1>1. /\ verdict' = "error" /\ gpc' = "cleanup"
      /\ UNCHANGED <<checkpointFile, manager, packs, config, todo, stmts, done, dev, prod,
                     resumed, loaded, unsaved, diff, steady>>
  BY DEF GenFails, dirVars, runHistory
<1>2. GenTypeOK /\ CheckpointConsistent /\ ResumeValidated
  BY DEF GenInv
<1>3. GenTypeOK'
  BY <1>1, <1>2 DEF GenTypeOK
<1>4. FileIsOurs' /\ ScriptKept' /\ DiffStands'
  BY <1>1 DEF FileIsOurs, ScriptKept, DiffStands
<1>5. CheckpointConsistent' /\ ResumeValidated'
  BY <1>1, <1>2 DEF CheckpointConsistent, ResumeValidated
<1>6. RowsOnce' /\ FreshPackConverges'
  BY <1>1 DEF RowsOnce, FreshPackConverges, PackDone
<1> QED BY <1>3, <1>4, <1>5, <1>6 DEF GenInv

LEMMA EndKeeps ==
    ASSUME GenInv, GenCleanup \/ GenKill
    PROVE  GenInv'
<1>1. /\ GenExits /\ checkpointFile' \in {checkpointFile, NoState}
      /\ packs' = packs
  BY DEF GenCleanup, GenKill, Delete, DiskOutcomes
<1>2. packs \in [Paths -> Seq(Statements)]
  BY DEF GenInv, GenTypeOK
<1> QED BY <1>1, <1>2, ExitKeeps

\* What a database has now says nothing of what the run has read before.
LEMMA DatabaseChangesKeeps ==
    ASSUME GenInv, NEW t \in Tables, DatabaseChanges(t)
    PROVE  GenInv'
<1>1. /\ steady' = FALSE
      /\ UNCHANGED <<checkpointFile, manager, packs, gpc, config, todo, stmts, done,
                     verdict, resumed, loaded, unsaved, diff>>
  BY DEF DatabaseChanges, dirVars, runHistory
<1>2. /\ GenTypeOK /\ FileIsOurs /\ ScriptKept /\ DiffStands
      /\ CheckpointConsistent /\ RowsOnce /\ ResumeValidated
  BY DEF GenInv
<1>3. dev' \in [Tables -> Versions] /\ prod' \in [Tables -> Versions]
  BY <1>2 DEF DatabaseChanges, GenTypeOK
<1>4. GenTypeOK'
  BY <1>1, <1>2, <1>3 DEF GenTypeOK
<1>5. FileIsOurs' /\ ScriptKept' /\ DiffStands'
  BY <1>1, <1>2 DEF FileIsOurs, ScriptKept, DiffStands
<1>6. CheckpointConsistent' /\ ResumeValidated'
  BY <1>1, <1>2 DEF CheckpointConsistent, ResumeValidated
<1>7. RowsOnce' /\ FreshPackConverges'
  BY <1>1, <1>2 DEF RowsOnce, FreshPackConverges, PackDone
<1> QED BY <1>4, <1>5, <1>6, <1>7 DEF GenInv

LEMMA CheckpointExpiresKeeps ==
    ASSUME GenInv, CheckpointExpires
    PROVE  GenInv'
<1>1. /\ gpc = "idle" /\ gpc' = "idle"
      /\ checkpointFile # NoState
      /\ checkpointFile' = [checkpointFile EXCEPT !.expired = TRUE]
      /\ UNCHANGED <<manager, packs, config, todo, stmts, done, verdict, dev, prod,
                     resumed, loaded, unsaved, diff, steady>>
  BY DEF CheckpointExpires, Expire, runHistory
<1>2. GenTypeOK /\ ResumeValidated /\ Trusted(checkpointFile) /\ Trusted(manager)
  BY BothAreTrusted DEF GenInv
<1>3. checkpointFile' \in GenStates /\ checkpointFile'.gen = checkpointFile.gen
  BY <1>1, <1>2 DEF GenTypeOK, GenStates
<1>4. GenTypeOK'
  BY <1>1, <1>2, <1>3 DEF GenTypeOK
<1>5. FileIsOurs' /\ ScriptKept' /\ DiffStands'
  BY <1>1 DEF FileIsOurs, ScriptKept, DiffStands
<1>6. CheckpointConsistent' /\ ResumeValidated'
  BY <1>1, <1>2, <1>3 DEF CheckpointConsistent, Trusted, ResumeValidated
<1>7. RowsOnce' /\ FreshPackConverges'
  BY <1>1 DEF RowsOnce, FreshPackConverges, PackDone
<1> QED BY <1>4, <1>5, <1>6, <1>7 DEF GenInv

\* A start that is rejected changes the verdict only; other steps, nothing.
LEMMA RejectionKeeps ==
    ASSUME GenInv, (\E c \in Configs : StartRejected(c)) \/ UNCHANGED genVars
    PROVE  GenInv'
<1>1. /\ UNCHANGED <<checkpointFile, manager, packs, gpc, config, todo, stmts, done,
                     dev, prod, resumed, loaded, unsaved, diff, steady>>
      /\ gpc = "idle" \/ verdict' = verdict
  BY DEF StartRejected, dirVars, runHistory, genVars
<1>2. /\ GenTypeOK /\ FileIsOurs /\ ScriptKept /\ DiffStands
      /\ CheckpointConsistent /\ RowsOnce /\ FreshPackConverges /\ ResumeValidated
  BY DEF GenInv
<1>3. GenTypeOK'
  BY <1>1, <1>2 DEF GenTypeOK
<1>4. FileIsOurs' /\ ScriptKept' /\ DiffStands'
  BY <1>1, <1>2 DEF FileIsOurs, ScriptKept, DiffStands, DiffTables
<1>5. CheckpointConsistent' /\ ResumeValidated'
  BY <1>1, <1>2 DEF CheckpointConsistent, ResumeValidated
<1>6. PackDone' => PackDone
  BY <1>1 DEF PackDone
<1>7. RowsOnce'
  BY <1>1, <1>2, <1>6 DEF RowsOnce
<1>8. FreshPackConverges'
  <2>1. Converges(packs[OutPath]) => Converges(packs[OutPath])'
    BY <1>1 DEF Converges, Reaches
  <2> QED BY <1>1, <1>2, <1>6, <2>1 DEF FreshPackConverges, Taken
<1> QED BY <1>3, <1>4, <1>5, <1>7, <1>8 DEF GenInv

\* The invariant of gen-pack.
THEOREM GenInvariant == GenSpec => []GenInv
<1>1. GenInit => GenInv
  BY InitHolds
<1>2. GenInv /\ [GenNext]_genVars => GenInv'
  <2> SUFFICES ASSUME GenInv, [GenNext]_genVars PROVE GenInv'
    OBVIOUS
  <2>1. ASSUME GenStep PROVE GenInv'
    BY <2>1, StartKeeps, RejectionKeeps, HashTablesKeeps, LoadStatementsKeeps,
       SkipTableKeeps, EmitTableKeeps, WritePackKeeps, GenFailsKeeps, EndKeeps
       DEF GenStep
  <2>2. CASE UNCHANGED genVars
    BY <2>2, RejectionKeeps
  <2> QED BY <2>1, <2>2, EndKeeps, TornWriteKeeps, DatabaseChangesKeeps,
             CheckpointExpiresKeeps DEF GenNext
<1> QED BY <1>1, <1>2, PTL DEF GenSpec

\* A checkpoint that a resume trusts lists as completed exactly the tables whose
\* statements it has, after any number of kills, failed saves and resumes
\* (GeneratePack, Manager.Update).
THEOREM CheckpointConsistentHolds == GenSpec => []CheckpointConsistent
  BY GenInvariant, PTL DEF GenInv

\* A pack that gen-pack reports as written has the rows of every table of the
\* diff, and of none twice, also when it was resumed (GeneratePack).
THEOREM RowsOnceHolds == GenSpec => []RowsOnce
  BY GenInvariant, PTL DEF GenInv

\* A pack made in one go, from databases that stand still, turns prod into dev,
\* for any number of tables and of new columns (GeneratePack).
THEOREM FreshPackConvergesHolds == GenSpec => []FreshPackConverges
  BY GenInvariant, PTL DEF GenInv

\* Statements made under another configuration are continued only after an own
\* state could not be saved (runGenPack, Validate).
THEOREM ResumeValidatedHolds == GenSpec => []ResumeValidated
  BY GenInvariant, PTL DEF GenInv

=============================================================================

----------------------------- MODULE ApplyPack -----------------------------
(***************************************************************************)
(* The apply command: runApply of cmd/deepdiffdb/main.go and ApplyPack of  *)
(* internal/content/apply.go, run again and again over one output          *)
(* directory, each run free to be killed between any two of its steps.     *)
(*                                                                         *)
(* The target database is external: a transaction's statements become      *)
(* visible at its commit, all at once, and a killed command's transaction  *)
(* is rolled back.  Some engines commit by themselves before and after a   *)
(* statement that changes the schema, and may then commit each statement   *)
(* that follows (MySQL), or none until the end (Oracle).                   *)
(***************************************************************************)
EXTENDS OutputDir

CONSTANTS
    Packs,            \* the packs that may be found at a path
    Ddl,              \* the statements that an engine may commit by itself
    CheckpointBatch,  \* checkpointBatchSize: statements between checkpoints
    MaxRuns,          \* bound on the apply runs of a behaviour
    MaxOutside        \* bound on what other commands do between them

ASSUME ApplyAssumption ==
    /\ Packs \subseteq Seq(Statement)
    /\ Ddl \subseteq Statement
    /\ CheckpointBatch \in Nat \ {0}
    /\ MaxRuns \in Nat
    /\ MaxOutside \in Nat

VARIABLES
    apc,       \* where the running apply is; "idle" when none runs
    path,      \* --pack
    content,   \* the statements ApplyPack read from the pack
    start,     \* startIndex: how many statements this run skips
    executed,  \* executedCount
    tx,        \* the statements executed in the open transaction
    base,      \* how many statements were skipped or are committed
    ended,     \* how the latest apply run ended, or is about to end
    db,        \* the transactions the target database committed
    undeleted, \* history: did the latest run return and yet leave the file?
    leftover,  \* history: has a gen-pack ever left a checkpoint behind?
    runs,      \* history: apply runs so far
    outside    \* history: steps of other commands so far

runVars == <<path, content, start, executed, tx, base>>
applyVars == <<checkpointFile, manager, packs, apc, path, content, start,
               executed, tx, base, ended, db, undeleted, leftover, runs,
               outside>>

\* What one commit made visible: a piece of the pack of a run.
Transaction ==
    [run : Nat, content : Seq(Statement), start : Nat, from : Nat, to : Nat,
     stmts : Seq(Statement)]

ApplyInit ==
    /\ checkpointFile = NoState
    /\ manager = NoState
    /\ packs \in [Paths -> Packs]
    /\ apc = "idle"
    /\ path \in Paths
    /\ content = <<>>
    /\ start = 0
    /\ executed = 0
    /\ tx = <<>>
    /\ base = 0
    /\ ended = "none"
    /\ db = <<>>
    /\ undeleted = FALSE
    /\ leftover = FALSE
    /\ runs = 0
    /\ outside = 0

\* Mutant of ApplyStart: apply makes a checkpoint state where there is none.
MutStartWithState(p) ==
    /\ apc = "idle"
    /\ runs < MaxRuns
    /\ runs' = runs + 1
    /\ apc' = "open"
    /\ path' = p
    /\ IF checkpointFile # NoState THEN UNCHANGED checkpointFile
       ELSE \E c \in Configs, g \in GenProgress : checkpointFile' = NewState(c, g)
    /\ manager' = checkpointFile'
    /\ UNCHANGED <<packs, content, start, executed, tx, base, ended, db,
                   undeleted, leftover, outside>>

\* runApply up to the connection: a fresh manager that has loaded nothing.
ApplyStart(p) ==
    /\ apc = "idle"
    /\ runs < MaxRuns
    /\ runs' = runs + 1
    /\ apc' = "open"
    /\ path' = p
    /\ manager' = NoState
    /\ UNCHANGED <<checkpointFile, packs, content, start, executed, tx, base,
                   ended, db, undeleted, leftover, outside>>

\* The deferred Delete is registered before the connection is opened, so every
\* return from here on goes through it, whatever the result.
Return(result) ==
    /\ apc' = "cleanup"
    /\ ended' = result

\* The connection fails, or the pack is missing, empty or, in a dry run, does
\* not prepare.
OpenFails ==
    /\ apc = "open"
    /\ Return("error")
    /\ UNCHANGED <<dirVars, runVars, db, undeleted, leftover, runs, outside>>

\* A dry run only prepares the statements; it neither loads nor executes.
DryRun ==
    /\ apc = "open"
    /\ packs[path] # <<>>
    /\ Return("ok")
    /\ UNCHANGED <<dirVars, runVars, db, undeleted, leftover, runs, outside>>

\* Mutant of ResumePoint: a last index where the code keeps a count.
MutLastIndex(state, p) ==
    IF state # NoState /\ state.apply # NoProgress /\ state.apply.path = p
      THEN state.apply.executed - 1 ELSE 0 - 1

\* The statement a checkpoint tells ApplyPack to continue after: whatever
\* state is on file, of any age and any configuration, if it names this path.
ResumePoint(state, p) ==
    IF state # NoState /\ state.apply # NoProgress /\ state.apply.path = p
      THEN state.apply.executed ELSE 0

\* Read and split the pack, load the checkpoint (--resume or not), begin.
Begin ==
    /\ apc = "open"
    /\ packs[path] # <<>>
    /\ content' = packs[path]
    /\ Load
    /\ start' = ResumePoint(checkpointFile, path)
    /\ executed' = start'
    /\ base' = start'
    /\ tx' = <<>>
    /\ apc' = "exec"
    /\ UNCHANGED <<checkpointFile, packs, path, ended, db, undeleted, leftover,
                   runs, outside>>

\* Mutant of Recorded: one less than the statements executed.
MutRecordPrevious(n) ==
    [manager EXCEPT !.apply =
        [path     |-> IF @ = NoProgress THEN path ELSE @.path,
         executed |-> n - 1]]

\* The progress an Update records. An existing record keeps its path.
Recorded(n) ==
    [manager EXCEPT !.apply =
        [path     |-> IF @ = NoProgress THEN path ELSE @.path,
         executed |-> n]]

\* Execute the next statement; every CheckpointBatch statements record the
\* count, inside the transaction that is still open.
ExecStatement ==
    /\ apc = "exec"
    /\ executed < Len(content)
    /\ tx' = Append(tx, content[executed + 1])
    /\ executed' = executed + 1
    /\ IF executed' % CheckpointBatch = 0
         THEN Update(Recorded(executed'))
         ELSE UNCHANGED <<checkpointFile, manager>>
    /\ UNCHANGED <<packs, apc, path, content, start, base, ended, db,
                   undeleted, leftover, runs, outside>>

\* What a commit makes visible now.
OpenPiece ==
    [run |-> runs, content |-> content, start |-> start, from |-> base,
     to |-> executed, stmts |-> tx]

\* A run that has skipped s statements has sent one of Ddl before statement
\* n + 1 is executed.
SchemaChanged(pack, s, n) ==
    \E i \in DOMAIN pack : s < i /\ i <= n + 1 /\ pack[i] \in Ddl

\* The engine commits what the transaction holds.  Some do so at each Ddl, some
\* never, so that a Ddl may be rolled back as well.
EngineCommits ==
    /\ apc = "exec"
    /\ tx # <<>>
    /\ SchemaChanged(content, start, executed)
    /\ db' = Append(db, OpenPiece)
    /\ base' = executed
    /\ tx' = <<>>
    /\ UNCHANGED <<dirVars, apc, path, content, start, executed, ended,
                   undeleted, leftover, runs, outside>>

\* BeginTx, a statement or the commit fails: the deferred rollback runs.
ExecFails ==
    /\ apc = "exec"
    /\ Return("error")
    /\ tx' = <<>>
    /\ UNCHANGED <<dirVars, path, content, start, executed, base, db,
                   undeleted, leftover, runs, outside>>

\* The transaction commits. Its acknowledgement may still be lost, and then
\* apply reports an error for a transaction that is there.
Commit ==
    /\ apc = "exec"
    /\ executed >= Len(content)
    /\ db' = Append(db, OpenPiece)
    /\ base' = executed
    /\ tx' = <<>>
    /\ \E result \in {"ok", "error"} : Return(result)
    /\ UNCHANGED <<dirVars, path, content, start, executed, undeleted,
                   leftover, runs, outside>>

\* Every end of the process: its memory, and the open transaction, are gone.
ApplyExits ==
    /\ apc' = "idle"
    /\ manager' = NoState
    /\ content' = <<>>
    /\ start' = 0
    /\ executed' = 0
    /\ base' = 0
    /\ tx' = <<>>
    /\ UNCHANGED <<path, leftover, runs, outside>>

\* Mutant of Cleanup: delete on success only, as the comment there says.
MutCleanupOnSuccess ==
    /\ apc = "cleanup"
    /\ IF ended = "ok" THEN Delete ELSE UNCHANGED checkpointFile
    /\ undeleted' = (ended = "ok" /\ checkpointFile' # NoState)
    /\ ApplyExits
    /\ UNCHANGED <<packs, ended, db>>

\* runApply's deferred checkpointMgr.Delete(), then the process exits.
Cleanup ==
    /\ apc = "cleanup"
    /\ Delete
    /\ undeleted' = (checkpointFile' # NoState)
    /\ ApplyExits
    /\ UNCHANGED <<packs, ended, db>>

\* The process is killed: memory is lost, the database rolls back.
ApplyKill ==
    /\ apc # "idle"
    /\ ended' = "killed"
    /\ undeleted' = FALSE
    /\ ApplyExits
    /\ UNCHANGED <<checkpointFile, packs, db>>

-----------------------------------------------------------------------------
(***************************************************************************)
(* Other commands, between two apply runs.                                 *)
(***************************************************************************)

\* The checkpoint file as a gen-pack may leave it: deleted; or, when gen-pack
\* was killed or could not delete it, a state of its own or the one it resumed,
\* whose apply progress it keeps.
LeftBehind(file) ==
    [config  : Configs,
     expired : BOOLEAN,
     gen     : GenProgress,
     apply   : {NoProgress} \cup (IF file = NoState THEN {} ELSE {file.apply})]

GenPackRan ==
    /\ apc = "idle"
    /\ outside < MaxOutside
    /\ outside' = outside + 1
    /\ checkpointFile' \in {NoState} \cup LeftBehind(checkpointFile)
    /\ packs' \in [Paths -> Packs]
    /\ leftover' = (leftover \/ checkpointFile' # NoState)
    /\ UNCHANGED <<manager, apc, runVars, ended, db, undeleted, runs>>

ADayPasses ==
    /\ apc = "idle"
    /\ Expire
    /\ UNCHANGED <<apc, runVars, ended, db, undeleted, leftover, runs,
                   outside>>

Outside == GenPackRan \/ ADayPasses

ApplyStep ==
    \/ \E p \in Paths : ApplyStart(p)
    \/ OpenFails
    \/ DryRun
    \/ Begin
    \/ ExecStatement
    \/ EngineCommits
    \/ ExecFails
    \/ Commit
    \/ Cleanup

ApplyNext == ApplyStep \/ ApplyKill \/ Outside

ApplySpec == ApplyInit /\ [][ApplyNext]_applyVars

-----------------------------------------------------------------------------
(***************************************************************************)
(* Properties.                                                             *)
(***************************************************************************)

\* Every variable has its type.
ApplyTypeOK ==
    /\ checkpointFile \in State \cup {NoState}
    /\ manager \in State \cup {NoState}
    /\ packs \in [Paths -> Seq(Statement)]
    /\ apc \in {"idle", "open", "exec", "cleanup"}
    /\ path \in Paths
    /\ content \in Seq(Statement)
    /\ start \in Nat
    /\ executed \in Nat
    /\ tx \in Seq(Statement)
    /\ base \in Nat
    /\ ended \in {"none", "ok", "error", "killed"}
    /\ db \in Seq(Transaction)
    /\ undeleted \in BOOLEAN
    /\ leftover \in BOOLEAN
    /\ runs \in Nat
    /\ outside \in Nat

Committed == {db[k] : k \in DOMAIN db}

ChangesSchema(pack) == SchemaChanged(pack, 0, Len(pack))

\* README.md "Atomic application (all or nothing)": while no gen-pack has left
\* a checkpoint behind, whatever kills, errors, retries and dry runs happen,
\* each transaction in the target database is one whole pack, if the pack has
\* no statement that its engine commits by itself.
WholePacks ==
    ~leftover =>
        \A t \in Committed : ChangesSchema(t.content) \/ t.stmts = t.content

\* With checkpoints left behind and an engine that commits by itself, each
\* transaction still is a contiguous piece of the pack.  It begins where a
\* checkpoint was due and ends with the pack, unless a statement that changes
\* the schema is before or at the cut; and what one run commits is consecutive,
\* no statement left out and none twice (the loop of ApplyPack).
PiecesOfPack ==
    /\ \A t \in Committed :
           /\ t.stmts = SubSeq(t.content, t.from + 1, t.to)
           /\ t.start % CheckpointBatch = 0
           /\ t.from = t.start \/ SchemaChanged(t.content, t.start, t.from)
           /\ t.to >= Len(t.content) \/ SchemaChanged(t.content, t.start, t.to)
    /\ \A k \in 2 .. Len(db) :
           IF db[k - 1].run = db[k].run THEN db[k].from = db[k - 1].to
           ELSE db[k].from = db[k].start

\* Progress of apply is on disk between runs only when the latest apply was
\* killed, or returned and could not remove the file: every return, with or
\* without an error and not "on success" alone, tries to, so that an apply that
\* FAILED is resumed only after a deletion that failed too.
ProgressOnlyFromKill ==
    /\ apc = "idle"
    /\ checkpointFile # NoState
    /\ checkpointFile.apply # NoProgress
    => ended = "killed" \/ undeleted

Promise ==
    INSTANCE AtomicApply WITH
        db <- [k \in DOMAIN db |-> db[k].stmts],
        Divisible <- {pack \in Packs : ChangesSchema(pack)}

\* Every step of apply, seen from the target database, is a step of AtomicApply
\* or no step at all: nothing is visible before a commit, nothing is undone.
ImplementsAtomicApply == Promise!Spec

\* faq.md: "If the process is killed or the connection drops mid-apply [...]
\* production data is not partially modified."  Not so: see the findings.
NeverPartial == \A t \in Committed : t.stmts = t.content
=============================================================================

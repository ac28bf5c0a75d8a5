------------------------------ MODULE GenPack ------------------------------
(***************************************************************************)
(* The gen-pack command: runGenPack of cmd/deepdiffdb/main.go and          *)
(* GeneratePack of internal/content/pack.go, with its checkpoint after     *)
(* every table, kills, and runs with and without --resume, while the two   *)
(* databases may change.                                                   *)
(*                                                                         *)
(* A table's rows are abstracted to a version, a table's DELETE and INSERT *)
(* statements to one statement, and BEGIN with the foreign-key switch to a *)
(* header (a footer, at the end).  A version is the table's rows as the    *)
(* hash of a row tells them apart; what a database reads of the text that  *)
(* literal() writes for them may be another one.  Every difference is      *)
(* taken from dev (the `theirs` strategy): what the other strategies drop  *)
(* is not in the diff.                                                     *)
(***************************************************************************)
EXTENDS OutputDir, FiniteSets

CONSTANTS
    NumTables,   \* tables shared by the two schemas, in the order of names
    Versions,    \* contents a table may have
    Literal,     \* what prod reads of the literals of a content
    Drift,       \* tables with a column that dev has and prod lacks
    Refusable,   \* tables of whose statements the engine may refuse one
    OutPath,     \* <output dir>/migration_pack.sql
    MaxStarts,   \* bound on the gen-pack runs of a behaviour
    MaxChanges   \* bound on the changes of the databases

Tables == 1 .. NumTables

ASSUME GenAssumption ==
    /\ NumTables \in Nat
    /\ Literal \in [Versions -> Versions]
    /\ Drift \subseteq Tables
    /\ Refusable \subseteq Tables
    /\ OutPath \in Paths

VARIABLES
    gpc,      \* where the running gen-pack is; "idle" when none runs
    config,   \* the configuration it loaded
    owns,     \* checkpointState # nil: its return deletes the checkpoint
    todo,     \* tables of the diff it has not come to
    stmts,    \* the statements so far
    done,     \* completedTablesMap: tables the loaded checkpoint completed
    verdict,  \* how the latest run ended, or is about to end
    dev,      \* contents of the development tables
    prod,     \* contents of the production tables
    resumed,  \* history: did this run load statements from a checkpoint?
    loaded,   \* history: the configuration those statements were made under
    unsaved,  \* history: did this run fail to save its new checkpoint?
    steady,   \* history: have the databases stood still since the run began?
    diff,     \* history: the tables of this run's diff
    starts,   \* history: gen-pack runs so far
    changes   \* history: database changes so far

runHistory == <<resumed, loaded, unsaved, diff>>
genVars == <<checkpointFile, manager, packs, gpc, config, owns, todo, stmts,
             done, verdict, dev, prod, resumed, loaded, unsaved, steady, diff,
             starts, changes>>

Header == [kind |-> "header", table |-> 0, version |-> 0]
Footer == [kind |-> "footer", table |-> 0, version |-> 0]
\* ADD of the new columns, with dev's type, NOT NULL if dev's are, and without
\* dev's default.
Alter(t) == [kind |-> "alter", table |-> t, version |-> 0]
\* DELETE and INSERT of the rows that differ, without the new columns.
Rows(t, content) ==
    [kind |-> "rows", table |-> t, version |-> Literal[content]]
\* UPDATE of the new columns.
FillColumn(t) ==
    [kind |-> "update", table |-> t, version |-> Literal[dev[t]]]

\* The sequences that list a finite set, in each order.
Listings(S) ==
    {f \in [1 .. Cardinality(S) -> S] : \A i, j \in DOMAIN f :
                                            i # j => f[i] # f[j]}

\* A finite set of tables in the order of names.
InOrder(S) ==
    CHOOSE f \in Listings(S) : \A i, j \in DOMAIN f : i < j => f[i] < f[j]

\* The tables of DataDiff: a drifted table differs in every row, since dev's
\* hash covers a column that prod's does not.
DiffTables == {t \in Tables : dev[t] # prod[t]} \cup Drift

GenInit ==
    /\ checkpointFile = NoState
    /\ manager = NoState
    /\ packs = [p \in Paths |-> <<>>]
    /\ gpc = "idle"
    /\ config \in Configs
    /\ owns = FALSE
    /\ todo = {}
    /\ stmts = <<>>
    /\ done = {}
    /\ verdict = "none"
    /\ dev \in [Tables -> Versions]
    /\ prod \in [Tables -> Versions]
    /\ resumed = FALSE
    /\ loaded = config
    /\ unsaved = FALSE
    /\ steady = TRUE
    /\ diff = {}
    /\ starts = 0
    /\ changes = 0

-----------------------------------------------------------------------------
\* Every start: a new process, whose manager has loaded nothing yet.
Begins(c) ==
    /\ gpc = "idle"
    /\ starts < MaxStarts
    /\ starts' = starts + 1
    /\ gpc' = "hash"
    /\ config' = c
    /\ loaded' = c
    /\ steady' = TRUE
    /\ UNCHANGED <<packs, todo, stmts, done, verdict, dev, prod, resumed, diff,
                   changes>>

\* Every end of the process: its memory is gone.
GenExits ==
    /\ gpc' = "idle"
    /\ manager' = NoState
    /\ owns' = FALSE
    /\ todo' = {}
    /\ stmts' = <<>>
    /\ done' = {}
    /\ resumed' = FALSE
    /\ loaded' = config
    /\ unsaved' = FALSE
    /\ diff' = {}
    /\ UNCHANGED <<config, dev, prod, steady, starts, changes>>

\* Without --resume: a new state replaces whatever is on file; a failure to
\* save it is only logged, and then the old file stays.
StartFresh(c) ==
    LET new == NewState(c, [completed |-> {}, statements |-> <<>>]) IN
    /\ Begins(c)
    /\ \E ok \in DiskOutcomes :
           /\ checkpointFile' = AfterSave(new, ok)
           /\ manager' = IF ok THEN new ELSE NoState
           /\ unsaved' = ~ok
    /\ owns' = TRUE

\* With --resume and a valid checkpoint.
StartResumed(c) ==
    /\ checkpointFile # NoState
    /\ ~Invalid(checkpointFile, c)
    /\ Begins(c)
    /\ Load
    /\ owns' = TRUE
    /\ unsaved' = FALSE
    /\ UNCHANGED checkpointFile

\* With --resume and no checkpoint: no state is made, so none is ever saved.
StartWithNothing(c) ==
    /\ checkpointFile = NoState
    /\ Begins(c)
    /\ manager' = NoState
    /\ owns' = FALSE
    /\ unsaved' = FALSE
    /\ UNCHANGED checkpointFile

\* With --resume and a checkpoint that is expired or of another configuration:
\* an error, before the deferred Delete is registered.
StartRejected(c) ==
    /\ gpc = "idle"
    /\ starts < MaxStarts
    /\ starts' = starts + 1
    /\ checkpointFile # NoState
    /\ Invalid(checkpointFile, c)
    /\ verdict' = "rejected"
    /\ UNCHANGED <<dirVars, gpc, config, owns, todo, stmts, done, dev, prod,
                   runHistory, steady, changes>>

\* Hash the tables of both databases and compare.  The hashing saves its own
\* progress into the checkpoint, and with it the state as it is.
HashTables ==
    /\ gpc = "hash"
    /\ gpc' = "load"
    /\ Update(manager)
    /\ todo' = DiffTables
    /\ diff' = DiffTables
    /\ UNCHANGED <<packs, config, owns, stmts, done, verdict, dev, prod,
                   resumed, loaded, unsaved, steady, starts, changes>>

\* Mutant of Completed: the statements are loaded, the completed tables not.
MutNothingCompleted(file) == {}

\* The completed tables GeneratePack finds on file.
Completed(file) == IF file = NoState THEN {} ELSE file.gen.completed

\* The top of GeneratePack: continue the statements on file, or open a new
\* script; then, in either case, the ALTER TABLEs.
LoadStatements ==
    LET saved == IF checkpointFile = NoState THEN <<>>
                 ELSE checkpointFile.gen.statements
        alters == [i \in 1 .. Cardinality(Drift) |-> Alter(InOrder(Drift)[i])]
    IN
    /\ gpc = "load"
    /\ gpc' = "tables"
    /\ Load
    /\ stmts' = (IF saved = <<>> THEN <<Header>> ELSE saved) \o alters
    /\ done' = Completed(checkpointFile)
    /\ resumed' = (saved # <<>>)
    /\ loaded' = IF resumed' THEN checkpointFile.config ELSE config
    /\ UNCHANGED <<checkpointFile, packs, config, owns, todo, verdict, dev,
                   prod, unsaved, steady, diff, starts, changes>>

\* The next table of the diff.
IsNext(t) == t \in todo /\ \A u \in todo : t <= u

SkipTable(t) ==
    /\ gpc = "tables"
    /\ IsNext(t)
    /\ t \in done
    /\ todo' = todo \ {t}
    /\ UNCHANGED <<dirVars, gpc, config, owns, stmts, done, verdict, dev, prod,
                   runHistory, steady, starts, changes>>

\* Mutant of WithTable: saved before the statements are appended.
MutSaveFirst(t) ==
    [manager EXCEPT !.gen = [completed  |-> @.completed \cup {t},
                             statements |-> stmts]]

\* What the checkpoint says after table t.
WithTable(t) ==
    [manager EXCEPT !.gen = [completed  |-> @.completed \cup {t},
                             statements |-> stmts']]

\* Emit table t with dev's rows of this moment, and save the checkpoint.
EmitTable(t) ==
    /\ gpc = "tables"
    /\ IsNext(t)
    /\ t \notin done
    /\ todo' = todo \ {t}
    /\ stmts' = Append(stmts, Rows(t, dev[t]))
    /\ Update(WithTable(t))
    /\ UNCHANGED <<packs, gpc, config, owns, done, verdict, dev, prod,
                   runHistory, steady, starts, changes>>

\* Mutant of Scripts: tables whose rows were just inserted need no UPDATE.
MutNoFillAfterInsert ==
    LET new == Drift \ diff IN
    {stmts \o [i \in DOMAIN order |-> FillColumn(order[i])] \o <<Footer>> :
        order \in Listings(new)}

\* The script that is written: the new columns are filled for the tables that
\* no earlier run completed, in the order a map yields them.
Scripts ==
    LET new == Drift \ done IN
    {stmts \o [i \in DOMAIN order |-> FillColumn(order[i])] \o <<Footer>> :
        order \in Listings(new)}

WritePack ==
    /\ gpc = "tables"
    /\ todo = {}
    /\ \E script \in Scripts : packs' = [packs EXCEPT ![OutPath] = script]
    /\ gpc' = "cleanup"
    /\ verdict' = "ok"
    /\ UNCHANGED <<checkpointFile, manager, config, owns, todo, stmts, done,
                   dev, prod, runHistory, steady, starts, changes>>

\* os.WriteFile truncates the pack and then writes: a kill or an error in
\* between leaves a prefix.
TornWrite ==
    /\ gpc = "tables"
    /\ todo = {}
    /\ \E script \in Scripts : \E n \in 0 .. Len(script) - 1 :
           packs' = [packs EXCEPT ![OutPath] = SubSeq(script, 1, n)]
    /\ UNCHANGED checkpointFile
    /\ \/ verdict' = "killed" /\ GenExits
       \/ /\ verdict' = "error"
          /\ gpc' = "cleanup"
          /\ UNCHANGED <<manager, config, owns, todo, stmts, done, dev, prod,
                         runHistory, steady, starts, changes>>

\* A connection, a query, a row that is gone, or, once the pack is written,
\* a report: any other error return of the two functions.
GenFails ==
    /\ \/ gpc \in {"hash", "load", "tables"}
       \/ gpc = "cleanup" /\ verdict = "ok"
    /\ verdict' = "error"
    /\ gpc' = "cleanup"
    /\ UNCHANGED <<dirVars, config, owns, todo, stmts, done, dev, prod,
                   runHistory, steady, starts, changes>>

\* The deferred Delete, on every return of a run that has a state.
GenCleanup ==
    /\ gpc = "cleanup"
    /\ IF owns THEN Delete ELSE UNCHANGED checkpointFile
    /\ GenExits
    /\ UNCHANGED <<packs, verdict>>

GenKill ==
    /\ gpc # "idle"
    /\ verdict' = "killed"
    /\ GenExits
    /\ UNCHANGED <<checkpointFile, packs>>

-----------------------------------------------------------------------------
\* Somebody writes to a database.
DatabaseChanges(t) ==
    /\ changes < MaxChanges
    /\ changes' = changes + 1
    /\ \E v \in Versions :
           \/ v # dev[t] /\ dev' = [dev EXCEPT ![t] = v] /\ UNCHANGED prod
           \/ v # prod[t] /\ prod' = [prod EXCEPT ![t] = v] /\ UNCHANGED dev
    /\ steady' = FALSE
    /\ UNCHANGED <<dirVars, gpc, config, owns, todo, stmts, done, verdict,
                   runHistory, starts>>

CheckpointExpires ==
    /\ gpc = "idle"
    /\ Expire
    /\ UNCHANGED <<gpc, config, owns, todo, stmts, done, verdict, dev, prod,
                   runHistory, steady, starts, changes>>

GenStep ==
    \/ \E c \in Configs : \/ StartFresh(c)
                          \/ StartResumed(c)
                          \/ StartWithNothing(c)
                          \/ StartRejected(c)
    \/ HashTables
    \/ LoadStatements
    \/ \E t \in Tables : SkipTable(t) \/ EmitTable(t)
    \/ WritePack
    \/ GenFails
    \/ GenCleanup

GenNext ==
    \/ GenStep
    \/ GenKill
    \/ TornWrite
    \/ \E t \in Tables : DatabaseChanges(t)
    \/ CheckpointExpires

GenSpec == GenInit /\ [][GenNext]_genVars

-----------------------------------------------------------------------------
(***************************************************************************)
(* Properties.                                                             *)
(***************************************************************************)

\* Where a script has a statement of a kind for a table.
At(script, kind, t) ==
    {i \in DOMAIN script : script[i].kind = kind /\ script[i].table = t}

ConsistentProgress(progress) ==
    LET script == progress.statements IN
    /\ progress.completed = {t \in Tables : At(script, "rows", t) # {}}
    /\ \A t \in Tables : \A i, j \in At(script, "rows", t) : i = j
    /\ script # <<>> => At(script, "header", 0) = {1}
    /\ At(script, "footer", 0) = {}

\* The checkpoint that a resume trusts, on file or in memory, through kills,
\* failed saves and resumes of resumes: it lists as completed exactly the
\* tables whose statements it has, each once, in an open script.
CheckpointConsistent ==
    \A state \in {checkpointFile, manager} \ {NoState} :
        ConsistentProgress(state.gen)

PackDone == gpc = "cleanup" /\ verdict = "ok"

\* A pack that gen-pack reports as written, resumed or not, has the rows of
\* every table of the run's diff, and of no table twice.
RowsOnce ==
    PackDone =>
        \A t \in Tables :
            /\ t \in diff => At(packs[OutPath], "rows", t) # {}
            /\ \A i, j \in At(packs[OutPath], "rows", t) : i = j

\* Statement i runs before statement j, for all of them.
Before(I, J) == \A i \in I, j \in J : i < j

\* Executing a script leads table t of prod to dev's contents: its rows are
\* dev's, and a column prod lacks is added once, before the rows, and filled
\* after them.
Reaches(script, t) ==
    LET rows == At(script, "rows", t)
        fills == At(script, "update", t)
    IN
    /\ rows = {} => prod[t] = dev[t]
    /\ \A i \in rows : script[i].version = dev[t]
    /\ t \in Drift =>
        /\ Cardinality(At(script, "alter", t)) = 1
        /\ fills # {} /\ \A i \in fills : script[i].version = dev[t]
        /\ Before(At(script, "alter", t), rows)
        /\ Before(rows, fills)

\* Executing a script that the engine takes leads prod to dev, but for the
\* contents that a literal does not write exactly: literal() drops the fraction
\* and the zone of whatever reads as a time, and quotes every number.
Converges(script) ==
    /\ Len(script) > 1
    /\ script[1] = Header
    /\ script[Len(script)] = Footer
    /\ \A t \in Tables :
           (t \in diff => Literal[dev[t]] = dev[t]) => Reaches(script, t)

\* No statement of the run's tables is one that the engine may refuse: a NOT
\* NULL column without a default, a row that is the target of a foreign key
\* (the header switches those off on MySQL and MSSQL only), a literal it does
\* not read (TRUE on MSSQL), a value for a column it generates.
Taken == diff \cap Refusable = {}

\* A pack made in one go, while the databases stand still, and of statements
\* that the engine takes, turns prod into dev, wherever the literals are exact.
FreshPackConverges ==
    PackDone /\ ~resumed /\ steady /\ Taken => Converges(packs[OutPath])

\* README.md "Configuration validation to ensure consistency": statements made
\* under another configuration are continued only when a run WITHOUT --resume
\* could not save its own state, and so took the old file for it.
ResumeValidated == resumed /\ loaded # config => unsaved

\* commands/gen-pack.md: "DeepDiff DB loads the last checkpoint and continues
\* from where it left off."  With databases that never change, the pack of a
\* resumed run should do what the pack of an uninterrupted one does.  It does
\* not: see the findings.
ResumedPackConverges ==
    PackDone /\ resumed /\ changes = 0 /\ Taken => Converges(packs[OutPath])
=============================================================================

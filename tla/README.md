# deepdiff-db in TLA+

deepdiff-db compares a production and a development database, writes a SQL
script (a *pack*) that turns the one into the other, applies it, and keeps a
history of the differences in a small version repository. These modules model
the parts of it that keep state: what is written to disk or to a database, in
which order, and what a kill, an error or a second process can do in between.

## The system

| Component | State it keeps | Operations | What is hard | What makes it correct |
|---|---|---|---|---|
| apply (`main.go` runApply, `content/apply.go`) | a transaction in the target database; `ApplyPackState` in the checkpoint | start, resume, execute, record, commit, roll back, delete the checkpoint | kills between two steps; progress recorded outside the transaction it counts | production changes by whole packs |
| checkpoint (`internal/checkpoint`) | one file per output directory, a state in memory | save, load, update, delete, validate, expire | shared by two commands and by goroutines | what a resume trusts is consistent, and is of this configuration |
| gen-pack (`main.go` runGenPack, `content/pack.go`, `content/diff.go`) | statements and completed tables in the checkpoint; the pack file | hash, diff, emit, save, resume, write | resumes, databases that change meanwhile, torn writes | the pack turns prod into dev, each table once |
| parallel hashing (`main.go` hashTablesParallel, `content/hash.go`) | results, semaphore, error group, shared manager | acquire, read a page, save, store, fail, wait | goroutines that share maps and a temporary file | all results or the error; no torn checkpoint; it returns |
| row hashing (`content/hash.go`, `cursor.go`) | a cursor | read a page, advance | rows change between pages; composite keys | each row that stays is hashed exactly once |
| version store (`internal/version`) | `HEAD`, `refs/heads/*`, `objects/*` | init, commit, branch, checkout; log, tree, diff, rollback read | no locks, writes that truncate first | no hash dangles, no commit is lost |
| conflict resolution (`content/resolve`, `cli/prompt.go`) | `resolutions.json`, the decisions in memory | merge, ask, bulk-resolve, save | resumed sessions, changed conflicts, prompts that fail | a decision once saved is kept |
| introspection and schema diff (`schema/introspect.go`, `schema/diff.go`, runSchemaDiff) | two schemas in memory | query the catalogs, group the rows, ignore, compare | the queries of a load see the catalog at different moments; five drivers whose queries differ | what is compared stood in the database; the verdict is right |
| drivers and retry (`drivers/drivers.go`, `pkg/errors/retry.go`) | handles, an attempt count | open, ping, close, retry | a ping that fails leaves a handle | no handle stays open, retrying ends |
| schema migration (`schema/diff.go`, `ordering.go`, `migrate.go`, `version/rollback.go`) | the orders found so far; the script | compare, order tables, write sections, comment out what is not allowed | cycles, self-references, dependencies between sections, engines that drop one thing with another | the script leads to the target and loses nothing unasked |
| operation order (`OrderMigrationOperations`, `ordering.go`) | in-degrees and a queue; a search path | add operations and edges, sort, search for cycles | cycles, and what waits behind one; names that run together | what an operation needs comes first, or it is warned about |
| identity (`version/auth.go`, runVersionInit, runVersionCommit) | an interval, a deadline; the author in `config.json` | ask for a code, poll, slow down, give up, save, sign | late answers, a torn file | it ends, asks no faster than told, and signs with verified names |
| reports, configuration, conflict display, logging, progress | none that outlives a call | - | - | not modelled, see the end |

The commands meet in three places: the **output directory**, where gen-pack and
apply share `.deepdiffdb_checkpoint.json` and hand over the pack; the **target
database**; and the **version repository**, which every `version` command of any
process opens without a lock.

## Modules

* `OutputDir` - the checkpoint manager and the files of the output directory:
  one state record on file, one in the manager, the packs by path. `Load`,
  `Update`, `Delete`, `Invalid` are the methods of `checkpoint.go` and
  `resume.go`; a save is atomic here (temporary file and rename by one process),
  and both a save and a deletion may fail, unread by who asked for it.
* `ApplyPack` (extends `OutputDir`) - runs of `apply`, one after the other, each
  free to be killed. `Begin` is `ApplyPack` up to its loop, `ExecStatement` an
  iteration with its checkpoint, `Commit` the end, `Cleanup` the deferred
  `Delete` of `runApply`. `EngineCommits` is an engine that commits by itself at a
  statement that changes the schema, so that the transaction goes on from `base`;
  `GenPackRan` is all that a gen-pack can do to the directory in between.
* `AtomicApply` - the abstract specification of apply: whole packs become
  visible at once; tails of packs only after a gen-pack left a checkpoint; other
  pieces only of packs that change the schema (`ApplyPiece`).
  `ApplyPack` implements it with `db` mapped to the committed statements.
* `GenPack` (extends `OutputDir`) - runs of `gen-pack`, with `--resume` or not,
  over databases that may change. The four `Start...` actions are the ways
  through `runGenPack`'s checkpoint handling (main.go 743-792), `EmitTable` is a
  table of `GeneratePack` with its checkpoint, `Scripts` the tail of the script.
  `Literal` is what production reads of the text that `literal()` writes for a table's
  rows, `Refusable` the tables of whose statements the engine may refuse one.
* `OutputDirProofs` - the proofs about `ApplyPack` and `GenPack`, the two commands that
  share an output directory.
* `ParallelHash` - `hashTablesParallel` with `HashTable`'s checkpoints, at the
  grain of single file operations and map accesses: `at[t]` says where the
  goroutine of table `t` is.
* `ParallelHashProofs` - the proofs about `ParallelHash`.
* `VersionStore` - the version repository under several processes: `pc[p]` is
  the file operation that process `p` does next, `os.WriteFile` being a
  truncation and a write. `Text` is whatever is stored as a branch point and is no hash;
  `Logged` and `TreeShown` are the commits that `version log` and `version tree` show
  before they end, or fail at what does not load.
* `VersionStoreProofs` - the proofs about `VersionStore`.
* `KeysetHash` - hashing a table of both databases and comparing: `NextPage` is
  an iteration of `hashTableBatched`, `WholeTable` is `hashTableFull`,
  `OtherWrites` another client. `After` is ORDER BY, `Follows` the WHERE clause of
  the cursor, `Written` what the database reads of the text that `literal` makes.
* `ResolveSession` - sessions of `resolve-conflicts` between runs of `diff` and
  `gen-pack`: `StartFresh`, `StartResumed` and `StartAuto` load, each answer of
  the prompt is an action, each save a truncation (`Open`) and a write (`Save`).
* `ContentProofs` - the proofs about `KeysetHash` and `ResolveSession`, the two that work on
  the rows of tables.
* `Introspection` - operators only: the rows that each driver's queries return of a
  catalog, and the maps that the loaders of `introspect.go` make of them. What they and
  the comparison do to a text are the constants `Scanned`, `Trimmed`, `AfterAs` and
  `Normal`, of which nothing is assumed.
* `SchemaDiff` (extends `Introspection`) - the command `schema-diff`: `OpenHandle`
  and `PingFails` are `drivers.Open` under `errors.Retry`, one action per query of
  `LoadSchema`, `Compare` is `DiffSchemas` with `HasDrift`. `OtherClient` changes a
  catalog between two queries. `WellFormed` is what a database can hold.
* `SchemaDiffProofs` - the proofs about what `SchemaDiff` reads and compares.
* `SchemaMigration` - two schemas, the script between them and a database of one of
  five engines that runs it. `Added`, `Removed` and `Modified` are `DiffSchemas` for
  tables, columns, indexes, foreign keys, primary keys, views, routines, triggers and
  sequences; a comment in the place of a statement (`Unsupported`) changes nothing;
  `OrderRemoved` is an iteration of `GetOrderedRemovedTables`; `VisitNext`,
  `VisitDependency` and `Visited` are the depth-first search of
  `GetOrderedAddedTables`; `Script` has the sections of
  `GenerateMigrationWithSchemas`; `Possible`, `Blockers`, `GoesWith`, `Holds` and
  `Owned` are what the engines do, external to the program.
* `SchemaMigrationProofs` - the proofs about `SchemaMigration`.
* `OperationOrder` - `OrderMigrationOperations`: the operations of a difference and
  their edges, `TakeFirst` an iteration of `TopologicalSort`, the search of
  `detectCycles` call by call, `AddRest` what comes with a warning. A name is the
  sequence of its words, since identifiers join names by underscores.
* `OperationOrderProofs` - the proofs about `OperationOrder`.
* `Identity` - who a commit is by: `version init` with the device flow, in units of
  five seconds, and the choice of a commit's author. GitHub, the user and the
  network answer anything at any time within a request's time-out.
* `RetryProofs` - the proofs about `Identity` and about the connections of `SchemaDiff`,
  the two commands that wait and try again.
* `MCApplyPack`, `MCGenPack`, `MCParallelHash`, `MCVersionStore`, `MCKeysetHash`,
  `MCResolveSession`, `MCSchemaMigration`, `MCSchemaDiff`, `MCOperationOrder` - the
  instances that TLC checks; `Identity.cfg` instantiates `Identity` itself.
  Definitions called `Mut...` stand before the definition that
  they are a plausible bug of; no specification uses them.

## Runs

| Run | Bounds | Shows |
|---|---|---|
| `ApplyPack` | packs of 0, 3 and 5 statements, the one of 3 with a schema change in the middle, a checkpoint every 2nd, 2 paths, 3 runs, 1 gen-pack in between | each transaction is a whole pack while no gen-pack left a checkpoint and no engine committed by itself (`WholePacks`); even then a run commits consecutive pieces, cut where a checkpoint was due or after a schema change (`PiecesOfPack`); progress on file means a kill, or a deletion that failed (`ProgressOnlyFromKill`); `AtomicApply` is implemented |
| `ApplyPackPartial` | the same, no disk faults | **violated**: `NeverPartial` |
| `GenPack` | 2 tables, one with a new column, the other with statements that the engine may refuse, 2 contents each, one of which a literal does not write exactly, 2 configurations, 3 runs, 1 change of a database | the checkpoint is consistent in every state (`CheckpointConsistent`), rows are emitted once (`RowsOnce`), a pack made in one go, of statements that the engine takes, converges where literals are exact (`FreshPackConverges`), a resume is validated unless the first save failed (`ResumeValidated`) |
| `GenPackResumed` | 2 runs, no changes, no disk faults | **violated**: `ResumedPackConverges` |
| `ParallelHash` | 3 tables, one of two pages, `--parallel` 0 to 2, with and without a checkpoint | `AllOrTheError`, `RacesOnlyInCheckpoint`, `WholeWhenSequential`, and the liveness property `Returns` |
| `VersionStore` | 2 processes (symmetric), 2 branches, 3 commits, 5 commands | nothing on file dangles but a branch point typed wrong (`EveryHashLoads`), a commit extends what it read if nobody wrote (`CommitExtendsTip`), one command at a time loses no saved commit from what log and tree show (`QuietHistoryKept`) |
| `KeysetHash` | 3 keys of 2 columns, 2 contents, batches of 2 and 0 (one query), keys that are numbers, times or texts with bars, 1 write of another client | a row nobody writes to is hashed and judged rightly (`StableRowsJudged`), a quiet scan loses no row but under an equal composite key (`QuietScanIsFull`), and where keys are written exactly it ends (`ExactScansEnd`) |
| `ResolveSession` | 3 rows in 2 tables, one resolved by the configuration, 3 sessions | decisions found by `--resume` stay (`ResumeKeepsDecisions`), an answer survives later bulk answers (`AnswersStand`), no conflict is passed in silence (`NothingOverlooked`), a kill at the prompt loses nothing (`DecisionsReachDisk`), a session ends or its input does (`SessionsEnd`) |
| `SchemaMigration` | pairs of schemas of 11 families: foreign keys of 3 tables; parts of 2 tables, with columns that may be null or not, with a default or without; a key of its own; primary keys and the foreign keys on them, in both orders of names; views; materialized views; routines; triggers; sequences, of one table and of two; of 5 engines those families that their loader sees; 19 sets of permissions | a script that ends has led to the target but for what it only says in a comment (`TargetReached`), nothing goes that was not granted (`NothingLostUnasked`), a statement that comes too early is one of the known kinds (`CreatesInOrder`, `DropsInOrder`) |
| `OperationOrder` | 3 new tables with every pattern of references; 4 with two cycles; a kept table with every kind of change next to tables that come and go; names that run together | what comes without a warning comes after all it needs (`NeedsComeFirst`), exactly what waits for a cycle is warned about (`WarnedWaitForCycle`), and what is reported is a cycle (`CyclesAreReported`) |
| `SchemaDiff` | 5 drivers, a shop's catalog, or two, against up to 11 variations of it, 3 attempts to connect (the code's default), 1 change of a catalog | each part that is compared stood at one moment (`PartsStood`), an undisturbed verdict is right, up to what is cut of a text or normalized (`VerdictSound`), handles are closed (`HandlesClosed`), and the command returns (`CommandReturns`) |
| `Identity` | 1 process, 2 users, intervals of 0 and 10 seconds, codes that live 0 or 30 seconds, a time-out of 15 | GitHub is asked no sooner than it wants (`AskedAsTold`), who signs has granted a code (`AuthorsVerified`), and init returns (`InitReturns`) |

Why the bounds are enough. `ApplyPack`: three runs are a killed one, one that resumes
it and one after that; five statements hold two checkpoints and a rest. `GenPack`: a
second resume resumes what the first saved, and two tables are one completed and one
not; the first has exact and inexact contents and no statement that is refused, the
second may have one. `ParallelHash`: with two permits and three tables one waits; with
two pages a goroutine returns to the temporary file after another has renamed or
removed it. `VersionStore`: the races need two processes and one commit before them;
one text that is no hash stands for all of them. `KeysetHash`: three keys are a full
page and a rest, two a full page and an empty one; a write falls before, at or after
the cursor, of either table. `ResolveSession`: a session that is killed, one that
resumes over other conflicts and one that resumes that; two rows of a table tell an
answer for the table from one for a row, the third is in the next table.
`SchemaMigration`: three tables make chains, a cycle of two, a cycle with a tail and a
self-reference; every pair of schemas of a family is a migration and a rollback; four
definitions of a column make each difference that a dialect writes as a comment.
`OperationOrder`: a search that meets an earlier cycle needs two cycles, the edges
between kinds of changes need one change of each. `SchemaDiff`: one change between two
queries splits any load; the variations change one part each, some of them to the same
in other words. `Identity`: a second process would only share the file, which a
process that starts again does as well; two users are one who signs and one who must
not; the interval passes the deadline after a few answers.

Deadlock is not checked where the system stops: `ApplyPack`, `GenPack`,
`VersionStore` and `ResolveSession` at the bounds on runs, commands and sessions,
`ParallelHash`, `KeysetHash`, `SchemaMigration`, `OperationOrder` and `SchemaDiff` when
the call has returned; that they do not stop earlier is `Returns`, `ExactScansEnd`,
`SessionsEnd` and `CommandReturns`. `Identity` is checked for deadlock.

**Fairness.** `ParallelSpec`: weak fairness of each goroutine and of `Wait`. The Go
scheduler is preemptive and runs every runnable goroutine, `sync.Mutex` and
`semaphore.Weighted` queue their waiters, and a query is assumed to return, if with an
error. `FairKeysetSpec`: weak fairness of the scan, a loop of one goroutine whose
queries return. `FairResolveSpec`: weak fairness of a save, which the code does at
once, and of the answers: who is asked answers in the end, with anything, unless the
input has ended. `DiffSpec`: weak fairness of the command, one goroutine whose queries
return. `IdentitySpec`: weak fairness of time, which passes only as far as a sleep or
a request still has to go, and of the steps of a process; that the user ever grants
the code is not assumed. The other specifications promise nothing about progress: a
user need not run the next command.

## What the violated runs show

* `ApplyPackPartial`: `ApplyPack` counts statements into the checkpoint while
  their transaction is open (apply.go 141-159). After a kill the database rolls
  back and the count stays, and the next apply, `--resume` or not, skips that
  many statements. It takes a checkpoint state that a killed gen-pack left, since
  apply makes none itself; `WholePacks` says that nothing else does it.
* `GenPackResumed`: a resumed `GeneratePack` appends the ALTER TABLEs a second
  time to the statements it loaded, and no longer fills the new columns of
  tables that were completed before the kill.
Further differences between documentation and code that no run is about:

* `branch --from` stores whatever is typed (branch.go 86-93, main.go 2168), a short hash
  (version.md 336) as well as a slip, and looks nothing up: `EveryHashLoads` excepts such
  a text. `version log` then prints the branch's commits down to it and fails (main.go
  2001-2003), and `version tree` fails with nothing printed, whichever branch it is
  (tree.go 60-68).
* A deletion of the checkpoint that fails is noticed by nobody (checkpoint.go 110-112,
  main.go 1067), so that progress may stay on file although apply returned.
* `literal` writes a value in few ways (pack.go 404-481): a fraction of a second and a
  time zone are gone, numbers are quoted. The ALTER TABLE of a pack takes NOT NULL over
  from dev but never a default (pack.go 885-893), and the INSERTs leave the new column
  out (202), so that an engine may refuse either. `FreshPackConverges` is about packs
  that are taken and about tables whose literals are exact.
* Two goroutines of `--parallel` write and rename one `.tmp` file (checkpoint.go
  68-80), so the checkpoint may be torn: `WholeWhenSequential` is about one permit,
  and `RacesOnlyInCheckpoint` says what races.
* `literal` drops the fraction of a second, so the cursor lies before the row it
  was made of. Pages then overlap, which the result hides, or, when the rows of
  one second fill a page, the same page is read for ever: `ExactScansEnd` is about
  keys that are written exactly. A dropped time zone may put the cursor after its
  row, and rows are never read: that is why the safety properties assume `NeverLater`.
* `runGenPack` decides by the configuration alone and never opens
  `resolutions.json` (resolve-conflicts.md 95 says it honours the decisions).
* `main.go` 1925 and version.md 117 and 129 say that a commit falls back on `$USER`;
  the code refuses it (1939).

Schema migration, as the exceptions in `TargetReached`, `CreatesInOrder` and
`DropsInOrder` name it:

* A new column that is NOT NULL without a default is only a comment on SQL Server
  (migrate.go 731-734) and SQLite (743-749), and a changed default on SQL Server
  (877-883): the script ends without it (`Reviewed`). An index on such a column is
  created all the same, and fails (`Skipped`). On Oracle a default that goes becomes
  DEFAULT NULL (910-915), which the next comparison reads as a default.
* GenerateMigration "automatically orders operations to respect foreign key
  dependencies" (migrate.go 65), but a table is dropped before the foreign key of a
  kept table that references it, a table that references itself is ordered like a
  cycle, and a foreign key of a new table comes before the column of a kept table
  that it references, and before a primary key that is added for it.
  Foreign keys "must be dropped before columns" (migrate.go 248), and indexes and
  primary keys too, but the columns come first (181-197). A primary key is dropped
  before the foreign keys of later tables that need it.
* Routines and triggers are emitted as they were read: without a semicolon on
  PostgreSQL and SQLite, so that they run into the next statement, and as a bare
  body on MySQL, where running it defines nothing. CHANGELOG.md 113 has DELIMITER
  blocks and CREATE OR REPLACE.
* Sequences are created last, after the columns whose default they are; views
  before the routines they use. A dropped table or column takes the sequences it owns
  along, and one that the target still has, but defines otherwise, is only mentioned:
  it is gone when a default that is added needs it (`NotRestored`).
* A modified materialized view gets CREATE OR REPLACE VIEW, which fails:
  `DevIsMaterialized` is only set when it differs (diff.go 679-684). A view that
  only becomes materialized is dropped and not created again.
* SQLite's foreign keys are written as comments, also those of new tables, and no
  code turns the pragma on that sqlite.md 59 says is on.
* `allow_drop_view` and the settings for routines, triggers and sequences
  (config.go 88-100) are not passed on by runSchemaMigrate (main.go 1595-1602).

Operation order: an ID is a "unique identifier" (ordering.go 71), but names that
run together overwrite each other; the order "respects all dependencies" (449), but
what waits behind a cycle comes in the order of a map, warned as if it were part of
it; the edge from dropping an index to dropping its column (194-199) is never added;
a cycle that the search meets through an earlier one is not reported. Only tests
call it.

Introspection, as `Relations`, `Unambiguous`, `OfTwoQueries` and `Known` in
`SchemaDiff` name it:

* PostgreSQL, SQL Server and Oracle list views as tables too (CHANGELOG.md 144
  corrected it for MySQL). A PostgreSQL table without columns is not loaded, since
  tables are known by the rows of their columns.
* A PostgreSQL view is known by its name with that of its schema: where the current
  schemas of the two databases have other names, every view is a drift, though tables,
  routines and sequences are known without it.
* The columns of a PostgreSQL foreign key are found by the constraint's name alone
  (introspect.go 1000-1005): a primary key, a unique or check constraint or a foreign key
  of that name on another table mixes its columns in, and a foreign key onto a table of
  another schema is not loaded unless such a one is. Oracle's onto another user's table
  likewise meets whatever has the name of its key here (1408-1430).
* SQL Server's foreign keys onto a unique index, which is no constraint (1260), and its
  indexes of views (1179) are not loaded.
* An SQLite view is cut at its first " as " (438-455), which is an alias where AS is
  followed by a line break; `diff.go` compares definitions in lower case and with white
  space collapsed, that of string literals too (696-697, 792), and defaults without
  their quotes (387-397): such differences are not seen, and `VerdictSound` is about
  all others.
* PostgreSQL overloads, triggers of one name on two tables, and foreign keys of two
  columns depend on the order of rows; a MySQL function and procedure
  of one name mix their parameters. Identical databases may then show a drift
  (README.md 19 calls it deterministic).
* PostgreSQL's columns, with the key, and its indexes are two queries, and the second
  (introspect.go 726-740) takes those of materialized views too: when one takes the
  place of a view or a table in between, its indexes are put into what was loaded of
  the other.
* `OwnerTableDiffers` (diff.go 134) is never set: a MySQL trigger that moved to
  another table is not noticed.
* An index on an expression makes the load fail on MySQL and SQLite, as does an
  SQLite foreign key that names no columns. Indexes of SQLite's UNIQUE constraints and
  Oracle's on expressions are not seen, PostgreSQL's included columns count as
  indexed. The name of an SQLite foreign key is its place in the declaration.
* Triggers and foreign keys of ignored tables stay (schema-diff.md 32 says they are
  excluded entirely). PostgreSQL routines and triggers are those of all schemas.
* oracle.md 94 has ALL_ views where the code asks USER_ ones; mssql.md 92 claims an
  exclusion of ROWVERSION columns that no code makes.

Also: `version diff` and `rollback` do not find short hashes (version.md 212,
LoadCommit); an expired checkpoint is not deleted but reported (checkpoint-resume.md
52); there is one checkpoint file for all operations, not one each
(checkpoint-resume.md 39); a table without a primary key is an error and not scanned
whole (performance.md 55); the cursor has all columns of the key, not the first
(streaming.md 30); two `version` commands at once lose commits, since HEAD is read for
the parent (main.go 1919) and again for the ref to advance (store.go 173), which is
why `QuietHistoryKept` speaks of commands that do not overlap; the comment at main.go
1067 says "on success", the deferred call runs on any return, so `--resume` after a
failed apply finds nothing (troubleshooting.md 103).

## Proofs

`OutputDirProofs` proves of `apply`, for all packs, paths, configurations, every
`CheckpointBatch` and with or without disk faults, from `ConstantsAssumption` and
`ApplyAssumption`:

* `ApplyTypeCorrect`, the type invariant.
* `ApplyInvariant`, the inductive invariant `ApplyInv`. The safety properties
  are not inductive: that a transaction is a piece of its pack needs that the open
  one is the slice from `base` to `executed` (`TxIsSlice`, also when a resumed
  count lies beyond a shorter pack); that the cut is at a checkpoint or a schema
  change needs it of every count in the file and in the manager (`CutsAtBatch`) and
  of the `base` of the open one (`BaseIsCut`); that pieces follow each other needs
  that the last one ended at `base` (`Continues`); that it is the whole
  pack needs that there is nothing to resume from (`NothingToResume`).
* `WholePacksHolds`, `PiecesOfPackHolds`, `ProgressOnlyFromKillHolds` from it.
* `ApplyIsAtomic`, the refinement of `AtomicApply`: a commit, also one that the
  engine makes, is `ApplyWhole`, `ApplyTail` or `ApplyPiece`, every other step a
  stutter or `LeaveCheckpoint`.

`ParallelHashProofs` proves, for every finite set of tables, any number of
permits and from `ParallelAssumption`:

* `ParallelTypeCorrect`, and `ParallelInvariant`, the inductive invariant
  `ParallelInv`: as many goroutines are past the semaphore as there are permits
  given (`Pool`), a goroutine's place fixes what it left in the results and in
  the error (`Progress`, `Errors`), the mutex has one holder (`Exclusive`), and
  with one permit no file operation of one save lies between two of another
  (`Sequential`).
* `AllOrTheErrorHolds`, `RacesOnlyInCheckpointHolds` and
  `WholeWhenSequentialHolds` from it.

`VersionStoreProofs` proves, for any number of processes, branches and commits,
from `VersionAssumption`:

* `VersionTypeCorrect`, and `VersionInvariant`, the inductive invariant `VersionInv`.
  That nothing dangles but a text that was typed needs it of what the processes carry
  (`Carried`: a commit's own hash loads once its object is written, hence before it
  reaches a ref), and that no object is ever replaced, which needs that two commits
  never have the same number (`Numbers`). That a commit extends the tip needs that as
  long as nobody writes, what it has read is still there at each of its steps
  (`Fresh`).
* `EveryHashLoadsHolds` and `CommitExtendsTipHolds` from it.
* `HistoryInvariant`, the inductive invariant `HistoryInv`, and
  `QuietHistoryKeptHolds` from it. The walk from a commit over its parents is a
  recursive function, and that it is defined for every repository is itself proved:
  the objects it reaches are those in every set that is closed under parents
  (`HistoryWalks`). That it reaches what it should needs that a parent is older than
  its commit, from the moment a process has read it (`Ancestry`). While commands do
  not overlap and no file is torn, the one command finds `HEAD` naming a branch and
  its own reading still true (`Undisturbed`), and every saved commit is in the history
  of a branch, or will be when the ref that is truncated is written (`HistoryKept`). The
  log shows every such history down to where it ends or does not load; the tree shows all
  of them if nothing but hashes was ever branched from.

`RetryProofs` proves of `version init`, for any number of processes, any users,
intervals, life times and time-out, from `IdentityAssumption`:

* `IdentityInvariant`, the inductive invariant `IdentityInv`. That GitHub is not
  asked too soon needs that the interval never falls below what was asked for, and
  that a sleep makes up what is still missing of it (`Patient`). That authors are
  verified needs it of the name a process carries from the answer to the file
  (`Verified`) and of the file (`FileVerified`).
* `AskedAsToldHolds` and `AuthorsVerifiedHolds` from it.

`OutputDirProofs` proves of `gen-pack`, for any number of tables, any drift, contents
and configurations, from `ConstantsAssumption` and `GenAssumption`:

* `GenInvariant`, the inductive invariant `GenInv`. What a resume trusts is not in
  the property alone: until the checkpoint is read, the manager must hold what is on
  file (`FileIsOurs`); while tables are emitted, the script must have the rows of
  exactly the tables completed before and of those of the diff that are behind, be
  open at its end, and be what the manager was last told (`ScriptKept`); and while the
  databases stand still, the diff and the rows must be theirs (`DiffStands`).
* `CheckpointConsistentHolds`, `RowsOnceHolds`, `FreshPackConvergesHolds` and
  `ResumeValidatedHolds` from it. Of `Literal` and `Refusable` nothing is assumed: that a
  pack converges is proved table by table, where the literal of dev's content is exact.

`ContentProofs` proves of `KeysetHash`, for any number of key columns, any finite set
of keys, every batch size and any writes, from `KeysetAssumption`:

* `KeysetInvariant`, the inductive invariant `KeysetInv`: a hash of a row that
  nobody wrote to is that of the row (`Sound`); of those rows the cursor has left none
  behind (`Complete`), which needs that rows before the cursor are exactly those that
  it does not follow, and that the database reads no literal as a later value; and
  while nobody writes, what hides the hash of a row is a later row with the same
  composite key (`Quiet`).
* `QuietScanIsFullHolds` and `StableRowsJudgedHolds` from it.

It proves of `ResolveSession`, for any conflicts in any order, any tables and
strategies and any number of sessions, from `ResolveAssumption`:

* `ResolveInvariant`, the inductive invariant `ResolveInv`: who is asked, now or
  when the save is over, is asked about a row without a decision (`PendingShown`); what
  `--resume` found and what was answered are decisions about rows of the list
  (`KeptOK`, `AnsweredOK`), so that a bulk answer, which looks only for rows without a
  decision, cannot reach them.
* `ResumeKeepsDecisionsHolds`, `AnswersStandHolds`, `NothingOverlookedHolds` and
  `DecisionsReachDiskHolds` from it.

`SchemaMigrationProofs` proves, for any schemas, of any size, drivers and
configurations, from `SchemaAssumption`:

* `MigrationInvariant`, the inductive invariant `MigrationInv`: every statement of
  the script is there for a difference (`RightStatements`: dropped is what the target
  lacks and what was granted, created what the source lacks, and the primary key that
  is modified is both), which rests on a lemma for each section of the script and on one
  for the lists that sections are put together from (`FlattenSeqType`); and a key or a
  sequence of the source uses no more than it did there (`UsesKept`), so that what goes
  with a dropped column would have gone with it before the script.
* `NothingLostUnaskedHolds` from it.
* `ReachInvariant`, the inductive invariant `ReachInv`, and `TargetReachedHolds` from
  it. It says of the rest of the script that it leads to the target (`Reaching`): what
  does not stand yet a statement brings, what must go a statement drops, and a primary
  key of the target that is dropped a later statement creates (`Restored`). When the
  script is written this rests on a lemma for each section on what it has
  (`ChangedTableHas`, `NewTableHas`, `FreeHas`). That no drop undoes what is settled
  needs that tables and columns that go are used by nothing that the target has
  (`GoneIsRight`), and that the table of whatever stands is there (`Standing`). What a
  comment takes the place of no statement brings; it is what `Reviewed` lists.
* `DropInvariant`, the inductive invariant `DropInv`, and `DropsInOrderHolds` from it.
  It relates any two drops of the script (`Ranked`): no object is dropped twice;
  tables are dropped before everything else; of two dropped tables the one that
  references the other is first, unless a cycle leads to the latter; and of a primary key
  dropped before a foreign key, the foreign key is of a later table. That is built up
  from the sections like their types, by lemmas about any relation between the items
  of a list (`ArrangedPut`, `ArrangedFlatten`). For the tables the order is that of the loop
  (`Sorted`), which needs `CycleExists`: where every table that is left is referenced by
  one that is left, there is a cycle, shown on the smallest set of tables that lead to
  one. That what is dropped still stands needs `Present`: it stands, or a column that it
  uses may go.
* `CreateInvariant`, the inductive invariant `CreateInv`, and `CreatesInOrderHolds`
  from it, `MigrationInv` and `ReachInv`. Of the depth-first search for an order of
  the new tables it says (`Visiting`) that of two tables that are being visited the
  first leads to the second, and that a new table that a listed one references is
  listed before, or is on a cycle with it. Of the script it says that no two creations
  clash (`InTurn`: a part of a table before the table or a column of it, a foreign key
  before a new table that it references, a view before a table or a column), and that
  the text of every new routine follows the views (`Voiced`). So what a creation needs
  and does not stand, which by `ReachInv` a statement still creates, is of a kind that
  may come later.

`OperationOrderProofs` proves, for any differences of any size, from `OrderAssumption`
(the parts of a new table are its own, all others are of tables in both schemas):

* `OrderInvariant`, the inductive invariant `OrderInv`. Of the sort (`Sorted`): an
  in-degree counts the edges from what is not taken yet, the queue has what is not
  taken and waits for nothing, what is taken has all its edges behind it, and whatever
  no edge leads to comes before what has a higher rank. Of the search (`Searching`): a
  path follows edges; and as long as no cycle is reported (`NoneYet`), the recursion
  stack is the path and what is finished leads only to what is finished and has no
  cycle in it, so that a search that ends with nothing reported has found none.
* `NeedsComeFirstHolds`: `Precedes` shows of each pair in `MustPrecede` that it has an
  edge, or that nothing leads to the first of the two and its kind is generated
  earlier (dropped foreign keys and indexes, added columns), for which the sort's own
  order is enough. The code has no edge from a dropped index to a dropped column,
  because the operation on the column does not exist yet when it is asked for
  (ordering.go 195): the theorem says that this does no harm.
* `CyclesAreReportedHolds`: each operation that the sort leaves out has an edge to it
  from another that is left out, so that the search cannot finish them all without
  having met a cycle.
* `WarnedWaitForCycleHolds`: each edge from the creation of a table has its reason in
  the difference (`Reason`, `For`), and all others come from what nothing leads to. So
  each table that the sort leaves out references another one that it leaves out, which
  leads to a cycle (`StuckTogether`); and where a table leads to a cycle, the sort cannot
  have taken all of that one in an order (`StuckAreLeft`).

`RetryProofs` proves of `schema-diff`, for any drivers, any catalogs and number of
attempts, from `DiffAssumption`:

* `HandlesInvariant`, the inductive invariant `HandlesInv`: which handles are open, and
  which of them the deferred calls of `Close` are for, at each stage.
* `HandlesClosedHolds` from it.

`SchemaDiffProofs` proves of `schema-diff`, for any drivers, tables to ignore, number of
attempts and catalogs of any size that a database can hold, from `DiffAssumption` and
`CatalogAssumption` (every catalog is `WellFormed`):

* Lemmas on the operators of `Introspection`: what `ScanColumns`, `GroupIndexes`,
  `GroupForeignKeys` and the loaders of the other parts make of the rows of a catalog,
  in any order that a driver's ORDER BY leaves open. A list of columns is what its rows
  are at the places that count (`Nth`, `Picked`); `ColumnsArePicked` and `PickedAll` say
  that a list put back together by its own places is the list
  (`TableIs`, `GroupIndexesIs`, `GroupForeignKeysIs`).
* `StoodInvariant`, the inductive invariant `TypeInv`, `LoopInv` and `StoodInv`: whatever
  an image holds, at every query and not only at the comparison, a catalog held that
  was seen since its load began (`ImageStood`), or it is of
  the kinds that two queries answer. It needs that later queries only add to tables that
  are in the image, and that SQLite's loops go over what a catalog listed (`LoopInv`).
* `PartsStoodHolds` from it.
* `WholeInvariant`, with `WholeInv` and `VerdictInv`: for a catalog that is the only one
  seen, every part that a query tells is in the image once the plan of the queries
  (`Queries`) is past it, and nothing a later query does removes or replaces it.
  `Scanned`, `Trimmed`, `AfterAs` and `Normal` are any operators here, so that the
  theorems hold whatever the code cuts or takes for equal, and say no more than that.
* `VerdictSoundHolds`: where both images are true (`StoodInv`) and whole (`WholeInv`)
  they show exactly what is `Known` of their catalogs (`ExactImage`), and `HasDrift`,
  kind by kind, finds no difference exactly in images that show the same
  (`NoDriftIsShown`).

The attempt at these proofs found two places in which the model took more for granted
than the code: `Relations` had PostgreSQL tables without columns, which no row of a query
tells, and `Known` had PostgreSQL's views without the schema that the code puts before
their names. Both are in the run now (`Bare`, `Tenant`).

## Only model-checked

* The liveness properties `Returns`, `ExactScansEnd`, `SessionsEnd`, `CommandReturns`
  and `InitReturns`: liveness is beyond the prover.
* That the violated properties are violated.

All other properties of the passing runs, the safety invariants and the refinement of
`AtomicApply`, are theorems.

## Abstractions

* One command at a time per output directory (`OutputDir` modules). Two
  gen-packs in one directory are not modelled.
* The target database is external: statements become visible at the commit, a kill
  rolls back, and at a statement that changes the schema the engine may commit by
  itself at any time after it was sent, or not at all, which covers the engines with
  and without transactional DDL. The `BEGIN` and `COMMIT` that the pack itself has
  are not modelled; the integration tests strip them.
* A pack is its sequence of statements; splitting the text is left out.
* A table's rows are one value, its DELETEs and INSERTs one statement, and the
  strategy is `theirs`: every difference is emitted.
* A rename is atomic and durable: kills are of the process, not of the machine.
* In `GenPack` a version is what the hashes of a table's rows tell apart. What an engine
  makes of a statement it takes is what the statement says, but for `Literal`; which
  statements it refuses is not derived but given by table (`Refusable`): a NOT NULL
  column without a default, a row that a foreign key refers to where the header does not
  switch the checks off (PostgreSQL, SQLite), a literal or a generated column.
* `HashTableState` is written and never read, so the records leave it out;
  `ParallelHash` has who is inside its maps and how whole the file is.
* In `ParallelHash` the outcome of two goroutines inside a map is a crash or
  nothing: what an undetected race does to `HashTableState` nobody reads.
* In `VersionStore` a hash is a number, since time stamps make commits differ;
  two writes of one file do not mix; a killed write of an object leaves a part
  of it that is never taken for the whole. `version log` is taken without its `--limit`,
  and is run on every branch.
* In `KeysetHash` a page is one statement and sees the table at one moment; the
  order of the database is that of the numbers; versions hash differently.
* In `SchemaMigration` the schemas are such as a database can hold (`WellFormed`):
  what an object uses is there, a key or an index is on columns of its own table, a
  table has one primary key, and its definition says no more than its parts do. A
  definition is what it uses and a number, for a column its type, NOT NULL and default
  taken together; a new column that an engine itself refuses because the table has
  rows, indexes that an engine makes for its foreign keys, the `BEGIN` and `COMMIT`
  around the script, which SQL Server and Oracle do not take, and who owns a created
  sequence are left out: an engine may refuse any statement. A script that fails
  leaves what it did.
* In `SchemaDiff` a query sees its catalog at one moment; types, defaults and texts
  are values, as the queries see them: PostgreSQL's `udt_name` has no lengths, so that
  `varchar(10)` and `varchar(20)` are one value here. What the code does to a text after
  that is a constant operator, which may map different texts to one. How the text of an
  SQLite trigger is taken apart, the delays between attempts and the fall-back for
  sequences of PostgreSQL before 10, which cannot be reached since the query for routines
  needs `prokind`, are left out; no command cancels the context of a retry.
* Both databases of `SchemaDiff` have one driver. The configuration may name two
  (config.go 20-21, 174-180); the definitions are in the words of different engines then,
  and nothing in the code says which words of the one are those of the other, so that
  there is no verdict to compare with. The loads, one database after the other and each
  by its own driver, are those that are modelled.
* In `OperationOrder` the orders of maps are free choices, except that the operations
  left over are taken as a set; the differences are such as `DiffSchemas` makes
  (`OrderAssumption`).
* In `Identity` the last request may start after the deadline has passed, as in the
  code; `chmod` after the write is part of it.
* In `ResolveSession` a conflict is its row, without the hashes; `conflicts.json`
  is written whole; a prompt that fails at the end of the input changes nothing,
  so that the loop over it is a stutter.

## Plan

1. `Workspace`: `GenPack` and `ApplyPack` composed over one directory and one pair
   of databases, with a retry of the whole procedure; the reference is that
   production converges to development.
2. Pure algorithms: `SplitStatements`, the tree of commits.

## Not modelled

Configuration (input), reports and
templates, the display of conflicts, logging, progress bars, the website, samples and
scripts: none keeps state that another part reads, or it is text.

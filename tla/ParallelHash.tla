---------------------------- MODULE ParallelHash ----------------------------
(***************************************************************************)
(* hashTablesParallel of cmd/deepdiffdb/main.go: a goroutine per table, a  *)
(* weighted semaphore, an error group, and the results under a mutex; and, *)
(* inside HashTable (internal/content/hash.go), the checkpoint manager that*)
(* all the goroutines of a gen-pack share without a lock.                  *)
(*                                                                         *)
(* The manager's Update changes maps, marshals them, and saves the bytes to*)
(* one temporary file which it renames: each of these is a step.  Nothing  *)
(* reads the maps back, so only who is inside them is kept; a file is how  *)
(* whole its content is.  Two goroutines inside a map, one of them writing,*)
(* are a data race, whose outcome Go may make a fatal error.               *)
(***************************************************************************)
EXTENDS Integers, FiniteSets

CONSTANTS
    Tables,    \* the tables to hash
    Batches,   \* how many pages each takes
    Parallel,  \* values of --parallel
    Nobody,    \* no goroutine holds the mutex
    NoFile     \* no file, or none open

ASSUME ParallelAssumption ==
    /\ IsFiniteSet(Tables)
    /\ Batches \in [Tables -> Nat \ {0}]
    /\ Parallel \subseteq Int
    /\ Nobody \notin Tables
    /\ NoFile \notin Nat

VARIABLES
    limit,      \* maxParallel
    saving,     \* does the context carry a checkpoint manager with a state?
    at,         \* where each goroutine is
    left,       \* pages it has yet to read
    last,       \* is the Update it is in, or came from, the final one?
    permits,    \* the permits of the semaphore that are taken
    cancelled,  \* egCtx is cancelled
    first,      \* the error the group keeps
    results,    \* the tables whose hashes are in `results`
    mu,         \* who holds the mutex
    outcome,    \* what hashTablesParallel returned
    crashed,    \* the Go runtime found a concurrent map access
    file,       \* the inode at the checkpoint's path
    tmp,        \* the inode at the temporary path
    content,    \* what each inode holds
    fd          \* the inode a goroutine has open

files == <<file, tmp, content, fd>>
group == <<permits, cancelled, first>>
parallelVars == <<limit, saving, at, left, last, group, results, mu, outcome,
                  crashed, files>>

\* Enough for the two paths, a file that each goroutine has open, and a new one.
Inodes == 1 .. Cardinality(Tables) + 3

\* Mutant of Limit: a limit below one is taken as it is.
MutLimit(n) == n

\* maxParallel, at least one.
Limit(n) == IF n <= 0 THEN 1 ELSE n

ParallelInit ==
    /\ \E n \in Parallel : limit = Limit(n)
    /\ saving \in BOOLEAN
    /\ at = [t \in Tables |-> "start"]
    /\ left = Batches
    /\ last = [t \in Tables |-> FALSE]
    /\ permits = 0
    /\ cancelled = FALSE
    /\ first = "none"
    /\ results = {}
    /\ mu = Nobody
    /\ outcome = "none"
    /\ crashed = FALSE
    /\ file = 1
    /\ tmp = NoFile
    /\ content = [i \in Inodes |-> IF i = 1 THEN "whole" ELSE "empty"]
    /\ fd = [t \in Tables |-> NoFile]

GoTo(t, label) == at' = [at EXCEPT ![t] = label]

\* Who may not be where t goes: writers exclude everybody, in the maps of the
\* checkpoint and in `results`.
Conflicting(label) ==
    CASE label = "changing"   -> {"changing", "marshalling"}
      [] label = "marshalling" -> {"changing"}
      [] label = "storing"    -> {"storing"}

\* t goes into a map; the race detector of Go's maps may or may not notice.
Enter(t, label) ==
    /\ GoTo(t, label)
    /\ crashed' \in IF \E u \in Tables \ {t} : at[u] \in Conflicting(label)
                      THEN BOOLEAN ELSE {FALSE}

\* Mutant of Return: the permit is not given back.
MutReturn(t, error) ==
    /\ GoTo(t, "done")
    /\ permits' = permits
    /\ first' = IF first = "none" THEN error ELSE first
    /\ cancelled' = (cancelled \/ error # "none")

\* The goroutine's function returns: the permit is released, and the group
\* keeps the first error and cancels the context.
Return(t, error) ==
    /\ GoTo(t, "done")
    /\ permits' = permits - 1
    /\ first' = IF first = "none" THEN error ELSE first
    /\ cancelled' = (cancelled \/ error # "none")

-----------------------------------------------------------------------------
Acquire(t) ==
    /\ at[t] = "start"
    /\ ~cancelled
    /\ permits < limit
    /\ permits' = permits + 1
    /\ GoTo(t, "page")
    /\ UNCHANGED <<limit, saving, left, last, cancelled, first, results, mu,
                   outcome, crashed, files>>

\* Acquire returns the error of the cancelled context.
GiveUp(t) ==
    /\ at[t] = "start"
    /\ cancelled
    /\ GoTo(t, "done")
    /\ first' = IF first = "none" THEN "cancelled" ELSE first
    /\ UNCHANGED <<limit, saving, left, last, permits, cancelled, results, mu,
                   outcome, crashed, files>>

\* A page is read and hashed; without a checkpoint the next one follows.
ReadPage(t) ==
    /\ at[t] = "page"
    /\ left' = [left EXCEPT ![t] = @ - 1]
    /\ GoTo(t, IF saving THEN "update"
               ELSE IF left'[t] > 0 THEN "page" ELSE "lock")
    /\ UNCHANGED <<limit, saving, last, group, results, mu, outcome, crashed,
                   files>>

\* A query fails of itself, or since the context is cancelled.
PageFails(t) ==
    /\ at[t] = "page"
    /\ \E error \in {"own"} \cup IF cancelled THEN {"cancelled"} ELSE {} :
           Return(t, error)
    /\ UNCHANGED <<limit, saving, left, last, results, mu, outcome, crashed,
                   files>>

-----------------------------------------------------------------------------
(***************************************************************************)
(* Manager.Update, after every page and once more at the end.  Its errors  *)
(* are only logged.                                                        *)
(***************************************************************************)

\* updateFn changes HashTableState.
ChangeState(t) ==
    /\ at[t] = "update"
    /\ Enter(t, "changing")
    /\ UNCHANGED <<limit, saving, left, last, group, results, mu, outcome,
                   files>>

\* Save marshals the state.
Marshal(t) ==
    /\ at[t] = "changing"
    /\ Enter(t, "marshalling")
    /\ UNCHANGED <<limit, saving, left, last, group, results, mu, outcome,
                   files>>

\* Update has returned.
Updated(t) ==
    /\ GoTo(t, IF left[t] > 0 THEN "page" ELSE IF last[t] THEN "lock"
               ELSE "update")
    /\ last' = [last EXCEPT ![t] = left[t] = 0]
    /\ fd' = [fd EXCEPT ![t] = NoFile]
    /\ UNCHANGED <<limit, saving, left, group, results, mu, outcome, crashed>>

\* Mutant of OpenTemp: the checkpoint itself is opened.
MutOpenTemp(t) ==
    /\ at[t] = "marshalling"
    /\ fd' = [fd EXCEPT ![t] = file]
    /\ content' = [content EXCEPT ![file] = "empty"]
    /\ GoTo(t, "writing")
    /\ UNCHANGED <<limit, saving, left, last, group, results, mu, outcome,
                   crashed, file, tmp>>

\* os.WriteFile opens the temporary path, creating or truncating the file.
OpenTemp(t) ==
    LET unused == Inodes \ ({file, tmp} \cup {fd[u] : u \in Tables})
        inode  == IF tmp # NoFile THEN tmp
                  ELSE CHOOSE i \in unused : TRUE
    IN
    /\ at[t] = "marshalling"
    /\ tmp' = inode
    /\ fd' = [fd EXCEPT ![t] = inode]
    /\ content' = [content EXCEPT ![inode] = "empty"]
    /\ GoTo(t, "writing")
    /\ UNCHANGED <<limit, saving, left, last, group, results, mu, outcome,
                   crashed, file>>

\* ... and writes it from its start: over other bytes, a longer content of
\* which may remain behind these.
WriteTemp(t) ==
    /\ at[t] = "writing"
    /\ content' \in
           {[content EXCEPT ![fd[t]] = c] :
               c \in IF content[fd[t]] = "empty" THEN {"whole"}
                     ELSE {"whole", "mixed"}}
    /\ fd' = [fd EXCEPT ![t] = NoFile]
    /\ GoTo(t, "rename")
    /\ UNCHANGED <<limit, saving, left, last, group, results, mu, outcome,
                   crashed, file, tmp>>

\* The disk is full, say: some of the bytes are in the temporary file.
SaveFails(t) ==
    /\ at[t] = "writing"
    /\ content' = [content EXCEPT ![fd[t]] = "mixed"]
    /\ Updated(t)
    /\ UNCHANGED <<file, tmp>>

\* Whatever is at the temporary path is the checkpoint now.
Rename(t) ==
    /\ at[t] = "rename"
    /\ tmp # NoFile
    /\ file' = tmp
    /\ tmp' = NoFile
    /\ Updated(t)
    /\ UNCHANGED content

\* Another goroutine has renamed it already.
RenameFails(t) ==
    /\ at[t] = "rename"
    /\ tmp = NoFile
    /\ GoTo(t, "remove")
    /\ UNCHANGED <<limit, saving, left, last, group, results, mu, outcome,
                   crashed, files>>

\* The cleanup after it removes what is at the path by then, if anything is.
RemoveTemp(t) ==
    /\ at[t] = "remove"
    /\ tmp' = NoFile
    /\ Updated(t)
    /\ UNCHANGED <<file, content>>

-----------------------------------------------------------------------------
\* Mutant of Lock: there is no mutex.
MutLock(t) ==
    /\ at[t] = "lock"
    /\ mu' = t
    /\ Enter(t, "storing")
    /\ UNCHANGED <<limit, saving, left, last, group, results, outcome, files>>

\* mu.Lock(), and into the map of results.
Lock(t) ==
    /\ at[t] = "lock"
    /\ mu = Nobody
    /\ mu' = t
    /\ Enter(t, "storing")
    /\ UNCHANGED <<limit, saving, left, last, group, results, outcome, files>>

\* Mutant of Store: the end of one table cancels the others.
MutStore(t) ==
    /\ at[t] = "storing"
    /\ results' = results \cup {t}
    /\ mu' = Nobody
    /\ GoTo(t, "done")
    /\ permits' = permits - 1
    /\ cancelled' = TRUE
    /\ UNCHANGED <<limit, saving, left, last, first, outcome, crashed, files>>

Store(t) ==
    /\ at[t] = "storing"
    /\ results' = results \cup {t}
    /\ mu' = Nobody
    /\ Return(t, "none")
    /\ UNCHANGED <<limit, saving, left, last, outcome, crashed, files>>

\* eg.Wait() returns when all goroutines have.
Wait ==
    /\ ~crashed
    /\ outcome = "none"
    /\ \A t \in Tables : at[t] = "done"
    /\ outcome' = IF first = "none" THEN "ok" ELSE "error"
    /\ UNCHANGED <<limit, saving, at, left, last, group, results, mu, crashed,
                   files>>

Goroutine(t) ==
    /\ ~crashed
    /\ \/ Acquire(t)
       \/ GiveUp(t)
       \/ ReadPage(t)
       \/ PageFails(t)
       \/ ChangeState(t)
       \/ Marshal(t)
       \/ OpenTemp(t)
       \/ WriteTemp(t)
       \/ SaveFails(t)
       \/ Rename(t)
       \/ RenameFails(t)
       \/ RemoveTemp(t)
       \/ Lock(t)
       \/ Store(t)

ParallelNext == Wait \/ \E t \in Tables : Goroutine(t)

\* The Go scheduler runs every goroutine that can run, its mutex and the
\* semaphore's queue starve nobody, and a query returns, if with an error.
ParallelSpec ==
    /\ ParallelInit
    /\ [][ParallelNext]_parallelVars
    /\ WF_parallelVars(Wait)
    /\ \A t \in Tables : WF_parallelVars(Goroutine(t))

-----------------------------------------------------------------------------
(***************************************************************************)
(* Properties.                                                             *)
(***************************************************************************)

Labels == {"start", "page", "update", "changing", "marshalling", "writing",
           "rename", "remove", "lock", "storing", "done"}

\* Every variable has its type.
ParallelTypeOK ==
    /\ limit \in Nat \ {0}
    /\ saving \in BOOLEAN
    /\ at \in [Tables -> Labels]
    /\ left \in [Tables -> Nat]
    /\ last \in [Tables -> BOOLEAN]
    /\ permits \in Nat
    /\ cancelled \in BOOLEAN
    /\ first \in {"none", "own", "cancelled"}
    /\ results \subseteq Tables
    /\ mu \in Tables \cup {Nobody}
    /\ outcome \in {"none", "ok", "error"}
    /\ crashed \in BOOLEAN
    /\ file \in Inodes
    /\ tmp \in Inodes \cup {NoFile}
    /\ content \in [Inodes -> {"empty", "whole", "mixed"}]
    /\ fd \in [Tables -> Inodes \cup {NoFile}]

\* Success means that every table was read to its end, and an error is that of
\* a table that failed, never only the cancellation which followed from it.
AllOrTheError ==
    /\ outcome = "ok" => results = Tables /\ \A t \in Tables : left[t] = 0
    /\ outcome = "error" => first = "own"

\* Two goroutines can meet inside a map only where gen-pack, with --parallel
\* over one, has them share the checkpoint manager: never in `results`.
RacesOnlyInCheckpoint == crashed => saving /\ limit > 1

\* Manager.Save, "atomically (write to temp, then rename)", one table at a
\* time: wherever the process is killed and whatever write fails, the
\* checkpoint at its path is whole.
WholeWhenSequential == limit = 1 => content[file] = "whole"

\* Everything waits for somebody, and yet, with any number of failures and
\* with permits fewer than tables, the call returns or the process crashes.
Returns == <>(outcome # "none" \/ crashed)
=============================================================================

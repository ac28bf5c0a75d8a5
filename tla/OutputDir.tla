----------------------------- MODULE OutputDir -----------------------------
(***************************************************************************)
(* What the commands of deepdiff-db leave in the configured output         *)
(* directory, and the checkpoint manager through which a running command   *)
(* reads and writes it (internal/checkpoint).                              *)
(*                                                                         *)
(* There is ONE checkpoint file per directory, whatever the command that   *)
(* writes it: gen-pack and apply share it, and no reader looks at the      *)
(* file's `operation` field.  A save writes a temporary file and renames   *)
(* it, so a kill leaves the old file or the new one.                       *)
(***************************************************************************)
EXTENDS Naturals, Sequences

CONSTANTS
    Configs,       \* configurations; a configuration stands for its hash
    Paths,         \* the pack paths a user passes to `apply --pack`
    Statement,     \* SQL statements
    GenProgress,   \* values of State.GeneratePackState
    NoState,       \* no file on disk; a nil *State in the manager
    NoProgress,    \* a nil State.ApplyPackState
    DiskFaults     \* BOOLEAN: may writing or deleting the file fail?

VARIABLES
    checkpointFile,  \* .deepdiffdb_checkpoint.json
    manager,         \* Manager.state of the running command
    packs            \* the pack file at each path, as its statements

dirVars == <<checkpointFile, manager, packs>>

ApplyProgress == [path : Paths, executed : Nat]

State == [config  : Configs,
          expired : BOOLEAN,          \* LastUpdated is over 24 hours old
          gen     : GenProgress,
          apply   : ApplyProgress \cup {NoProgress}]

ASSUME ConstantsAssumption ==
    /\ DiskFaults \in BOOLEAN
    /\ NoState \notin State
    /\ NoProgress \notin ApplyProgress

NewState(config, gen) ==
    [config |-> config, expired |-> FALSE, gen |-> gen, apply |-> NoProgress]

\* Mutant of Invalid: only the age is checked.
MutOnlyAge(state, config) == state.expired

\* Validate: why a checkpoint may not be resumed under a configuration.
Invalid(state, config) == state.expired \/ state.config # config

\* Save stamps LastUpdated before anything can fail.
Stamped(state) == [state EXCEPT !.expired = FALSE]

\* May writing or deleting the file succeed, may it fail?
DiskOutcomes == IF DiskFaults THEN BOOLEAN ELSE {TRUE}

\* The file after Save: the new state or, on an error, the old.
AfterSave(state, ok) == IF ok THEN Stamped(state) ELSE checkpointFile

\* A missing file is no error and leaves the manager as it was.
Load == manager' = IF checkpointFile = NoState THEN manager ELSE checkpointFile

\* Update changes the manager's state in place and then saves it; without a
\* loaded state it is an error, which every caller only logs.
Update(changed) ==
    IF manager = NoState
      THEN UNCHANGED <<checkpointFile, manager>>
      ELSE /\ manager' = Stamped(changed)
           /\ \E ok \in DiskOutcomes :
                  checkpointFile' = AfterSave(changed, ok)

\* Delete removes the file, or returns the error of os.Remove, which both
\* commands' deferred calls leave unread: then the file stays.
Delete ==
    \E ok \in DiskOutcomes :
        checkpointFile' = IF ok THEN NoState ELSE checkpointFile

\* A day passes since the last save.
Expire ==
    /\ checkpointFile # NoState
    /\ ~checkpointFile.expired
    /\ checkpointFile' = [checkpointFile EXCEPT !.expired = TRUE]
    /\ UNCHANGED <<manager, packs>>
=============================================================================

--------------------------- MODULE ResolveSession ---------------------------
(***************************************************************************)
(* Sessions of `resolve-conflicts` (runResolveConflicts in                 *)
(* cmd/deepdiffdb/main.go) over resolutions.json                           *)
(* (internal/content/resolve/persistence.go), with `diff` and `gen-pack`   *)
(* in between, which write conflicts.json anew.                            *)
(*                                                                         *)
(* One command runs at a time.  A session may be killed at any point; a    *)
(* save is os.WriteFile, which truncates and then writes.                  *)
(*                                                                         *)
(* A conflict is the row it is about.  A resolution is its decision: the   *)
(* strategy follows from it, and it is resolved when it is not pending.    *)
(***************************************************************************)
EXTENDS Naturals, Sequences, FiniteSets, FiniteSetsExt

CONSTANTS
    Rows,         \* the rows that may be in conflict
    TableOf,      \* the table of a row: a number, in the order of the names
    Strategy,     \* conflict_resolution of the configuration, by table
    Missing,      \* there is no resolutions.json
    Torn,         \* it is empty or cut short
    NoPack,       \* gen-pack has not run since the last diff or session
    MaxSessions   \* bound on the sessions of a behaviour

ASSUME ResolveAssumption ==
    /\ IsFiniteSet(Rows)
    /\ TableOf \in [Rows -> Nat]
    /\ Strategy \in [{TableOf[r] : r \in Rows} -> {"ours", "theirs", "manual"}]
    /\ MaxSessions \in Nat

Decisions == {"pending", "keep_prod", "use_dev"}
Answers == Decisions \ {"pending"}

VARIABLES
    conflicts,   \* conflicts.json
    file,        \* resolutions.json: the decision of each row, if whole
    pack,        \* the updated rows that gen-pack has put into the pack
    pc,          \* where the session is; "idle": there is none
    mode,        \* how it was started
    list,        \* the conflicts it has loaded
    decided,     \* its resolutions
    index,       \* currentIndex
    next,        \* where it goes on after a save
    eof,         \* is its standard input at the end?
    kept,        \* history: the decisions that --resume found
    answered,    \* history: the answers given row by row
    passed,      \* history: the rows skipped or not fetched
    unsaved,     \* history: did the last save fail?
    sessions     \* history: how many sessions have started

local == <<mode, list, decided, index, next, eof, kept, answered, passed, unsaved>>
resolveVars == <<conflicts, file, pack, pc, local, sessions>>

Members(s) == {s[i] : i \in DOMAIN s}

\* BuildDataDiff: sorted by table; within a table in the order of a map.
Lists ==
    {s \in UNION {[1 .. n -> Rows] : n \in 0 .. Cardinality(Rows)} :
        /\ Cardinality(Members(s)) = Len(s)
        /\ \A i, j \in DOMAIN s : i < j => TableOf[s[i]] <= TableOf[s[j]]}

ResolveInit ==
    /\ conflicts = << >>
    /\ file = Missing
    /\ pack = NoPack
    /\ pc = "idle"
    /\ mode = "none"
    /\ list = << >>
    /\ decided = << >>
    /\ index = 1
    /\ next = "idle"
    /\ eof = FALSE
    /\ kept = << >>
    /\ answered = << >>
    /\ passed = {}
    /\ unsaved = FALSE
    /\ sessions = 0

Whole == file \notin {Missing, Torn}

\* `diff` writes the conflicts of the databases as they are now.
Diff ==
    /\ pc = "idle"
    /\ conflicts' \in Lists
    /\ pack' = NoPack
    /\ UNCHANGED <<file, pc, local, sessions>>

\* strategyToDecision, ApplyStrategy.
DecisionOf(strategy) ==
    IF strategy = "ours" THEN "keep_prod"
    ELSE IF strategy = "theirs" THEN "use_dev"
    ELSE "pending"

\* resolve.Conflicts with the configuration.
Configured(rows) == [r \in rows |-> DecisionOf(Strategy[TableOf[r]])]

\* FilterDataDiffByResolutions: the updated rows that stay.
Included(rows, decisions) == {r \in rows : decisions[r] = "use_dev"}

\* gen-pack compares, resolves by the configuration alone, and generates.
GenPack ==
    /\ pc = "idle"
    /\ conflicts' \in Lists
    /\ pack' = LET rows == Members(conflicts') IN Included(rows, Configured(rows))
    /\ UNCHANGED <<file, pc, local, sessions>>

-----------------------------------------------------------------------------
\* Mutant of Merged: takes the saved decisions only for the same conflicts.
MutMerged(l) ==
    [r \in Members(l) |->
        IF Whole /\ DOMAIN file = Members(l) THEN file[r] ELSE "pending"]

\* MergeResolutions; with no file, or one that does not parse, all are pending.
Merged(l) ==
    [r \in Members(l) |-> IF Whole /\ r \in DOMAIN file THEN file[r] ELSE "pending"]

\* Mutant of Ahead: looks for a pending row from the start.
MutAhead(l, d, i) ==
    Min({Len(l) + 1} \cup {j \in 1 .. Len(l) : d[l[j]] = "pending"})

\* The loop leaves out what is resolved: the first pending row from i on.
Ahead(l, d, i) ==
    Min({Len(l) + 1} \cup {j \in i .. Len(l) : d[l[j]] = "pending"})

StartWith(m, d, label) ==
    /\ pc = "idle"
    /\ sessions < MaxSessions
    /\ conflicts # << >>
    /\ sessions' = sessions + 1
    /\ mode' = m
    /\ list' = conflicts
    /\ decided' = d
    /\ index' = Ahead(conflicts, d, 1)
    /\ next' = "idle"
    /\ eof' = FALSE
    /\ answered' = << >>
    /\ passed' = {}
    /\ unsaved' = FALSE
    /\ pack' = NoPack
    /\ pc' = label
    /\ UNCHANGED <<conflicts, file>>

\* Without --resume every conflict is pending.
StartFresh ==
    /\ StartWith("fresh", [r \in Members(conflicts) |-> "pending"], "ask")
    /\ kept' = << >>

\* With --resume the saved decisions stay; if none is pending there is nothing
\* to do.
StartResumed ==
    /\ \E r \in Members(conflicts) : Merged(conflicts)[r] = "pending"
    /\ StartWith("resume", Merged(conflicts), "ask")
    /\ kept' = [r \in {r \in Members(conflicts) : Whole /\ r \in DOMAIN file
                                                        /\ file[r] # "pending"}
                    |-> file[r]]

\* With --auto the configuration decides, and with --resume it decides again.
StartAuto ==
    /\ StartWith("auto", Configured(Members(conflicts)), "open")
    /\ kept' = << >>

\* The session ends.
Exit ==
    /\ pc' = "idle"
    /\ mode' = "none"
    /\ list' = << >>
    /\ decided' = << >>
    /\ index' = 1
    /\ next' = "idle"
    /\ eof' = FALSE
    /\ kept' = << >>
    /\ answered' = << >>
    /\ passed' = {}
    /\ unsaved' = FALSE

\* The loop goes on at i, after a save.
SaveThen(d, i) ==
    /\ index' = Ahead(list, d, i)
    /\ decided' = d
    /\ next' = IF index' > Len(list) THEN "idle" ELSE "ask"
    /\ pc' = "open"

Row == list[index]

\* The user is asked about a row whose data could be fetched.
Prompted == pc = "ask" /\ ~eof

\* ChoiceKeepProd, ChoiceUseDev: UpdateResolution.
AnswerRow(d) ==
    /\ Prompted
    /\ SaveThen([decided EXCEPT ![Row] = d], index + 1)
    /\ answered' = [r \in DOMAIN answered \cup {Row} |->
                       IF r = Row THEN d ELSE answered[r]]
    /\ UNCHANGED <<conflicts, file, pack, mode, list, eof, kept, passed, unsaved,
                   sessions>>

\* ChoiceSkip.
Skip ==
    /\ Prompted
    /\ SaveThen(decided, index + 1)
    /\ passed' = passed \cup {Row}
    /\ UNCHANGED <<conflicts, file, pack, mode, list, eof, kept, answered, unsaved,
                   sessions>>

\* Mutant of Bulk: decides again what is decided already.
MutBulk(rows, d) ==
    [r \in DOMAIN decided |-> IF r \in rows THEN d ELSE decided[r]]

\* ApplyBulkResolution.
Bulk(rows, d) ==
    [r \in DOMAIN decided |->
        IF r \in rows /\ decided[r] = "pending" THEN d ELSE decided[r]]

\* Mutant of PastTable: leaves the loop.
MutPastTable == Len(list) + 1

\* The loop that skips to the next table.
PastTable ==
    Min({Len(list) + 1} \cup {j \in index .. Len(list) : TableOf[list[j]] # TableOf[Row]})

\* ChoiceOursForTable, ChoiceTheirsForTable.
AnswerTable(d) ==
    /\ Prompted
    /\ SaveThen(Bulk({r \in Members(list) : TableOf[r] = TableOf[Row]}, d), PastTable)
    /\ UNCHANGED <<conflicts, file, pack, mode, list, eof, kept, answered, passed,
                   unsaved, sessions>>

\* ChoiceOursForAll, ChoiceTheirsForAll.
AnswerAll(d) ==
    /\ Prompted
    /\ SaveThen(Bulk(Members(list), d), Len(list) + 1)
    /\ UNCHANGED <<conflicts, file, pack, mode, list, eof, kept, answered, passed,
                   unsaved, sessions>>

\* ChoiceQuit.
Quit ==
    /\ Prompted
    /\ pc' = "open"
    /\ next' = "idle"
    /\ UNCHANGED <<conflicts, file, pack, mode, list, decided, index, eof, kept,
                   answered, passed, unsaved, sessions>>

\* FetchConflictRowsCrossEngine fails: the row is passed, nothing is saved.
FetchFails ==
    /\ pc = "ask"
    /\ index' = Ahead(list, decided, index + 1)
    /\ passed' = passed \cup {Row}
    /\ index' <= Len(list)
    /\ UNCHANGED <<conflicts, file, pack, pc, mode, list, decided, next, eof, kept,
                   answered, unsaved, sessions>>

\* ... and that was the last one.
LastFetchFails ==
    /\ pc = "ask"
    /\ Ahead(list, decided, index + 1) > Len(list)
    /\ Exit
    /\ UNCHANGED <<conflicts, file, pack, sessions>>

\* The input ends: from now on every prompt fails, and the loop asks again.
InputEnds ==
    /\ pc = "ask"
    /\ eof' = TRUE
    /\ UNCHANGED <<conflicts, file, pack, pc, mode, list, decided, index, next, kept,
                   answered, passed, unsaved, sessions>>

\* os.WriteFile opens the file, which truncates it.
Open ==
    /\ pc = "open"
    /\ file' = Torn
    /\ pc' = "write"
    /\ UNCHANGED <<conflicts, pack, local, sessions>>

\* After a save: the loop, with a warning if it failed, or the end.
GoOn(failed) ==
    \/ /\ next = "ask"
       /\ pc' = "ask"
       /\ unsaved' = failed
       /\ UNCHANGED <<mode, list, decided, index, next, eof, kept, answered, passed>>
    \/ next = "idle" /\ Exit

\* Mutant of Save: saves the decisions as they were loaded.
MutSave ==
    /\ pc = "write"
    /\ file' = [r \in DOMAIN decided |->
                   IF r \in DOMAIN kept THEN kept[r] ELSE "pending"]
    /\ GoOn(FALSE)
    /\ UNCHANGED <<conflicts, pack, sessions>>

\* It writes, and SaveResolutions returns.
Save ==
    /\ pc = "write"
    /\ file' = decided
    /\ GoOn(FALSE)
    /\ UNCHANGED <<conflicts, pack, sessions>>

\* The file cannot be opened, or not be written.
SaveFails ==
    /\ pc \in {"open", "write"}
    /\ GoOn(TRUE)
    /\ UNCHANGED <<conflicts, file, pack, sessions>>

\* The session is killed, or returns an error.
Stop ==
    /\ pc # "idle"
    /\ Exit
    /\ UNCHANGED <<conflicts, file, pack, sessions>>

Start == StartFresh \/ StartResumed \/ StartAuto

Answer ==
    \/ \E d \in Answers : AnswerRow(d) \/ AnswerTable(d) \/ AnswerAll(d)
    \/ Skip
    \/ Quit

Saving == Open \/ Save \/ SaveFails

ResolveNext ==
    Diff \/ GenPack \/ Start \/ Answer \/ FetchFails \/ LastFetchFails
         \/ InputEnds \/ Saving \/ Stop

ResolveSpec == ResolveInit /\ [][ResolveNext]_resolveVars

\* A save goes on, and who is asked answers in the end.
FairResolveSpec == ResolveSpec /\ WF_resolveVars(Saving) /\ WF_resolveVars(Answer)

-----------------------------------------------------------------------------
(***************************************************************************)
(* Properties.                                                             *)
(***************************************************************************)

\* A decision found by --resume stays, in the session and in what it saves,
\* whatever is answered, for a row, a table or all, and in whatever order the
\* new conflicts come.
ResumeKeepsDecisions ==
    mode = "resume" =>
        \A r \in DOMAIN kept :
            /\ decided[r] = kept[r]
            /\ Whole => r \in DOMAIN file /\ file[r] = kept[r]

\* What was answered for a row is not undone by an answer for its table or for
\* all, and it is the row that was shown.
AnswersStand == \A r \in DOMAIN answered : decided[r] = answered[r]

\* No conflict is passed in silence: before the one that is shown, or at the
\* end, each is decided, skipped, or was not fetched.
NothingOverlooked ==
    mode \in {"fresh", "resume"} =>
        \A i \in 1 .. index - 1 : decided[list[i]] # "pending" \/ list[i] \in passed

\* Whoever is asked again finds the former answers on disk, if no save failed:
\* a kill at the prompt loses nothing.
DecisionsReachDisk ==
    pc = "ask" /\ ~unsaved /\ answered # << >> => file = decided

\* A session ends, or its input does.
SessionsEnd == pc # "idle" ~> pc = "idle" \/ eof
=============================================================================

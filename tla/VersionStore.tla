---------------------------- MODULE VersionStore ----------------------------
(***************************************************************************)
(* The version repository (.deepdiffdb/, internal/version/store.go and     *)
(* branch.go) under the commands of cmd/deepdiffdb/main.go that write it:  *)
(* `version init`, `commit`, `branch <name>` and `checkout`.               *)
(*                                                                         *)
(* Nothing locks the repository, so commands of several processes          *)
(* interleave between their file operations, and each may be killed at any *)
(* point.  os.WriteFile is two steps: it truncates, then it writes.        *)
(*                                                                         *)
(* A commit object is its parent; a hash is the number of the commit, since*)
(* commits differ in their timestamps.  Two writes of one file do not mix. *)
(***************************************************************************)
EXTENDS Naturals

CONSTANTS
    Procs,        \* processes that run commands
    Branches,     \* names of branches
    Main,         \* defaultBranch
    NoBranch,     \* HEAD is not a symbolic ref
    MaxCommits,   \* bound on the commits of a behaviour
    MaxCommands   \* bound on its commands

ASSUME VersionAssumption ==
    /\ Main \in Branches
    /\ NoBranch \notin Branches
    /\ MaxCommits \in Nat
    /\ MaxCommands \in Nat

Hashes == 1 .. MaxCommits
None == 0   \* the empty hash

\* Any other text: the first digits of a hash, a name, a hash mistyped.
Text == MaxCommits + 1

\* What a ref may say.
Tips == {None, Text} \cup Hashes

VARIABLES
    initialized,  \* does HEAD exist?
    head,         \* the branch HEAD names, if it is a symbolic ref
    detached,     \* what HEAD says, if not
    refs,         \* refs/heads/: the files that exist, with what they say
    objects,      \* objects/: the files that exist
    pc,           \* where each process is in its command; "idle": in none
    cmd,          \* the command
    seen,         \* the branch the process read from HEAD
    at,           \* the branch whose ref, or that HEAD, is to be written
    base,         \* the hash it read: a parent, or where a branch starts
    new,          \* the hash it is to write
    commits,      \* how many commits were hashed
    saved,        \* history: the commits reported as saved
    fresh,        \* history: are HEAD and refs as the process has read them?
    overlapped,   \* history: have two commands ever run at the same time?
    torn,         \* history: did one ever stop between truncate and write?
    commands      \* history: how many commands have started

repo == <<initialized, head, detached, refs, objects>>
local == <<cmd, seen, at, base, new>>
versionVars == <<repo, pc, local, commits, saved, fresh, overlapped, torn,
                 commands>>

Object == [parent : Tips, whole : BOOLEAN]

VersionInit ==
    /\ initialized = FALSE
    /\ head = NoBranch
    /\ detached = None
    /\ refs = [b \in {} |-> None]
    /\ objects = [h \in {} |-> None]
    /\ pc = [p \in Procs |-> "idle"]
    /\ cmd = [p \in Procs |-> "none"]
    /\ seen = [p \in Procs |-> NoBranch]
    /\ at = [p \in Procs |-> NoBranch]
    /\ base = [p \in Procs |-> None]
    /\ new = [p \in Procs |-> None]
    /\ commits = 0
    /\ saved = {}
    /\ fresh = [p \in Procs |-> FALSE]
    /\ overlapped = FALSE
    /\ torn = FALSE
    /\ commands = 0

\* readRef: a missing file reads as the empty hash.
Tip(b) == IF b \in DOMAIN refs THEN refs[b] ELSE None

\* os.WriteFile creates the ref file or replaces it.
WithRef(b, h) == [c \in DOMAIN refs \cup {b} |-> IF c = b THEN h ELSE refs[c]]

GoTo(p, label) == pc' = [pc EXCEPT ![p] = label]

Start(p, command, label) ==
    /\ pc[p] = "idle"
    /\ commands < MaxCommands
    /\ commands' = commands + 1
    /\ cmd' = [cmd EXCEPT ![p] = command]
    /\ GoTo(p, label)
    /\ overlapped' = (overlapped \/ \E q \in Procs \ {p} : pc[q] # "idle")
    /\ UNCHANGED <<repo, commits, saved, fresh, torn>>

\* p writes HEAD or a ref: what the others have read is no longer fresh.
Disturb(p) == fresh' = [q \in Procs |-> q = p /\ fresh[q]]

\* Every step of a running command.
Inside == UNCHANGED <<cmd, overlapped, commands>>

-----------------------------------------------------------------------------
\* Init: nothing to do when HEAD exists.
InitRepo(p) ==
    /\ ~initialized
    /\ Start(p, "init", "truncate head")
    /\ at' = [at EXCEPT ![p] = Main]
    /\ UNCHANGED <<seen, base, new>>

\* runVersionCommit, up to its ReadHEAD.
StartCommit(p) ==
    /\ initialized
    /\ commits < MaxCommits
    /\ Start(p, "commit", "head")
    /\ UNCHANGED <<seen, at, base, new>>

\* Mutant of CreateBranch: does not look whether the branch exists.
MutCreateBranch(p, b, from) ==
    /\ initialized
    /\ Start(p, "branch", IF from = None THEN "head" ELSE "truncate")
    /\ at' = [at EXCEPT ![p] = b]
    /\ new' = [new EXCEPT ![p] = from]
    /\ UNCHANGED <<seen, base>>

\* CreateBranch, up to its ReadHEAD; with --from there is none, and what the
\* user types is written as it is: nothing looks it up.
CreateBranch(p, b, from) ==
    /\ initialized
    /\ b \notin DOMAIN refs
    /\ Start(p, "branch", IF from = None THEN "head" ELSE "truncate")
    /\ at' = [at EXCEPT ![p] = b]
    /\ new' = [new EXCEPT ![p] = from]
    /\ UNCHANGED <<seen, base>>

\* Checkout: the branch has a ref file, or is the default branch.  With no ref
\* file, and already checked out, there is nothing to do.
Checkout(p, b) ==
    /\ initialized
    /\ \/ b \in DOMAIN refs
       \/ b = Main /\ head # Main
    /\ Start(p, "checkout", "truncate head")
    /\ at' = [at EXCEPT ![p] = b]
    /\ UNCHANGED <<seen, base, new>>

\* ComputeHash gives a commit its hash once the parent is known; a new branch
\* starts at what was read.
Based(p, h) ==
    /\ base' = [base EXCEPT ![p] = h]
    /\ IF cmd[p] = "commit"
         THEN /\ commits < MaxCommits
              /\ commits' = commits + 1
              /\ new' = [new EXCEPT ![p] = commits']
              /\ GoTo(p, "object")
         ELSE /\ new' = [new EXCEPT ![p] = h]
              /\ GoTo(p, "truncate")
              /\ UNCHANGED commits

\* ReadHEAD reads HEAD: the hash itself, or the name of a ref to read.
ReadHead(p) ==
    /\ pc[p] = "head"
    /\ seen' = [seen EXCEPT ![p] = head]
    /\ IF head = NoBranch
         THEN Based(p, detached)
         ELSE /\ GoTo(p, "tip")
              /\ UNCHANGED <<base, new, commits>>
    /\ fresh' = [fresh EXCEPT ![p] = TRUE]
    /\ Inside
    /\ UNCHANGED <<repo, at, saved, torn>>

\* Mutant of ReadTip: the parent is always the tip of the default branch.
MutReadTip(p) ==
    /\ pc[p] = "tip"
    /\ Based(p, Tip(Main))
    /\ Inside
    /\ UNCHANGED <<repo, seen, at, saved, fresh, torn>>

\* ReadHEAD reads the ref.
ReadTip(p) ==
    /\ pc[p] = "tip"
    /\ Based(p, Tip(seen[p]))
    /\ Inside
    /\ UNCHANGED <<repo, seen, at, saved, fresh, torn>>

\* Mutant of WithObject: a write of the object that fails goes unnoticed.
MutWithObject(p, whole) ==
    [h \in DOMAIN objects \cup {new[p]} |->
        IF h = new[p] THEN [parent |-> base[p], whole |-> FALSE]
                      ELSE objects[h]]

\* The objects once that of p's commit is written.
WithObject(p, whole) ==
    [h \in DOMAIN objects \cup {new[p]} |->
        IF h = new[p] THEN [parent |-> base[p], whole |-> whole]
                      ELSE objects[h]]

\* SaveCommit writes the object.
WriteObject(p) ==
    /\ pc[p] = "object"
    /\ objects' = WithObject(p, TRUE)
    /\ GoTo(p, "advance")
    /\ Inside
    /\ UNCHANGED <<initialized, head, detached, refs, seen, at, base, new,
                   commits, saved, fresh, torn>>

\* advanceHEAD reads HEAD again.
AdvanceHead(p) ==
    /\ pc[p] = "advance"
    /\ at' = [at EXCEPT ![p] = head]
    /\ GoTo(p, "truncate")
    /\ Inside
    /\ UNCHANGED <<repo, seen, base, new, commits, saved, fresh, torn>>

\* Mutant of Truncate: does not look whether HEAD is a symbolic ref.
MutTruncate(p) ==
    /\ pc[p] = "truncate"
    /\ refs' = WithRef(at[p], None)
    /\ GoTo(p, "write")
    /\ Disturb(p)
    /\ Inside
    /\ UNCHANGED <<initialized, head, detached, objects, seen, at, base, new,
                   commits, saved, torn>>

\* writeRef, or writeHEAD of a hash, opens the file: it is empty now.
Truncate(p) ==
    /\ pc[p] = "truncate"
    /\ IF at[p] = NoBranch
         THEN /\ head' = NoBranch
              /\ detached' = None
              /\ UNCHANGED refs
         ELSE /\ refs' = WithRef(at[p], None)
              /\ UNCHANGED <<head, detached>>
    /\ GoTo(p, "write")
    /\ Disturb(p)
    /\ Inside
    /\ UNCHANGED <<initialized, objects, seen, at, base, new, commits, saved,
                   torn>>

\* Every end of a command: nothing of it remains.
Exit(p) ==
    /\ GoTo(p, "idle")
    /\ cmd' = [cmd EXCEPT ![p] = "none"]
    /\ seen' = [seen EXCEPT ![p] = NoBranch]
    /\ at' = [at EXCEPT ![p] = NoBranch]
    /\ base' = [base EXCEPT ![p] = None]
    /\ new' = [new EXCEPT ![p] = None]
    /\ UNCHANGED <<commits, overlapped, commands>>

\* The hash is written and the command is done.
Write(p) ==
    /\ pc[p] = "write"
    /\ IF at[p] = NoBranch
         THEN /\ head' = NoBranch
              /\ detached' = new[p]
              /\ UNCHANGED refs
         ELSE /\ refs' = WithRef(at[p], new[p])
              /\ UNCHANGED <<head, detached>>
    /\ saved' = IF cmd[p] = "commit" THEN saved \cup {new[p]} ELSE saved
    /\ Disturb(p)
    /\ Exit(p)
    /\ UNCHANGED <<initialized, objects, torn>>

\* Init and Checkout: writeHEAD opens HEAD, creating it if need be...
TruncateHead(p) ==
    /\ pc[p] = "truncate head"
    /\ initialized' = TRUE
    /\ head' = NoBranch
    /\ detached' = None
    /\ GoTo(p, "write head")
    /\ Disturb(p)
    /\ Inside
    /\ UNCHANGED <<refs, objects, seen, at, base, new, commits, saved, torn>>

\* ... and writes a symbolic ref.
WriteHead(p) ==
    /\ pc[p] = "write head"
    /\ head' = at[p]
    /\ detached' = None
    /\ Disturb(p)
    /\ Exit(p)
    /\ UNCHANGED <<initialized, refs, objects, saved, torn>>

\* The process is killed, or the command returns an error, at any point; a
\* write of the object that was cut short leaves a part of it.
Stop(p) ==
    /\ pc[p] # "idle"
    /\ \/ UNCHANGED objects
       \/ pc[p] = "object" /\ objects' = WithObject(p, FALSE)
    /\ torn' = (torn \/ pc[p] \in {"write", "write head"})
    /\ Exit(p)
    /\ UNCHANGED <<initialized, head, detached, refs, saved, fresh>>

\* The objects that LoadCommit can load.
Loadable == {h \in DOMAIN objects : objects[h].whole}

\* What may be given as --from, a hash that loads or anything at all, or, as
\* None, left out.
Typed == {None, Text} \cup Loadable

Command(p) ==
    \/ InitRepo(p)
    \/ StartCommit(p)
    \/ \E b \in Branches : \/ \E from \in Typed : CreateBranch(p, b, from)
                           \/ Checkout(p, b)

VersionStep(p) ==
    \/ ReadHead(p)
    \/ ReadTip(p)
    \/ WriteObject(p)
    \/ AdvanceHead(p)
    \/ Truncate(p)
    \/ Write(p)
    \/ TruncateHead(p)
    \/ WriteHead(p)

VersionNext == \E p \in Procs : Command(p) \/ VersionStep(p) \/ Stop(p)

VersionSpec == VersionInit /\ [][VersionNext]_versionVars

-----------------------------------------------------------------------------
(***************************************************************************)
(* Properties.                                                             *)
(***************************************************************************)

Labels == {"idle", "head", "tip", "object", "advance", "truncate", "write",
           "truncate head", "write head"}

\* Every variable has its type.
VersionTypeOK ==
    /\ initialized \in BOOLEAN
    /\ head \in Branches \cup {NoBranch}
    /\ detached \in Tips
    /\ DOMAIN refs \subseteq Branches
    /\ \A b \in DOMAIN refs : refs[b] \in Tips
    /\ DOMAIN objects \subseteq Hashes
    /\ \A h \in DOMAIN objects : objects[h] \in Object
    /\ pc \in [Procs -> Labels]
    /\ cmd \in [Procs -> {"none", "init", "commit", "branch", "checkout"}]
    /\ seen \in [Procs -> Branches \cup {NoBranch}]
    /\ at \in [Procs -> Branches \cup {NoBranch}]
    /\ base \in [Procs -> Tips]
    /\ new \in [Procs -> Tips]
    /\ commits \in 0 .. MaxCommits
    /\ saved \subseteq Hashes
    /\ fresh \in [Procs -> BOOLEAN]
    /\ overlapped \in BOOLEAN
    /\ torn \in BOOLEAN
    /\ commands \in Nat

\* Where a walk through the history may stand: a commit, its end, or a text
\* that was typed as a branch point, which LoadCommit does not find.
Sound(h) == h \in Loadable \cup {None, Text}

\* However commands interleave and wherever they are killed, no hash that the
\* commands wrote has an object that is missing or cut short: not the tips, nor
\* a detached HEAD, nor the parents, nor any commit that was reported as saved.
\* Only what a user typed as a branch point may not load, for it is stored
\* unread, and is the parent of the first commit on that branch.
EveryHashLoads ==
    /\ Sound(detached)
    /\ \A b \in DOMAIN refs : Sound(refs[b])
    /\ \A h \in DOMAIN objects : Sound(objects[h].parent)
    /\ saved \subseteq Loadable

\* What a commit is about to replace is its parent, unless another command has
\* written HEAD or a ref in between.
CommitExtendsTip ==
    \A p \in Procs :
        pc[p] = "truncate" /\ cmd[p] = "commit" /\ fresh[p] =>
            base[p] = IF at[p] = NoBranch THEN detached ELSE Tip(at[p])

\* What a walk from a hash passes until it comes to one that does not load:
\* parents are older than their children.
History[h \in Tips] ==
    IF h \notin Loadable THEN {} ELSE {h} \cup History[objects[h].parent]

BranchTips == {refs[b] : b \in DOMAIN refs}

\* What `version log` prints, on HEAD as it is and on each branch, before it
\* ends, be it with an error.
Logged == UNION {History[h] : h \in {detached} \cup BranchTips}

Walked == UNION {History[h] : h \in BranchTips}

\* What `version tree` prints: nothing, but an error, if it comes to a hash that
\* does not load, and nothing of a detached HEAD.
TreeShown ==
    IF \A h \in BranchTips \cup {objects[g].parent : g \in Walked} :
           h \in Loadable \cup {None}
      THEN Walked ELSE {}

\* Has anyone branched from a text that is no hash?
Mistyped == Text \in BranchTips \cup {objects[h].parent : h \in DOMAIN objects}

\* With one command at a time, killed wherever it may be except between the
\* truncation and the write of a ref or of HEAD, no saved commit ever leaves
\* what `version log` prints; nor what `version tree` does, but for a branch
\* point that is no hash, which leaves the tree with an error.
QuietHistoryKept ==
    ~overlapped /\ ~torn /\ (\A p \in Procs : pc[p] = "idle")
        => /\ saved \subseteq Logged
           /\ ~Mistyped => saved \subseteq TreeShown
=============================================================================

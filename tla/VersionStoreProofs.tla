------------------------- MODULE VersionStoreProofs -------------------------
(***************************************************************************)
(* Proofs about VersionStore, for any number of processes, branches and    *)
(* commits: type correctness, that no hash on file dangles, that an        *)
(* undisturbed commit extends the tip it replaces, and that commands which *)
(* run one at a time never lose a commit from the history.                 *)
(***************************************************************************)
EXTENDS VersionStore, TLAPS, WellFoundedInduction

(***************************************************************************)
(* Types.                                                                  *)
(***************************************************************************)

\* The variables whose types a step of a command has to keep.
LEMMA HashesAreTips == None \in Tips /\ Text \in Tips /\ Hashes \subseteq Tips
  BY DEF Tips

\* Writing a ref leaves refs.
LEMMA RefsType ==
    ASSUME VersionTypeOK, NEW b \in Branches, NEW h \in Tips,
           refs' = WithRef(b, h)
    PROVE  /\ DOMAIN refs' \subseteq Branches
           /\ \A c \in DOMAIN refs' : refs'[c] \in Tips
  BY DEF VersionTypeOK, WithRef

\* Writing an object leaves objects.
LEMMA ObjectsType ==
    ASSUME VersionTypeOK, NEW p \in Procs, NEW w \in BOOLEAN,
           new[p] \in Hashes, objects' = WithObject(p, w)
    PROVE  /\ DOMAIN objects' \subseteq Hashes
           /\ \A h \in DOMAIN objects' : objects'[h] \in Object
  BY DEF VersionTypeOK, WithObject, Object

\* The end of a command leaves nothing of it.
LEMMA ExitType ==
    ASSUME VersionTypeOK, NEW p \in Procs, Exit(p)
    PROVE  /\ pc' \in [Procs -> Labels]
           /\ cmd' \in [Procs -> {"none", "init", "commit", "branch", "checkout"}]
           /\ seen' \in [Procs -> Branches \cup {NoBranch}]
           /\ at' \in [Procs -> Branches \cup {NoBranch}]
           /\ base' \in [Procs -> Tips]
           /\ new' \in [Procs -> Tips]
           /\ UNCHANGED <<commits, overlapped, commands>>
  BY HashesAreTips DEF VersionTypeOK, Exit, GoTo, Labels

\* The start of a command.
LEMMA StartType ==
    ASSUME VersionTypeOK, NEW p \in Procs,
           NEW c \in {"init", "commit", "branch", "checkout"},
           NEW l \in Labels, Start(p, c, l)
    PROVE  /\ pc' \in [Procs -> Labels]
           /\ cmd' \in [Procs -> {"none", "init", "commit", "branch", "checkout"}]
           /\ overlapped' \in BOOLEAN
           /\ commands' \in Nat
           /\ UNCHANGED <<repo, commits, saved, fresh, torn>>
  BY DEF VersionTypeOK, Start, GoTo

\* What is typed is what a ref may say.
LEMMA TypedType == VersionTypeOK => Typed \subseteq Tips
  BY HashesAreTips DEF VersionTypeOK, Typed, Loadable

\* Every start of a command keeps the types.
LEMMA CommandType ==
    ASSUME VersionTypeOK, NEW p \in Procs, Command(p)
    PROVE  VersionTypeOK'
<1> USE VersionAssumption DEF VersionTypeOK, repo
<1>1. CASE InitRepo(p)
  <2>1. Start(p, "init", "truncate head") /\ "truncate head" \in Labels
    BY <1>1 DEF InitRepo, Labels
  <2>2. QED
    BY <1>1, <2>1, StartType DEF InitRepo
<1>2. CASE StartCommit(p)
  <2>1. Start(p, "commit", "head") /\ "head" \in Labels
    BY <1>2 DEF StartCommit, Labels
  <2>2. QED
    BY <1>2, <2>1, StartType DEF StartCommit
<1>3. ASSUME NEW b \in Branches, NEW from \in Typed, CreateBranch(p, b, from)
      PROVE  VersionTypeOK'
  <2>1. PICK l \in Labels : Start(p, "branch", l)
    BY <1>3 DEF CreateBranch, Labels
  <2>2. from \in Tips
    BY TypedType
  <2>3. QED
    BY <1>3, <2>1, <2>2, StartType DEF CreateBranch
<1>4. ASSUME NEW b \in Branches, Checkout(p, b) PROVE VersionTypeOK'
  <2>1. Start(p, "checkout", "truncate head") /\ "truncate head" \in Labels
    BY <1>4 DEF Checkout, Labels
  <2>2. QED
    BY <1>4, <2>1, StartType DEF Checkout
<1>5. QED
  BY <1>1, <1>2, <1>3, <1>4 DEF Command

\* What becomes of the process that has read its parent or its branch point.
LEMMA BasedType ==
    ASSUME VersionTypeOK, NEW p \in Procs, NEW h \in Tips, Based(p, h)
    PROVE  /\ pc' \in [Procs -> Labels]
           /\ base' \in [Procs -> Tips]
           /\ new' \in [Procs -> Tips]
           /\ commits' \in 0 .. MaxCommits
<1>1. CASE cmd[p] = "commit"
  <2>1. /\ base' = [base EXCEPT ![p] = h]
        /\ commits < MaxCommits
        /\ commits' = commits + 1
        /\ new' = [new EXCEPT ![p] = commits']
        /\ pc' = [pc EXCEPT ![p] = "object"]
    BY <1>1 DEF Based, GoTo
  <2>2. commits \in 0 .. MaxCommits
    BY DEF VersionTypeOK
  <2>3. commits' \in 1 .. MaxCommits
    BY <2>1, <2>2, VersionAssumption
  <2>4. commits' \in Tips
    BY <2>3, HashesAreTips DEF Hashes
  <2>5. commits' \in 0 .. MaxCommits
    BY <2>3, VersionAssumption
  <2>6. QED
    BY <2>1, <2>4, <2>5 DEF VersionTypeOK, Labels
<1>2. CASE cmd[p] # "commit"
  BY <1>2 DEF VersionTypeOK, Based, GoTo, Labels
<1>3. QED
  BY <1>1, <1>2

\* The commit that a process is to write has a hash.
NewIsHash ==
    \A p \in Procs :
        /\ pc[p] \in {"object", "advance"} => cmd[p] = "commit"
        /\ cmd[p] = "commit" =>
               /\ pc[p] \in {"head", "tip", "object", "advance", "truncate", "write"}
               /\ pc[p] \in {"object", "advance", "truncate", "write"} =>
                      new[p] \in 1 .. commits

\* Every step of a running command keeps the types.
LEMMA StepType ==
    ASSUME VersionTypeOK, NewIsHash, NEW p \in Procs, VersionStep(p) \/ Stop(p)
    PROVE  VersionTypeOK'
<1> USE VersionAssumption DEF VersionTypeOK, repo, Inside
<1>1. Tip(seen[p]) \in Tips
  BY HashesAreTips DEF Tip
<1>2. ASSUME new[p] \in 1 .. commits PROVE new[p] \in Hashes
  BY <1>2 DEF Hashes
<1>3. CASE ReadHead(p)
  <2>1. CASE head = NoBranch
    BY <1>3, <2>1, BasedType DEF ReadHead
  <2>2. CASE head # NoBranch
    BY <1>3, <2>2 DEF ReadHead, GoTo, Labels
  <2>3. QED
    BY <2>1, <2>2
<1>4. CASE ReadTip(p)
  BY <1>1, <1>4, BasedType DEF ReadTip
<1>5. CASE WriteObject(p)
  <2>1. new[p] \in Hashes
    BY <1>2, <1>5 DEF WriteObject, NewIsHash
  <2>2. QED
    BY <1>5, <2>1, ObjectsType DEF WriteObject, GoTo, Labels
<1>6. CASE AdvanceHead(p)
  BY <1>6 DEF AdvanceHead, GoTo, Labels
<1>7. CASE Truncate(p)
  <2>1. fresh' \in [Procs -> BOOLEAN]
    BY <1>7 DEF Truncate, Disturb
  <2>2. CASE at[p] = NoBranch
    BY <1>7, <2>1, <2>2, HashesAreTips DEF Truncate, GoTo, Labels
  <2>3. CASE at[p] # NoBranch
    <3>1. refs' = WithRef(at[p], None) /\ at[p] \in Branches
      BY <1>7, <2>3 DEF Truncate
    <3>2. QED
      BY <1>7, <2>1, <2>3, <3>1, RefsType, HashesAreTips DEF Truncate, GoTo, Labels
  <2>4. QED
    BY <2>2, <2>3
<1>8. CASE Write(p)
  <2>1. fresh' \in [Procs -> BOOLEAN]
    BY <1>8 DEF Write, Disturb
  <2>2. saved' \subseteq Hashes
    BY <1>2, <1>8 DEF Write, NewIsHash
  <2>3. CASE at[p] = NoBranch
    BY <1>8, <2>1, <2>2, <2>3, ExitType DEF Write
  <2>4. CASE at[p] # NoBranch
    <3>1. refs' = WithRef(at[p], new[p]) /\ at[p] \in Branches /\ new[p] \in Tips
      BY <1>8, <2>4 DEF Write
    <3>2. QED
      BY <1>8, <2>1, <2>2, <2>4, <3>1, RefsType, ExitType DEF Write
  <2>5. QED
    BY <2>3, <2>4
<1>9. CASE TruncateHead(p)
  BY <1>9, HashesAreTips DEF TruncateHead, Disturb, GoTo, Labels
<1>10. CASE WriteHead(p)
  BY <1>10, ExitType, HashesAreTips DEF WriteHead, Disturb
<1>11. CASE Stop(p)
  <2>1. torn' \in BOOLEAN
    BY <1>11 DEF Stop
  <2>2. CASE UNCHANGED objects
    BY <1>11, <2>1, <2>2, ExitType DEF Stop
  <2>3. CASE pc[p] = "object" /\ objects' = WithObject(p, FALSE)
    <3>1. new[p] \in Hashes
      BY <1>2, <2>3 DEF NewIsHash
    <3>2. QED
      BY <1>11, <2>1, <2>3, <3>1, ObjectsType, ExitType DEF Stop
  <2>4. QED
    BY <1>11, <2>2, <2>3 DEF Stop
<1>12. QED
  BY <1>3, <1>4, <1>5, <1>6, <1>7, <1>8, <1>9, <1>10, <1>11 DEF VersionStep

\* Every step of the repository and its commands keeps the types.
LEMMA TypeStep ==
    ASSUME VersionTypeOK, NewIsHash, [VersionNext]_versionVars
    PROVE  VersionTypeOK'
<1>1. CASE UNCHANGED versionVars
  BY <1>1 DEF versionVars, repo, local, VersionTypeOK
<1>2. CASE VersionNext
  BY <1>2, CommandType, StepType DEF VersionNext
<1>3. QED
  BY <1>1, <1>2

(***************************************************************************)
(* What a step leaves alone.                                               *)
(***************************************************************************)

\* What process p may do.
Acts(p) == Command(p) \/ VersionStep(p) \/ Stop(p)

\* A step of one process leaves the command of every other as it is.
LEMMA OthersKeep ==
    ASSUME VersionTypeOK, NEW p \in Procs, Acts(p),
           NEW q \in Procs, q # p
    PROVE  /\ pc'[q] = pc[q]
           /\ cmd'[q] = cmd[q]
           /\ seen'[q] = seen[q]
           /\ at'[q] = at[q]
           /\ base'[q] = base[q]
           /\ new'[q] = new[q]
<1> USE DEF VersionTypeOK
<1>1. CASE Command(p)
  BY <1>1 DEF Command, InitRepo, StartCommit, CreateBranch, Checkout, Start, GoTo
<1>2. CASE ReadHead(p) \/ ReadTip(p)
  BY <1>2 DEF ReadHead, ReadTip, Based, GoTo, Inside
<1>3. CASE WriteObject(p) \/ AdvanceHead(p) \/ Truncate(p) \/ TruncateHead(p)
  BY <1>3 DEF WriteObject, AdvanceHead, Truncate, TruncateHead, GoTo, Inside
<1>4. CASE Write(p) \/ WriteHead(p) \/ Stop(p)
  BY <1>4 DEF Write, WriteHead, Stop, Exit, GoTo
<1>5. QED
  BY <1>1, <1>2, <1>3, <1>4 DEF Acts, VersionStep

\* Only a process that has just read its parent takes a number, the next one.
LEMMA CommitsGrow ==
    ASSUME VersionTypeOK, NEW p \in Procs, Acts(p)
    PROVE  \/ commits' = commits /\ pc'[p] # "object"
           \/ /\ commits' = commits + 1
              /\ pc'[p] = "object"
              /\ new'[p] = commits'
              /\ cmd[p] = "commit"
              /\ cmd'[p] = "commit"
              /\ UNCHANGED objects
<1> USE DEF VersionTypeOK
<1>1. CASE Command(p)
  BY <1>1 DEF Command, InitRepo, StartCommit, CreateBranch, Checkout, Start, GoTo
<1>2. CASE ReadHead(p) \/ ReadTip(p)
  BY <1>2 DEF ReadHead, ReadTip, Based, GoTo, Inside, repo
<1>3. CASE WriteObject(p) \/ AdvanceHead(p) \/ Truncate(p) \/ TruncateHead(p)
  BY <1>3 DEF WriteObject, AdvanceHead, Truncate, TruncateHead, GoTo, Inside
<1>4. CASE Write(p) \/ WriteHead(p) \/ Stop(p)
  BY <1>4 DEF Write, WriteHead, Stop, Exit, GoTo
<1>5. QED
  BY <1>1, <1>2, <1>3, <1>4 DEF Acts, VersionStep

\* An object is written only by the process whose commit it is, at "object".
LEMMA ObjectsGrow ==
    ASSUME VersionTypeOK, NEW p \in Procs, Acts(p)
    PROVE  \/ UNCHANGED objects
           \/ /\ pc[p] = "object"
              /\ pc'[p] # "object"
              /\ \E w \in BOOLEAN : objects' = WithObject(p, w)
              /\ UNCHANGED commits
<1> USE DEF VersionTypeOK
<1>1. CASE Command(p)
  BY <1>1 DEF Command, InitRepo, StartCommit, CreateBranch, Checkout, Start, repo
<1>2. CASE ReadHead(p) \/ ReadTip(p)
  BY <1>2 DEF ReadHead, ReadTip, repo
<1>3. CASE WriteObject(p)
  BY <1>3 DEF WriteObject, GoTo
<1>4. CASE AdvanceHead(p) \/ Truncate(p) \/ TruncateHead(p)
  BY <1>4 DEF AdvanceHead, Truncate, TruncateHead, repo
<1>5. CASE Write(p) \/ WriteHead(p)
  BY <1>5 DEF Write, WriteHead
<1>6. CASE Stop(p)
  BY <1>6 DEF Stop, Exit, GoTo
<1>7. QED
  BY <1>1, <1>2, <1>3, <1>4, <1>5, <1>6 DEF Acts, VersionStep

(***************************************************************************)
(* Numbers.                                                                *)
(***************************************************************************)

\* Two commits never have the same number, and no object is written twice.
Numbers ==
    /\ DOMAIN objects \subseteq 1 .. commits
    /\ \A p \in Procs : pc[p] = "object" => new[p] \notin DOMAIN objects
    /\ \A p, q \in Procs :
           p # q /\ pc[p] = "object" /\ pc[q] = "object" => new[p] # new[q]

\* The commands of the process that acts, step by step.
LEMMA OwnNumber ==
    ASSUME VersionTypeOK, NewIsHash, NEW p \in Procs, Acts(p)
    PROVE  /\ pc'[p] \in {"object", "advance"} => cmd'[p] = "commit"
           /\ cmd'[p] = "commit" =>
                  /\ pc'[p] \in {"head", "tip", "object", "advance", "truncate",
                                 "write"}
                  /\ pc'[p] \in {"object", "advance", "truncate", "write"} =>
                         new'[p] \in 1 .. commits'
<1> USE DEF VersionTypeOK, NewIsHash
<1>1. CASE Command(p)
  BY <1>1 DEF Command, InitRepo, StartCommit, CreateBranch, Checkout, Start, GoTo
<1>2. CASE ReadHead(p) \/ ReadTip(p)
  <2>1. /\ UNCHANGED cmd
        /\ \/ pc'[p] = "tip"
           \/ /\ cmd[p] = "commit"
              /\ commits' = commits + 1
              /\ new'[p] = commits'
              /\ pc'[p] = "object"
           \/ cmd[p] # "commit" /\ pc'[p] = "truncate"
    BY <1>2 DEF ReadHead, ReadTip, Based, GoTo, Inside
  <2>2. commits \in Nat
    BY VersionAssumption
  <2>3. commits' = commits + 1 => commits' \in 1 .. commits'
    BY <2>2
  <2>4. QED
    BY <2>1, <2>3
<1>3. CASE WriteObject(p) \/ AdvanceHead(p) \/ Truncate(p)
  BY <1>3 DEF WriteObject, AdvanceHead, Truncate, GoTo, Inside
<1>4. CASE TruncateHead(p)
  BY <1>4 DEF TruncateHead, GoTo, Inside
<1>5. CASE Write(p) \/ WriteHead(p) \/ Stop(p)
  BY <1>5 DEF Write, WriteHead, Stop, Exit, GoTo
<1>6. QED
  BY <1>1, <1>2, <1>3, <1>4, <1>5 DEF Acts, VersionStep

\* Every step keeps the commands and the numbers.
LEMMA NumbersStep ==
    ASSUME VersionTypeOK, NewIsHash, Numbers, NEW p \in Procs, Acts(p)
    PROVE  NewIsHash' /\ Numbers'
<1>1. commits \in Nat /\ commits' \in Nat /\ 1 .. commits \subseteq 1 .. commits'
  BY CommitsGrow, VersionAssumption DEF VersionTypeOK
<1>2. NewIsHash'
  <2>1. SUFFICES ASSUME NEW q \in Procs, q # p
                 PROVE  /\ pc'[q] \in {"object", "advance"} => cmd'[q] = "commit"
                        /\ cmd'[q] = "commit" =>
                               /\ pc'[q] \in {"head", "tip", "object", "advance",
                                              "truncate", "write"}
                               /\ pc'[q] \in {"object", "advance", "truncate",
                                              "write"} => new'[q] \in 1 .. commits'
    BY OwnNumber DEF NewIsHash
  <2>2. QED
    BY <1>1, <2>1, OthersKeep DEF NewIsHash
<1>3. ASSUME NEW q \in Procs, q # p
      PROVE  pc'[q] = pc[q] /\ new'[q] = new[q]
  BY <1>3, OthersKeep
<1>4. CASE UNCHANGED objects /\ commits' = commits /\ pc'[p] # "object"
  <2>1. DOMAIN objects' \subseteq 1 .. commits'
    BY <1>4 DEF Numbers
  <2>2. \A q \in Procs : pc'[q] = "object" => q # p
    BY <1>4
  <2>3. QED
    BY <1>2, <1>3, <1>4, <2>1, <2>2 DEF Numbers
<1>5. CASE /\ commits' = commits + 1
           /\ pc'[p] = "object"
           /\ new'[p] = commits'
           /\ UNCHANGED objects
  <2>1. commits' \notin 1 .. commits
    BY <1>1, <1>5
  <2>2. \A q \in Procs : pc[q] = "object" => new[q] # commits'
    BY <2>1 DEF NewIsHash
  <2>3. DOMAIN objects' \subseteq 1 .. commits' /\ commits' \notin DOMAIN objects'
    BY <1>1, <1>5, <2>1 DEF Numbers
  <2>4. QED
    BY <1>2, <1>3, <1>5, <2>2, <2>3 DEF Numbers
<1>6. CASE /\ pc[p] = "object"
           /\ pc'[p] # "object"
           /\ \E w \in BOOLEAN : objects' = WithObject(p, w)
           /\ UNCHANGED commits
  <2>1. DOMAIN objects' = DOMAIN objects \cup {new[p]}
    BY <1>6 DEF WithObject
  <2>2. new[p] \in 1 .. commits
    BY <1>6 DEF NewIsHash
  <2>3. DOMAIN objects' \subseteq 1 .. commits'
    BY <1>1, <2>1, <2>2 DEF Numbers
  <2>4. \A q \in Procs : pc'[q] = "object" => q # p
    BY <1>6
  <2>5. QED
    BY <1>2, <1>3, <1>6, <2>1, <2>3, <2>4 DEF Numbers
<1>7. QED
  BY <1>2, <1>4, <1>5, <1>6, CommitsGrow, ObjectsGrow

(***************************************************************************)
(* Hashes that load.                                                       *)
(***************************************************************************)

\* The hashes that are Sound.
Walks == Loadable \cup {None, Text}

\* Nothing on file dangles.
FilesLoad ==
    /\ detached \in Walks
    /\ \A b \in DOMAIN refs : refs[b] \in Walks
    /\ \A h \in DOMAIN objects : objects[h].parent \in Walks
    /\ saved \subseteq Loadable

\* Nor does what a command has read, or is to write once its object is there.
Carried ==
    \A p \in Procs :
        /\ base[p] \in Walks
        /\ pc[p] # "object" => new[p] \in Walks
        /\ cmd[p] = "commit" /\ pc[p] \in {"advance", "truncate", "write"} =>
               new[p] \in Loadable

\* FilesLoad is the property, in terms of one set.
LEMMA FilesLoadIsEveryHashLoads == FilesLoad => EveryHashLoads
  BY DEF FilesLoad, EveryHashLoads, Walks, Sound

\* No object is ever replaced by one that does not load.
LEMMA LoadableGrows ==
    ASSUME VersionTypeOK, Numbers, NEW p \in Procs, Acts(p)
    PROVE  Loadable \subseteq Loadable' /\ Walks \subseteq Walks'
<1>1. Loadable \subseteq Loadable'
  <2>1. CASE UNCHANGED objects
    BY <2>1 DEF Loadable
  <2>2. CASE /\ pc[p] = "object"
             /\ \E w \in BOOLEAN : objects' = WithObject(p, w)
    <3>1. new[p] \notin DOMAIN objects
      BY <2>2 DEF Numbers
    <3>2. \A h \in DOMAIN objects : h \in DOMAIN objects' /\ objects'[h] = objects[h]
      BY <2>2, <3>1 DEF WithObject
    <3>3. QED
      BY <3>2 DEF Loadable
  <2>3. QED
    BY <2>1, <2>2, ObjectsGrow
<1>2. QED
  BY <1>1 DEF Walks

\* The parents of the objects load after a step, too.
LEMMA ParentsLoad ==
    ASSUME VersionTypeOK, Numbers, FilesLoad, Carried, NEW p \in Procs, Acts(p)
    PROVE  \A h \in DOMAIN objects' : objects'[h].parent \in Walks'
<1>1. CASE UNCHANGED objects
  BY <1>1, LoadableGrows DEF FilesLoad
<1>2. CASE \E w \in BOOLEAN : objects' = WithObject(p, w)
  <2>1. \A h \in DOMAIN objects' : objects'[h].parent \in Walks
    BY <1>2 DEF WithObject, FilesLoad, Carried
  <2>2. QED
    BY <2>1, LoadableGrows
<1>3. QED
  BY <1>1, <1>2, ObjectsGrow

\* What another process carries loads after the step.
LEMMA OthersCarry ==
    ASSUME VersionTypeOK, Numbers, Carried, NEW p \in Procs, Acts(p),
           NEW q \in Procs, q # p
    PROVE  /\ base'[q] \in Walks'
           /\ pc'[q] # "object" => new'[q] \in Walks'
           /\ cmd'[q] = "commit" /\ pc'[q] \in {"advance", "truncate", "write"} =>
                  new'[q] \in Loadable'
  BY OthersKeep, LoadableGrows DEF Carried

\* A command starts with nothing, or with a branch point as it was typed.
LEMMA CommandLoads ==
    ASSUME VersionTypeOK, Numbers, FilesLoad, Carried,
           NEW p \in Procs, Command(p)
    PROVE  FilesLoad' /\ Carried'
<1>1. Acts(p)
  BY DEF Acts
<1>2. FilesLoad'
  <2>1. UNCHANGED <<detached, refs, saved>>
    BY DEF Command, InitRepo, StartCommit, CreateBranch, Checkout, Start, repo
  <2>2. QED
    BY <1>1, <2>1, LoadableGrows, ParentsLoad DEF FilesLoad
<1>3. Typed \subseteq Walks
  BY DEF Typed, FilesLoad, Walks
<1>4. /\ base'[p] = base[p]
      /\ new'[p] \in Walks
      /\ pc'[p] \notin {"object", "advance"}
      /\ ~(cmd'[p] = "commit" /\ pc'[p] \in {"truncate", "write"})
  <2>1. pc[p] = "idle" /\ new[p] \in Walks
    BY DEF Command, InitRepo, StartCommit, CreateBranch, Checkout, Start, Carried
  <2>2. CASE InitRepo(p) \/ StartCommit(p) \/ \E b \in Branches : Checkout(p, b)
    BY <2>1, <2>2 DEF InitRepo, StartCommit, Checkout, Start, GoTo, VersionTypeOK
  <2>3. ASSUME NEW b \in Branches, NEW from \in Typed, CreateBranch(p, b, from)
        PROVE  /\ UNCHANGED base
               /\ new'[p] \in Walks
               /\ pc'[p] \in {"head", "truncate"}
               /\ cmd'[p] = "branch"
    BY <1>3, <2>3 DEF CreateBranch, Start, GoTo, VersionTypeOK
  <2>4. QED
    BY <2>2, <2>3 DEF Command
<1>5. QED
  BY <1>1, <1>2, <1>4, LoadableGrows, OthersCarry DEF Carried

\* A command that reads HEAD or a ref reads a hash that loads.
LEMMA ReadLoads ==
    ASSUME VersionTypeOK, Numbers, FilesLoad, Carried,
           NEW p \in Procs, ReadHead(p) \/ ReadTip(p)
    PROVE  FilesLoad' /\ Carried'
<1>1. Acts(p)
  BY DEF Acts, VersionStep
<1>2. FilesLoad'
  <2>1. UNCHANGED <<detached, refs, saved>>
    BY DEF ReadHead, ReadTip, repo
  <2>2. QED
    BY <1>1, <2>1, LoadableGrows, ParentsLoad DEF FilesLoad
<1>3. detached \in Walks /\ Tip(seen[p]) \in Walks
  BY DEF Tip, FilesLoad, Walks
<1>4. /\ base'[p] \in Walks
      /\ pc'[p] # "object" => new'[p] \in Walks
      /\ ~(cmd'[p] = "commit" /\ pc'[p] \in {"advance", "truncate", "write"})
  <2>1. CASE UNCHANGED <<base, new, cmd>> /\ pc' = [pc EXCEPT ![p] = "tip"] /\ pc[p] = "head"
    BY <2>1 DEF Carried, VersionTypeOK
  <2>2. ASSUME NEW h \in Walks, Based(p, h), UNCHANGED cmd
        PROVE  /\ base'[p] \in Walks
               /\ \/ cmd'[p] = "commit" /\ pc'[p] = "object"
                  \/ cmd'[p] # "commit" /\ new'[p] \in Walks
    BY <2>2 DEF Based, GoTo, VersionTypeOK
  <2>3. QED
    BY <1>3, <2>1, <2>2 DEF ReadHead, ReadTip, GoTo, Inside
<1>5. QED
  BY <1>1, <1>2, <1>4, LoadableGrows, OthersCarry DEF Carried

\* A ref is given a hash that loads.
LEMMA RefLoads ==
    ASSUME FilesLoad, NEW b, NEW h \in Walks, refs' = WithRef(b, h)
    PROVE  \A c \in DOMAIN refs' : refs'[c] \in Walks
  BY DEF FilesLoad, WithRef

\* A commit reaches HEAD or a ref only after its object is whole.
LEMMA WriteLoads ==
    ASSUME VersionTypeOK, NewIsHash, Numbers, FilesLoad, Carried,
           NEW p \in Procs,
           \/ WriteObject(p) \/ AdvanceHead(p) \/ Truncate(p)
           \/ TruncateHead(p) \/ Write(p) \/ WriteHead(p) \/ Stop(p)
    PROVE  FilesLoad' /\ Carried'
<1> USE DEF VersionTypeOK
<1>1. Acts(p)
  BY DEF Acts, VersionStep
<1>2. None \in Walks /\ base[p] \in Walks
  BY DEF Walks, Carried
<1>3. CASE WriteObject(p)
  <2>1. new[p] \in Loadable'
    BY <1>3 DEF WriteObject, WithObject, Loadable
  <2>2. new[p] \in Walks'
    BY <2>1 DEF Walks
  <2>3. FilesLoad'
    BY <1>1, <1>3, LoadableGrows, ParentsLoad DEF WriteObject, FilesLoad
  <2>4. base'[p] \in Walks' /\ new'[p] \in Loadable' /\ new'[p] \in Walks'
    BY <1>1, <1>2, <1>3, <2>1, <2>2, LoadableGrows DEF WriteObject
  <2>5. QED
    BY <1>1, <2>3, <2>4, OthersCarry DEF Carried
<1>4. CASE AdvanceHead(p) \/ Truncate(p) \/ TruncateHead(p)
  <2>1. /\ pc[p] \in {"advance", "truncate", "truncate head"}
        /\ pc'[p] \in {"truncate", "write", "write head"}
        /\ pc[p] = "truncate head" => pc'[p] = "write head"
        /\ UNCHANGED <<base, new, cmd, saved>>
    BY <1>4 DEF AdvanceHead, Truncate, TruncateHead, GoTo, Inside
  <2>2. detached' \in Walks /\ \A b \in DOMAIN refs' : refs'[b] \in Walks
    <3>1. \/ UNCHANGED refs
          \/ refs' = WithRef(at[p], None)
      BY <1>4 DEF AdvanceHead, Truncate, TruncateHead, repo
    <3>2. detached' = detached \/ detached' = None
      BY <1>4 DEF AdvanceHead, Truncate, TruncateHead, repo
    <3>3. QED
      BY <1>2, <3>1, <3>2, RefLoads DEF FilesLoad
  <2>3. FilesLoad'
    BY <1>1, <2>1, <2>2, LoadableGrows, ParentsLoad DEF FilesLoad
  <2>4. /\ base'[p] \in Walks'
        /\ new'[p] \in Walks'
        /\ cmd'[p] = "commit" /\ pc'[p] \in {"advance", "truncate", "write"} =>
               new'[p] \in Loadable'
    BY <1>1, <1>2, <2>1, LoadableGrows DEF Carried
  <2>5. QED
    BY <1>1, <2>3, <2>4, OthersCarry DEF Carried
<1>5. CASE Write(p) \/ WriteHead(p) \/ Stop(p)
  <2>1. /\ pc'[p] = "idle"
        /\ base'[p] = None
        /\ new'[p] = None
    BY <1>5 DEF Write, WriteHead, Stop, Exit, GoTo
  <2>2. new[p] \in Walks \/ ~Write(p)
    BY DEF Write, Carried
  <2>3. /\ detached' \in Walks
        /\ \A b \in DOMAIN refs' : refs'[b] \in Walks
    <3>1. \/ UNCHANGED refs
          \/ Write(p) /\ refs' = WithRef(at[p], new[p])
      BY <1>5 DEF Write, WriteHead, Stop
    <3>2. \/ detached' = detached \/ detached' = None
          \/ Write(p) /\ detached' = new[p]
      BY <1>5 DEF Write, WriteHead, Stop
    <3>3. QED
      BY <1>2, <2>2, <3>1, <3>2, RefLoads DEF FilesLoad
  <2>4. saved' \subseteq Loadable
    BY <1>5 DEF Write, WriteHead, Stop, FilesLoad, Carried
  <2>5. FilesLoad'
    BY <1>1, <2>3, <2>4, LoadableGrows, ParentsLoad DEF FilesLoad
  <2>6. base'[p] \in Walks' /\ new'[p] \in Walks'
    BY <1>1, <1>2, <2>1, LoadableGrows
  <2>7. QED
    BY <1>1, <2>1, <2>5, <2>6, OthersCarry DEF Carried
<1>6. QED
  BY <1>3, <1>4, <1>5

(***************************************************************************)
(* Tips.                                                                   *)
(***************************************************************************)

\* The hash that HEAD stands for.
Current == IF head = NoBranch THEN detached ELSE Tip(head)

\* What an undisturbed commit has read is still what HEAD and its ref say.
Fresh ==
    \A p \in Procs : fresh[p] /\ cmd[p] = "commit" =>
        /\ pc[p] \in {"tip", "object", "advance", "truncate"} => seen[p] = head
        /\ pc[p] = "tip" => head # NoBranch
        /\ pc[p] \in {"object", "advance", "truncate"} => base[p] = Current
        /\ pc[p] = "truncate" => at[p] = head

\* A step writes HEAD or a ref only if it disturbs every other process.
LEMMA WritesDisturb ==
    ASSUME VersionTypeOK, NEW p \in Procs, Acts(p)
    PROVE  \/ \A q \in Procs \ {p} : ~fresh'[q]
           \/ /\ UNCHANGED <<head, detached, refs>>
              /\ \A q \in Procs \ {p} : fresh'[q] = fresh[q]
<1> USE DEF VersionTypeOK
<1>1. CASE Command(p)
  BY <1>1 DEF Command, InitRepo, StartCommit, CreateBranch, Checkout, Start, repo
<1>2. CASE ReadHead(p) \/ ReadTip(p) \/ AdvanceHead(p)
  BY <1>2 DEF ReadHead, ReadTip, AdvanceHead, repo
<1>3. CASE WriteObject(p) \/ Stop(p)
  BY <1>3 DEF WriteObject, Stop
<1>4. CASE Truncate(p) \/ Write(p) \/ TruncateHead(p) \/ WriteHead(p)
  BY <1>4 DEF Truncate, Write, TruncateHead, WriteHead, Disturb
<1>5. QED
  BY <1>1, <1>2, <1>3, <1>4 DEF Acts, VersionStep

\* The command of the process that acts reads on where it was.
LEMMA OwnFresh ==
    ASSUME VersionTypeOK, NewIsHash, Fresh, NEW p \in Procs, Acts(p),
           fresh'[p], cmd'[p] = "commit"
    PROVE  /\ pc'[p] \in {"tip", "object", "advance", "truncate"} => seen'[p] = head'
           /\ pc'[p] = "tip" => head' # NoBranch
           /\ pc'[p] \in {"object", "advance", "truncate"} => base'[p] = Current'
           /\ pc'[p] = "truncate" => at'[p] = head'
<1> USE DEF VersionTypeOK
<1>1. CASE Command(p)
  BY <1>1 DEF Command, InitRepo, StartCommit, CreateBranch, Checkout, Start, GoTo
<1>2. CASE ReadHead(p)
  BY <1>2 DEF ReadHead, Based, GoTo, Inside, repo, Current
<1>3. CASE ReadTip(p)
  BY <1>3 DEF ReadTip, Based, GoTo, Inside, repo, Current, Fresh, Tip
<1>4. CASE WriteObject(p)
  BY <1>4 DEF WriteObject, GoTo, Inside, Current, Fresh, Tip
<1>5. CASE AdvanceHead(p)
  BY <1>5 DEF AdvanceHead, GoTo, Inside, repo, Current, Fresh, Tip
<1>6. CASE Truncate(p) \/ TruncateHead(p)
  BY <1>6 DEF Truncate, TruncateHead, GoTo
<1>7. CASE Write(p) \/ WriteHead(p) \/ Stop(p)
  BY <1>7 DEF Write, WriteHead, Stop, Exit, GoTo
<1>8. QED
  BY <1>1, <1>2, <1>3, <1>4, <1>5, <1>6, <1>7 DEF Acts, VersionStep

\* Every step keeps what an undisturbed commit has read.
LEMMA FreshStep ==
    ASSUME VersionTypeOK, NewIsHash, Fresh, NEW p \in Procs, Acts(p)
    PROVE  Fresh'
<1>1. SUFFICES ASSUME NEW q \in Procs, q # p, fresh'[q], cmd'[q] = "commit"
               PROVE  /\ pc'[q] \in {"tip", "object", "advance", "truncate"} =>
                             seen'[q] = head'
                      /\ pc'[q] = "tip" => head' # NoBranch
                      /\ pc'[q] \in {"object", "advance", "truncate"} =>
                             base'[q] = Current'
                      /\ pc'[q] = "truncate" => at'[q] = head'
  BY OwnFresh DEF Fresh
<1>2. UNCHANGED <<head, detached, refs>> /\ fresh'[q]
  BY <1>1, WritesDisturb
<1>3. fresh[q] /\ Current' = Current
  BY <1>1, <1>2, WritesDisturb DEF Current, Tip
<1>4. QED
  BY <1>1, <1>2, <1>3, OthersKeep DEF Fresh

(***************************************************************************)
(* The theorems.                                                           *)
(***************************************************************************)

\* The inductive invariant.
VersionInv ==
    /\ VersionTypeOK
    /\ NewIsHash
    /\ Numbers
    /\ FilesLoad
    /\ Carried
    /\ Fresh

\* Before `version init` there is nothing.
LEMMA InitHolds == VersionInit => VersionInv
<1> SUFFICES ASSUME VersionInit PROVE VersionInv
  OBVIOUS
<1>1. VersionTypeOK
  <2>1. DOMAIN refs = {} /\ DOMAIN objects = {}
    BY DEF VersionInit
  <2>2. 0 \in 0 .. MaxCommits /\ 0 \in Nat
    BY VersionAssumption
  <2>3. None \in Tips
    BY HashesAreTips
  <2>4. /\ pc \in [Procs -> Labels]
        /\ cmd \in [Procs -> {"none", "init", "commit", "branch", "checkout"}]
        /\ seen \in [Procs -> Branches \cup {NoBranch}]
        /\ at \in [Procs -> Branches \cup {NoBranch}]
        /\ base \in [Procs -> Tips]
        /\ new \in [Procs -> Tips]
        /\ fresh \in [Procs -> BOOLEAN]
    BY <2>3 DEF VersionInit, Labels
  <2>5. QED
    BY <2>1, <2>2, <2>3, <2>4 DEF VersionInit, VersionTypeOK
<1>2. NewIsHash /\ Fresh
  BY DEF VersionInit, NewIsHash, Fresh
<1>3. Numbers
  BY DEF VersionInit, Numbers
<1>4. FilesLoad /\ Carried
  BY DEF VersionInit, FilesLoad, Carried, Walks
<1>5. QED
  BY <1>1, <1>2, <1>3, <1>4 DEF VersionInv

\* Every step keeps the invariant.
LEMMA NextHolds == VersionInv /\ [VersionNext]_versionVars => VersionInv'
<1> SUFFICES ASSUME VersionInv, [VersionNext]_versionVars PROVE VersionInv'
  OBVIOUS
<1> USE DEF VersionInv
<1>1. CASE UNCHANGED versionVars
  BY <1>1, TypeStep DEF versionVars, repo, local, NewIsHash, Numbers, FilesLoad,
                        Carried, Fresh, Walks, Loadable, Current, Tip
<1>2. ASSUME NEW p \in Procs, Acts(p) PROVE VersionInv'
  <2>1. VersionTypeOK'
    BY TypeStep
  <2>2. FilesLoad' /\ Carried'
    BY <1>2, CommandLoads, ReadLoads, WriteLoads DEF Acts, VersionStep
  <2>3. QED
    BY <1>2, <2>1, <2>2, NumbersStep, FreshStep
<1>3. QED
  BY <1>1, <1>2 DEF VersionNext, Acts

\* However many processes run commands and wherever they are killed.
THEOREM VersionInvariant == VersionSpec => []VersionInv
  BY InitHolds, NextHolds, PTL DEF VersionSpec

\* Every variable has its type.
THEOREM VersionTypeCorrect == VersionSpec => []VersionTypeOK
<1>1. VersionInv => VersionTypeOK
  BY DEF VersionInv
<1>2. QED
  BY <1>1, VersionInvariant, PTL

\* No hash on file, and no commit reported as saved, has an object that is
\* missing or cut short: SaveCommit writes the object before the ref.
THEOREM EveryHashLoadsHolds == VersionSpec => []EveryHashLoads
<1>1. VersionInv => EveryHashLoads
  BY FilesLoadIsEveryHashLoads DEF VersionInv
<1>2. QED
  BY <1>1, VersionInvariant, PTL

\* What an undisturbed `version commit` replaces is its parent, though
\* advanceHEAD reads HEAD a second time.
THEOREM CommitExtendsTipHolds == VersionSpec => []CommitExtendsTip
<1>1. VersionInv => CommitExtendsTip
  BY DEF VersionInv, Fresh, Current, CommitExtendsTip
<1>2. QED
  BY <1>1, VersionInvariant, PTL

(***************************************************************************)
(* The walk of the history.                                                *)
(***************************************************************************)

\* The sets of commits that have, with a commit, its parent.
Closed ==
    {S \in SUBSET Loadable :
        \A g \in S : objects[g].parent \in Loadable =>
                         objects[g].parent \in S}

\* The commits that are in every such set that has h.
Reach(h) ==
    IF h \notin Loadable THEN {}
    ELSE {g \in Loadable : \A S \in Closed : h \in S => g \in S}

\* They are h and what its parent reaches.
LEMMA ReachOfParent ==
    ASSUME NEW h \in Loadable
    PROVE  Reach(h) = {h} \cup Reach(objects[h].parent)
<1> DEFINE par == objects[h].parent
           T == {h} \cup Reach(par)
<1>1. \A g \in Reach(par) : g \in Loadable
  BY DEF Reach
<1>2. ASSUME NEW g \in Reach(par), objects[g].parent \in Loadable
      PROVE  objects[g].parent \in Reach(par)
  <2>1. par \in Loadable
    BY DEF Reach
  <2>2. ASSUME NEW S \in Closed, par \in S
        PROVE  objects[g].parent \in S
    BY <1>2, <2>1, <2>2 DEF Reach, Closed
  <2>3. QED
    BY <1>2, <2>1, <2>2 DEF Reach
<1>3. par \in Loadable => par \in Reach(par)
  BY DEF Reach
<1>4. T \in Closed
  BY <1>1, <1>2, <1>3 DEF Closed
<1>5. Reach(h) \subseteq T
  BY <1>4 DEF Reach
<1>6. ASSUME NEW g \in Reach(par) PROVE g \in Reach(h)
  <2>1. par \in Loadable /\ g \in Loadable
    BY DEF Reach
  <2>2. ASSUME NEW S \in Closed, h \in S PROVE g \in S
    BY <2>1, <2>2 DEF Reach, Closed
  <2>3. QED
    BY <2>1, <2>2 DEF Reach
<1>7. h \in Reach(h)
  BY DEF Reach
<1>8. QED
  BY <1>5, <1>6, <1>7

\* History is a walk: from a commit it goes on at the parent.
HistoryIsWalk ==
    \A h \in Tips :
        History[h] = IF h \notin Loadable THEN {}
                     ELSE {h} \cup History[objects[h].parent]

LEMMA HistoryWalks == VersionTypeOK => HistoryIsWalk
<1> SUFFICES ASSUME VersionTypeOK PROVE HistoryIsWalk
  OBVIOUS
<1> DEFINE Walk(f) == [h \in Tips |-> IF h \notin Loadable THEN {}
                                      ELSE {h} \cup f[objects[h].parent]]
           reach == [h \in Tips |-> Reach(h)]
<1>1. \A h \in Loadable : objects[h].parent \in Tips
  BY DEF VersionTypeOK, Object, Loadable
<1>2. reach = Walk(reach)
  <2>1. ASSUME NEW h \in Tips
        PROVE  reach[h] = Walk(reach)[h]
    <3>1. CASE h \notin Loadable
      BY <3>1 DEF Reach
    <3>2. CASE h \in Loadable
      BY <1>1, <3>2, ReachOfParent
    <3>3. QED
      BY <3>1, <3>2
  <2>2. QED
    BY <2>1
<1>3. \E f : f = Walk(f)
  BY <1>2
<1>4. History = CHOOSE f : f = Walk(f)
  BY DEF History
<1>5. History = Walk(History)
  <2> HIDE DEF Walk
  <2> QED BY <1>3, <1>4
<1>6. QED
  BY <1>5 DEF HistoryIsWalk

(***************************************************************************)
(* One command at a time.                                                  *)
(***************************************************************************)

\* A parent is older than its child, unless it is a text that was typed.
Older(g, h) == g \notin Hashes \/ g < h

\* So it is on file and in a command, which has written what it read.
Ancestry ==
    /\ \A h \in DOMAIN objects : Older(objects[h].parent, h)
    /\ \A p \in Procs :
           /\ pc[p] = "object" => Older(base[p], new[p])
           /\ cmd[p] = "commit" /\ pc[p] \in {"advance", "truncate", "write"} =>
                  /\ new[p] \in DOMAIN objects
                  /\ objects[new[p]].parent = base[p]

\* The steps that each command takes, and what it has to start with.
Places ==
    \A p \in Procs :
        /\ pc[p] = "idle" => cmd[p] = "none"
        /\ pc[p] \in {"head", "tip", "truncate", "write"} =>
               cmd[p] \in {"commit", "branch"}
        /\ pc[p] \in {"truncate head", "write head"} \/ cmd[p] = "branch" =>
               at[p] # NoBranch
        /\ pc[p] \notin {"idle", "truncate head"} => initialized

Quiet == ~ overlapped /\ ~ torn

OneAtATime ==
    \A p, q \in Procs : pc[p] # "idle" /\ pc[q] # "idle" => p = q

\* A command that is alone finds HEAD naming a branch and nothing changing; a
\* ref that it has emptied, or is to create, hides no history.
Undisturbed ==
    /\ detached = None
    /\ initialized /\ (\A p \in Procs : pc[p] # "write head") => head # NoBranch
    /\ \A p \in Procs :
           /\ cmd[p] = "commit" /\ pc[p] \in {"tip", "object", "advance", "truncate"}
                  => fresh[p]
           /\ pc[p] \in {"truncate", "write"} => at[p] # NoBranch
           /\ pc[p] = "write" \/ cmd[p] = "branch" => Tip(at[p]) = None

\* What is not shown is about to be: it leads to the commit of the one command
\* that is between its truncate and its write.
HistoryKept ==
    IF \E p \in Procs : pc[p] = "write"
      THEN \A p \in Procs : pc[p] = "write" =>
               saved \subseteq Logged \cup History[new[p]]
      ELSE saved \subseteq Logged

\* No object is ever replaced.
LEMMA ObjectsStay ==
    ASSUME VersionInv, NEW p \in Procs, Acts(p), NEW h \in DOMAIN objects
    PROVE  h \in DOMAIN objects' /\ objects'[h] = objects[h]
<1> USE DEF VersionInv
<1>1. CASE UNCHANGED objects
  BY <1>1
<1>2. CASE pc[p] = "object" /\ \E w \in BOOLEAN : objects' = WithObject(p, w)
  <2>1. new[p] \notin DOMAIN objects
    BY <1>2 DEF Numbers
  <2>2. QED
    BY <1>2, <2>1 DEF WithObject
<1>3. QED
  BY <1>1, <1>2, ObjectsGrow

\* Every step keeps the ancestry.
LEMMA AncestryStep ==
    ASSUME VersionInv, VersionInv', Ancestry, NEW p \in Procs, Acts(p)
    PROVE  Ancestry'
<1> USE DEF VersionInv
<1>1. ASSUME NEW h \in DOMAIN objects
      PROVE  h \in DOMAIN objects' /\ objects'[h] = objects[h]
  BY <1>1, ObjectsStay
<1>2. \A h \in DOMAIN objects' : Older(objects'[h].parent, h)
  <2>1. CASE UNCHANGED objects
    BY <2>1 DEF Ancestry
  <2>2. CASE pc[p] = "object" /\ \E w \in BOOLEAN : objects' = WithObject(p, w)
    BY <2>2 DEF Ancestry, WithObject
  <2>3. QED
    BY <2>1, <2>2, ObjectsGrow
<1>3. ASSUME NEW q \in Procs, q # p
      PROVE  /\ pc'[q] = "object" => Older(base'[q], new'[q])
             /\ cmd'[q] = "commit" /\ pc'[q] \in {"advance", "truncate", "write"} =>
                    new'[q] \in DOMAIN objects' /\ objects'[new'[q]].parent = base'[q]
  BY <1>1, <1>3, OthersKeep DEF Ancestry
<1>4. pc'[p] = "object" => Older(base'[p], new'[p])
  <2>1. SUFFICES ASSUME pc'[p] = "object" PROVE Older(base'[p], new'[p])
    OBVIOUS
  <2>2. new'[p] = commits + 1 /\ UNCHANGED objects
    BY <2>1, CommitsGrow
  <2>3. base'[p] \in Walks'
    BY DEF Carried
  <2>4. base'[p] \in Hashes => base'[p] \in DOMAIN objects
    <3>1. \A g \in Hashes : g # None /\ g # Text
      BY VersionAssumption DEF Hashes, None, Text
    <3>2. Loadable' \subseteq DOMAIN objects /\ Loadable' \subseteq Hashes
      BY <2>2 DEF Loadable, VersionTypeOK
    <3>3. QED
      BY <2>3, <3>1, <3>2 DEF Walks
  <2>5. commits \in Nat /\ DOMAIN objects \subseteq 1 .. commits
    BY DEF VersionTypeOK, Numbers
  <2>6. QED
    BY <2>2, <2>4, <2>5 DEF Older
<1>5. cmd'[p] = "commit" /\ pc'[p] \in {"advance", "truncate", "write"} =>
          new'[p] \in DOMAIN objects' /\ objects'[new'[p]].parent = base'[p]
  <2> USE DEF VersionTypeOK
  <2>1. CASE Command(p)
    BY <2>1 DEF Command, InitRepo, StartCommit, CreateBranch, Checkout, Start, GoTo
  <2>2. CASE ReadHead(p) \/ ReadTip(p)
    BY <2>2 DEF ReadHead, ReadTip, Based, GoTo, Inside
  <2>3. CASE WriteObject(p)
    BY <2>3 DEF WriteObject, WithObject, GoTo, Inside
  <2>4. CASE AdvanceHead(p) \/ Truncate(p)
    BY <2>4 DEF AdvanceHead, Truncate, GoTo, Inside, repo, Ancestry
  <2>5. CASE TruncateHead(p)
    BY <2>5 DEF TruncateHead, GoTo, Inside
  <2>6. CASE Write(p) \/ WriteHead(p) \/ Stop(p)
    BY <2>6 DEF Write, WriteHead, Stop, Exit, GoTo
  <2>7. QED
    BY <2>1, <2>2, <2>3, <2>4, <2>5, <2>6 DEF Acts, VersionStep
<1>6. QED
  BY <1>2, <1>3, <1>4, <1>5 DEF Ancestry

\* Every step keeps the commands where they belong.
LEMMA PlacesStep ==
    ASSUME VersionInv, Places, NEW p \in Procs, Acts(p)
    PROVE  Places'
<1> USE DEF VersionInv, VersionTypeOK
<1>1. initialized => initialized'
  <2>1. CASE Command(p)
    BY <2>1 DEF Command, InitRepo, StartCommit, CreateBranch, Checkout, Start, repo
  <2>2. CASE ReadHead(p) \/ ReadTip(p) \/ AdvanceHead(p)
    BY <2>2 DEF ReadHead, ReadTip, AdvanceHead, repo
  <2>3. CASE WriteObject(p) \/ Truncate(p) \/ Write(p) \/ TruncateHead(p)
    BY <2>3 DEF WriteObject, Truncate, Write, TruncateHead
  <2>4. CASE WriteHead(p) \/ Stop(p)
    BY <2>4 DEF WriteHead, Stop
  <2>5. QED
    BY <2>1, <2>2, <2>3, <2>4 DEF Acts, VersionStep
<1>2. ASSUME NEW q \in Procs, q # p
      PROVE  /\ pc'[q] = "idle" => cmd'[q] = "none"
             /\ pc'[q] \in {"head", "tip", "truncate", "write"} =>
                    cmd'[q] \in {"commit", "branch"}
             /\ pc'[q] \in {"truncate head", "write head"} \/ cmd'[q] = "branch" =>
                    at'[q] # NoBranch
             /\ pc'[q] \notin {"idle", "truncate head"} => initialized'
  BY <1>1, <1>2, OthersKeep DEF Places
<1>3. /\ pc'[p] = "idle" => cmd'[p] = "none"
      /\ pc'[p] \in {"head", "tip", "truncate", "write"} =>
             cmd'[p] \in {"commit", "branch"}
      /\ pc'[p] \in {"truncate head", "write head"} \/ cmd'[p] = "branch" =>
             at'[p] # NoBranch
      /\ pc'[p] \notin {"idle", "truncate head"} => initialized'
  <2> USE DEF GoTo, Inside, Places, repo, NewIsHash
  <2>1. CASE InitRepo(p)
    <3>1. /\ pc' = [pc EXCEPT ![p] = "truncate head"]
          /\ cmd' = [cmd EXCEPT ![p] = "init"]
          /\ at' = [at EXCEPT ![p] = Main]
      BY <2>1 DEF InitRepo, Start
    <3>2. QED
      BY <3>1, VersionAssumption
  <2>8. CASE StartCommit(p)
    <3>1. /\ pc' = [pc EXCEPT ![p] = "head"]
          /\ cmd' = [cmd EXCEPT ![p] = "commit"]
          /\ initialized /\ initialized'
      BY <2>8 DEF StartCommit, Start
    <3>2. QED
      BY <3>1
  <2>5. CASE \E b \in Branches : Checkout(p, b)
    <3>1. PICK b \in Branches : Checkout(p, b)
      BY <2>5
    <3>2. /\ pc' = [pc EXCEPT ![p] = "truncate head"]
          /\ cmd' = [cmd EXCEPT ![p] = "checkout"]
          /\ at' = [at EXCEPT ![p] = b]
      BY <3>1 DEF Checkout, Start
    <3>3. QED
      BY <3>2, VersionAssumption
  <2>6. CASE \E b \in Branches, from \in Typed : CreateBranch(p, b, from)
    <3>1. PICK b \in Branches, from \in Typed : CreateBranch(p, b, from)
      BY <2>6
    <3>2. /\ pc' = [pc EXCEPT ![p] = IF from = None THEN "head" ELSE "truncate"]
          /\ cmd' = [cmd EXCEPT ![p] = "branch"]
          /\ at' = [at EXCEPT ![p] = b]
          /\ initialized /\ initialized'
      BY <3>1 DEF CreateBranch, Start
    <3>3. QED
      BY <3>2, VersionAssumption
  <2>2. CASE ReadHead(p) \/ ReadTip(p)
    BY <2>2 DEF ReadHead, ReadTip, Based
  <2>3. CASE WriteObject(p) \/ AdvanceHead(p) \/ Truncate(p) \/ TruncateHead(p)
    BY <2>3 DEF WriteObject, AdvanceHead, Truncate, TruncateHead
  <2>4. CASE Write(p) \/ WriteHead(p) \/ Stop(p)
    BY <2>4 DEF Write, WriteHead, Stop, Exit
  <2>7. QED
    BY <2>1, <2>2, <2>3, <2>4, <2>5, <2>6, <2>8 DEF Acts, Command, VersionStep
<1>4. QED
  BY <1>2, <1>3 DEF Places

(***************************************************************************)
(* What the history keeps.                                                 *)
(***************************************************************************)

\* The order of the numbers, as a relation.
LEMMA LessIsWellFounded ==
    \E R : IsWellFoundedOn(R, Nat) /\ \A m, n \in Nat : m < n => <<m, n>> \in R
<1> WITNESS OpToRel(<, Nat)
<1>1. IsWellFoundedOn(OpToRel(<, Nat), Nat)
  BY NatLessThanWellFounded, Zenon
<1>2. ASSUME NEW m \in Nat, NEW n \in Nat, m < n
      PROVE <<m, n>> \in OpToRel(<, Nat)
  <2>1. <<m, n>> \in Nat \X Nat
    OBVIOUS
  <2> QED BY <1>2, <2>1, Zenon DEF OpToRel
<1> QED BY <1>1, <1>2, Zenon

\* A set of hashes has an oldest one.
LEMMA OldestExists ==
    ASSUME NEW S \in SUBSET Nat, S # {}
    PROVE  \E m \in S : \A n \in S : ~ (n < m)
<1>1. PICK R : IsWellFoundedOn(R, Nat) /\ \A m, n \in Nat : m < n => <<m, n>> \in R
  BY LessIsWellFounded
<1>2. IsWellFoundedOn(R, Nat) /\ S \subseteq Nat
  BY <1>1
<1>3. PICK m \in S : \A n \in S : ~ (<<n, m>> \in R)
  BY <1>2, WFMin, Zenon
<1>4. QED
  BY <1>1, <1>3

\* Objects are only added, so what a hash leads to stays.
LEMMA HistoryGrows ==
    ASSUME VersionInv, VersionInv', Ancestry, NEW p \in Procs, Acts(p)
    PROVE  \A h \in Tips : History[h] \subseteq History'[h]
<1> USE DEF VersionInv
<1>1. PICK S : S = {h \in Tips : ~ (History[h] \subseteq History'[h])}
  OBVIOUS
<1>2. SUFFICES ASSUME S # {} PROVE FALSE
  BY <1>1
<1>3. S \in SUBSET Nat
  BY <1>1, VersionAssumption DEF Tips, None, Hashes, Text
<1>4. PICK h \in S : \A n \in S : ~ (n < h)
  BY <1>2, <1>3, OldestExists
<1>5. HistoryIsWalk /\ HistoryIsWalk'
  BY HistoryWalks, PTL
<1>6. h \in Tips /\ ~ (History[h] \subseteq History'[h])
  BY <1>1
<1>7. h \in Loadable /\ h \in DOMAIN objects
  BY <1>5, <1>6 DEF HistoryIsWalk, Loadable
<1> DEFINE par == objects[h].parent
<1>8. h \in Loadable' /\ objects'[h] = objects[h]
  BY <1>7, ObjectsStay, LoadableGrows
<1>9. par \in Tips
  BY <1>7 DEF VersionTypeOK, Object
<1>10. /\ History[h] = {h} \cup History[par]
       /\ History'[h] = {h} \cup History'[par]
  BY <1>5, <1>6, <1>7, <1>8 DEF HistoryIsWalk
<1>11. CASE par \in Loadable
  <2>1. par < h
    BY <1>7, <1>11 DEF Ancestry, Older, VersionTypeOK, Loadable
  <2>2. par \notin S
    BY <1>4, <2>1
  <2>3. QED
    BY <1>1, <1>6, <1>9, <1>10, <2>2
<1>12. CASE par \notin Loadable
  BY <1>5, <1>6, <1>9, <1>10, <1>12 DEF HistoryIsWalk
<1>13. QED
  BY <1>11, <1>12

\* When nothing else runs, nothing else ran.
LEMMA Alone ==
    ASSUME VersionInv, Quiet => OneAtATime, NEW p \in Procs, Acts(p), Quiet'
    PROVE  /\ Quiet
           /\ \A q \in Procs : q # p => pc[q] = "idle" /\ pc'[q] = "idle"
<1> USE DEF VersionInv, VersionTypeOK
<1>1. CASE Command(p)
  <2>1. /\ pc[p] = "idle"
        /\ overlapped' = (overlapped \/ \E q \in Procs \ {p} : pc[q] # "idle")
        /\ torn' = torn
    BY <1>1 DEF Command, InitRepo, StartCommit, CreateBranch, Checkout, Start
  <2>2. QED
    BY <2>1, OthersKeep DEF Quiet
<1>2. CASE VersionStep(p) \/ Stop(p)
  <2>1. pc[p] # "idle"
    BY <1>2 DEF VersionStep, ReadHead, ReadTip, WriteObject, AdvanceHead,
                Truncate, Write, TruncateHead, WriteHead, Stop
  <2>2. overlapped' = overlapped /\ (torn => torn')
    <3>1. CASE ReadHead(p) \/ ReadTip(p) \/ AdvanceHead(p)
      BY <3>1 DEF ReadHead, ReadTip, AdvanceHead, Inside
    <3>2. CASE WriteObject(p) \/ Truncate(p) \/ TruncateHead(p)
      BY <3>2 DEF WriteObject, Truncate, TruncateHead, Inside
    <3>3. CASE Write(p) \/ WriteHead(p) \/ Stop(p)
      BY <3>3 DEF Write, WriteHead, Stop, Exit
    <3>4. QED
      BY <1>2, <3>1, <3>2, <3>3 DEF VersionStep
  <2>3. QED
    BY <2>1, <2>2, OthersKeep DEF Quiet, OneAtATime
<1>3. QED
  BY <1>1, <1>2 DEF Acts

\* HEAD and the refs as a command that is alone leaves them.
LEMMA UndisturbedStep ==
    ASSUME VersionInv, Places, Places', OneAtATime, Undisturbed, Quiet, Quiet',
           NEW p \in Procs, Acts(p),
           \A q \in Procs : q # p => pc[q] = "idle" /\ pc'[q] = "idle"
    PROVE  OneAtATime' /\ Undisturbed'
<1> USE DEF VersionInv, VersionTypeOK
<1>1. OneAtATime'
  BY DEF OneAtATime
<1>2. /\ detached' = None
      /\ initialized' /\ pc'[p] # "write head" => head' # NoBranch
      /\ cmd'[p] = "commit" /\ pc'[p] \in {"tip", "object", "advance", "truncate"}
             => fresh'[p]
      /\ pc'[p] \in {"truncate", "write"} => at'[p] # NoBranch
      /\ pc'[p] = "write" \/ cmd'[p] = "branch" => Tip(at[p])' = None
  <2> USE DEF Undisturbed, GoTo, Inside, repo
  <2>1. detached = None
    OBVIOUS
  <2>2. initialized /\ pc[p] # "write head" => head # NoBranch
    OBVIOUS
  <2>3. CASE InitRepo(p) \/ StartCommit(p)
    <3>1. /\ pc[p] = "idle"
          /\ \/ /\ pc' = [pc EXCEPT ![p] = "truncate head"]
                /\ cmd' = [cmd EXCEPT ![p] = "init"]
             \/ /\ pc' = [pc EXCEPT ![p] = "head"]
                /\ cmd' = [cmd EXCEPT ![p] = "commit"]
          /\ UNCHANGED <<initialized, head, detached>>
      BY <2>3 DEF InitRepo, StartCommit, Start
    <3>2. pc'[p] \in {"truncate head", "head"} /\ cmd'[p] \in {"init", "commit"}
      BY <3>1
    <3>3. QED
      BY <2>1, <2>2, <3>1, <3>2
  <2>4. CASE \E b \in Branches : Checkout(p, b)
    BY <2>1, <2>2, <2>4 DEF Checkout, Start
  <2>5. CASE \E b \in Branches, from \in Typed : CreateBranch(p, b, from)
    <3>1. PICK b \in Branches, from \in Typed : CreateBranch(p, b, from)
      BY <2>5
    <3>2. /\ pc[p] = "idle"
          /\ pc' = [pc EXCEPT ![p] = IF from = None THEN "head" ELSE "truncate"]
          /\ cmd' = [cmd EXCEPT ![p] = "branch"]
          /\ at' = [at EXCEPT ![p] = b]
          /\ UNCHANGED <<initialized, head, detached, refs>>
          /\ b \notin DOMAIN refs
      BY <3>1 DEF CreateBranch, Start
    <3>3. QED
      BY <2>1, <2>2, <3>2, VersionAssumption DEF Tip
  <2>6. CASE ReadHead(p) \/ ReadTip(p)
    <3>1. /\ pc[p] \in {"head", "tip"}
          /\ pc'[p] \in {"tip", "object", "truncate"}
          /\ cmd[p] = "commit" => pc'[p] # "truncate"
          /\ UNCHANGED <<initialized, head, detached, refs, cmd, at>>
      BY <2>6 DEF ReadHead, ReadTip, Based
    <3>2. cmd[p] = "commit" => fresh'[p]
      BY <2>6 DEF ReadHead, ReadTip
    <3>3. cmd[p] \in {"commit", "branch"}
      BY <3>1 DEF Places
    <3>4. cmd[p] = "branch" => at[p] # NoBranch
      BY DEF Places
    <3>5. QED
      BY <2>1, <2>2, <3>1, <3>2, <3>3, <3>4 DEF Tip
  <2>7. CASE WriteObject(p)
    BY <2>1, <2>2, <2>7 DEF WriteObject, NewIsHash
  <2>8. CASE AdvanceHead(p)
    <3>1. head # NoBranch /\ cmd[p] = "commit"
      BY <2>2, <2>8 DEF AdvanceHead, Places, NewIsHash
    <3>2. QED
      BY <2>1, <2>2, <2>8, <3>1 DEF AdvanceHead
  <2>9. CASE Truncate(p)
    BY <2>1, <2>2, <2>9 DEF Truncate, Tip, WithRef
  <2>10. CASE Write(p) \/ WriteHead(p)
    BY <2>1, <2>2, <2>10 DEF Write, WriteHead, Exit, Places
  <2>11. CASE TruncateHead(p)
    BY <2>1, <2>2, <2>11 DEF TruncateHead, Tip
  <2>12. CASE Stop(p)
    BY <2>1, <2>2, <2>12 DEF Stop, Exit, Quiet
  <2>13. QED
    BY <2>3, <2>4, <2>5, <2>6, <2>7, <2>8, <2>9, <2>10, <2>11, <2>12
       DEF Acts, Command, VersionStep
<1>3. \A q \in Procs : q # p => pc'[q] = "idle" /\ cmd'[q] = "none"
  BY DEF Places
<1>4. QED
  BY <1>1, <1>2, <1>3 DEF Undisturbed

\* Where the walks of `version log` start.
Roots == {detached} \cup BranchTips

\* What is on file before a step is a start for the history.
LEMMA RootsAreTips == VersionTypeOK => Roots \subseteq Tips
  BY DEF VersionTypeOK, Roots, BranchTips

\* Where nothing is truncated or written, the history only grows.
LEMMA LoggedGrows ==
    ASSUME VersionInv, VersionInv', Ancestry, NEW p \in Procs, Acts(p),
           Roots \subseteq Roots'
    PROVE  Logged \subseteq Logged'
<1>1. \A h \in Roots : h \in Tips /\ h \in Roots' /\ History[h] \subseteq History'[h]
  BY HistoryGrows, RootsAreTips DEF VersionInv
<1>2. QED
  BY <1>1 DEF Logged, Roots

\* What a command that is alone does not show, its commit leads to.
LEMMA HistoryKeptStep ==
    ASSUME VersionInv, VersionInv', Ancestry, Ancestry', Places,
           OneAtATime, Undisturbed, Undisturbed', HistoryKept, Quiet, Quiet',
           NEW p \in Procs, Acts(p),
           \A q \in Procs : q # p => pc[q] = "idle" /\ pc'[q] = "idle"
    PROVE  HistoryKept'
<1> USE DEF VersionInv
<1>1. CASE Truncate(p)
  <2>1. /\ pc[p] = "truncate" /\ pc'[p] = "write" /\ at[p] # NoBranch
        /\ refs' = WithRef(at[p], None)
        /\ UNCHANGED <<objects, detached, saved, new, base, cmd>>
    BY <1>1 DEF Truncate, Undisturbed, GoTo, Inside, VersionTypeOK
  <2>2. SUFFICES ASSUME NEW x \in saved PROVE x \in Logged' \cup History'[new[p]]
    BY <2>1 DEF HistoryKept
  <2>3. PICK h \in Roots : x \in History[h]
    BY <2>1 DEF HistoryKept, Logged, Roots
  <2>4. h \in Tips /\ History[h] \subseteq History'[h]
    BY HistoryGrows, RootsAreTips
  <2>5. CASE h \in Roots'
    BY <2>3, <2>4, <2>5 DEF Logged, Roots
  <2>6. CASE h \notin Roots'
    <3>1. h = Tip(at[p]) /\ at[p] \in DOMAIN refs
      BY <2>1, <2>6 DEF Roots, BranchTips, WithRef, Tip
    <3>2. h \in DOMAIN objects
      BY <2>3, <2>4, HistoryWalks DEF HistoryIsWalk, Loadable
    <3>3. cmd[p] = "commit"
      <4>1. h # None
        BY <3>2 DEF VersionTypeOK, Hashes, None
      <4>2. QED
        BY <2>1, <3>1, <4>1 DEF Places, Undisturbed
    <3>4. base[p] = h
      BY <2>1, <3>1, <3>3 DEF Undisturbed, Fresh, Current
    <3>5. new[p] \in Loadable' /\ objects'[new[p]].parent = h
      BY <2>1, <3>3, <3>4 DEF Ancestry, Carried
    <3>6. HistoryIsWalk'
      BY HistoryWalks, PTL
    <3>7. new[p] \in Tips
      BY DEF VersionTypeOK
    <3>8. History'[new[p]] = {new[p]} \cup History'[h]
      BY <2>1, <3>5, <3>6, <3>7 DEF HistoryIsWalk
    <3>9. QED
      BY <2>3, <2>4, <3>8
  <2>7. QED
    BY <2>5, <2>6
<1>2. CASE Write(p)
  <2>1. /\ pc[p] = "write" /\ pc'[p] = "idle" /\ at[p] # NoBranch
        /\ refs' = WithRef(at[p], new[p])
        /\ UNCHANGED <<objects, detached>>
        /\ saved' = IF cmd[p] = "commit" THEN saved \cup {new[p]} ELSE saved
    BY <1>2 DEF Write, Undisturbed, Exit, GoTo, VersionTypeOK
  <2>2. SUFFICES ASSUME NEW x \in saved' PROVE x \in Logged'
    <3>1. \A q \in Procs : pc'[q] # "write"
      BY <2>1
    <3>2. QED
      BY <2>2, <3>1 DEF HistoryKept
  <2>3. new[p] \in Roots' /\ new[p] \in Tips
    BY <2>1 DEF Roots, BranchTips, WithRef, VersionTypeOK
  <2>4. HistoryIsWalk /\ HistoryIsWalk'
    BY HistoryWalks, PTL
  <2>5. CASE x \in saved
    <3>1. CASE x \in History[new[p]]
      BY <2>3, <3>1, HistoryGrows DEF Logged, Roots
    <3>2. CASE x \in Logged
      <4>1. PICK h \in Roots : x \in History[h]
        BY <3>2 DEF Logged, Roots
      <4>2. h \in Tips /\ History[h] \subseteq History'[h]
        BY HistoryGrows, RootsAreTips
      <4>3. h # None
        <5>1. h \in DOMAIN objects
          BY <2>4, <4>1, <4>2 DEF HistoryIsWalk, Loadable
        <5>2. QED
          BY <5>1 DEF VersionTypeOK, Hashes, None
      <4>4. Tip(at[p]) = None
        BY <2>1 DEF Undisturbed
      <4>5. h \in Roots'
        BY <2>1, <4>3, <4>4 DEF Roots, BranchTips, WithRef, Tip
      <4>6. QED
        BY <4>1, <4>2, <4>5 DEF Logged, Roots
    <3>3. QED
      BY <2>1, <2>5, <3>1, <3>2 DEF HistoryKept
  <2>6. CASE x \notin saved
    <3>1. x = new[p] /\ cmd[p] = "commit"
      BY <2>1, <2>6
    <3>2. new[p] \in Loadable'
      BY <2>1, <3>1 DEF Carried, Loadable
    <3>3. x \in History'[new[p]]
      BY <2>3, <2>4, <3>1, <3>2 DEF HistoryIsWalk
    <3>4. QED
      BY <2>3, <3>3 DEF Logged, Roots
  <2>7. QED
    BY <2>5, <2>6
<1>3. CASE ~ Truncate(p) /\ ~ Write(p)
  <2> USE DEF VersionTypeOK, GoTo, Inside, repo
  <2>1. pc[p] # "write" /\ pc'[p] # "write" /\ UNCHANGED <<refs, detached, saved>>
    <3>1. CASE Command(p)
      BY <3>1 DEF Command, InitRepo, StartCommit, CreateBranch, Checkout, Start
    <3>2. CASE ReadHead(p) \/ ReadTip(p)
      BY <3>2 DEF ReadHead, ReadTip, Based
    <3>3. CASE WriteObject(p) \/ AdvanceHead(p)
      BY <3>3 DEF WriteObject, AdvanceHead
    <3>4. CASE TruncateHead(p) \/ WriteHead(p)
      BY <3>4 DEF TruncateHead, WriteHead, Exit, Undisturbed
    <3>5. CASE Stop(p)
      BY <3>5 DEF Stop, Exit, Quiet
    <3>6. QED
      BY <1>3, <3>1, <3>2, <3>3, <3>4, <3>5 DEF Acts, VersionStep
  <2>2. saved \subseteq Logged
    BY <2>1 DEF HistoryKept
  <2>3. Roots' = Roots
    BY <2>1 DEF Roots, BranchTips
  <2>4. Logged \subseteq Logged'
    BY <2>3, LoggedGrows
  <2>5. saved' \subseteq Logged'
    BY <2>1, <2>2, <2>4
  <2>6. \A q \in Procs : pc'[q] # "write"
    BY <2>1
  <2>7. QED
    BY <2>5, <2>6 DEF HistoryKept
<1>4. QED
  BY <1>1, <1>2, <1>3

(***************************************************************************)
(* The theorems about the history.                                         *)
(***************************************************************************)

\* The inductive invariant of commands that run one at a time.
HistoryInv ==
    /\ VersionInv
    /\ Ancestry
    /\ Places
    /\ Quiet => OneAtATime /\ Undisturbed /\ HistoryKept

\* Before `version init` no commit is saved.
LEMMA HistoryInit == VersionInit => HistoryInv
<1> SUFFICES ASSUME VersionInit PROVE HistoryInv
  OBVIOUS
<1>1. VersionInv
  BY InitHolds
<1>2. Ancestry /\ Places /\ OneAtATime
  BY DEF VersionInit, Ancestry, Places, OneAtATime
<1>3. Undisturbed
  BY DEF VersionInit, Undisturbed, Tip
<1>4. HistoryKept
  BY DEF VersionInit, HistoryKept
<1>5. QED
  BY <1>1, <1>2, <1>3, <1>4 DEF HistoryInv

\* Every step keeps the invariant.
LEMMA HistoryNext == HistoryInv /\ [VersionNext]_versionVars => HistoryInv'
<1> SUFFICES ASSUME HistoryInv, [VersionNext]_versionVars PROVE HistoryInv'
  OBVIOUS
<1>1. VersionInv /\ VersionInv'
  BY NextHolds DEF HistoryInv
<1>2. CASE UNCHANGED versionVars
  <2>1. /\ UNCHANGED <<initialized, head, detached, refs, objects, pc, cmd, at>>
        /\ UNCHANGED <<base, new, saved, fresh, overlapped, torn>>
    BY <1>2 DEF versionVars, repo, local
  <2>2. Ancestry' /\ Places' /\ (Quiet' => Quiet)
    BY <2>1 DEF HistoryInv, Ancestry, Places, Quiet
  <2>3. OneAtATime => OneAtATime'
    BY <2>1 DEF OneAtATime
  <2>4. Undisturbed => Undisturbed'
    BY <2>1 DEF Undisturbed, Tip
  <2>5. UNCHANGED <<History, Roots>>
    BY <2>1 DEF History, Roots, BranchTips, Loadable
  <2>6. HistoryKept => HistoryKept'
    BY <2>1, <2>5 DEF HistoryKept, Logged, Roots
  <2>7. QED
    BY <1>1, <2>2, <2>3, <2>4, <2>6 DEF HistoryInv
<1>3. ASSUME NEW p \in Procs, Acts(p) PROVE HistoryInv'
  <2>1. Ancestry' /\ Places'
    BY <1>1, <1>3, AncestryStep, PlacesStep DEF HistoryInv
  <2>2. ASSUME Quiet' PROVE OneAtATime' /\ Undisturbed' /\ HistoryKept'
    <3>1. /\ Quiet
          /\ \A q \in Procs : q # p => pc[q] = "idle" /\ pc'[q] = "idle"
      BY <1>1, <1>3, <2>2, Alone DEF HistoryInv
    <3>2. OneAtATime' /\ Undisturbed'
      BY <1>1, <1>3, <2>1, <2>2, <3>1, UndisturbedStep DEF HistoryInv
    <3>3. HistoryKept'
      BY <1>1, <1>3, <2>1, <2>2, <3>1, <3>2, HistoryKeptStep DEF HistoryInv
    <3>4. QED
      BY <3>2, <3>3
  <2>3. QED
    BY <1>1, <2>1, <2>2 DEF HistoryInv
<1>4. QED
  BY <1>2, <1>3 DEF VersionNext, Acts

\* However many processes run commands, and as long as they take turns, the
\* history has all that is saved, or is about to.
THEOREM HistoryInvariant == VersionSpec => []HistoryInv
  BY HistoryInit, HistoryNext, PTL DEF VersionSpec

\* A walk passes nothing but commits that load.
LEMMA HistoryLoads ==
    ASSUME VersionInv, Ancestry
    PROVE  \A h \in Tips : History[h] \subseteq Loadable
<1> USE DEF VersionInv
<1>1. PICK S : S = {h \in Tips : ~ (History[h] \subseteq Loadable)}
  OBVIOUS
<1>2. SUFFICES ASSUME S # {} PROVE FALSE
  BY <1>1
<1>3. S \in SUBSET Nat
  BY <1>1, VersionAssumption DEF Tips, None, Hashes, Text
<1>4. PICK h \in S : \A n \in S : ~ (n < h)
  BY <1>2, <1>3, OldestExists
<1>5. HistoryIsWalk
  BY HistoryWalks
<1>6. h \in Tips /\ ~ (History[h] \subseteq Loadable)
  BY <1>1
<1>7. h \in Loadable /\ h \in DOMAIN objects
  BY <1>5, <1>6 DEF HistoryIsWalk, Loadable
<1> DEFINE par == objects[h].parent
<1>8. par \in Tips
  BY <1>7 DEF VersionTypeOK, Object
<1>9. History[h] = {h} \cup History[par]
  BY <1>5, <1>6, <1>7 DEF HistoryIsWalk
<1>10. ~ (History[par] \subseteq Loadable)
  BY <1>6, <1>7, <1>9
<1>11. par \in Loadable
  BY <1>5, <1>8, <1>10 DEF HistoryIsWalk
<1>12. par < h
  BY <1>7, <1>11 DEF Ancestry, Older, VersionTypeOK, Loadable
<1>13. QED
  BY <1>1, <1>4, <1>8, <1>10, <1>12

\* With no branch point that is no hash, `version tree` meets no error.
LEMMA TreeShowsLogged ==
    ASSUME VersionInv, Ancestry, detached = None, ~ Mistyped
    PROVE  TreeShown = Logged
<1> USE DEF VersionInv
<1>1. None \notin Loadable /\ None \in Tips
  BY HashesAreTips DEF Loadable, VersionTypeOK, Hashes, None
<1>2. History[None] = {}
  BY <1>1, HistoryWalks DEF HistoryIsWalk
<1>3. Logged = Walked
  BY <1>2 DEF Logged, Walked
<1>4. BranchTips \subseteq Tips
  BY DEF BranchTips, VersionTypeOK
<1>5. Walked \subseteq Loadable
  BY <1>4, HistoryLoads DEF Walked
<1>6. Walked \subseteq DOMAIN objects
  BY <1>5 DEF Loadable
<1>7. \A h \in BranchTips : h \in Walks /\ h # Text
  BY DEF FilesLoad, BranchTips, Mistyped
<1>8. \A g \in Walked : objects[g].parent \in Walks /\ objects[g].parent # Text
  BY <1>6 DEF FilesLoad, Mistyped
<1>9. \A h \in BranchTips \cup {objects[g].parent : g \in Walked} :
          h \in Loadable \cup {None}
  BY <1>7, <1>8 DEF Walks
<1>10. QED
  BY <1>3, <1>9 DEF TreeShown

\* With one command at a time, killed anywhere but between the truncation and
\* the write of a ref or of HEAD, no saved commit leaves what `version log`
\* prints, nor, unless a branch starts at a text that is no hash, what `version
\* tree` does: advanceHEAD and writeRef replace a tip only by a commit that
\* leads to it.
THEOREM QuietHistoryKeptHolds == VersionSpec => []QuietHistoryKept
<1>1. HistoryInv => QuietHistoryKept
  <2>1. SUFFICES ASSUME HistoryInv, Quiet, \A p \in Procs : pc[p] = "idle"
                 PROVE  /\ saved \subseteq Logged
                        /\ ~ Mistyped => saved \subseteq TreeShown
    BY DEF QuietHistoryKept, Quiet
  <2>2. saved \subseteq Logged
    BY <2>1 DEF HistoryInv, HistoryKept
  <2>3. detached = None
    BY <2>1 DEF HistoryInv, Undisturbed
  <2>4. ~ Mistyped => TreeShown = Logged
    BY <2>1, <2>3, TreeShowsLogged DEF HistoryInv
  <2>5. QED
    BY <2>2, <2>4
<1>2. QED
  BY <1>1, HistoryInvariant, PTL
=============================================================================

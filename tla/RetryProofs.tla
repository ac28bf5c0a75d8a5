---------------------------- MODULE RetryProofs ----------------------------
(***************************************************************************)
(* Proofs about the two commands that wait and try again: version init,    *)
(* which polls GitHub, for any number of processes, any users, any         *)
(* intervals and life times that GitHub may name, and any time-out; and    *)
(* schema-diff, which connects to two databases, for any drivers, catalogs *)
(* and number of attempts.                                                 *)
(***************************************************************************)
EXTENDS Identity, SchemaDiff, TLAPS

(***************************************************************************)
(* version init.                                                           *)
(***************************************************************************)

Stages == {"idle", "code", "check", "sleep", "ask", "user", "save", "saving"}

TimingTypeOK ==
    /\ pc \in [Procs -> Stages]
    /\ interval \in [Procs -> Nat] /\ deadline \in [Procs -> Nat]
    /\ due \in [Procs -> Nat]
    /\ told \in [Procs -> Nat] /\ since \in [Procs -> Nat]

NamesTypeOK ==
    /\ code \in [Procs -> Users \cup {"none", "pending", "denied"}]
    /\ login \in [Procs -> Users \cup {"none"}]
    /\ config \in Users \cup {"absent", "torn"}
    /\ granted \subseteq Users
    /\ saved \in BOOLEAN

\* The interval is never below what was asked for, a sleep makes up what is
\* missing of it, and a request is sent when nothing is missing.
Patient(p) ==
    /\ pc[p] \in {"check", "sleep", "ask"} =>
           interval[p] >= 1 /\ interval[p] >= told[p]
    /\ pc[p] = "sleep" => since[p] + due[p] >= interval[p]
    /\ pc[p] = "ask" => since[p] >= 1 /\ since[p] >= told[p]

\* A name comes from a grant on each of its ways to the file.
Verified(p) ==
    /\ code[p] \in Users => code[p] \in granted
    /\ pc[p] = "user" => code[p] \in Users
    /\ pc[p] \in {"save", "saving"} => login[p] \in granted

\* The file names who granted, and is there once something was saved.
FileVerified ==
    /\ config \in Users => config \in granted
    /\ saved => config # "absent"

IdentityInv ==
    /\ TimingTypeOK
    /\ NamesTypeOK
    /\ \A p \in Procs : Patient(p)
    /\ \A p \in Procs : Verified(p)
    /\ FileVerified
    /\ AuthorsVerified

----------------------------------------------------------------------------
(* What the invariant says, and that it holds at first. *)

\* The invariant says what the properties do.
LEMMA InvariantIsEnough ==
    IdentityInv => AskedAsTold /\ AuthorsVerified
  BY DEF IdentityInv, Patient, AskedAsTold, AtLeast

\* At first nothing is on file, and nobody asks.
LEMMA InitHolds == IdentityInit => IdentityInv
<1> SUFFICES ASSUME IdentityInit PROVE IdentityInv
  OBVIOUS
<1> USE DEF IdentityInit
<1>1. TimingTypeOK
  BY DEF TimingTypeOK, Stages
<1>2. NamesTypeOK
  BY DEF NamesTypeOK
<1>3. \A p \in Procs : Patient(p) /\ Verified(p)
  BY IdentityAssumption DEF Patient, Verified
<1>4. FileVerified /\ AuthorsVerified
  BY IdentityAssumption DEF FileVerified, AuthorsVerified
<1> QED BY <1>1, <1>2, <1>3, <1>4 DEF IdentityInv

----------------------------------------------------------------------------
(* Each step keeps it: the timing, the names, and what is on file. *)

\* Starting decides nothing.
LEMMA StartInitKeeps ==
    ASSUME IdentityInv, NEW p \in Procs, StartInit(p)
    PROVE  IdentityInv'
<1> USE IdentityAssumption DEF IdentityInv, StartInit, GoTo, timing
<1>1. TimingTypeOK'
  BY DEF TimingTypeOK, Stages
<1>2. NamesTypeOK'
  BY DEF NamesTypeOK
<1>3. \A q \in Procs : Patient(q)'
  BY DEF Patient
<1>4. \A q \in Procs : Verified(q)'
  BY DEF Verified
<1>5. FileVerified' /\ AuthorsVerified'
  BY DEF FileVerified, AuthorsVerified
<1> QED BY <1>1, <1>2, <1>3, <1>4, <1>5

\* The first interval is at least what GitHub names, and a new code names nobody.
LEMMA RequestDeviceCodeKeeps ==
    ASSUME IdentityInv, NEW p \in Procs, RequestDeviceCode(p)
    PROVE  IdentityInv'
<1> USE IdentityAssumption DEF IdentityInv, RequestDeviceCode, GoTo, AtLeast, timing
<1>1. TimingTypeOK'
  BY DEF TimingTypeOK, Stages
<1>2. NamesTypeOK'
  BY DEF NamesTypeOK
<1>3. \A q \in Procs : Patient(q)'
  BY DEF TimingTypeOK, Patient
<1>4. \A q \in Procs : Verified(q)'
  BY DEF Verified
<1>5. FileVerified' /\ AuthorsVerified'
  BY DEF FileVerified, AuthorsVerified
<1> QED BY <1>1, <1>2, <1>3, <1>4, <1>5

\* The sleep is of a whole interval.
LEMMA SleepKeeps ==
    ASSUME IdentityInv, NEW p \in Procs, Sleep(p)
    PROVE  IdentityInv'
<1> USE IdentityAssumption DEF IdentityInv, Sleep, GoTo, timing
<1>1. TimingTypeOK'
  BY DEF TimingTypeOK, Stages
<1>2. NamesTypeOK'
  BY DEF NamesTypeOK
<1>3. \A q \in Procs : Patient(q)'
  BY DEF TimingTypeOK, Patient
<1>4. \A q \in Procs : Verified(q)'
  BY DEF Verified
<1>5. FileVerified' /\ AuthorsVerified'
  BY DEF FileVerified, AuthorsVerified
<1> QED BY <1>1, <1>2, <1>3, <1>4, <1>5

\* After the sleep nothing is missing of the interval.
LEMMA AskKeeps ==
    ASSUME IdentityInv, NEW p \in Procs, Ask(p)
    PROVE  IdentityInv'
<1> USE IdentityAssumption DEF IdentityInv, Ask, GoTo, timing
<1>1. TimingTypeOK'
  BY DEF TimingTypeOK, Stages
<1>2. NamesTypeOK'
  BY DEF NamesTypeOK
<1>3. \A q \in Procs : Patient(q)'
  BY DEF TimingTypeOK, Patient
<1>4. \A q \in Procs : Verified(q)'
  BY DEF Verified
<1>5. FileVerified' /\ AuthorsVerified'
  BY DEF FileVerified, AuthorsVerified
<1> QED BY <1>1, <1>2, <1>3, <1>4, <1>5

\* The interval stays as it was asked for.
LEMMA PendingKeeps ==
    ASSUME IdentityInv, NEW p \in Procs, Pending(p)
    PROVE  IdentityInv'
<1> USE IdentityAssumption DEF IdentityInv, Pending, GoTo, timing
<1>1. TimingTypeOK'
  BY DEF TimingTypeOK, Stages
<1>2. NamesTypeOK'
  BY DEF NamesTypeOK
<1>3. \A q \in Procs : Patient(q)'
  BY DEF TimingTypeOK, Patient
<1>4. \A q \in Procs : Verified(q)'
  BY DEF Verified
<1>5. FileVerified' /\ AuthorsVerified'
  BY DEF FileVerified, AuthorsVerified
<1> QED BY <1>1, <1>2, <1>3, <1>4, <1>5

\* The interval grows by what the answer adds.
LEMMA SlowDownKeeps ==
    ASSUME IdentityInv, NEW p \in Procs, SlowDown(p)
    PROVE  IdentityInv'
<1> USE IdentityAssumption DEF IdentityInv, SlowDown, GoTo, timing
<1>1. TimingTypeOK'
  BY DEF TimingTypeOK, Stages
<1>2. NamesTypeOK'
  BY DEF NamesTypeOK
<1>3. \A q \in Procs : Patient(q)'
  BY DEF TimingTypeOK, Patient
<1>4. \A q \in Procs : Verified(q)'
  BY DEF Verified
<1>5. FileVerified' /\ AuthorsVerified'
  BY DEF FileVerified, AuthorsVerified
<1> QED BY <1>1, <1>2, <1>3, <1>4, <1>5

\* A token is for a code that was granted.
LEMMA TokenKeeps ==
    ASSUME IdentityInv, NEW p \in Procs, Token(p)
    PROVE  IdentityInv'
<1> USE IdentityAssumption DEF IdentityInv, Token, GoTo, timing
<1>1. TimingTypeOK'
  BY DEF TimingTypeOK, Stages
<1>2. NamesTypeOK'
  BY DEF NamesTypeOK
<1>3. \A q \in Procs : Patient(q)'
  BY DEF Patient
<1>4. \A q \in Procs : Verified(q)'
  BY DEF Verified
<1>5. FileVerified' /\ AuthorsVerified'
  BY DEF FileVerified, AuthorsVerified
<1> QED BY <1>1, <1>2, <1>3, <1>4, <1>5

\* The name is of the one who granted.
LEMMA ResolveGitHubUsernameKeeps ==
    ASSUME IdentityInv, NEW p \in Procs, ResolveGitHubUsername(p)
    PROVE  IdentityInv'
<1> USE IdentityAssumption DEF IdentityInv, ResolveGitHubUsername, GoTo, timing
<1>1. TimingTypeOK'
  BY DEF TimingTypeOK, Stages
<1>2. NamesTypeOK'
  BY DEF NamesTypeOK, Verified
<1>3. \A q \in Procs : Patient(q)'
  BY DEF Patient
<1>4. \A q \in Procs : Verified(q)'
  BY DEF NamesTypeOK, Verified
<1>5. FileVerified' /\ AuthorsVerified'
  BY DEF FileVerified, AuthorsVerified
<1> QED BY <1>1, <1>2, <1>3, <1>4, <1>5

\* A torn file names nobody, and is not absent.
LEMMA TruncateKeeps ==
    ASSUME IdentityInv, NEW p \in Procs, Truncate(p)
    PROVE  IdentityInv'
<1> USE IdentityAssumption DEF IdentityInv, Truncate, GoTo, timing
<1>1. TimingTypeOK'
  BY DEF TimingTypeOK, Stages
<1>2. NamesTypeOK'
  BY DEF NamesTypeOK
<1>3. \A q \in Procs : Patient(q)'
  BY DEF Patient
<1>4. \A q \in Procs : Verified(q)'
  BY DEF Verified
<1>5. FileVerified' /\ AuthorsVerified'
  BY DEF FileVerified, AuthorsVerified
<1> QED BY <1>1, <1>2, <1>3, <1>4, <1>5

\* What is saved is a name from a grant.
LEMMA SaveIdentityKeeps ==
    ASSUME IdentityInv, NEW p \in Procs, SaveIdentity(p)
    PROVE  IdentityInv'
<1> USE IdentityAssumption DEF IdentityInv, SaveIdentity, Return, GoTo, timing
<1>1. TimingTypeOK'
  BY DEF TimingTypeOK, Stages
<1>2. NamesTypeOK'
  BY DEF NamesTypeOK, Verified
<1>3. \A q \in Procs : Patient(q)'
  BY DEF Patient
<1>4. \A q \in Procs : Verified(q)'
  BY DEF TimingTypeOK, Verified
<1>5. FileVerified' /\ AuthorsVerified'
  BY DEF NamesTypeOK, Verified, FileVerified, AuthorsVerified
<1> QED BY <1>1, <1>2, <1>3, <1>4, <1>5

\* An error, or a kill, leaves the file as it is.
LEMMA FailsKeeps ==
    ASSUME IdentityInv, NEW p \in Procs, NEW from \in Stages, Fails(p, from)
    PROVE  IdentityInv'
<1> USE IdentityAssumption DEF IdentityInv, Fails, Return, GoTo, timing
<1>1. TimingTypeOK'
  BY DEF TimingTypeOK, Stages
<1>2. NamesTypeOK'
  BY DEF NamesTypeOK
<1>3. \A q \in Procs : Patient(q)'
  BY DEF TimingTypeOK, Patient
<1>4. \A q \in Procs : Verified(q)'
  BY DEF TimingTypeOK, Verified
<1>5. FileVerified' /\ AuthorsVerified'
  BY DEF FileVerified, AuthorsVerified
<1> QED BY <1>1, <1>2, <1>3, <1>4, <1>5

\* A grant is on record before its code names anybody.
LEMMA DecideKeeps ==
    ASSUME IdentityInv, NEW p \in Procs, Decide(p)
    PROVE  IdentityInv'
<1> USE IdentityAssumption DEF IdentityInv, Decide, timing
<1>1. TimingTypeOK'
  BY DEF TimingTypeOK
<1>2. NamesTypeOK'
  BY DEF NamesTypeOK
<1>3. \A q \in Procs : Patient(q)'
  BY DEF Patient
<1>4. \A q \in Procs : Verified(q)'
  BY DEF Verified
<1>5. FileVerified' /\ AuthorsVerified'
  BY DEF FileVerified, AuthorsVerified
<1> QED BY <1>1, <1>2, <1>3, <1>4, <1>5

\* The author is the one on file, or, with no file, the flag.
LEMMA CommitKeeps ==
    ASSUME IdentityInv, Commit
    PROVE  IdentityInv'
<1> USE IdentityAssumption DEF IdentityInv, Commit, timing
<1>1. TimingTypeOK' /\ NamesTypeOK'
  BY DEF TimingTypeOK, NamesTypeOK
<1>2. \A q \in Procs : Patient(q)' /\ Verified(q)'
  BY DEF Patient, Verified
<1>3. FileVerified'
  BY DEF FileVerified
<1>4. AuthorsVerified'
  BY DEF FileVerified, AuthorsVerified, LoadIdentity
<1> QED BY <1>1, <1>2, <1>3, <1>4

\* Time passes for those who sleep or wait; a sleep has what it lacks in due.
LEMMA TickKeeps ==
    ASSUME IdentityInv, Tick
    PROVE  IdentityInv'
<1> USE DEF IdentityInv, Tick
<1>1. TimingTypeOK'
  BY DEF TimingTypeOK, AtLeast
<1>2. NamesTypeOK'
  BY DEF NamesTypeOK
<1>3. \A q \in Procs : Patient(q)'
  BY DEF TimingTypeOK, Patient, AtLeast
<1>4. \A q \in Procs : Verified(q)'
  BY DEF Verified
<1>5. FileVerified' /\ AuthorsVerified'
  BY DEF FileVerified, AuthorsVerified
<1> QED BY <1>1, <1>2, <1>3, <1>4, <1>5

\* Nothing changes when nothing happens.
LEMMA StutterKeeps ==
    ASSUME IdentityInv, UNCHANGED identityVars
    PROVE  IdentityInv'
  BY DEF IdentityInv, identityVars, timing, TimingTypeOK, NamesTypeOK, Patient,
         Verified, FileVerified, AuthorsVerified

----------------------------------------------------------------------------
(* The theorems. *)

\* One case for each action of the specification.
LEMMA StepHolds == IdentityInv /\ [IdentityNext]_identityVars => IdentityInv'
<1> SUFFICES ASSUME IdentityInv, [IdentityNext]_identityVars PROVE IdentityInv'
  OBVIOUS
<1>1. CASE UNCHANGED identityVars
  BY <1>1, StutterKeeps
<1>2. CASE Commit
  BY <1>2, CommitKeeps
<1>3. CASE Tick
  BY <1>3, TickKeeps
<1>4. ASSUME NEW p \in Procs, StartInit(p) \/ InitStep(p) \/ Kill(p) \/ Decide(p)
      PROVE  IdentityInv'
  <2>1. CASE StartInit(p)
    BY <2>1, StartInitKeeps
  <2>2. CASE RequestDeviceCode(p)
    BY <2>2, RequestDeviceCodeKeeps
  <2>3. CASE Sleep(p) \/ Ask(p)
    BY <2>3, SleepKeeps, AskKeeps
  <2>4. CASE Pending(p) \/ SlowDown(p) \/ Token(p)
    BY <2>4, PendingKeeps, SlowDownKeeps, TokenKeeps
  <2>5. CASE TimedOut(p) \/ Refused(p) \/ RequestFails(p) \/ Kill(p)
    <3>1. PICK from \in Stages : Fails(p, from)
      BY <2>5 DEF TimedOut, Refused, RequestFails, Kill, IdentityInv,
                  TimingTypeOK, Stages
    <3> QED BY <3>1, FailsKeeps
  <2>6. CASE ResolveGitHubUsername(p) \/ Truncate(p) \/ SaveIdentity(p)
    BY <2>6, ResolveGitHubUsernameKeeps, TruncateKeeps, SaveIdentityKeeps
  <2>7. CASE Decide(p)
    BY <2>7, DecideKeeps
  <2> QED BY <1>4, <2>1, <2>2, <2>3, <2>4, <2>5, <2>6, <2>7 DEF InitStep, Poll
<1> QED BY <1>1, <1>2, <1>3, <1>4 DEF IdentityNext

\* The inductive invariant of the device flow and of the identity on file.
THEOREM IdentityInvariant == IdentitySpec => []IdentityInv
<1> QED BY InitHolds, StepHolds, PTL DEF IdentitySpec

\* pollForToken asks no sooner than GitHub has told it to, for every interval
\* GitHub may name and however often it answers slow_down.
THEOREM AskedAsToldHolds == IdentitySpec => []AskedAsTold
<1> QED BY IdentityInvariant, InvariantIsEnough, PTL

\* Whatever fails and wherever a process is killed, a commit signed as a GitHub
\* user is by one who granted a code, and a saved identity is never passed over.
THEOREM AuthorsVerifiedHolds == IdentitySpec => []AuthorsVerified
<1> QED BY IdentityInvariant, InvariantIsEnough, PTL

(***************************************************************************)
(* schema-diff.                                                            *)
(***************************************************************************)

\* While a database is connected to, its handle is open exactly when it is
\* pinged, and is not to be closed on return yet; that of the database
\* connected to before is open and is to be.
Connecting ==
    /\ stage \in {"open", "ping", "wait"}
    /\ deferred = IF db = "prod" THEN {} ELSE {"prod"}
    /\ handles = [d \in Databases |-> IF d \in deferred \/ (d = db /\ stage = "ping")
                                      THEN 1 ELSE 0]

\* While schemas are loaded and compared, both are.
Connections ==
    /\ Loading \/ stage = "compare"
    /\ deferred = Databases
    /\ handles = [d \in Databases |-> 1]

Returned ==
    /\ stage = "exit"
    /\ handles = [d \in Databases |-> 0]

HandlesInv ==
    /\ db \in Databases
    /\ Connecting \/ Connections \/ Returned

LEMMA QueriesType ==
    /\ Queries # << >> /\ Queries \in Seq(Range(Queries))
    /\ Range(Queries) \cap {"open", "ping", "wait", "compare", "exit"} = {}
<1>1. /\ Queries # << >>
      /\ \A i \in DOMAIN Queries :
             Queries[i] \notin {"open", "ping", "wait", "compare", "exit"}
  BY DEF Queries
<1>2. Queries \in Seq(Range(Queries))
  <2> DEFINE my == <<"columns", "indexes", "fks", "views", "routines", "parameters", "triggers">>
             pg == <<"columns", "indexes", "fks", "views", "matviews", "routines",
                     "triggers", "sequences">>
             lite == <<"tables", "columns", "indexes", "fks", "views", "triggers">>
             rest == <<"columns", "indexes", "fks">>
  <2>1. Queries = my \/ Queries = pg \/ Queries = lite \/ Queries = rest
    BY DEF Queries
  <2>2. /\ my = [i \in 1 .. 7 |-> my[i]] /\ pg = [i \in 1 .. 8 |-> pg[i]]
        /\ lite = [i \in 1 .. 6 |-> lite[i]] /\ rest = [i \in 1 .. 3 |-> rest[i]]
    OBVIOUS
  <2> HIDE DEF my, pg, lite, rest
  <2>3. \E n \in Nat : Queries = [i \in 1 .. n |-> Queries[i]]
    BY <2>1, <2>2
  <2>4. QED
    BY <2>3 DEF Range
<1>3. QED
  BY <1>1, <1>2 DEF Range

\* A command that returns closes what is open, if the deferred calls are of that.
LEMMA ExitCloses ==
    ASSUME NEW r, NEW h, h = [d \in Databases |-> IF d \in deferred THEN 1 ELSE 0],
           Exit(r, h), HandlesInv
    PROVE  HandlesInv'
<1>1. Closed(h) = [d \in Databases |-> 0]
  BY DEF Closed
<1>2. QED
  BY <1>1 DEF Exit, HandlesInv, Returned

LEMMA RetryKeeps ==
    ASSUME NEW tried, NEW h, h = [d \in Databases |-> IF d \in deferred THEN 1 ELSE 0],
           Retry(tried, h), HandlesInv, deferred = IF db = "prod" THEN {} ELSE {"prod"}
    PROVE  HandlesInv'
<1>1. CASE Exit("failed", h)
  BY <1>1, ExitCloses
<1>2. CASE /\ stage' = "wait" /\ handles' = h
           /\ UNCHANGED <<db, deferred>>
  BY <1>2 DEF HandlesInv, Connecting
<1>3. QED
  BY <1>1, <1>2 DEF Retry

\* Loading goes on to the next query, to the other database or to comparing.
LEMMA AdvanceKeeps ==
    ASSUME HandlesInv, Loading, Advance
    PROVE  HandlesInv'
<1>1. Connections
  BY QueriesType DEF HandlesInv, Connecting, Returned, Loading
<1>2. UNCHANGED <<driver, handles, deferred>>
  BY DEF Advance, connection
<1> DEFINE at == CHOOSE i \in DOMAIN Queries : Queries[i] = stage
<1>3. at \in DOMAIN Queries
  BY DEF Loading, Range
<1>4. /\ db' \in Databases
      /\ \/ stage' = Queries[at + 1] /\ at < Len(Queries)
         \/ stage' = Head(Queries)
         \/ stage' = "compare"
  BY DEF Advance, HandlesInv, Databases
<1> HIDE DEF at
<1>5. stage' \in Range(Queries) \cup {"compare"}
  <2>1. at < Len(Queries) => at + 1 \in DOMAIN Queries
    BY <1>3, QueriesType
  <2>2. Head(Queries) = Queries[1] /\ 1 \in DOMAIN Queries
    BY QueriesType
  <2>3. QED
    BY <1>4, <2>1, <2>2 DEF Range
<1>6. Queries' = Queries
  BY <1>2 DEF Queries
<1>7. QED
  BY <1>1, <1>2, <1>4, <1>5, <1>6 DEF HandlesInv, Connections, Loading

LEMMA LoadSchemaKeeps ==
    ASSUME HandlesInv, LoadSchema, DiffAssumption
    PROVE  HandlesInv'
<1>1. CASE QueryFails
  <2>1. Connections
    BY <1>1, QueriesType DEF QueryFails, HandlesInv, Connecting, Returned, Loading
  <2>2. handles = [d \in Databases |-> IF d \in deferred THEN 1 ELSE 0]
    BY <2>1 DEF Connections
  <2>3. QED
    BY <1>1, <2>2, ExitCloses DEF QueryFails
<1>2. CASE SqliteColumns \/ SqliteIndexList \/ SqliteIndexInfo \/ SqliteForeignKeys
  <2>1. UNCHANGED <<driver, db, stage, handles, deferred>>
    BY <1>2 DEF SqliteColumns, SqliteIndexList, SqliteIndexInfo, SqliteForeignKeys, connection
  <2>2. QED
    BY <2>1 DEF HandlesInv, Connecting, Connections, Returned, Loading, Queries
<1>3. CASE LoadColumns \/ SqliteTables \/ LoadIndexes \/ LoadForeignKeys \/ LoopEnds
           \/ LoadViews \/ LoadMaterializedViews \/ LoadRoutines \/ LoadParameters
           \/ LoadTriggers \/ LoadSequences
  <2>1. Advance
    BY <1>3 DEF LoadColumns, SqliteTables, LoadIndexes, LoadForeignKeys, LoopEnds,
                LoadViews, LoadMaterializedViews, LoadRoutines, LoadParameters,
                LoadTriggers, LoadSequences, Load
  <2>2. Connections
    BY <1>3 DEF HandlesInv, Connecting, Returned,
                LoadColumns, SqliteTables, LoadIndexes, LoadForeignKeys, LoopEnds,
                LoadViews, LoadMaterializedViews, LoadRoutines, LoadParameters,
                LoadTriggers, LoadSequences, Answered
  <2>3. stage # "compare"
    BY <1>3 DEF LoadColumns, SqliteTables, LoadIndexes, LoadForeignKeys, LoopEnds,
                LoadViews, LoadMaterializedViews, LoadRoutines, LoadParameters,
                LoadTriggers, LoadSequences, Answered
  <2>4. QED
    BY <2>1, <2>2, <2>3, AdvanceKeeps DEF Connections
<1>4. QED
  BY <1>1, <1>2, <1>3 DEF LoadSchema

LEMMA HandlesInvInit == DiffInit => HandlesInv
  BY DEF DiffInit, HandlesInv, Connecting, Databases

LEMMA HandlesInvStep == HandlesInv /\ [DiffNext]_diffVars => HandlesInv'
<1> SUFFICES ASSUME HandlesInv, [DiffNext]_diffVars PROVE HandlesInv'
  OBVIOUS
<1>1. stage \in {"open", "ping", "wait"} => Connecting
  BY QueriesType DEF HandlesInv, Connections, Returned, Loading
<1>2. CASE OpenHandle
  <2>1. /\ Connecting /\ stage = "open" /\ stage' = "ping"
        /\ handles' = [handles EXCEPT ![db] = @ + 1]
        /\ UNCHANGED <<db, deferred>> /\ db \in Databases
    BY <1>1, <1>2 DEF OpenHandle, HandlesInv
  <2>2. handles = [d \in Databases |-> IF d \in deferred THEN 1 ELSE 0] /\ db \notin deferred
    BY <2>1 DEF Connecting, Databases
  <2>3. handles' = [d \in Databases |-> IF d \in deferred \/ d = db THEN 1 ELSE 0]
    <3>1. handles[db] = 0 /\ handles[db] + 1 = 1
      BY <2>1, <2>2
    <3>2. handles' = [d \in Databases |-> IF d = db THEN 1 ELSE handles[d]]
      BY <2>1, <2>2, <3>1
    <3>3. QED
      BY <2>2, <3>2
  <2>4. QED
    BY <2>1, <2>3 DEF HandlesInv, Connecting
<1>3. CASE NoDSN
  <2>1. handles = [d \in Databases |-> IF d \in deferred THEN 1 ELSE 0]
    BY <1>1, <1>3 DEF NoDSN, Connecting
  <2>2. QED
    BY <1>3, <2>1, ExitCloses DEF NoDSN
<1>4. CASE OpenFails
  <2>1. handles = [d \in Databases |-> IF d \in deferred THEN 1 ELSE 0]
    BY <1>1, <1>4 DEF OpenFails, Connecting
  <2>2. QED
    BY <1>1, <1>4, <2>1, RetryKeeps DEF OpenFails, Connecting
<1>5. CASE PingFails
  <2> DEFINE h == [handles EXCEPT ![db] = @ - 1]
  <2>1. h = [d \in Databases |-> IF d \in deferred THEN 1 ELSE 0]
    <3>1. Connecting /\ stage = "ping" /\ db \in Databases
      BY <1>1, <1>5 DEF PingFails, HandlesInv
    <3>2. /\ handles = [d \in Databases |-> IF d \in deferred \/ d = db THEN 1 ELSE 0]
          /\ db \notin deferred
      BY <3>1 DEF Connecting, Databases
    <3>3. handles[db] = 1 /\ handles[db] - 1 = 0
      BY <3>1, <3>2
    <3>4. h = [d \in Databases |-> IF d = db THEN 0 ELSE handles[d]]
      BY <3>1, <3>2, <3>3
    <3>5. QED
      BY <3>2, <3>4
  <2>2. Retry(attempts, h)
    BY <1>5 DEF PingFails
  <2> HIDE DEF h
  <2>3. QED
    BY <1>1, <1>5, <2>1, <2>2, RetryKeeps DEF PingFails, Connecting
<1>6. CASE Waited
  BY <1>1, <1>6 DEF Waited, HandlesInv, Connecting, connection
<1>7. CASE Connected
  <2>1. Connecting /\ stage = "ping" /\ deferred' = deferred \cup {db} /\ handles' = handles
        /\ driver' = driver
    BY <1>1, <1>7 DEF Connected
  <2>2. CASE db = "prod"
    <3>1. db' = "dev" /\ stage' = "open"
      BY <1>7, <2>2 DEF Connected
    <3>2. QED
      BY <2>1, <2>2, <3>1 DEF HandlesInv, Connecting, Databases
  <2>3. CASE db # "prod"
    <3>1. db' = "prod" /\ stage' = Head(Queries) /\ db = "dev"
      BY <1>7, <2>3 DEF Connected, HandlesInv, Databases
    <3>2. Head(Queries) \in Range(Queries) /\ Queries' = Queries
      <4>1. Head(Queries) = Queries[1] /\ 1 \in DOMAIN Queries
        BY QueriesType
      <4>2. QED
        BY <2>1, <4>1 DEF Range, Queries
    <3>3. deferred' = Databases /\ handles' = [d \in Databases |-> 1]
      BY <2>1, <3>1 DEF Connecting, Databases
    <3>4. QED
      BY <3>1, <3>2, <3>3 DEF HandlesInv, Connections, Loading, Databases
  <2>4. QED
    BY <2>2, <2>3
<1>8. CASE LoadSchema
  BY <1>8, LoadSchemaKeeps, DiffAssumption
<1>9. CASE Compare \/ ReportFails
  <2>1. Connections
    BY <1>9, QueriesType DEF Compare, ReportFails, HandlesInv, Connecting, Returned
  <2>2. handles = [d \in Databases |-> IF d \in deferred THEN 1 ELSE 0]
    BY <2>1 DEF Connections
  <2>3. QED
    BY <1>9, <2>2, ExitCloses DEF Compare, ReportFails
<1>10. CASE OtherClient
  BY <1>10 DEF OtherClient, HandlesInv, Connecting, Connections, Returned, Loading, Queries, connection
<1>11. CASE UNCHANGED diffVars
  BY <1>11 DEF diffVars, HandlesInv, Connecting, Connections, Returned, Loading, Queries, connection
<1>12. QED
  BY <1>2, <1>3, <1>4, <1>5, <1>6, <1>7, <1>8, <1>9, <1>10, <1>11
     DEF DiffNext, Command, Connect

\* The inductive invariant of schema-diff's connections: which handles are
\* open, and which of them the deferred calls close, at each of its stages
\* (drivers.Open and runSchemaDiff).
THEOREM HandlesInvariant == DiffSpec => []HandlesInv
<1>1. DiffInit => HandlesInv
  BY HandlesInvInit
<1>2. QED
  BY <1>1, HandlesInvStep, PTL DEF DiffSpec

\* HandlesClosed, for any number of attempts and wherever they or the queries
\* fail: no handle is open when the command returns, and never two are to one
\* database.
THEOREM HandlesClosedHolds == DiffSpec => []HandlesClosed
<1>1. HandlesInv => HandlesClosed
  <2> SUFFICES ASSUME HandlesInv PROVE HandlesClosed
    OBVIOUS
  <2>1. \A d \in Databases : handles[d] \in {0, 1}
    BY DEF HandlesInv, Connecting, Connections, Returned
  <2>2. stage = "exit" => Returned
    BY QueriesType DEF HandlesInv, Connecting, Connections, Loading
  <2>3. QED
    BY <2>1, <2>2 DEF HandlesClosed, Returned
<1>2. QED
  BY <1>1, HandlesInvariant, PTL
=============================================================================

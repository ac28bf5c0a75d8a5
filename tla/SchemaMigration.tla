-------------------------- MODULE SchemaMigration --------------------------
(***************************************************************************)
(* From two schemas to a script and what the script does: DiffSchemas      *)
(* (internal/schema/diff.go), GetOrderedRemovedTables and                  *)
(* GetOrderedAddedTables (ordering.go), GenerateMigrationWithSchemas       *)
(* (migrate.go), as schema-migrate (runSchemaMigrate, main.go) and version *)
(* rollback (GenerateRollbackSQL, internal/version/rollback.go) call it.   *)
(*                                                                         *)
(* A schema maps its objects to their definitions.  A definition names the *)
(* objects it uses: an index or a primary key its columns; a foreign key   *)
(* its columns, the table it references and the columns or the primary key *)
(* there; a view tables, columns, views, routines; a trigger its routine;  *)
(* a column the sequence of its default, and a sequence the column that    *)
(* owns it.  The body of a definition is what else it says.  Names are     *)
(* numbers and stand in the order of sort.Strings.                         *)
(***************************************************************************)
EXTENDS Naturals, Sequences, FiniteSets, FiniteSetsExt, SequencesExt

CONSTANTS
    Drivers,    \* the configured drivers
    Families,   \* of each: sets of schemas, of which a migration has two
    Configs     \* sets of kinds whose drops the configuration allows

\* The kinds of objects that belong to no table.
Free == {"view", "routine", "sequence"}

Kinds == {"table", "column", "index", "fk", "pk", "trigger"} \cup Free

Object == {o \in [kind : Kinds, table : Nat, name : Nat] :
              o.kind = "table" => o.name = o.table}

Definition == [uses : SUBSET Object, body : Nat]

\* The table that an object belongs to.
Owner(o) == [kind |-> "table", table |-> o.table, name |-> o.table]

PartOf(o, t) == t.kind = "table" /\ o.kind \notin Free /\ o.table = t.table

OfKind(S, kind) == {o \in S : o.kind = kind}

OfTable(S, t) == {o \in S : PartOf(o, t)}

\* The kinds of what an object of a kind uses.
Usable(kind) ==
    CASE kind \in {"index", "pk", "sequence"} -> {"column"}
      [] kind = "fk" -> {"table", "column", "pk"}
      [] kind = "view" -> {"table", "column", "view", "routine"}
      [] kind = "trigger" -> {"routine"}
      [] kind = "column" -> {"sequence"}
      [] OTHER -> {}

\* The body of a column is a number for its type, whether it may be null and its
\* default, which may use a sequence: 0 for none, 2 for NULL by name.
Type(column) == column.body \div 6

NotNull(column) == (column.body \div 3) % 2 = 1

Default(column) == <<column.uses, column.body % 3>>

None == <<{}, 0>>

\* What stands in a database: whatever an object uses stands there as well, the
\* columns of its own table if that is a key or an index; a table has one primary
\* key, and its definition says nothing that those of its parts do not.
WellFormed(schema) ==
    \A o \in DOMAIN schema :
        /\ o.kind \notin Free => Owner(o) \in DOMAIN schema
        /\ schema[o].uses \subseteq DOMAIN schema \ {o}
        /\ \A u \in schema[o].uses :
               /\ u.kind \in Usable(o.kind)
               /\ o.kind \in {"index", "pk"} => u.table = o.table
        /\ o.kind = "table" => schema[o] = [uses |-> {}, body |-> 1]
        /\ o.kind = "column" /\ schema[o].body % 3 = 0 => schema[o].uses = {}
        /\ o.kind = "pk" => OfTable(OfKind(DOMAIN schema, "pk"), Owner(o)) = {o}

ASSUME SchemaAssumption ==
    /\ Drivers \subseteq {"mysql", "postgres", "sqlite", "mssql", "oracle"}
    /\ \A d \in Drivers : \A family \in Families[d] : \A schema \in family :
           /\ IsFiniteSet(DOMAIN schema)
           /\ DOMAIN schema \subseteq Object
           /\ \A o \in DOMAIN schema : schema[o] \in Definition
           /\ WellFormed(schema)
    /\ Configs \subseteq SUBSET Kinds

VARIABLES
    driver,     \* the driver
    source,     \* the schema the script starts from
    target,     \* the schema it is to lead to
    granted,    \* the kinds whose drops are not written as comments
    pc,         \* "call", "removed", "added", "run", then "done" or "failed"
    dropping,   \* removed tables, in the order found so far
    creating,   \* added tables, in the order found so far
    stack,      \* added tables that are being visited
    script,     \* the statements still to run
    db          \* the schema of the database that the script runs on

inputs == <<driver, source, target, granted>>
schemaVars == <<inputs, pc, dropping, creating, stack, script, db>>

NoSchema == << >>

SchemaInit ==
    /\ driver \in Drivers
    /\ source = NoSchema /\ target = NoSchema /\ db = NoSchema
    /\ granted = {}
    /\ pc = "call"
    /\ dropping = << >> /\ creating = << >> /\ stack = << >>
    /\ script = << >>

----------------------------------------------------------------------------
(* The differences. *)

Added == DOMAIN target \ DOMAIN source

Removed == DOMAIN source \ DOMAIN target

Kept == DOMAIN source \cap DOMAIN target

Modified == {o \in Kept : source[o] # target[o]}

ByName(S) ==
    CHOOSE list \in SetToSeqs(S) :
        \A i, j \in DOMAIN list : i < j => list[i].name <= list[j].name

\* The tables that the foreign keys of a table reference.
References(schema, t) ==
    UNION {OfKind(schema[f].uses, "table") :
               f \in OfTable(OfKind(DOMAIN schema, "fk"), t)}

----------------------------------------------------------------------------
(* The calls. *)

\* The permissions that runSchemaMigrate passes on; that of a primary key is to
\* modify it.
Passed(config) == config \cap {"table", "column", "index", "fk", "pk"}

Generate(from, to, permissions) ==
    /\ source' = from /\ target' = to /\ db' = from
    /\ granted' = permissions
    /\ pc' = "removed"
    /\ UNCHANGED <<driver, dropping, creating, stack, script>>

\* Without drift no script is written.
SchemaMigrate ==
    /\ pc = "call"
    /\ \E family \in Families[driver] : \E prod, dev \in family, config \in Configs :
           /\ prod # dev
           /\ Generate(prod, dev, Passed(config))

\* Rollback of a commit: from its development schema back to production's.
Rollback ==
    /\ pc = "call"
    /\ \E family \in Families[driver] : \E prod, dev \in family : Generate(dev, prod, {})

\* Mutant of Unreferenced: the direction of the references is swapped.
MutUnreferenced(tables) ==
    {t \in tables : References(source, t) \cap tables \subseteq {t}}

\* GetOrderedRemovedTables: next is the first table that no other one left
\* references, and not itself either; if there is none, the rest by name.
Unreferenced(tables) ==
    {t \in tables : \A u \in tables : t \notin References(source, u)}

OrderRemoved ==
    /\ pc = "removed"
    /\ LET left == OfKind(Removed, "table") \ ToSet(dropping)
           free == Unreferenced(left)
       IN  /\ left # {}
           /\ dropping' = IF free = {} THEN dropping \o ByName(left)
                          ELSE Append(dropping, Head(ByName(free)))
    /\ UNCHANGED <<inputs, pc, creating, stack, script, db>>

RemovedOrdered ==
    /\ pc = "removed"
    /\ OfKind(Removed, "table") \subseteq ToSet(dropping)
    /\ pc' = "added"
    /\ UNCHANGED <<inputs, dropping, creating, stack, script, db>>

\* GetOrderedAddedTables: depth first, foreign keys in the order of a map.
Unvisited == OfKind(Added, "table") \ (ToSet(creating) \cup ToSet(stack))

VisitNext ==
    /\ pc = "added"
    /\ stack = << >>
    /\ Unvisited # {}
    /\ stack' = <<Head(ByName(Unvisited))>>
    /\ UNCHANGED <<inputs, pc, dropping, creating, script, db>>

\* A dependency that is being visited is passed over: that breaks a cycle.
VisitDependency ==
    /\ pc = "added"
    /\ stack # << >>
    /\ \E t \in References(target, Last(stack)) \cap Unvisited :
           stack' = Append(stack, t)
    /\ UNCHANGED <<inputs, pc, dropping, creating, script, db>>

\* Mutant of Visited: a table comes before those it references.
MutVisited ==
    /\ pc = "added"
    /\ stack # << >>
    /\ creating' = Append(creating, Last(stack))
    /\ stack' = Front(stack)
    /\ UNCHANGED <<inputs, pc, dropping, script, db>>

Visited ==
    /\ pc = "added"
    /\ stack # << >>
    /\ References(target, Last(stack)) \cap Unvisited = {}
    /\ creating' = Append(creating, Last(stack))
    /\ stack' = Front(stack)
    /\ UNCHANGED <<inputs, pc, dropping, script, db>>

----------------------------------------------------------------------------
(* The script. *)

\* Does more than the default of a column change?
Reshaped(o) ==
    \/ Type(source[o]) # Type(target[o])
    \/ NotNull(source[o]) # NotNull(target[o])

Redefaulted(o) == Default(source[o]) # Default(target[o])

\* What a comment takes the place of: statements that SQLite does not have, a
\* new column that is NOT NULL without a default, where SQLite or SQL Server
\* would refuse it, and SQL Server's default, which is a constraint.
Unsupported(op, o) ==
    \/ /\ driver = "sqlite"
       /\ o.kind \in {"fk", "pk"} \/ (o.kind = "column" /\ op # "create")
    \/ /\ driver \in {"sqlite", "mssql"} /\ o.kind = "column"
       /\ op = "create" /\ NotNull(target[o]) /\ Default(target[o]) = None
    \/ /\ driver = "mssql" /\ o.kind = "column"
       /\ op = "alter" /\ ~Reshaped(o)

ForEach(Section(_), objects) ==
    FlattenSeq([i \in DOMAIN objects |-> Section(objects[i])])

\* Statements as the database sees them.
Statement(op, objects) ==
    ForEach(LAMBDA o : IF Unsupported(op, o) THEN << >> ELSE <<[op |-> op, on |-> o]>>,
            objects)

\* The text of a routine or a trigger as it was read: no semicolon ends it.
Texts(objects) == Statement("text", objects)

Creates(objects) == Statement("create", objects)

\* Mutant of Drops: permissions are ignored.
MutDrops(objects) == Statement("drop", objects)

\* A drop that is not granted is a comment.
Drops(objects) ==
    ForEach(LAMBDA o : IF o.kind \in granted THEN Statement("drop", <<o>>) ELSE << >>,
            objects)

Alters(objects) == Statement("alter", objects)

\* A new table, then its indexes and foreign keys in the order of their maps.
NewTable(t, walk) ==
    LET Own(kind) ==
            ForEach(LAMBDA o : IF PartOf(o, t) /\ o.kind = kind THEN Creates(<<o>>) ELSE << >>,
                    walk)
    IN  Creates(<<t>>) \o Own("index") \o Own("fk")

\* Permitted or not, the two statements that modify a primary key go together.
ChangedPrimaryKey(t) ==
    LET In(schema) == ByName(OfTable(OfKind(DOMAIN schema, "pk"), t))
        changed == OfTable(OfKind(Added \cup Removed \cup Modified, "pk"), t)
    IN  IF changed = {} \/ "pk" \notin granted THEN << >>
        ELSE Drops(In(source)) \o Creates(In(target))

\* Mutant of ChangedTable: added foreign keys have no section.
MutChangedTable(t) ==
    LET In(S, kind) == ByName(OfTable(OfKind(S, kind), t))
    IN  Creates(In(Added, "column"))
        \o Drops(In(Removed, "column"))
        \o Alters(In(Modified, "column"))
        \o Creates(In(Added, "index"))
        \o Drops(In(Removed, "index"))
        \o Drops(In(Removed, "fk"))
        \o ChangedPrimaryKey(t)

\* Indexes and foreign keys that differ are mentioned in comments only.
ChangedTable(t) ==
    LET In(S, kind) == ByName(OfTable(OfKind(S, kind), t))
    IN  Creates(In(Added, "column"))
        \o Drops(In(Removed, "column"))
        \o Alters(In(Modified, "column"))
        \o Creates(In(Added, "index"))
        \o Drops(In(Removed, "index"))
        \o Drops(In(Removed, "fk"))
        \o Creates(In(Added, "fk"))
        \o ChangedPrimaryKey(t)

\* A view's body is a number for its text and whether it is materialized, which
\* only PostgreSQL has.
Materialized(view) == view.body % 2 = 0

Text(view) == <<view.uses, (view.body + 1) \div 2>>

Converted(v) == Materialized(source[v]) # Materialized(target[v])

\* A view that differs is dropped and created if that is granted, but where the
\* text is the same it is not created; PostgreSQL replaces it unasked, as if it
\* were not materialized, since ViewDiff says so only of one that is converted.
ChangedView(v) ==
    IF Converted(v)
    THEN Drops(<<v>>) \o IF Text(source[v]) = Text(target[v]) \/ "view" \notin granted
                         THEN << >> ELSE Creates(<<v>>)
    ELSE IF driver = "postgres" THEN Alters(<<v>>)
    ELSE IF "view" \in granted THEN Drops(<<v>>) \o Creates(<<v>>)
    ELSE << >>

Views ==
    Drops(ByName(OfKind(Removed, "view")))
    \o Creates(ByName(OfKind(Added, "view")))
    \o ForEach(ChangedView, ByName(OfKind(Modified, "view")))

\* Routines, triggers and sequences that differ are mentioned in comments only.
Routines ==
    Drops(ByName(OfKind(Removed, "routine")))
    \o Texts(ByName(OfKind(Added, "routine")))

Triggers ==
    Drops(ByName(OfKind(Removed, "trigger")))
    \o Texts(ByName(OfKind(Added, "trigger")))

Sequences ==
    Drops(ByName(OfKind(Removed, "sequence")))
    \o Creates(ByName(OfKind(Added, "sequence")))

Script(walk) ==
    Drops(dropping)
    \o ForEach(LAMBDA t : NewTable(t, walk), creating)
    \o ForEach(ChangedTable, ByName(OfKind(Kept, "table")))
    \o Views \o Routines \o Triggers \o Sequences

\* The indexes and foreign keys of new tables, which maps hold.
Walked ==
    {o \in Added : o.kind \in {"index", "fk"} /\ Owner(o) \in Added}

WriteScript ==
    /\ pc = "added"
    /\ stack = << >> /\ Unvisited = {}
    /\ \E walk \in SetToSeqs(Walked) : script' = Script(walk)
    /\ pc' = "run"
    /\ UNCHANGED <<inputs, dropping, creating, stack, db>>

----------------------------------------------------------------------------
(* The database, which is not part of the program. *)

Users(o) == {u \in DOMAIN db : o \in db[u].uses}

OwnColumns(o) == {c \in OfKind(db[o].uses, "column") : c.table = o.table}

\* What of its own table keeps a column from being dropped.
Holds(u, c) ==
    CASE driver = "mysql" -> u.kind = "fk"
      [] driver = "mssql" -> u.kind \in {"index", "fk", "pk"}
      [] driver = "oracle" -> u.kind \in {"fk", "pk"} /\ OwnColumns(u) # {c}
      [] OTHER -> FALSE

\* What keeps an object from being dropped.
Blockers(o) ==
    {u \in Users(o) :
        /\ driver # "sqlite"
        /\ \/ u.kind = "view" /\ driver = "postgres"
           \/ o.kind \in {"table", "column"} /\ u.kind = "fk" /\ ~PartOf(u, Owner(o))
           \/ o.kind = "column" /\ PartOf(u, Owner(o)) /\ Holds(u, o)
           \/ o.kind = "pk" /\ u.kind = "fk"}

\* The sequences that a column owns.
Owned(columns) ==
    {q \in OfKind(DOMAIN db, "sequence") : db[q].uses \cap columns # {}}

\* What goes with an object without a statement of its own.
GoesWith(o) ==
    CASE o.kind = "table" ->
            OfTable(DOMAIN db, o) \cup Owned(OfTable(DOMAIN db, o))
      [] o.kind = "column" /\ driver = "postgres" ->
            {u \in OfTable(Users(o), Owner(o)) : u.kind \in {"index", "fk", "pk"}}
            \cup Owned({o})
      [] o.kind = "column" /\ driver = "mysql" ->
            {u \in Users(o) : u.kind \in {"index", "pk"} /\ db[u].uses = {o}}
      [] o.kind = "column" /\ driver = "oracle" ->
            {u \in OfTable(Users(o), Owner(o)) :
                u.kind = "index" \/ (u.kind \in {"fk", "pk"} /\ OwnColumns(u) = {o})}
      [] OTHER -> {}

\* A table is created with its columns and its primary key.
Brought(o) ==
    {o} \cup {u \in DOMAIN target : o.kind = "table" /\ PartOf(u, o)
                                    /\ u.kind \in {"column", "pk"}}

\* What the text of a statement names: CREATE SEQUENCE names no owner.
Needs(o) ==
    IF o.kind = "sequence" THEN {}
    ELSE (UNION {target[u].uses : u \in Brought(o)}) \ Brought(o)

\* A routine or a trigger runs into what follows it.  MySQL stores its body
\* alone: that may be a statement, which then runs and defines nothing.
Possible(s) ==
    CASE s.op = "drop" -> s.on \in DOMAIN db /\ Blockers(s.on) = {}
      [] s.op = "create" ->
            /\ s.on \notin DOMAIN db
            /\ s.on.kind \notin Free \cup {"table"} => Owner(s.on) \in DOMAIN db
            /\ Needs(s.on) \subseteq DOMAIN db \/ (s.on.kind = "view" /\ driver = "sqlite")
      [] s.op = "alter" ->
            /\ s.on \in DOMAIN db
            /\ Needs(s.on) \subseteq DOMAIN db
            /\ (s.on.kind = "column" /\ driver = "postgres"
                 /\ Type(db[s.on]) # Type(target[s.on]))
                   => OfKind(Users(s.on), "view") = {}
            /\ s.on.kind = "view" => ~Materialized(db[s.on])
      [] s.op = "text" -> driver = "mysql"

\* An index or a primary key of MySQL keeps the columns that are left.
Without(gone) ==
    [u \in DOMAIN db \ gone |->
        IF u.kind \in {"index", "pk"} THEN [db[u] EXCEPT !.uses = @ \ gone] ELSE db[u]]

With(o) ==
    [u \in DOMAIN db \cup Brought(o) |-> IF u \in Brought(o) THEN target[u] ELSE db[u]]

\* What an altered column says: SQL Server's keeps its default, and Oracle's that
\* is to lose it gets NULL by name, which is read as a default.
Altered(o) ==
    CASE o.kind = "column" /\ Redefaulted(o) /\ driver = "mssql" ->
            [uses |-> db[o].uses,
             body |-> target[o].body - (target[o].body % 3) + (db[o].body % 3)]
      [] o.kind = "column" /\ Redefaulted(o) /\ driver = "oracle"
         /\ Default(target[o]) = None ->
            [uses |-> {}, body |-> target[o].body + 2]
      [] OTHER -> target[o]

Execute ==
    /\ pc = "run"
    /\ script # << >>
    /\ LET s == Head(script)
       IN  /\ Possible(s)
           /\ db' = CASE s.op = "drop" -> Without({s.on} \cup GoesWith(s.on))
                      [] s.op = "text" -> db
                      [] s.op = "create" -> With(s.on)
                      [] s.op = "alter" -> [db EXCEPT ![s.on] = Altered(s.on)]
    /\ script' = Tail(script)
    /\ UNCHANGED <<inputs, pc, dropping, creating, stack>>

\* A statement may also fail for the rows of its table.
Refuse ==
    /\ pc = "run"
    /\ script # << >>
    /\ pc' = "failed"
    /\ UNCHANGED <<inputs, dropping, creating, stack, script, db>>

Finish ==
    /\ pc = "run"
    /\ script = << >>
    /\ pc' = "done"
    /\ UNCHANGED <<inputs, dropping, creating, stack, script, db>>

Order == OrderRemoved \/ RemovedOrdered \/ VisitNext \/ VisitDependency \/ Visited

SchemaNext ==
    \/ SchemaMigrate \/ Rollback
    \/ Order \/ WriteScript
    \/ Execute \/ Refuse \/ Finish

SchemaSpec == SchemaInit /\ [][SchemaNext]_schemaVars

----------------------------------------------------------------------------
(* Properties. *)

\* A new column of a table that stays, which no statement adds.
Skipped(o) ==
    o \in Added /\ o.kind = "column" /\ Owner(o) \in Kept /\ Unsupported("create", o)

\* What the script leaves to a reader: differences that it only mentions, or,
\* as with the text of a routine, cannot make.
Reviewed(o) ==
    \/ Skipped(o)
    \/ /\ o \in Modified
       /\ \/ o.kind \in {"index", "fk", "routine", "trigger", "sequence"}
          \/ o.kind = "view" /\ (driver # "postgres" \/ Converted(o))
          \/ o.kind = "column" /\ driver = "sqlite"
          \/ o.kind = "column" /\ Redefaulted(o)
             /\ (driver = "mssql" \/ (driver = "oracle" /\ Default(target[o]) = None))
    \/ o.kind = "pk" /\ Owner(o) \in Kept /\ o \in Added \cup Modified
       /\ ("pk" \notin granted \/ driver = "sqlite")
    \/ o \in Added /\ (\/ o.kind = "fk" /\ driver = "sqlite"
                       \/ o.kind \in {"routine", "trigger"})

\* A script that ran to its end has led to the target schema: all of it stands
\* as it is defined there, but for what is left to a reader, and nothing else
\* stands but what may not or, in SQLite, cannot be dropped, and the parts of
\* such a table (GenerateMigrationWithSchemas: one section for each kind of
\* difference).
TargetReached ==
    pc = "done" =>
        /\ \A o \in DOMAIN target : ~Reviewed(o) =>
               o \in DOMAIN db /\ db[o] = target[o]
        /\ \A o \in DOMAIN db \ DOMAIN target :
               \/ o.kind \notin granted \/ Unsupported("drop", o)
               \/ o.kind \notin Free \cup {"table"} /\ Owner(o) \in DOMAIN db \ DOMAIN target

\* A column that may be dropped, or is a part of a table that may be.
MayGo(c) ==
    \/ c \in Removed /\ "column" \in granted
    \/ Owner(c) \in Removed /\ "table" \in granted

\* Nothing that production has is lost unless its own drop was granted or that
\* of its table, or, with their column, indexes and keys of its table and the
\* sequence it owns go: at every statement, however far the script gets.  A
\* primary key may be away while it is modified.
NothingLostUnasked ==
    \A o \in DOMAIN source \ DOMAIN db :
        \/ o \in Removed /\ o.kind \in granted
        \/ o \in Modified /\ o.kind = "pk" /\ "pk" \in granted
        \/ o.kind \notin Free /\ Owner(o) \in Removed /\ "table" \in granted
        \/ o.kind \in {"index", "fk", "pk", "sequence"}
           /\ \E c \in OfKind(source[o].uses, "column") :
                  MayGo(c) /\ (o.kind = "sequence" \/ c.table = o.table)

\* The tables, among some, that lead to one of them by their foreign keys: the
\* smallest set with those that reference it or one of the set.
Leading(schema, tables, t) ==
    {u \in tables :
        \A S \in SUBSET tables :
            (\A v \in tables : References(schema, v) \cap ({t} \cup S) # {} => v \in S)
                => u \in S}

\* Reached from a cycle of foreign keys; a table that references itself is on one.
BehindCycle(schema, tables, t) ==
    \E u \in Leading(schema, tables, t) : u \in Leading(schema, tables, u)

\* A later statement creates an object, or tries to.
Ahead(o) == \E s \in ToSet(Tail(script)) : o \in Brought(s.on) /\ s.op \in {"create", "text"}

\* What the script does not restore: a primary key whose modification is not
\* granted, and a sequence that differs, which it only mentions though it may have
\* gone with the column that owned it.
NotRestored(u) ==
    \/ u.kind = "pk" /\ "pk" \notin granted
    \/ /\ u.kind = "sequence" /\ u \in Modified
       /\ \E c \in OfKind(source[u].uses, "column") : MayGo(c)

\* What may be missing, of what an object uses, when a statement creates it: a table
\* that is on a cycle with its own; a column or a primary key that another table
\* gets later; what has its section after that of views, and sequences.
Awaited(o, u) ==
    \/ /\ o.kind = "fk"
       /\ \/ /\ u.kind = "table" /\ u # Owner(o)
             /\ u \in Leading(target, OfKind(Added, "table"), Owner(o))
          \/ u.kind = "column" /\ u.table # o.table
          \/ u.kind = "pk"
    \/ o.kind = "view" /\ u.kind \in {"view", "routine"}
    \/ u.kind = "sequence"

\* When the script creates an object, whatever that one uses stands, unless it is of
\* these kinds and a later statement creates it, or nothing restores it; or it is a
\* column that the script only mentions, though not what uses it
\* (GetOrderedAddedTables; the order of the sections).
CreatesInOrder ==
    pc = "run" /\ script # << >> /\ Head(script).op = "create" =>
        LET o == Head(script).on
        IN  \A u \in Needs(o) \ DOMAIN db :
                Skipped(u) \/ (Awaited(o, u) /\ (Ahead(u) \/ NotRestored(u)))

\* When the script drops a table, no foreign key of another table that is still
\* to be dropped references it, unless that one is reached from a cycle; keys
\* of tables that stay may (GetOrderedRemovedTables).  When it drops a primary
\* key, a foreign key that it is to drop as well and that references it is in
\* the section of a later table, or of a table that may not be dropped.  And what
\* it drops stands, unless it went with a column: they "must be dropped before
\* columns" (migrate.go 248), but come after them.
DropsInOrder ==
    pc = "run" /\ script # << >> /\ Head(script).op = "drop" =>
        LET o == Head(script).on
        IN  /\ o.kind = "table" =>
                   \A f \in OfKind(Blockers(o), "fk") :
                       \/ Owner(f) \in Kept
                       \/ BehindCycle(source, OfKind(Removed, "table"), o)
            /\ o.kind = "pk" =>
                   \A f \in OfKind(Blockers(o), "fk") \cap Removed :
                       IF Owner(f) \in Kept THEN "fk" \in granted => f.table > o.table
                       ELSE "table" \notin granted
            /\ \/ o \in DOMAIN db
               \/ o.kind \in {"index", "fk", "pk"}
                  /\ \E c \in OfKind(source[o].uses, "column") :
                         c.table = o.table /\ MayGo(c)
=============================================================================

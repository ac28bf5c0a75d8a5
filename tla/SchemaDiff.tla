----------------------------- MODULE SchemaDiff -----------------------------
(***************************************************************************)
(* The command schema-diff (runSchemaDiff, cmd/deepdiffdb/main.go): it     *)
(* connects to production and to development (drivers.Open with            *)
(* errors.Retry), loads the schema of one after the other with the queries *)
(* of Introspection, and compares them (DiffSchemas).  The other commands  *)
(* that compare schemas connect and load in the same way.                  *)
(*                                                                         *)
(* Each query is a step of its own: nothing holds the catalogs still, and  *)
(* other clients may change them between any two steps.                    *)
(*                                                                         *)
(* Both databases have the same driver here.  The configuration may name   *)
(* two (config.go 20-21, 174-180), but their definitions are in different  *)
(* words then, and no text of the one says when it is that of the other.   *)
(***************************************************************************)
EXTENDS Introspection

CONSTANTS
    Drivers,        \* the drivers of the configuration
    Worlds(_, _),   \* of a driver and a database: the catalogs it may have
    MaxAttempts,    \* RetryConfig.MaxAttempts
    MaxChanges      \* bound: how often other clients change a catalog

Databases == {"prod", "dev"}

ASSUME DiffAssumption ==
    /\ Drivers \subseteq {"mysql", "postgres", "sqlite", "mssql", "oracle"}
    /\ MaxAttempts \in Nat \ {0}
    /\ MaxChanges \in Nat

\* What a database holds.  Tables and views share their names; only PostgreSQL
\* has relations without columns.  The name of an index is unique in its table,
\* in SQLite in the whole schema, and that of a foreign key in its table; both
\* are over columns of a table that is there, an index also over those of a
\* materialized view.  Triggers have names of their own except in PostgreSQL,
\* and only a MySQL definition names a schema.
WellFormed(drv, c) ==
    LET Distinguished(objects) == \A x, y \in objects : x.name = y.name => x = y
        IsList(q) == q \in Seq(Range(q))
        Names(t) == {x.name : x \in Range(t.cols)}
    IN  /\ Distinguished(c.tables) /\ Distinguished(c.views)
        /\ \A t \in c.tables, v \in c.views : t.name # v.name
        /\ \A t \in c.tables \cup c.views :
               /\ IsList(t.cols) /\ Distinguished(Range(t.cols))
               /\ t.cols = << >> => drv = "postgres"
        /\ \A t \in c.tables :
               /\ IsList(t.key) /\ Range(t.key) \subseteq Names(t)
               /\ \A k, l \in DOMAIN t.key : t.key[k] = t.key[l] => k = l
        /\ \A v \in c.views : v.mat \in BOOLEAN /\ (v.mat => drv \notin {"mysql", "sqlite"})
        /\ drv = "mysql" => \A v \in c.views : v.def = <<v.def[1], v.def[2]>>
        /\ \A i \in c.indexes :
               /\ IsList(i.cols) /\ i.cols # << >> /\ IsList(i.included)
               /\ \E t \in c.tables \cup {v \in c.views : v.mat} :
                      /\ t.name = i.table
                      /\ Range(i.cols) \cup Range(i.included) \subseteq Names(t) \cup {Null}
        /\ \A i, j \in c.indexes :
               (i.name = j.name /\ (drv = "sqlite" \/ i.table = j.table)) => i = j
        /\ \A f \in c.fks :
               /\ IsList(f.cols) /\ f.cols # << >>
               /\ IsList(f.refCols) /\ Len(f.refCols) = Len(f.cols)
               /\ \E t \in c.tables : t.name = f.table /\ Range(f.cols) \subseteq Names(t)
               /\ {"table", "name", "cols", "refSchema", "refTable", "refCols",
                   "refKey", "rules"} \subseteq DOMAIN f
        /\ \A f, g \in c.fks : (f.name = g.name /\ f.table = g.table) => f = g
        /\ \A k \in c.constraints : IsList(k.cols) /\ k.key \in BOOLEAN
        /\ \A r \in c.routines : IsList(r.params)
        /\ drv # "postgres" => Distinguished(c.triggers)
        /\ Distinguished(c.sequences)

ASSUME CatalogAssumption ==
    \A drv \in Drivers : \A d \in Databases : \A c \in Worlds(drv, d) : WellFormed(drv, c)

VARIABLES
    driver,     \* of both databases
    cat,        \* the catalogs
    db,         \* the database that is being connected to or loaded
    stage,      \* "open", "ping", "wait", a query, "compare", "exit"
    attempts,   \* of the connection, so far
    handles,    \* the open handles of each database
    deferred,   \* the databases whose handle is closed on return
    image,      \* the schemas loaded so far
    todo,       \* SQLite: the tables that a loop has left
    table,      \* SQLite: the table whose indexes are being read
    pending,    \* SQLite: its indexes that are left
    result,     \* "none", then "match", "drift" or "failed"
    seen,       \* history: the catalogs that stood while one was loaded
    changes     \* how often other clients have changed a catalog

connection == <<attempts, handles, deferred>>
loop == <<todo, table, pending>>
diffVars == <<driver, cat, db, stage, connection, image, loop, result, seen, changes>>

NoImage == [tables |-> << >>, views |-> << >>, routines |-> << >>,
            triggers |-> << >>, sequences |-> << >>]

DiffInit ==
    /\ driver \in Drivers
    /\ cat \in [Databases -> UNION {Worlds(driver, d) : d \in Databases}]
    /\ \A d \in Databases : cat[d] \in Worlds(driver, d)
    /\ db = "prod" /\ stage = "open"
    /\ attempts = 0
    /\ handles = [d \in Databases |-> 0] /\ deferred = {}
    /\ image = [d \in Databases |-> NoImage]
    /\ todo = {} /\ table = Null /\ pending = {}
    /\ result = "none"
    /\ seen = [d \in Databases |-> {}]
    /\ changes = 0

----------------------------------------------------------------------------
(* Connecting. *)

\* The queries of LoadSchema, in order.
Queries ==
    CASE driver = "mysql" ->
            <<"columns", "indexes", "fks", "views", "routines", "parameters", "triggers">>
      [] driver = "postgres" ->
            <<"columns", "indexes", "fks", "views", "matviews", "routines",
              "triggers", "sequences">>
      [] driver = "sqlite" ->
            <<"tables", "columns", "indexes", "fks", "views", "triggers">>
      [] OTHER -> <<"columns", "indexes", "fks">>

Loading == stage \in Range(Queries)

\* The deferred calls of Close, when h handles are open.
Closed(h) == [d \in Databases |-> IF d \in deferred THEN h[d] - 1 ELSE h[d]]

Exit(r, h) ==
    /\ stage' = "exit" /\ result' = r
    /\ handles' = Closed(h)
    /\ UNCHANGED <<driver, cat, db, attempts, deferred, image, loop, seen, changes>>

\* sql.Open, or a DSN that cannot be built, which is not tried again.
OpenHandle ==
    /\ stage = "open"
    /\ handles' = [handles EXCEPT ![db] = @ + 1]
    /\ attempts' = attempts + 1
    /\ stage' = "ping"
    /\ UNCHANGED <<driver, cat, db, deferred, image, loop, result, seen, changes>>

NoDSN == stage = "open" /\ attempts = 0 /\ Exit("failed", handles)

\* Mutant of Retry: the attempts are not counted against their limit.
MutRetry(tried, h) ==
    /\ stage' = "wait" /\ handles' = h /\ attempts' = 0
    /\ UNCHANGED <<driver, cat, db, deferred, image, loop, result, seen, changes>>

\* Retry: every error of connecting is retryable; no wait after the last.
Retry(tried, h) ==
    \/ /\ tried < MaxAttempts
       /\ stage' = "wait" /\ handles' = h /\ attempts' = tried
       /\ UNCHANGED <<driver, cat, db, deferred, image, loop, result, seen, changes>>
    \/ /\ tried = MaxAttempts
       /\ Exit("failed", h)

OpenFails ==
    /\ stage = "open"
    /\ Retry(attempts + 1, handles)

\* Mutant of PingFails: the handle is not closed before the next attempt.
MutPingFails ==
    /\ stage = "ping"
    /\ Retry(attempts, handles)

PingFails ==
    /\ stage = "ping"
    /\ Retry(attempts, [handles EXCEPT ![db] = @ - 1])

Waited ==
    /\ stage = "wait"
    /\ stage' = "open"
    /\ UNCHANGED <<driver, cat, db, connection, image, loop, result, seen, changes>>

Connected ==
    /\ stage = "ping"
    /\ deferred' = deferred \cup {db}
    /\ attempts' = 0
    /\ IF db = "prod"
       THEN db' = "dev" /\ stage' = "open" /\ UNCHANGED seen
       ELSE /\ db' = "prod" /\ stage' = Head(Queries)
            /\ seen' = [seen EXCEPT !["prod"] = {cat["prod"]}]
    /\ UNCHANGED <<driver, cat, handles, image, loop, result, changes>>

----------------------------------------------------------------------------
(* Loading. *)

\* The next query of a loop, or of the plan; then the other database, and at
\* last the comparison.  A loop runs over the tables loaded so far.
Advance ==
    LET at == CHOOSE i \in DOMAIN Queries : Queries[i] = stage
    IN  /\ IF at < Len(Queries)
           THEN stage' = Queries[at + 1] /\ UNCHANGED <<db, seen>>
           ELSE IF db = "prod"
           THEN /\ db' = "dev" /\ stage' = Head(Queries)
                /\ seen' = [seen EXCEPT !["dev"] = {cat["dev"]}]
           ELSE stage' = "compare" /\ UNCHANGED <<db, seen>>
        /\ UNCHANGED <<driver, cat, connection, table, pending, result, changes>>

\* A query is answered in full and its rows change the image.
Answered(query, drivers) == stage = query /\ driver \in drivers

Load(new) ==
    /\ image' = [image EXCEPT ![db] = new]
    /\ todo' = DOMAIN new.tables
    /\ Advance

Loaded == image[db]
Here == cat[db]

LoadColumns ==
    /\ Answered("columns", {"mysql", "postgres", "mssql", "oracle"})
    /\ LET rows == CASE driver = "mysql" -> MySQLColumns(Here)
                     [] driver = "postgres" -> PostgreSQLColumns(Here)
                     [] driver = "mssql" -> MSSQLColumns(Here)
                     [] driver = "oracle" -> OracleColumns(Here)
       IN  Load([Loaded EXCEPT !.tables = ScanColumns(rows)])

SqliteTables ==
    /\ Answered("tables", {"sqlite"})
    /\ todo' = ListSqliteTables(Here)
    /\ Advance
    /\ UNCHANGED image

SqliteColumns ==
    /\ Answered("columns", {"sqlite"})
    /\ \E t \in todo :
           /\ todo' = todo \ {t}
           /\ image' = [image EXCEPT ![db].tables = Over([x \in {t} |-> ListSqliteColumns(Here, t)], @)]
    /\ UNCHANGED <<driver, cat, db, stage, connection, table, pending, result, seen, changes>>

\* A column that is NULL cannot be scanned: the load fails instead.
LoadIndexes ==
    /\ Answered("indexes", {"mysql", "postgres", "mssql", "oracle"})
    /\ LET rows == CASE driver = "mysql" -> MySQLIndexes(Here)
                     [] driver = "postgres" -> PostgreSQLIndexes(Here)
                     [] driver = "mssql" -> MSSQLIndexes(Here)
                     [] driver = "oracle" -> OracleIndexes(Here)
       IN  /\ Null \notin {r.col : r \in rows}
           /\ Load([Loaded EXCEPT !.tables = GroupIndexes(@, rows)])

SqliteIndexList ==
    /\ Answered("indexes", {"sqlite"})
    /\ pending = {}
    /\ \E t \in todo :
           /\ todo' = todo \ {t}
           /\ table' = t
           /\ pending' = SQLiteIndexList(Here, t)
    /\ UNCHANGED <<driver, cat, db, stage, connection, image, result, seen, changes>>

SqliteIndexInfo ==
    /\ Answered("indexes", {"sqlite"})
    /\ \E i \in pending :
           LET rows == SQLiteIndexInfo(Here, i.name)
               index == [cols |-> Columns(rows), unique |-> i.unique]
           IN  /\ Null \notin {r.col : r \in rows}
               /\ pending' = pending \ {i}
               /\ image' = [image EXCEPT ![db].tables[table].indexes =
                                Over([x \in {i.name} |-> index], @)]
    /\ UNCHANGED <<driver, cat, db, stage, connection, todo, table, result, seen, changes>>

\* PostgreSQL's rows repeat the columns of a key.
Kept(q) == IF driver = "postgres" THEN Distinct(q) ELSE q

LoadForeignKeys ==
    /\ Answered("fks", {"mysql", "postgres", "mssql", "oracle"})
    /\ LET rows == CASE driver = "mysql" -> MySQLForeignKeys(Here)
                     [] driver = "postgres" -> PostgreSQLForeignKeys(Here)
                     [] driver = "mssql" -> MSSQLForeignKeys(Here)
                     [] driver = "oracle" -> OracleForeignKeys(Here)
           Images(t) == GroupForeignKeys({r \in rows : r.table = t}, Kept)
           tables == DOMAIN Loaded.tables
       IN  \E keys \in {f \in [tables -> UNION {Images(t) : t \in tables}] :
                            \A t \in tables : f[t] \in Images(t)} :
               Load([Loaded EXCEPT !.tables = WithForeignKeys(@, keys)])

SqliteForeignKeys ==
    /\ Answered("fks", {"sqlite"})
    /\ \E t \in todo :
           LET rows == SQLiteForeignKeyList(Here, t)
           IN  /\ Null \notin {r.refCol : r \in rows}
               /\ todo' = todo \ {t}
               /\ \E keys \in GroupForeignKeys(rows, Kept) :
                      image' = [image EXCEPT ![db].tables[t].fks = keys]
    /\ UNCHANGED <<driver, cat, db, stage, connection, table, pending, result, seen, changes>>

\* SQLite: a loop over tables has come to its end.
LoopEnds ==
    /\ driver = "sqlite" /\ stage \in {"columns", "indexes", "fks"}
    /\ todo = {} /\ pending = {}
    /\ Load(Loaded)

LoadViews ==
    /\ Answered("views", {"mysql", "postgres", "sqlite"})
    /\ \E views \in CASE driver = "mysql" -> MySQLViews(Here)
                       [] driver = "postgres" -> PostgreSQLViews(Here, FALSE)
                       [] driver = "sqlite" -> SQLiteViews(Here) :
           Load([Loaded EXCEPT !.views = views])

LoadMaterializedViews ==
    /\ Answered("matviews", {"postgres"})
    /\ \E views \in PostgreSQLViews(Here, TRUE) :
           Load([Loaded EXCEPT !.views = Over(views, @)])

LoadRoutines ==
    /\ Answered("routines", {"mysql", "postgres"})
    /\ \E routines \in CASE driver = "mysql" -> MySQLRoutines(Here)
                          [] driver = "postgres" -> PostgreSQLRoutines(Here) :
           Load([Loaded EXCEPT !.routines = routines])

LoadParameters ==
    /\ Answered("parameters", {"mysql"})
    /\ \E routines \in MySQLParameters(Here, Loaded.routines) :
           Load([Loaded EXCEPT !.routines = routines])

LoadTriggers ==
    /\ Answered("triggers", {"mysql", "postgres", "sqlite"})
    /\ \E triggers \in CASE driver = "mysql" -> MySQLTriggers(Here)
                          [] driver = "postgres" -> PostgreSQLTriggers(Here)
                          [] driver = "sqlite" -> SQLiteTriggers(Here) :
           Load([Loaded EXCEPT !.triggers = triggers])

LoadSequences ==
    /\ Answered("sequences", {"postgres"})
    /\ \E sequences \in PostgreSQLSequences(Here) :
           Load([Loaded EXCEPT !.sequences = sequences])

\* A query fails, or a row of it cannot be scanned.
QueryFails == Loading /\ Exit("failed", handles)

----------------------------------------------------------------------------
(* Comparing. *)

\* Two maps, of which a part is missing on one side or is not the same.
Differ(prod, dev, Same(_, _)) ==
    \/ DOMAIN prod # DOMAIN dev
    \/ \E n \in DOMAIN prod : ~ Same(prod[n], dev[n])

\* Texts are compared as diff.go normalizes them: without white space around
\* them, quotes around a default, their case, an action that is the usual one.
DiffColumns(prod, dev) ==
    Differ(prod, dev, LAMBDA p, d : Normal("column", p) = Normal("column", d))

DiffIndexes(prod, dev) ==
    Differ(prod, dev, LAMBDA p, d : p.cols = d.cols /\ p.unique = d.unique)

DiffForeignKeys(prod, dev) ==
    Differ(prod, dev, LAMBDA p, d :
               /\ p.cols = d.cols
               /\ p.refTable = d.refTable /\ p.refCols = d.refCols
               /\ Normal("rules", p.rules) = Normal("rules", d.rules))

DiffPrimaryKey(prod, dev) == prod # dev

DiffTables(prod, dev) ==
    Differ(prod, dev, LAMBDA p, d :
               ~ \/ DiffColumns(p.cols, d.cols)
                 \/ DiffIndexes(p.indexes, d.indexes)
                 \/ DiffForeignKeys(p.fks, d.fks)
                 \/ DiffPrimaryKey(p.key, d.key))

DiffViews(prod, dev) ==
    Differ(prod, dev, LAMBDA p, d :
               /\ Normal("view", p.def) = Normal("view", d.def)
               /\ p.mat = d.mat)

DiffRoutines(prod, dev) ==
    Differ(prod, dev, LAMBDA p, d :
               /\ Normal("kind", p.kind) = Normal("kind", d.kind)
               /\ Normal("routine", p.def) = Normal("routine", d.def)
               /\ Normal("params", p.params) = Normal("params", d.params))

\* The table that owns a trigger is not compared.
DiffTriggers(prod, dev) ==
    Differ(prod, dev, LAMBDA p, d : Normal("trigger", p.def) = Normal("trigger", d.def))

DiffSequences(prod, dev) == Differ(prod, dev, LAMBDA p, d : p.def = d.def)

HasDrift(prod, dev) ==
    \/ DiffTables(prod.tables, dev.tables)
    \/ DiffViews(prod.views, dev.views)
    \/ DiffRoutines(prod.routines, dev.routines)
    \/ DiffTriggers(prod.triggers, dev.triggers)
    \/ DiffSequences(prod.sequences, dev.sequences)

Compare ==
    /\ stage = "compare"
    /\ Exit(IF HasDrift(image["prod"], image["dev"]) THEN "drift" ELSE "match", handles)

ReportFails == stage = "compare" /\ Exit("failed", handles)

----------------------------------------------------------------------------
(* The specification. *)

\* Another client commits a change of a schema.
OtherClient ==
    /\ Loading /\ changes < MaxChanges
    /\ \E d \in Databases : \E new \in Worlds(driver, d) \ {cat[d]} :
           /\ cat' = [cat EXCEPT ![d] = new]
           /\ seen' = IF d = db THEN [seen EXCEPT ![d] = @ \cup {new}] ELSE seen
    /\ changes' = changes + 1
    /\ UNCHANGED <<driver, db, stage, connection, image, loop, result>>

Connect == OpenHandle \/ NoDSN \/ OpenFails \/ PingFails \/ Waited \/ Connected

LoadSchema ==
    \/ LoadColumns \/ SqliteTables \/ SqliteColumns
    \/ LoadIndexes \/ SqliteIndexList \/ SqliteIndexInfo
    \/ LoadForeignKeys \/ SqliteForeignKeys \/ LoopEnds
    \/ LoadViews \/ LoadMaterializedViews
    \/ LoadRoutines \/ LoadParameters \/ LoadTriggers \/ LoadSequences
    \/ QueryFails

Command == Connect \/ LoadSchema \/ Compare \/ ReportFails

DiffNext == Command \/ OtherClient

\* The command goes on: a query returns, a delay passes.
DiffSpec == DiffInit /\ [][DiffNext]_diffVars /\ WF_diffVars(Command)

----------------------------------------------------------------------------
(* What a load is meant to see, by object instead of by query. *)

AsTuple(t) == <<"table", t.name, [n \in {x.name : x \in Range(t.cols)} |->
                    Scanned((CHOOSE x \in Range(t.cols) : x.name = n).def)], t.key>>

\* What stands in the place of a table: three drivers list views as well, and
\* a relation without columns, as PostgreSQL has them, is not listed.
Relations(c) ==
    {t \in c.tables \cup CASE driver = "postgres" -> AsTables({v \in c.views : ~ v.mat})
                           [] driver \in {"mssql", "oracle"} -> AsTables(c.views)
                           [] OTHER -> {} :
        t.cols # << >>}

\* The columns an index is reported with; none if it is not reported.
Reported(i) ==
    CASE driver = "postgres" ->
            LET all == i.cols \o i.included
            IN  Picked(all, {k \in DOMAIN all : all[k] # Null})
      [] driver = "sqlite" /\ i.origin # "c" -> << >>
      [] driver = "oracle" /\ Null \in Range(i.cols) -> << >>
      [] OTHER -> i.cols

\* The queries list no index of a primary key, and SQL Server's none of a view.
IndexListed(c, i) ==
    /\ i.origin # "pk" /\ Reported(i) # << >>
    /\ driver = "mssql" => i.table \in {t.name : t \in c.tables}

\* Two drivers' list no foreign key onto another schema, and SQL Server's none
\* onto an index that is not a constraint's.
KeyListed(c, f) ==
    CASE driver \in {"postgres", "oracle"} -> f.refSchema = c.schema
      [] driver = "mssql" -> f.refKey # Null
      [] OTHER -> TRUE

PartsOfTables(c) ==
    LET tables == {t \in Relations(c) : ~ Skipped(IgnoreTables, t.name)}
        names == {t.name : t \in tables}
    IN  {AsTuple(t) : t \in tables}
        \cup {<<"index", i.table, i.name, Reported(i), i.unique>> :
                i \in {x \in c.indexes : x.table \in names /\ IndexListed(c, x)}}
        \cup {<<"fk", f.table, f.name, f.cols, f.refTable, f.refCols,
                 IF driver = "oracle" THEN <<f.rules[1], "NO ACTION">> ELSE f.rules>> :
                f \in {x \in c.fks : x.table \in names /\ KeyListed(c, x)}}

PartsOutsideTables(c) ==
    LET Of(drivers, parts) == IF driver \in drivers THEN parts ELSE {}
        ViewText(v) ==
            CASE driver = "mysql" ->
                    <<IF v.def[1] = c.schema THEN "" ELSE v.def[1], v.def[2]>>
              [] driver = "postgres" -> Trimmed(v.def)
              [] OTHER -> AfterAs(v.def)
        TriggerText(t) ==
            CASE driver = "mysql" -> t.def
              [] driver = "postgres" -> Trimmed(<<t.def, t.table>>)
              [] OTHER -> <<t.def, t.table>>
    IN  Of({"mysql", "postgres", "sqlite"},
           {<<"view", v.name, ViewText(v), v.mat>> :
                v \in {x \in c.views : ~ Skipped(IgnoreViews, x.name)}}
           \cup {<<"trigger", t.name, TriggerText(t), t.table>> :
                   t \in {x \in c.triggers : ~ Skipped(IgnoreTriggers, x.name)}})
        \cup Of({"mysql", "postgres"},
                {IF driver = "mysql"
                 THEN <<"routine", r.name, r.kind, r.def, r.params>>
                 ELSE <<"routine", r.name, r.kind, Trimmed(<<r.def, r.params>>), << >>>> :
                    r \in {x \in c.routines : ~ Skipped(IgnoreRoutines, x.name)}})
        \cup Of({"postgres"},
                {<<"sequence", s.name, s.def>> :
                    s \in {x \in c.sequences : ~ Skipped(IgnoreSequences, x.name)}})

Parts(c) == PartsOfTables(c) \cup PartsOutsideTables(c)

\* What was loaded, in the same form.
PartsOfImage(img) ==
    LET Tables == {<<t, img.tables[t]>> : t \in DOMAIN img.tables}
        Name(n) == IF driver = "postgres" THEN n[2] ELSE n
    IN  {<<"table", x[1], x[2].cols, x[2].key>> : x \in Tables}
        \cup (UNION {{<<"index", x[1], n, x[2].indexes[n].cols, x[2].indexes[n].unique>> :
                         n \in DOMAIN x[2].indexes} : x \in Tables})
        \cup (UNION {{<<"fk", x[1], n, x[2].fks[n].cols, x[2].fks[n].refTable,
                        x[2].fks[n].refCols, x[2].fks[n].rules>> :
                         n \in DOMAIN x[2].fks} : x \in Tables})
        \cup {<<"view", Name(n), img.views[n].def, img.views[n].mat>> :
                n \in DOMAIN img.views}
        \cup {<<"routine", n, img.routines[n].kind, img.routines[n].def,
                 img.routines[n].params>> : n \in DOMAIN img.routines}
        \cup {<<"trigger", n, img.triggers[n].def, img.triggers[n].table>> :
                n \in DOMAIN img.triggers}
        \cup {<<"sequence", n, img.sequences[n].def>> : n \in DOMAIN img.sequences}

\* No two objects share what the loaders tell them apart by: no constraint of
\* another table or schema has the name of a PostgreSQL foreign key, which has one
\* column, so that its rows do not pair those of others; and no key here has the
\* name of the key of another schema that an Oracle foreign key refers to.
Unambiguous(c) ==
    LET Unique(objects) == \A x, y \in objects : x.name = y.name => x = y
        Apart(objects, name) == \A x \in objects : x.name # name
    IN  /\ Unique(c.routines)
        /\ driver = "postgres" =>
               /\ Unique(c.triggers) /\ Unique(c.fks)
               /\ \A f \in c.fks : Len(f.cols) = 1 /\ Apart(c.constraints, f.name)
        /\ driver = "oracle" =>
               \A f \in c.fks : f.refSchema # c.schema => Apart(KeyConstraints(c), f.refKey)

\* Parts that the code puts together from two queries, of which each was
\* answered truly: an SQLite table that was dropped after it was listed, an
\* SQLite index and a MySQL routine that changed in between, and an index of a
\* PostgreSQL materialized view that replaced what the columns were read of.
OfTwoQueries(p, catalogs) ==
    \/ /\ driver = "sqlite" /\ p[1] = "table"
       /\ p[3] = << >> /\ \E c \in catalogs : p[2] \in {t.name : t \in c.tables}
    \/ /\ driver = "sqlite" /\ p[1] = "index"
       /\ \E i \in UNION {c.indexes : c \in catalogs} :
              i.table = p[2] /\ i.name = p[3] /\ i.unique = p[5]
       /\ p[4] = << >> \/ \E i \in UNION {c.indexes : c \in catalogs} :
              i.name = p[3] /\ i.cols = p[4]
    \/ /\ driver = "mysql" /\ p[1] = "routine"
       /\ \E r \in UNION {c.routines : c \in catalogs} :
              r.name = p[2] /\ r.kind = p[3] /\ r.def = p[4]
       /\ p[5] = << >> \/ \E r \in UNION {c.routines : c \in catalogs} :
              r.name = p[2] /\ r.params = p[5]
    \/ /\ driver = "postgres" /\ p[1] = "index"
       /\ \E c \in catalogs : p[2] \in {t.name : t \in Relations(c)}
       /\ \E c \in catalogs : \E i \in c.indexes :
              /\ i.origin # "pk" /\ p = <<"index", i.table, i.name, Reported(i), i.unique>>
              /\ \E v \in c.views : v.mat /\ v.name = i.table

----------------------------------------------------------------------------
(* Properties. *)

Compared == result \in {"match", "drift"}

\* Whatever other clients do between the queries of LoadSchema, each part of
\* a schema that is compared stood in the database at one moment of its load:
\* no table appears without its columns because a later query names it, none
\* that is ignored, and no part mixes two objects.  (introspect.go; the
\* exceptions are the loaders that ask twice.)
PartsStood ==
    Compared => \A d \in Databases :
        (\A c \in seen[d] : Unambiguous(c)) =>
            LET stood == UNION {Parts(c) : c \in seen[d]}
            IN  \A p \in PartsOfImage(image[d]) :
                    \/ p \in stood
                    \/ Cardinality(seen[d]) > 1 /\ OfTwoQueries(p, seen[d])

\* As much of a catalog as the comparison looks at: texts as it normalizes them,
\* a trigger without its table, a PostgreSQL view with the name of its schema.
Known(c) ==
    {CASE p[1] = "table" ->
            <<"table", p[2], [n \in DOMAIN p[3] |-> Normal("column", p[3][n])], p[4]>>
       [] p[1] = "fk" ->
            <<"fk", p[2], p[3], p[4], p[5], p[6], Normal("rules", p[7])>>
       [] p[1] = "view" ->
            <<"view", IF driver = "postgres" THEN c.schema ELSE "", p[2],
              Normal("view", p[3]), p[4]>>
       [] p[1] = "routine" ->
            <<"routine", p[2], Normal("kind", p[3]), Normal("routine", p[4]),
              Normal("params", p[5])>>
       [] p[1] = "trigger" -> <<"trigger", p[2], Normal("trigger", p[3])>>
       [] OTHER -> p :
     p \in Parts(c)}

\* When nobody changes the databases while they are read, schema-diff says
\* "match" exactly if they have the same objects, as far as their driver's
\* queries go and up to what the loaders cut of a text and the comparison
\* normalizes: no drift because of the databases' names, of ignored objects
\* or of the order of rows, and no other difference unseen.  (DiffSchemas,
\* HasDrift, normalizeViewDefinition and its like.)
VerdictSound ==
    Compared => \A prod \in seen["prod"], dev \in seen["dev"] :
        (/\ seen["prod"] = {prod} /\ seen["dev"] = {dev}
         /\ Unambiguous(prod) /\ Unambiguous(dev)) =>
            (result = "match" <=> Known(prod) = Known(dev))

\* However connecting goes, and wherever a query fails, the command leaves no
\* handle open when it returns, and never has two to one database: Open closes
\* the handle whose ping failed before it tries again.  (drivers.go 35-52.)
HandlesClosed ==
    /\ \A d \in Databases : handles[d] \in 0..1
    /\ stage = "exit" => \A d \in Databases : handles[d] = 0

\* The command returns: connecting is tried a bounded number of times and
\* every loop over tables and indexes comes to its end.  (retry.go 57-91.)
CommandReturns == <>(stage = "exit")
=============================================================================

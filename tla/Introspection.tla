---------------------------- MODULE Introspection ----------------------------
(***************************************************************************)
(* What internal/schema/introspect.go makes of a database: the rows that   *)
(* each driver's queries return and the maps that the loaders build of     *)
(* them.  Operators only; SchemaDiff says when which query is run.         *)
(*                                                                         *)
(* A catalog is what the queries see, in the words of the database:        *)
(*   schema    the name of the database (MySQL) or of the current schema   *)
(*   tables    [name, cols, key]: cols a sequence of [name, def], def the  *)
(*             type, nullability and default; key a sequence of names      *)
(*   views     [name, def, mat, cols]: mat if materialized; a MySQL        *)
(*             definition is a pair of a schema it names and the rest, an  *)
(*             SQLite one the whole statement                              *)
(*   indexes   [table, name, cols, included, unique, origin]: origin "pk"  *)
(*             or "u" for the index of a constraint, else "c"              *)
(*   fks       [table, name, cols, refSchema, refTable, refCols, refKey,   *)
(*             rules]: refCols by position in the key referred to, refKey  *)
(*             its name, Null if it is but a unique index; rules for       *)
(*             deletes and updates; the name of an SQLite one is the       *)
(*             number that SQLite gives it                                 *)
(*   constraints [table, name, cols, key]: the others, key if it is a      *)
(*             primary key or unique constraint; those that use columns    *)
(*             of a table here are checks, and keys of other schemas       *)
(*   routines  [name, kind, def, params], triggers [name, table, def],     *)
(*   sequences [name, def]                                                 *)
(* A part of an index that is an expression, and a referenced column that  *)
(* SQLite leaves out, is Null.  What the loaders and the comparison do to  *)
(* a text are operators whose arguments they need not keep apart.          *)
(***************************************************************************)
EXTENDS Naturals, Sequences, FiniteSets, FiniteSetsExt, SequencesExt

CONSTANTS
    Null,             \* SQL's NULL
    Lower(_),         \* strings.ToLower
    Scanned(_),       \* a column's type in lower case, nullable or not, default
    Trimmed(_),       \* strings.TrimSpace
    AfterAs(_),       \* an SQLite view from the first " as " on, or all of it
    Normal(_, _),     \* of a kind and a definition: what diff.go compares of it
    IgnoreTables,     \* the names under ignore in the configuration
    IgnoreViews,
    IgnoreRoutines,
    IgnoreTriggers,
    IgnoreSequences

Skipped(ignore, name) == Lower(name) \in {Lower(n) : n \in ignore}

Named(rows, ignore) == {r.name : r \in {x \in rows : ~ Skipped(ignore, x.name)}}

\* All maps from the names to one of their rows: the last one of a name
\* stays, and ORDER BY the name leaves the order of equal names open.
ByName(rows, ignore, Value(_)) ==
    {[n \in DOMAIN pick |-> Value(pick[n])] :
        pick \in {f \in [Named(rows, ignore) -> rows] :
                      \A n \in DOMAIN f : f[n].name = n}}

\* All sequences of the rows in the order of their field pos.
Orderings(rows) ==
    {q \in SetToSeqs(rows) :
        \A i, j \in DOMAIN q : i < j => q[i].pos <= q[j].pos}

\* The columns of the rows by position, where no two rows share one.
Columns(rows) ==
    LET q == CHOOSE q \in Orderings(rows) : TRUE
    IN  [i \in DOMAIN q |-> q[i].col]

\* The n-th of a set of numbers, and what a sequence has at such places.
Nth(places, n) == CHOOSE k \in places : Cardinality({j \in places : j <= k}) = n

Picked(q, places) == [n \in 1 .. Cardinality(places) |-> q[Nth(places, n)]]

\* The entries of a map put over those of another.
Over(new, old) ==
    [x \in DOMAIN new \cup DOMAIN old |-> IF x \in DOMAIN new THEN new[x] ELSE old[x]]

----------------------------------------------------------------------------
(* Columns and primary keys. *)

\* The position of a column in the primary key, zero for none.
KeyPosition(t, col) ==
    IF col \in Range(t.key) THEN CHOOSE i \in DOMAIN t.key : t.key[i] = col
    ELSE 0

ColumnRows(tables) ==
    UNION {{[table |-> t.name, col |-> c.name, def |-> c.def,
             pos |-> KeyPosition(t, c.name)] : c \in Range(t.cols)} :
           t \in tables}

\* information_schema.columns and its like list the columns of views, too.
AsTables(views) == {[name |-> v.name, cols |-> v.cols, key |-> << >>] : v \in views}

MySQLColumns(c) == ColumnRows(c.tables)

PostgreSQLColumns(c) ==
    ColumnRows(c.tables \cup AsTables({v \in c.views : ~ v.mat}))

MSSQLColumns(c) == ColumnRows(c.tables \cup AsTables(c.views))

OracleColumns(c) == ColumnRows(c.tables \cup AsTables(c.views))

NoParts == << >>

Table(rows) ==
    [cols |-> [n \in {r.col : r \in rows} |->
                   Scanned((CHOOSE r \in rows : r.col = n).def)],
     key |-> Columns({r \in rows : r.pos > 0}),
     indexes |-> NoParts, fks |-> NoParts]

ScanColumns(rows) ==
    [t \in {r.table : r \in {x \in rows : ~ Skipped(IgnoreTables, x.table)}} |->
        Table({r \in rows : r.table = t})]

ListSqliteTables(c) == Named(c.tables, IgnoreTables)

\* PRAGMA table_info of a table that is gone returns no row.
ListSqliteColumns(c, table) ==
    Table({r \in ColumnRows(c.tables) : r.table = table})

----------------------------------------------------------------------------
(* Indexes. *)

IndexRows(i, cols) ==
    {[table |-> i.table, name |-> i.name, col |-> cols[k], pos |-> k,
      unique |-> i.unique] : k \in DOMAIN cols}

Secondary(indexes) == {i \in indexes : i.origin # "pk"}

MySQLIndexes(c) == UNION {IndexRows(i, i.cols) : i \in Secondary(c.indexes)}

\* The join with pg_attribute drops expressions; indkey holds the included
\* columns as well.
PostgreSQLIndexes(c) ==
    UNION {{r \in IndexRows(i, i.cols \o i.included) : r.col # Null} :
           i \in Secondary(c.indexes)}

\* The join with sys.tables drops the indexes of views.
MSSQLIndexes(c) ==
    UNION {IndexRows(i, i.cols) :
           i \in {x \in Secondary(c.indexes) : x.table \in {t.name : t \in c.tables}}}

\* An index with an expression is not of type NORMAL.
OracleIndexes(c) ==
    UNION {IndexRows(i, i.cols) :
           i \in {x \in Secondary(c.indexes) : Null \notin Range(x.cols)}}

\* PRAGMA index_list without the indexes of constraints.
SQLiteIndexList(c, table) ==
    {[name |-> i.name, unique |-> i.unique] :
        i \in {x \in c.indexes : x.table = table /\ x.origin = "c"}}

\* PRAGMA index_info finds an index by its name.
SQLiteIndexInfo(c, name) ==
    UNION {IndexRows(i, i.cols) : i \in {x \in c.indexes : x.name = name}}

\* Mutant of GroupIndexes: an entry brings its table with it.
MutGroupIndexes(tables, rows) ==
    [t \in DOMAIN tables \cup {r.table : r \in rows} |->
        LET Of(n) == {r \in rows : r.table = t /\ r.name = n}
        IN  [(IF t \in DOMAIN tables THEN tables[t] ELSE Table({})) EXCEPT !.indexes =
                [n \in {r.name : r \in {x \in rows : x.table = t}} |->
                    [cols |-> Columns(Of(n)),
                     unique |-> (CHOOSE r \in Of(n) : TRUE).unique]]]]

\* Entries of tables that were not loaded are left out.
GroupIndexes(tables, rows) ==
    [t \in DOMAIN tables |->
        LET Of(n) == {r \in rows : r.table = t /\ r.name = n}
        IN  [tables[t] EXCEPT !.indexes =
                [n \in {r.name : r \in {x \in rows : x.table = t}} |->
                    [cols |-> Columns(Of(n)),
                     unique |-> (CHOOSE r \in Of(n) : TRUE).unique]]]]

----------------------------------------------------------------------------
(* Foreign keys. *)

ForeignKeyRows(f) ==
    {[table |-> f.table, name |-> f.name, col |-> f.cols[k], pos |-> k,
      refTable |-> f.refTable, refCol |-> f.refCols[k], rules |-> f.rules] :
     k \in DOMAIN f.cols}

MySQLForeignKeys(c) == UNION {ForeignKeyRows(f) : f \in c.fks}

\* The join with the columns of the key drops what refers to an index.
MSSQLForeignKeys(c) ==
    UNION {ForeignKeyRows(f) : f \in {x \in c.fks : x.refKey # Null}}

\* What has a name, and what key_column_usage and its like list of it.
Called(objects, name) == {x \in objects : x.name = name}

KeyConstraints(c) == c.fks \cup {k \in c.constraints : k.key}

\* Oracle has no ON UPDATE.  USER_CONSTRAINTS holds the keys of the user alone,
\* and they are found by the name alone: a foreign key onto the table of another
\* user meets what has the name of its key here, by position.
OracleForeignKeys(c) ==
    LET Met(f, k) ==
            {[table |-> f.table, name |-> f.name, col |-> f.cols[i], pos |-> i,
              refTable |-> k.table, refCol |-> k.cols[i],
              rules |-> <<f.rules[1], "NO ACTION">>] :
             i \in DOMAIN f.cols \cap DOMAIN k.cols}
    IN  UNION {IF f.refSchema = c.schema
               THEN ForeignKeyRows([f EXCEPT !.rules = <<@[1], "NO ACTION">>])
               ELSE UNION {Met(f, k) : k \in Called(KeyConstraints(c), f.refKey)} :
               f \in c.fks}

SQLiteForeignKeyList(c, table) ==
    UNION {ForeignKeyRows(f) : f \in {x \in c.fks : x.table = table}}

\* The views of information_schema are joined by the constraint's name alone:
\* every column of a key of that name meets every column here that a constraint
\* of that name uses, a foreign key those it refers to.
PostgreSQLForeignKeys(c) ==
    LET Keyed(n) ==
            UNION {{<<x.cols[k], k>> : k \in DOMAIN x.cols} :
                      x \in Called(KeyConstraints(c), n)}
        Used(n) ==
            UNION ({{<<x.refTable, col>> : col \in Range(x.refCols)} :
                       x \in {f \in Called(c.fks, n) : f.refSchema = c.schema}}
                   \cup {{<<x.table, col>> : col \in Range(x.cols)} :
                            x \in Called(c.constraints, n)})
    IN  UNION {{[table |-> f.table, name |-> f.name, col |-> at[1], pos |-> at[2],
                 refTable |-> use[1], refCol |-> use[2], rules |-> g.rules] :
                at \in Keyed(f.name), use \in Used(f.name),
                g \in Called(c.fks, f.name)} :
               f \in c.fks}

\* A list without repetitions, as containsString keeps it.
Distinct(q) == Picked(q, {k \in DOMAIN q : \A j \in 1 .. k - 1 : q[j] # q[k]})

ForeignKey(q, Kept(_)) ==
    [cols |-> Kept([i \in DOMAIN q |-> q[i].col]),
     refTable |-> q[1].refTable,
     refCols |-> Kept([i \in DOMAIN q |-> q[i].refCol]),
     rules |-> q[1].rules]

\* All images of a table's foreign keys: one for each order of the rows.
GroupForeignKeys(rows, Kept(_)) ==
    LET names == {r.name : r \in rows}
        Images(n) == {ForeignKey(q, Kept) : q \in Orderings({r \in rows : r.name = n})}
    IN  {f \in [names -> UNION {Images(n) : n \in names}] :
            \A n \in names : f[n] \in Images(n)}

WithForeignKeys(tables, keys) ==
    [t \in DOMAIN tables |-> [tables[t] EXCEPT !.fks = keys[t]]]

----------------------------------------------------------------------------
(* Views, routines, triggers and sequences. *)

View(def, mat) == [def |-> def, mat |-> mat]

\* Mutant of StripMySQLSchemaPrefix: the definition is taken as it is stored.
MutStripMySQLSchemaPrefix(def, schema) == def

StripMySQLSchemaPrefix(def, schema) ==
    IF def[1] = schema THEN <<"", def[2]>> ELSE def

MySQLViews(c) ==
    ByName(c.views, IgnoreViews,
           LAMBDA v : View(StripMySQLSchemaPrefix(v.def, c.schema), FALSE))

\* The two kinds are read by two queries, under their qualified names.
PostgreSQLViews(c, mat) ==
    LET rows == {v \in c.views : v.mat = mat}
    IN  {[q \in {<<c.schema, n>> : n \in DOMAIN views} |-> views[q[2]]] :
            views \in ByName(rows, IgnoreViews, LAMBDA v : View(Trimmed(v.def), mat))}

\* The text is cut at the first " as ", which need not be that of the statement.
SQLiteViews(c) == ByName(c.views, IgnoreViews, LAMBDA v : View(AfterAs(v.def), FALSE))

Routine(r, params) == [kind |-> r.kind, def |-> r.def, params |-> params]

MySQLRoutines(c) ==
    ByName(c.routines, IgnoreRoutines, LAMBDA r : Routine(r, << >>))

MySQLParameterRows(c) ==
    UNION {{[name |-> r.name, kind |-> r.kind, pos |-> k, col |-> r.params[k]] :
            k \in DOMAIN r.params} : r \in c.routines}

\* The second query names no kind: a function and a procedure of one name
\* give their parameters to the one that is on the map.
MySQLParameters(c, routines) ==
    LET Lists(n) ==
            {[i \in DOMAIN q |-> q[i].col] :
                q \in Orderings({r \in MySQLParameterRows(c) : r.name = n})}
    IN  {[n \in DOMAIN routines |-> [routines[n] EXCEPT !.params = f[n]]] :
            f \in {g \in [DOMAIN routines ->
                              UNION {Lists(n) : n \in DOMAIN routines}] :
                       \A n \in DOMAIN routines : g[n] \in Lists(n)}}

\* The definition holds the parameters.
PostgreSQLRoutines(c) ==
    ByName(c.routines, IgnoreRoutines,
           LAMBDA r : [kind |-> r.kind, def |-> Trimmed(<<r.def, r.params>>),
                       params |-> << >>])

Trigger(t) == [table |-> t.table, def |-> t.def]

MySQLTriggers(c) == ByName(c.triggers, IgnoreTriggers, Trigger)

\* The definition names the table.
PostgreSQLTriggers(c) ==
    ByName(c.triggers, IgnoreTriggers,
           LAMBDA t : [table |-> t.table, def |-> Trimmed(<<t.def, t.table>>)])

SQLiteTriggers(c) ==
    ByName(c.triggers, IgnoreTriggers,
           LAMBDA t : [table |-> t.table, def |-> <<t.def, t.table>>])

PostgreSQLSequences(c) ==
    ByName(c.sequences, IgnoreSequences, LAMBDA s : [def |-> s.def])
=============================================================================

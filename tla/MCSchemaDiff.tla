---------------------------- MODULE MCSchemaDiff ----------------------------
(* Catalogs of a shop for schema-diff.                                       *)
EXTENDS SchemaDiff

MCLower(name) == IF name \in {"Audit", "AUDIT"} THEN "audit" ELSE name

\* What the loaders and the comparison do to the texts used below.
MCScanned(def) == IF def = "INT" THEN "int" ELSE def

MCTrimmed(text) == IF text[1] = " body" THEN <<"body", text[2]>> ELSE text

MCAfterAs(text) == IF text[1] = "create" THEN <<"", text[2]>> ELSE text

MCNormal(kind, x) ==
    CASE kind = "column" /\ x = "'0'" -> "0"
      [] kind = "view" /\ x[2] = "SELECT" -> <<x[1], "select">>
      [] kind = "rules" /\ x[2] = "" -> <<x[1], "NO ACTION">>
      [] OTHER -> x

Cols(names) == [i \in DOMAIN names |-> [name |-> names[i], def |-> "INT"]]

Index(t, n, cols, unique, origin) ==
    [table |-> t, name |-> n, cols |-> cols, included |-> << >>,
     unique |-> unique, origin |-> origin]

Key(t, n, cols, ref, refCols) ==
    [table |-> t, name |-> n, cols |-> cols, refSchema |-> "public", refTable |-> ref,
     refCols |-> refCols, refKey |-> "pk", rules |-> <<"CASCADE", "NO ACTION">>]

Constraint(t, n, cols, key) == [table |-> t, name |-> n, cols |-> cols, key |-> key]

Fn(kind, def, params) == [name |-> "f", kind |-> kind, def |-> def, params |-> params]

Orders == [name |-> "orders", cols |-> Cols(<<"id", "ref">>), key |-> <<"id">>]
Lines == [name |-> "lines", cols |-> Cols(<<"ord", "no">>), key |-> <<"no", "ord">>]
Audit == [name |-> "Audit", cols |-> Cols(<<"id">>), key |-> <<"id">>]

\* The name of an index is unique in a table (MySQL, SQL Server) or a schema.
Second(drv) == IF drv \in {"mysql", "mssql"} THEN "ix" ELSE "ix2"

ShopView(drv, d) ==
    [name |-> "v", mat |-> FALSE, cols |-> Cols(<<"id">>),
     def |-> CASE drv = "mysql" -> <<d, "select">>
               [] drv = "sqlite" -> <<"create", "select">>
               [] OTHER -> <<" body", "select">>]

Shop(drv, d) ==
    [schema |-> IF drv = "mysql" THEN d ELSE "public",
     tables |-> {Orders, Lines, Audit},
     indexes |-> {Index("orders", "pk", <<"id">>, TRUE, "pk"),
                  Index("orders", "ix", <<"ref", "id">>, TRUE, "c"),
                  Index("lines", "uq", <<"ord">>, TRUE, "u"),
                  Index("lines", Second(drv), <<"ord">>, FALSE, "c"),
                  Index("Audit", "ia", <<"id">>, FALSE, "c")},
     fks |-> {Key("lines", "k", <<"ord">>, "orders", <<"id">>)},
     constraints |-> {Constraint("orders", "pk", <<"id">>, TRUE),
                      Constraint("lines", "ck", <<"no">>, FALSE)},
     views |-> {ShopView(drv, d)} \cup
               {[ShopView(drv, x) EXCEPT !.name = "tmp"] :
                   x \in {d} \cap IF drv \in {"mysql", "sqlite"} THEN {"dev"} ELSE {}},
     routines |-> {Fn("FUNCTION", "body", <<"x", "y">>)},
     triggers |-> {[name |-> "tr", table |-> "orders", def |-> "log"]},
     sequences |-> {[name |-> "s", def |-> "1"]}]

\* Without the table lines and what belongs to it.
Small(c) ==
    [c EXCEPT !.tables = @ \ {Lines},
              !.indexes = {i \in @ : i.table # "lines"}, !.fks = {},
              !.constraints = {k \in @ : k.table # "lines"}]

\* One definition differs.
Wide(c) == [c EXCEPT !.tables = (@ \ {Lines}) \cup
                                    {[Lines EXCEPT !.cols = Append(@, [name |-> "qty", def |-> "int"])]}]
Bare(c) == [c EXCEPT !.tables = @ \cup {[name |-> "bare", cols |-> << >>, key |-> << >>]}]
Tenant(c) == [c EXCEPT !.schema = "tenant"]
Indexed(c) == [c EXCEPT !.indexes =
                  {IF i.name = "ix" /\ i.table = "orders"
                   THEN [i EXCEPT !.cols = <<"id", "ref">>, !.unique = FALSE] ELSE i : i \in @}]
Rewritten(c) == [c EXCEPT !.routines = {Fn("FUNCTION", "other", <<"x">>)},
                          !.sequences = {[name |-> "s", def |-> "2"]}]
Moved(c) == [c EXCEPT !.triggers = {[name |-> "tr", table |-> "lines", def |-> "log"]}]
Audited(c) == [c EXCEPT !.tables = (@ \ {Audit}) \cup {[Audit EXCEPT !.key = << >>]}]
\* Only a materialized view may have an index.
Materialized(c) == [c EXCEPT !.views = {[v EXCEPT !.mat = TRUE] : v \in @},
                             !.indexes = @ \cup {Index("v", "iv", <<"id">>, TRUE, "c")}]
Foreign(c) == [c EXCEPT !.views = {[v EXCEPT !.def = <<"prod", "select">>] : v \in @}]
Expression(c) == [c EXCEPT !.indexes = @ \cup
                     {[Index("orders", "ie", <<"ref", Null>>, FALSE, "c")
                          EXCEPT !.included = <<"id">>]}]

\* A view to ignore, which three drivers list among the tables.
Scratch(c) ==
    [c EXCEPT !.views = @ \cup {[name |-> "tmp", mat |-> FALSE, cols |-> Cols(<<"id">>),
                                 def |-> <<"body", "select">>]}]

\* The same in other words, and a statement that is cut elsewhere.
Reworded(c) ==
    [c EXCEPT !.tables = {IF t.name = "orders"
                          THEN [t EXCEPT !.cols[2].def = "int"] ELSE t : t \in @},
              !.views = {[v EXCEPT !.def[2] = "SELECT"] : v \in @},
              !.fks = {[f EXCEPT !.rules = <<"CASCADE", "">>] : f \in @}]
Recut(c) == [Reworded(c) EXCEPT !.views = {[v EXCEPT !.def[1] = "newline"] : v \in @}]
Quoted(c, def) == [c EXCEPT !.tables = {IF t.name = "orders"
                       THEN [t EXCEPT !.cols[2].def = def] ELSE t : t \in @}]
Untrimmed(c) == [Reworded(c) EXCEPT !.views = {[v EXCEPT !.def[1] = "body"] : v \in @}]

\* Keys onto a unique index and onto another schema, and an index of a view.
Unlisted(c) == [c EXCEPT !.fks = @ \cup {[Key("orders", "k2", <<"ref">>, "lines", <<"ord">>)
                                             EXCEPT !.refKey = Null]}]
Abroad(c, key) ==
    [c EXCEPT !.fks = @ \cup {[Key("orders", "k2", <<"ref">>, "users", <<"id">>)
                                  EXCEPT !.refSchema = "other", !.refKey = key]}]

\* A check of another table has the name of the foreign key.
Namesake(c) == [c EXCEPT !.constraints = @ \cup {Constraint("orders", "k", <<"ref">>, FALSE)}]

\* Names that two objects share, and a key of two columns.
Overloaded(c) == [c EXCEPT !.routines = {Fn("FUNCTION", "body", <<"x", "y">>),
                                         Fn("PROCEDURE", "proc", <<"z">>)}]
Composite(c) ==
    [c EXCEPT !.fks = @ \cup {Key("orders", "k2", <<"id", "ref">>, "lines", <<"no", "ord">>)},
              !.triggers = @ \cup {[name |-> "tr", table |-> "lines", def |-> "log"]}]
Implicit(c) == [c EXCEPT !.fks = {[f EXCEPT !.refCols = <<Null>>] : f \in @}]

MCWorlds(drv, d) ==
    LET c == Shop(drv, d)
        Prod == CASE drv = "mysql" -> {Quoted(c, "0"), Overloaded(c)}
                  [] drv = "postgres" -> {c, Composite(c)}
                  [] OTHER -> {c}
        Dev == CASE drv = "mysql" -> {Quoted(c, "'0'"), Small(c), Rewritten(c), Moved(c),
                                      Foreign(c), Expression(c)}
                 [] drv = "postgres" -> {c, Wide(c), Materialized(c), Composite(c), Overloaded(c),
                                         Expression(c), Bare(c), Tenant(c), Untrimmed(c),
                                         Abroad(c, "pk"), Namesake(c)}
                 [] drv = "sqlite" -> {c, Small(c), Indexed(c), Moved(c), Implicit(c),
                                       Expression(c), Reworded(c), Recut(c)}
                 [] drv = "mssql" -> {c, Indexed(c), Audited(c), Materialized(c), Unlisted(c),
                                      Scratch(c)}
                 [] drv = "oracle" -> {c, Small(c), Expression(c), Abroad(c, "gone"),
                                       Abroad(c, "pk")}
    IN  IF d = "prod" THEN Prod ELSE Dev
=============================================================================

------------------------- MODULE MCSchemaMigration -------------------------
(***************************************************************************)
(* SchemaMigration with families of schemas: three tables and the foreign  *)
(* keys between them; two tables of which one references a column of the   *)
(* other, or one of its own columns does; two of which one references the  *)
(* primary key of the other; a table and views on it and on each other; a  *)
(* routine, a trigger and a view that use it; a sequence and the column    *)
(* whose default it is or that owns it, in one table or in two; a          *)
(* materialized view.  A driver has the families that its loader can see.  *)
(***************************************************************************)
EXTENDS SchemaMigration

Table(n) == [kind |-> "table", table |-> n, name |-> n]
Key(n) == [kind |-> "column", table |-> n, name |-> 1]
Column(n) == [kind |-> "column", table |-> n, name |-> 2]
Index(n) == [kind |-> "index", table |-> n, name |-> 1]
ForeignKey(n) == [kind |-> "fk", table |-> n, name |-> 1]
PrimaryKey(n) == [kind |-> "pk", table |-> n, name |-> 0]
Trigger(n) == [kind |-> "trigger", table |-> n, name |-> 1]
Routine == [kind |-> "routine", table |-> 0, name |-> 1]
Sequence == [kind |-> "sequence", table |-> 0, name |-> 1]
View(v) == [kind |-> "view", table |-> 0, name |-> v]

Plain(body) == [uses |-> {}, body |-> body]
Uses(objects) == [uses |-> objects, body |-> 1]
To(n, own, other) == Uses({own, Table(n), other})

\* All well-formed schemas of some objects and their possible definitions.  A
\* table comes with its key.
Schemas(definitions) ==
    LET Variants(o, schemas) ==
            schemas \cup {(o :> d) @@ (IF o.kind = "table"
                                       THEN Key(o.table) :> Plain(1) ELSE << >>) @@ s :
                              d \in definitions[o], s \in schemas}
    IN  {s \in FoldSet(Variants, {NoSchema}, DOMAIN definitions) : WellFormed(s)}

MCForeignKeys ==
    Schemas(   (Table(1) :> {Plain(1)})
            @@ (Table(2) :> {Plain(1)})
            @@ (Table(3) :> {Plain(1)})
            @@ (ForeignKey(1) :> {To(2, Key(1), Key(2)), To(3, Key(1), Key(3))})
            @@ (ForeignKey(2) :> {To(1, Key(2), Key(1))})
            @@ (ForeignKey(3) :> {To(3, Key(3), Key(3)), To(2, Key(3), Key(2))}))

MCParts ==
    Schemas(   (Table(1) :> {Plain(1)})
            @@ (Table(2) :> {Plain(1)})
            @@ (Column(2) :> {Plain(0), Plain(3), Plain(6), Plain(7)})
            @@ (Index(2) :> {Uses({Key(2), Column(2)}), Uses({Key(2)})})
            @@ (ForeignKey(1) :> {To(2, Key(1), Column(2))}))

MCOwnKeys ==
    Schemas(   (Table(1) :> {Plain(1)})
            @@ (Table(2) :> {Plain(1)})
            @@ (Column(1) :> {Plain(1)})
            @@ (ForeignKey(1) :> {To(2, Column(1), Key(2))})
            @@ (Index(1) :> {Uses({Column(1)})}))

MCViews ==
    Schemas(   (Table(1) :> {Plain(1)})
            @@ (Column(1) :> {Plain(0), Plain(1), Plain(6)})
            @@ (View(1) :> {Uses({Table(1), Column(1)}), Uses({View(2)})})
            @@ (View(2) :> {Uses({Table(1), Key(1)})}))

\* Table a has a primary key of one or two columns, which table b and, if own,
\* a itself reference.
MCPrimaryKeys(a, b, own) ==
    Schemas(   (Table(a) :> {Plain(1)})
            @@ (Table(b) :> {Plain(1)})
            @@ (Column(a) :> {Plain(1)})
            @@ (PrimaryKey(a) :> {Uses({Key(a)}), Uses({Key(a), Column(a)})})
            @@ (ForeignKey(b) :> {Uses({Key(b), Table(a), Key(a), PrimaryKey(a)})})
            @@ IF own THEN ForeignKey(a) :> {Uses({Column(a), Key(a), PrimaryKey(a)})}
               ELSE << >>)

MCRoutines ==
    Schemas(   (Table(1) :> {Plain(1)})
            @@ (Routine :> {Plain(1), Plain(2)})
            @@ (Trigger(1) :> {Uses({Routine})})
            @@ (View(1) :> {Uses({Routine})}))

MCTriggers ==
    Schemas(   (Table(1) :> {Plain(1)})
            @@ (Trigger(1) :> {Plain(1), Plain(2)})
            @@ (View(1) :> {Uses({Table(1)}), Uses({View(2)})})
            @@ (View(2) :> {Plain(1)}))

MCSequences ==
    Schemas(   (Table(1) :> {Plain(1)})
            @@ (Column(1) :> {Plain(1), Uses({Sequence})})
            @@ (Sequence :> {Plain(1), Plain(2), Uses({Column(1)})}))

\* A sequence that a column of one table owns and a column of another uses.
MCOwnedSequences ==
    Schemas(   (Table(1) :> {Plain(1)})
            @@ (Table(2) :> {Plain(1)})
            @@ (Column(1) :> {Plain(1)})
            @@ (Column(2) :> {Uses({Sequence})})
            @@ (Sequence :> {Plain(1), Uses({Column(1)})}))

MCMaterialized ==
    Schemas(   (Table(1) :> {Plain(1)})
            @@ (View(1) :> {Plain(1), Plain(2), Plain(3), Plain(4)}))

MCFamilies ==
    LET All == {MCForeignKeys, MCParts, MCOwnKeys,
                MCPrimaryKeys(1, 2, FALSE), MCPrimaryKeys(2, 1, TRUE)}
    IN     ("mysql" :> All \cup {MCViews, MCRoutines})
        @@ ("postgres" :> All \cup {MCViews, MCMaterialized, MCRoutines, MCSequences,
                                  MCOwnedSequences})
        @@ ("sqlite" :> All \cup {MCViews, MCTriggers})
        @@ ("mssql" :> All)
        @@ ("oracle" :> All)

MCDrivers == DOMAIN MCFamilies
MCConfigs == {Kinds, {"index"}, {"index", "pk"}} \cup SUBSET {"table", "column", "fk", "pk"}
=============================================================================

--------------------------- MODULE OperationOrder ---------------------------
(***************************************************************************)
(* OrderMigrationOperations (internal/schema/ordering.go): the operations  *)
(* that a schema difference needs, a graph of what must wait for what, its *)
(* topological order after Kahn, and a depth-first search for the cycles   *)
(* that keep operations out of it.                                         *)
(*                                                                         *)
(* A name is a sequence of the words between its underscores, since the    *)
(* identifier of an operation joins names by underscores.                  *)
(***************************************************************************)
EXTENDS Naturals, Sequences, FiniteSets, FiniteSetsExt, SequencesExt

CONSTANTS
    Words,      \* the words of names
    Diffs       \* the schema differences that are ordered

Name == Seq(Words)

\* Columns, indexes and foreign keys, each of a table.
Named == [table : Name, name : Name]
OnColumns == [table : Name, name : Name, columns : Seq(Name)]
Referring == [table : Name, name : Name, columns : Seq(Name), references : Name]

\* What DiffSchemas returns: the parts of a new table are its own, all others
\* are of tables that both schemas have.
ASSUME OrderAssumption ==
    \A d \in Diffs :
        /\ {d.added, d.removed, d.modifiedPrimaryKeys} \subseteq Seq(Name)
        /\ {d.removedColumns, d.addedColumns, d.modifiedColumns} \subseteq Seq(Named)
        /\ {d.removedIndexes, d.addedIndexes, d.newIndexes} \subseteq Seq(OnColumns)
        /\ {d.removedForeignKeys, d.addedForeignKeys, d.newForeignKeys}
               \subseteq Seq(Referring)
        /\ \A o \in ToSet(d.newIndexes) \cup ToSet(d.newForeignKeys) :
               o.table \in ToSet(d.added)
        /\ \A o \in ToSet(d.addedIndexes) \cup ToSet(d.addedForeignKeys) :
               o.table \notin ToSet(d.added)

VARIABLES
    diff,       \* the difference
    g,          \* its graph: the rank of each operation, and the edges
    pc,         \* "sort", "cycles", "rest" or "done"
    inDegree,   \* edges into each operation from those not taken yet
    queue,      \* operations that wait for nothing
    ordered,    \* the operations taken, in their order
    visited,    \* detectCycles: operations seen
    recStack,   \* those on the recursion stack
    path,       \* the path of the search
    cycles,     \* the cycles reported
    warned      \* the operations that follow them, each with a warning

inputs == <<diff, g>>
search == <<visited, recStack, path, cycles>>
orderVars == <<inputs, pc, inDegree, queue, ordered, search, warned>>

----------------------------------------------------------------------------
(* The operations. *)

\* What fmt.Sprintf("add_col_%s_%s", table, column) and the like tell apart.
ID(prefix, table, object) == <<prefix>> \o table \o object

TableID(prefix, table) == ID(prefix, table, << >>)

Part(prefix, o) == ID(prefix, o.table, o.name)

Parts(prefix, objects) == [i \in DOMAIN objects |-> Part(prefix, objects[i])]

Tables(prefix, tables) == [i \in DOMAIN tables |-> TableID(prefix, tables[i])]

DropForeignKeys(d) == Parts("drop_fk", d.removedForeignKeys)

\* The columns' own operations do not exist yet, so that no edge leads to them.
DropIndexes(d) == Parts("drop_idx", d.removedIndexes)

DropColumns(d) == Parts("drop_col", d.removedColumns)

DropTables(d) == Tables("drop_table", d.removed)

CreateTables(d) == Tables("create_table", d.added)

AddColumns(d) == Parts("add_col", d.addedColumns)

ModifyColumns(d) == Parts("mod_col", d.modifiedColumns)

AddIndexes(d) == Parts("add_idx", d.addedIndexes \o d.newIndexes)

AddForeignKeys(d) == Parts("add_fk", d.addedForeignKeys \o d.newForeignKeys)

ModifyPrimaryKeys(d) == Tables("mod_pk", d.modifiedPrimaryKeys)

\* In this order types and, within a type, priorities ascend.
Generated(d) ==
    DropForeignKeys(d) \o DropIndexes(d) \o DropColumns(d) \o DropTables(d)
    \o CreateTables(d) \o AddColumns(d) \o ModifyColumns(d)
    \o AddIndexes(d) \o AddForeignKeys(d) \o ModifyPrimaryKeys(d)

\* An operation replaces an earlier one with its identifier.
Ranks(d) ==
    LET ops == Generated(d)
    IN  [id \in ToSet(ops) |-> Max({i \in DOMAIN ops : ops[i] = id})]

----------------------------------------------------------------------------
(* The edges, in the order in which AddDependency adds them. *)

Each(list, F(_)) == FlattenSeq([i \in DOMAIN list |-> F(list[i])])

Edge(from, to) == <<[from |-> from, to |-> to]>>

\* An edge if both operations exist.
EdgeIf(d, from, to) ==
    IF {from, to} \subseteq ToSet(Generated(d)) THEN Edge(from, to) ELSE << >>

\* From the columns of an index or a foreign key that are added.
ColumnEdges(d, o, to) ==
    Each(o.columns, LAMBDA c : EdgeIf(d, ID("add_col", o.table, c), to))

TableEdge(o, to) == Edge(TableID("create_table", o.table), to)

ReferenceEdge(d, f, to) == EdgeIf(d, TableID("create_table", f.references), to)

IndexEdges(d) ==
    Each(d.addedIndexes, LAMBDA i : ColumnEdges(d, i, Part("add_idx", i)))
    \o Each(d.newIndexes, LAMBDA i : TableEdge(i, Part("add_idx", i)))

\* Mutant of ForeignKeyEdges: the referenced table is not waited for.
MutForeignKeyEdges(d) ==
    Each(d.addedForeignKeys, LAMBDA f : ColumnEdges(d, f, Part("add_fk", f)))
    \o Each(d.newForeignKeys, LAMBDA f : TableEdge(f, Part("add_fk", f)))

ForeignKeyEdges(d) ==
    Each(d.addedForeignKeys, LAMBDA f :
        ReferenceEdge(d, f, Part("add_fk", f)) \o ColumnEdges(d, f, Part("add_fk", f)))
    \o Each(d.newForeignKeys, LAMBDA f :
        TableEdge(f, Part("add_fk", f)) \o ReferenceEdge(d, f, Part("add_fk", f)))

DropTableEdges(d) ==
    Each(d.removedForeignKeys, LAMBDA f :
        EdgeIf(d, Part("drop_fk", f), TableID("drop_table", f.references)))

\* Mutant of CreateTableEdges: a table that references itself waits for itself.
MutCreateTableEdges(d) ==
    Each(d.newForeignKeys, LAMBDA f :
        ReferenceEdge(d, f, TableID("create_table", f.table)))

CreateTableEdges(d) ==
    Each(d.newForeignKeys, LAMBDA f :
        IF f.references = f.table THEN << >>
        ELSE ReferenceEdge(d, f, TableID("create_table", f.table)))

\* BuildDependencyGraph.
Graph(d) ==
    [rank |-> Ranks(d),
     edges |-> IndexEdges(d) \o ForeignKeyEdges(d) \o DropTableEdges(d)
               \o CreateTableEdges(d)]

Operations == DOMAIN g.rank

Times(from, to) ==
    Cardinality({i \in DOMAIN g.edges : g.edges[i] = [from |-> from, to |-> to]})

----------------------------------------------------------------------------
(* TopologicalSort. *)

OrderInit ==
    /\ diff \in Diffs
    /\ g = Graph(diff)
    /\ pc = "sort"
    /\ inDegree = [id \in Operations |->
                      Cardinality({i \in DOMAIN g.edges : g.edges[i].to = id})]
    /\ queue = {id \in Operations : inDegree[id] = 0}
    /\ ordered = << >>
    /\ visited = {} /\ recStack = {} /\ path = << >> /\ cycles = {}
    /\ warned = {}

First(ids) == CHOOSE id \in ids : \A other \in ids : g.rank[id] <= g.rank[other]

TakeFirst ==
    /\ pc = "sort"
    /\ queue # {}
    /\ LET id == First(queue)
           left == [d \in Operations |-> inDegree[d] - Times(id, d)]
       IN  /\ ordered' = Append(ordered, id)
           /\ inDegree' = left
           /\ queue' = (queue \ {id})
                       \cup {d \in Operations : inDegree[d] > 0 /\ left[d] = 0}
    /\ UNCHANGED <<inputs, pc, search, warned>>

QueueEmpty ==
    /\ pc = "sort"
    /\ queue = {}
    /\ pc' = IF Len(ordered) < Cardinality(Operations) THEN "cycles" ELSE "done"
    /\ UNCHANGED <<inputs, inDegree, queue, ordered, search, warned>>

----------------------------------------------------------------------------
(* detectCycles. *)

\* What was left out: on a cycle, or behind one.
CycleNodes == {id \in Operations : inDegree[id] > 0}

Enter(id) ==
    /\ visited' = visited \cup {id}
    /\ recStack' = recStack \cup {id}
    /\ path' = Append(path, id)
    /\ UNCHANGED <<inputs, pc, inDegree, queue, ordered, cycles, warned>>

\* The roots come in the order of a map.
VisitRoot ==
    /\ pc = "cycles"
    /\ path = << >>
    /\ \E id \in CycleNodes \ visited : Enter(id)

\* The edges of the last node on the path that do not lead back from a node
\* that is finished, which the loop passes over.
Open ==
    {i \in DOMAIN g.edges :
        /\ g.edges[i].from = Last(path)
        /\ g.edges[i].to \in CycleNodes
        /\ g.edges[i].to \in visited => g.edges[i].to \in recStack}

Neighbor == g.edges[Min(Open)].to

VisitNeighbor ==
    /\ pc = "cycles"
    /\ path # << >>
    /\ Open # {} /\ Neighbor \notin visited
    /\ Enter(Neighbor)

CycleTo(id) == SubSeq(path, CHOOSE i \in DOMAIN path : path[i] = id, Len(path))

\* Mutant of CloseCycle: the cycle is looked for on the recursion stack only.
MutCloseCycle ==
    /\ pc = "cycles"
    /\ path # << >>
    /\ Open # {} /\ Neighbor \in visited
    /\ cycles' = cycles \cup {path}
    /\ path' = << >>
    /\ UNCHANGED <<inputs, pc, inDegree, queue, ordered, visited, recStack, warned>>

\* The recursion returns from every level at once and leaves recStack as it is:
\* a later search that runs into it ends without a cycle to report.
CloseCycle ==
    /\ pc = "cycles"
    /\ path # << >>
    /\ Open # {} /\ Neighbor \in visited
    /\ cycles' = IF Neighbor \in ToSet(path) THEN cycles \cup {CycleTo(Neighbor)}
                 ELSE cycles
    /\ path' = << >>
    /\ UNCHANGED <<inputs, pc, inDegree, queue, ordered, visited, recStack, warned>>

Backtrack ==
    /\ pc = "cycles"
    /\ path # << >>
    /\ Open = {}
    /\ recStack' = recStack \ {Last(path)}
    /\ path' = Front(path)
    /\ UNCHANGED <<inputs, pc, inDegree, queue, ordered, visited, cycles, warned>>

AllVisited ==
    /\ pc = "cycles"
    /\ path = << >>
    /\ CycleNodes \subseteq visited
    /\ pc' = "rest"
    /\ visited' = {} /\ recStack' = {}
    /\ UNCHANGED <<inputs, inDegree, queue, ordered, path, cycles, warned>>

\* What is left follows, each with a warning, in the order of a map, which is
\* any: the set stands for it.
AddRest ==
    /\ pc = "rest"
    /\ warned' = CycleNodes
    /\ pc' = "done"
    /\ UNCHANGED <<inputs, inDegree, queue, ordered, search>>

DetectCycles == VisitRoot \/ VisitNeighbor \/ CloseCycle \/ Backtrack \/ AllVisited

OrderNext == TakeFirst \/ QueueEmpty \/ DetectCycles \/ AddRest

OrderSpec == OrderInit /\ [][OrderNext]_orderVars

----------------------------------------------------------------------------
(* Properties. *)

\* What a database asks for, told from the difference and not from the edges:
\* pairs of operations of which the second needs the first.
MustPrecede(d) ==
    LET Of(list) == ToSet(list)
        All(list, F(_)) == UNION {F(o) : o \in ToSet(list)}
        Indexes == d.addedIndexes \o d.newIndexes
        ForeignKeys == d.addedForeignKeys \o d.newForeignKeys
        Create(t) == TableID("create_table", t)
    IN    {<<Part("drop_fk", f), TableID("drop_table", f.references)>> :
               f \in Of(d.removedForeignKeys)}
     \cup {<<Part("drop_idx", p[1]), Part("drop_col", p[2])>> :
               p \in {q \in Of(d.removedIndexes) \X Of(d.removedColumns) :
                          q[1].table = q[2].table /\ q[2].name \in Of(q[1].columns)}}
     \cup {<<Create(o.table), Part("add_idx", o)>> : o \in Of(Indexes)}
     \cup {<<Create(o.table), Part("add_fk", o)>> : o \in Of(ForeignKeys)}
     \cup {<<Create(f.references), Part("add_fk", f)>> : f \in Of(ForeignKeys)}
     \cup All(Indexes, LAMBDA o : {<<ID("add_col", o.table, c), Part("add_idx", o)>> :
                                       c \in Of(o.columns)})
     \cup All(ForeignKeys, LAMBDA o : {<<ID("add_col", o.table, c), Part("add_fk", o)>> :
                                           c \in Of(o.columns)})
     \cup {<<Create(f.references), Create(f.table)>> :
               f \in {h \in Of(d.newForeignKeys) : h.references # h.table}}

Position(id) == CHOOSE i \in DOMAIN ordered : ordered[i] = id

\* An operation that comes without a warning comes after all that it needs
\* (TopologicalSort: "order that respects all dependencies", ordering.go 449;
\* with a warning it may come in any order, and also when it is not itself on
\* the cycle).
NeedsComeFirst ==
    \A p \in MustPrecede(diff) :
        p[1] \in Operations /\ p[2] \in ToSet(ordered)
            => /\ p[1] \in ToSet(ordered)
               /\ Position(p[1]) < Position(p[2])

\* The other new tables that a new table references.
Referenced(d, t) ==
    {u \in ToSet(d.added) \ {t} :
        \E f \in ToSet(d.newForeignKeys) : f.table = t /\ f.references = u}

\* The new tables that a new table leads to by its foreign keys: the smallest set
\* with those that it references and those that one of the set does.
Reached(d, t) ==
    {u \in ToSet(d.added) :
        \A S \in SUBSET ToSet(d.added) :
            (\A v \in {t} \cup S : Referenced(d, v) \subseteq S) => u \in S}

\* The new tables that are on a cycle of references, or lead to one.
Stuck(d) ==
    {t \in ToSet(d.added) : \E u \in {t} \cup Reached(d, t) : u \in Reached(d, u)}

\* Exactly the operations that wait for a table on or behind a cycle come with
\* a warning, and no other cycle is made by the edges (AddRest: "those in
\* cycles", ordering.go 525, has those behind them too).
WarnedWaitForCycle ==
    pc = "done" =>
        warned = {TableID("create_table", t) : t \in Stuck(diff)}
            \cup {Part("add_idx", i) :
                     i \in {o \in ToSet(diff.newIndexes) : o.table \in Stuck(diff)}}
            \cup {Part("add_fk", f) :
                     f \in {o \in ToSet(diff.addedForeignKeys \o diff.newForeignKeys) :
                               {o.table, o.references} \cap Stuck(diff) # {}}}

\* If anything is left, a cycle is reported, although a search that runs into
\* an earlier one reports none; and what is reported is a cycle.
CyclesAreReported ==
    /\ pc \in {"rest", "done"} /\ CycleNodes # {} => cycles # {}
    /\ \A c \in cycles : \A i \in DOMAIN c :
           Times(c[i], IF i = Len(c) THEN c[1] ELSE c[i + 1]) > 0

=============================================================================

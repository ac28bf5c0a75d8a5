-------------------------- MODULE MCOperationOrder --------------------------
(***************************************************************************)
(* OperationOrder with three families of differences: new tables that      *)
(* reference each other; a kept table with every kind of change, next to   *)
(* tables that come and go; two kept tables whose names run together.      *)
(***************************************************************************)
EXTENDS OperationOrder, TLC

MCWords == {"a", "b", "c", "d", "x"}

A == <<"a">>
B == <<"b">>
C == <<"c">>
D == <<"d">>
AB == <<"a", "b">>
X == <<"x">>
BX == <<"b", "x">>

Column(t, c) == [table |-> t, name |-> c]
Index(t, i, columns) == [table |-> t, name |-> i, columns |-> columns]
ForeignKey(t, f, columns, u) ==
    [table |-> t, name |-> f, columns |-> columns, references |-> u]

None ==
    [added |-> << >>, removed |-> << >>,
     removedForeignKeys |-> << >>, addedForeignKeys |-> << >>, newForeignKeys |-> << >>,
     removedIndexes |-> << >>, addedIndexes |-> << >>, newIndexes |-> << >>,
     removedColumns |-> << >>, addedColumns |-> << >>, modifiedColumns |-> << >>,
     modifiedPrimaryKeys |-> << >>]

\* A foreign key of a table to each table of a set.
KeysOf(t, us) ==
    SetToSeq({ForeignKey(t, u, <<X>>, u) : u \in us})

\* Three new tables, the second with an index.
MCNew ==
    {[None EXCEPT !.added = <<A, B, C>>,
                  !.newForeignKeys = KeysOf(A, a) \o KeysOf(B, b) \o KeysOf(C, c),
                  !.newIndexes = <<Index(B, X, <<X>>)>>] :
        a \in SUBSET {A, B, C}, b \in SUBSET {A, B, C}, c \in SUBSET {A, B, C}}

\* Two cycles, of which the one may lead to the other.
MCTwoCycles ==
    {[None EXCEPT !.added = <<A, B, C, D>>,
                  !.newForeignKeys = KeysOf(A, {B}) \o KeysOf(B, {A}) \o KeysOf(C, {D} \cup c)
                                     \o KeysOf(D, {C} \cup d)] :
        c \in SUBSET {A, B}, d \in SUBSET {A, D}}

Optional(list) == {<< >>, list}

\* A is kept; B is new, kept or removed; C is new and may reference B.
MCKept ==
    {[None EXCEPT !.added = IF b = "added" THEN <<B, C>> ELSE <<C>>,
                  !.removed = IF b = "removed" THEN <<B>> ELSE << >>,
                  !.removedForeignKeys = oldKey,
                  !.addedForeignKeys = newKey,
                  !.newForeignKeys = KeysOf(C, c) \o IF b = "added" THEN KeysOf(B, {C}) ELSE << >>,
                  !.removedIndexes = oldIndex,
                  !.addedIndexes = newIndex,
                  !.removedColumns = oldColumn,
                  !.addedColumns = newColumn,
                  !.modifiedColumns = <<Column(A, B)>>,
                  !.modifiedPrimaryKeys = <<A>>] :
        b \in {"added", "kept", "removed"},
        c \in {{}, {B}},
        oldKey \in Optional(<<ForeignKey(A, X, <<X>>, B)>>),
        newKey \in Optional(<<ForeignKey(A, C, <<C>>, B), ForeignKey(A, A, <<C>>, A)>>),
        oldIndex \in Optional(<<Index(A, X, <<X>>)>>),
        newIndex \in Optional(<<Index(A, C, <<C>>)>>),
        oldColumn \in Optional(<<Column(A, X)>>),
        newColumn \in Optional(<<Column(A, C)>>)}

\* add_col_a_b_x is column b_x of table a and column x of table a_b.
MCNames ==
    {[None EXCEPT !.addedColumns = <<Column(A, BX), Column(AB, X)>>,
                  !.addedIndexes = list] : list \in Optional(<<Index(AB, C, <<X>>)>>)}

MCDiffs == MCNew \cup MCTwoCycles \cup MCKept \cup MCNames
=============================================================================

----------------------------- MODULE MCGenPack -----------------------------
(***************************************************************************)
(* GenPack on two tables, one of them with a new column, two contents per  *)
(* table and two configurations.  Content 1 has a fraction of a second     *)
(* that its literal drops; the second table is the target of a foreign key *)
(* that the engine checks.                                                 *)
(***************************************************************************)
EXTENDS GenPack

MCConfigs == {"cfg", "other"}
MCPaths == {"migration_pack.sql"}
MCOutPath == "migration_pack.sql"
MCVersions == {0, 1}
MCLiteral == [v \in MCVersions |-> 0]
MCDrift == {1}
MCRefusable == {2}
MCStatement ==
    [kind    : {"header", "alter", "rows", "update", "footer"},
     table   : 0 .. NumTables,
     version : MCVersions]
MCGenProgress ==
    [completed : SUBSET Tables, statements : Seq(MCStatement)]
=============================================================================

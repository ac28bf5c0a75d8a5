---------------------------- MODULE MCApplyPack ----------------------------
(***************************************************************************)
(* ApplyPack on packs of none, three and five statements and on two paths, *)
(* a checkpoint due after every second statement.  The pack of three       *)
(* changes the schema with its second statement.                           *)
(***************************************************************************)
EXTENDS ApplyPack, TLC

CONSTANTS pack1, pack2

MCStatement == 1..8
MCDdl == {7}
MCNoDdl == {}
MCPaths == {pack1, pack2}
MCSymmetry == Permutations(MCPaths)
MCPacks == {<<>>, <<1, 2, 3, 4, 5>>, <<6, 7, 8>>}
MCConfigs == {"cfg"}
MCGenProgress == {"diffed"}
=============================================================================

--------------------------- MODULE MCParallelHash ---------------------------
(***************************************************************************)
(* ParallelHash of three tables, one of them with two pages.               *)
(***************************************************************************)
EXTENDS ParallelHash

CONSTANTS t1, t2, t3

MCTables == {t1, t2, t3}
MCBatches == [t \in MCTables |-> IF t = t1 THEN 2 ELSE 1]
MCParallel == 0 .. 2
=============================================================================

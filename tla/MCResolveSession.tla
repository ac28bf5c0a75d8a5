-------------------------- MODULE MCResolveSession --------------------------
(***************************************************************************)
(* ResolveSession with two rows of one table and one of another.           *)
(***************************************************************************)
EXTENDS ResolveSession

CONSTANTS r1, r2, r3

MCRows == {r1, r2, r3}
MCTableOf == [r \in MCRows |-> IF r = r3 THEN 2 ELSE 1]
MCStrategy == [t \in 1 .. 2 |-> IF t = 1 THEN "theirs" ELSE "manual"]
=============================================================================

---------------------------- MODULE AtomicApply ----------------------------
(***************************************************************************)
(* What the documentation promises of apply: the target database changes   *)
(* by whole packs.  And what remains of the promise once a gen-pack has    *)
(* been killed and left its checkpoint in the output directory, when a     *)
(* commit may be only a tail of a pack; and of a pack that the engine may  *)
(* divide, when it may be any piece.                                       *)
(***************************************************************************)
EXTENDS Naturals, Sequences

CONSTANTS
    Packs,
    Divisible  \* the packs that the engine may commit in pieces

VARIABLES
    db,        \* the statements of each committed transaction
    leftover   \* has a gen-pack ever left a checkpoint behind?

vars == <<db, leftover>>

Init == db = <<>> /\ leftover = FALSE

Piece(pack, m, n) == SubSeq(pack, m + 1, n)

ApplyWhole ==
    /\ \E pack \in Packs : db' = Append(db, pack)
    /\ UNCHANGED leftover

ApplyTail ==
    /\ leftover
    /\ \E pack \in Packs : \E n \in 0 .. Len(pack) :
           db' = Append(db, Piece(pack, n, Len(pack)))
    /\ UNCHANGED leftover

ApplyPiece ==
    /\ \E pack \in Divisible : \E m, n \in 0 .. Len(pack) :
           db' = Append(db, Piece(pack, m, n))
    /\ UNCHANGED leftover

LeaveCheckpoint ==
    /\ leftover' = TRUE
    /\ UNCHANGED db

Next == ApplyWhole \/ ApplyTail \/ ApplyPiece \/ LeaveCheckpoint

Spec == Init /\ [][Next]_vars
=============================================================================

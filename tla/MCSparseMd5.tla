---------------------------- MODULE MCSparseMd5 ----------------------------
(* Blocks of 5 with a length of 2: messages of 0 to 6 bytes end at every    *)
(* place of a block, and their lengths take both bytes.                     *)
EXTENDS SparseMd5

MCOffsets == {0, 1, 3}

=============================================================================

---------------------------- MODULE MCConnection ----------------------------
(* A scaled-down connection: a buffer of 3 to 16 bytes and a 6-bit size_t. *)
EXTENDS Connection

(* Header ends around every boundary of the buffer; 0 for no end at all.   *)
MCHeaders == {0, 1, 4, 15, 16}

(* Lengths that end before, at and beyond the largest buffer, the extremes  *)
(* of the long and a negative one.                                         *)
MCLengths == {-32, -1, 0, 11, 12, 31}

=============================================================================

-------------------------- MODULE MCAnswerBuffers --------------------------
(* The sizes of the code; the shortest and the longest names and messages. *)
EXTENDS AnswerBuffers

MCNameLengths    == {1, 511}
MCPathLengths    == {1, 2047}
MCMessageLengths == {13, 1023}

=============================================================================

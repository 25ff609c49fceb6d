---------------------------- MODULE MCNamespace -----------------------------
(* A tree of a file /a and a directory /d with a directory /d/b, and three  *)
(* clients that each make any one of the calls below.                       *)
EXTENDS Namespace, TLC

CONSTANTS c1, c2, c3

MCClient == {c1, c2, c3}

Symmetry == Permutations(MCClient)

D == <<"d">>
A == <<"a">>
B == <<"d", "b">>

MCTree ==
    (<<>> :> Node("root", "dir")) @@ (A :> Node("file_a", "file")) @@
    (D :> Node("dir_d", "dir")) @@ (B :> Node("dir_b", "dir"))

Plain(op, p) == Call(op, p, <<>>, UTIME_OMIT, UTIME_OMIT)

MCProgram ==
    {Plain("create", <<"d", "c">>), Plain("mkdir", <<"x">>),
     Plain("unlink", B), Plain("rmdir", B), Plain("list", D), Plain("meta", B),
     Call("rename", D, <<"x">>, UTIME_OMIT, UTIME_OMIT),
     Call("rename", A, B, UTIME_OMIT, UTIME_OMIT),
     Call("utimens", A, <<>>, UTIME_OMIT, 1),
     Call("utimens", A, <<>>, UTIME_NOW, UTIME_OMIT)}

=============================================================================

------------------------------- MODULE MCWire -------------------------------
(* Calls with names of every kind of character, at every limit. *)
EXTENDS Wire, TLC

Special == {"quote", "bslash", "nl", "bsp", "ctl", "lt", "amp", "plus", "pct",
            "space", "eq", "qm", "eacute", "latin", "rbrace", "comma", "colon", "type"}

File(name) == [name |-> name, type |-> "file"]
Dir(name)  == [name |-> name, type |-> "dir"]

Names ==
    {<<"a">>, <<"mode">>, <<"status">>, <<"quote", "a">>, <<"bslash", "n">>,
     <<"a", "bslash">>, <<"quote", "mode", "quote", "colon", "7">>, <<"slash", "a">>}
      \cup {<<x>> : x \in Special} \cup {<<"a", x, "a">> : x \in Special}

Path(name) == <<"slash">> \o (IF name[1] = "slash" THEN Tail(name) ELSE name)
Long(n) == [i \in 1 .. n |-> IF i = 1 THEN "slash" ELSE "a"]
LongQuoted(n) == [i \in 1 .. n |-> IF i = 1 THEN "slash" ELSE "quote"]

Paths == {<<"slash">>} \cup {Path(n) : n \in Names}
           \cup {Long(n) : n \in {7, 8, 9, 15, 16, 17, 18, 19, 20, 21, 38, 39, 40}}
           \cup {LongQuoted(n) : n \in {4, 5, 8, 9, 18, 19, 20, 21}}

Call(op, path, to, nums) == [op |-> op, path |-> path, to |-> to, nums |-> nums]

MCCalls ==
    {Call(op, p, <<>>, <<>>) : op \in {"meta", "remove-file", "remove-dir"}, p \in Paths}
      \cup {Call("list", <<"slash">>, <<>>, <<>>)}
      \cup {Call("read", p, <<>>, <<"0", "7">>) : p \in Paths}
      \cup {Call("write", p, <<>>, <<"5">>) : p \in Paths}
      \cup {Call(op, p, <<>>, <<"7">>) :
              op \in {"create-file", "create-dir", "truncate"}, p \in Paths}
      \cup {Call("rename", p, q, <<>>) : p \in Paths, q \in {<<"slash", "b">>, Long(19)}}
      \cup {Call("rename", <<"slash", "b">>, p, <<>>) : p \in Paths}
      \cup {Call("utimens", p, <<>>, <<"0", "1", "2", "5">>) : p \in Paths}

Dots == <<Dir(<<"dot">>), Dir(<<"dotdot">>)>>

MCDirs ==
    {Dots} \cup {Dots \o <<File(n)>> : n \in Names \ {<<"slash", "a">>}}
      \cup {Dots \o <<File(<<x>>), Dir(<<y>>)>> :
              x \in {"a", "type", "name", "entries", "quote"}, y \in Special}
      \cup {Dots \o [i \in 1 .. n |-> File(<<"a">>)] : n \in 1 .. 4}

=============================================================================

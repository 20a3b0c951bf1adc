---------------------------- MODULE MCJSONTree ----------------------------
(* Trees of up to three levels whose strings hold quotes, backslashes and  *)
(* the characters that close a container, with every choice of blanks.     *)
EXTENDS JSONTree

Str(text) == [kind |-> "string", text |-> text]
True == [kind |-> "boolean", text |-> <<"t">>]
Null == [kind |-> "null", text |-> <<"n">>]
Two == [kind |-> "number", text |-> <<"1", "2">>]
Arr(items) == [kind |-> "array", items |-> items]
Obj(members) == [kind |-> "object", members |-> members]
Mem(name, value) == [name |-> name, value |-> value]

Scalars ==
    {True, Null, Two} \cup
    {Str(t) : t \in {<<>>, <<"\"">>, <<"\\">>, <<"\\", "\"">>, <<"}">>, <<",", "]">>, <<" ">>}}

MCTrees ==
    Scalars \cup {Arr(<<>>), Obj(<<>>)}
    \cup {Arr(<<v>>) : v \in Scalars} \cup {Obj(<<Mem(<<"\\">>, v)>>) : v \in Scalars}
    \cup {Arr(<<Arr(<<Two, True>>), Str(<<"]">>)>>), Arr(<<Obj(<<>>), Null>>),
          Arr(<<Obj(<<Mem(<<"}">>, Arr(<<>>))>>)>>),
          Obj(<<Mem(<<"k">>, Two), Mem(<<"k">>, True)>>)}
=============================================================================

--------------------------- MODULE MCGraphQueries ---------------------------
(* GraphQueries on three packages, one of them spelled in two ways: all    *)
(* pairs of files with up to two imports each, both in one package         *)
(* included, and triples of files that form chains and cycles.             *)
EXTENDS GraphQueries, SequencesExt

MCPath == {"a", "./a", "b", "c"}
MCClean == [p \in MCPath |-> IF p = "./a" THEN "a" ELSE p]

Local(p) == [type |-> "local", resolved |-> p]
Other(p) == [type |-> "other", resolved |-> p]

MCFile(f, packages, lists) == [path : {f}, pkg : packages, imports : lists]

FirstImports ==
    SeqOf({Local("a"), Local("./a"), Local("b"), Local(""), Other("c")}, 2)

SecondImports == {<<>>, <<Local("a")>>, <<Local("c")>>, <<Local("c"), Local("./a")>>}

Pairs ==
    {<<f, g>> : f \in MCFile("f1", {"./a", "b", ""}, FirstImports),
                g \in MCFile("f2", {"a", "b"}, SecondImports)}

Triples ==
    {<<f, g, h>> : f \in MCFile("f1", {"a"}, {<<>>, <<Local("b")>>, <<Local(""), Local("c")>>}),
                   g \in MCFile("f2", {"./a", "b"}, {<<Local("a")>>, <<Local("b"), Other("b")>>,
                                                     <<Local("./a"), Local("c")>>}),
                   h \in MCFile("f3", {"c", "b", ""}, {<<>>, <<Local("a")>>, <<Local("b")>>})}

MCInputs == {<<>>} \cup Pairs \cup Triples

MCSeedLists == {<<"a">>, <<"b", "b">>, <<"./a", "c">>, <<"", "c">>}
=============================================================================

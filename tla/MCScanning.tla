----------------------------- MODULE MCScanning -----------------------------
(* Scanning of trees with packages at the module root, in a directory, in  *)
(* skipped ones, a file where a directory is expected, two directories     *)
(* that cannot be listed, one of them skipped; three module roots and six  *)
(* scan roots; module files of up to three lines.                          *)
EXTENDS Scanning

M == <<"m", ".", "x">>

MCLines ==
    {<<"module", M>>, <<"module", <<"n">>>>, <<"module", <<"C">>>>, <<"module">>,
     <<"module", <<>>>>, <<"module", <<"(">>>>, <<M>>, <<"go">>, <<>>}

MCGoMods == UNION {[1..n -> MCLines] : n \in 0..3}

MCName == {"a", "b", "c", "d", "f", "g", "h", "t", "_"}
MCCharacter == MCName \cup {"C", "m", "n", "x", ".", "/", "("}

(* Each of the places below may be there or not. *)
Fixed == (<<>> :> "dir") @@ (<<"a">> :> "dir") @@ (<<"a", "b">> :> "dir")
         @@ (<<"_">> :> "dir") @@ (<<"a", "_">> :> "dir") @@ (<<"g">> :> "dir")

Optional ==
    (<<"f">> :> "go") @@ (<<"a", "f">> :> "go") @@ (<<"a", "b", "f">> :> "go")
    @@ (<<"_", "f">> :> "go") @@ (<<"a", "_", "f">> :> "broken") @@ (<<"g", "f">> :> "go")
    @@ (<<"a", "b", "h">> :> "broken") @@ (<<"a", "t">> :> "other")
    @@ (<<"a", "d">> :> "closed") @@ (<<"g", "_">> :> "closed")

MCTrees == {Fixed @@ [p \in S |-> Optional[p]] : S \in SUBSET DOMAIN Optional}

MCImports ==
    {M, M \o <<"/", "a">>, M \o <<"a">>, M \o <<"/">>, <<"C">>, <<>>, <<"n", "/", "a">>,
     <<"n", ".", "/", "a">>, <<"n">>}

MCMalformed == {<<>>}
Roots == {<<>>, <<"a">>, <<"_">>}

(* Every module file with one small tree, and every tree and pair of roots *)
(* with one module file.                                                   *)
MCInputs ==
    [lines: MCGoMods, tree: {Fixed @@ (<<"f">> :> "go")}, moduleRoot: {<<>>}, scanRoot: {<<>>}]
    \cup [lines: {<< <<"module", M>> >>}, tree: MCTrees, moduleRoot: Roots,
          scanRoot: Roots \cup {<<"c">>, <<"f">>, <<"a", "d">>}]
=============================================================================

----------------------------- MODULE MCBaseline -----------------------------
(* Baseline on two rules, two files and two targets: violations that share *)
(* an identity though they differ, violations without a target, and a      *)
(* violation and entries that break the rules of the format.               *)
EXTENDS Baseline, SequencesExt

MCRule == {"", "r", "s"}
MCSourcePath == {"f", "g"}
MCTarget == {"", "x", "y"}

MCOrder == <<"", "f", "g", "r", "s", "x", "y">>
MCRank == [s \in MCRule \cup MCSourcePath \cup MCTarget |->
            CHOOSE i \in DOMAIN MCOrder : MCOrder[i] = s]

V(rule, path, to) == [rule |-> rule, path |-> path, to |-> to]
To(path, importPath) == {[path |-> path, importPath |-> importPath]}

Shared == {V("r", "f", To("y", "x")), V("r", "f", To("x", ""))}
Other == {V("r", "f", {}), V("s", "f", To("y", "y")), V("r", "f", To("x", "y"))}
Broken == {V("", "g", {}), V("r", "g", To("", ""))}

MCResults == SeqOf(Shared \cup Other, 3) \cup SeqOf(Broken, 1)

E(rule, from, to) == [rule |-> rule, from |-> from, to |-> to]

MCHandwritten ==
    SeqOf({E("r", "f", {"x"}), E("r", "f", {}), E("s", "f", {"y"}),
           E("s", "g", {}), E("r", "f", {""}), E("", "f", {})}, 2)
=============================================================================

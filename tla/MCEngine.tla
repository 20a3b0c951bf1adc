------------------------------ MODULE MCEngine ------------------------------
(* Engine on a module "m" with the packages a, b and sync: a package b with *)
(* an external test file, and a local package named like one of the         *)
(* standard library. Three families of configurations, each with the scans  *)
(* that make its rules disagree.                                            *)
EXTENDS Engine

(* Strings in ascending order. *)
MCStrings == <<"", "C", "a", "a/a.go", "b", "b/b.go", "b/b_test.go", "b_test", "error",
               "folder", "forbid", "forbidden", "ignore", "ignored", "info", "local", "m/a", "m/b",
               "m/sync", "narrow", "need", "not-in-allowed", "reachable", "required",
               "stdlib", "sync", "sync/s.go", "unreachable", "unresolved", "warn", "wide",
               "xfolder", "xnarrow", "xwide">>
MCRank == [s \in {MCStrings[i] : i \in DOMAIN MCStrings} |->
            CHOOSE i \in DOMAIN MCStrings : MCStrings[i] = s]

Local(p, n) == [path |-> CASE p = "a" -> "m/a" [] p = "b" -> "m/b" [] p = "sync" -> "m/sync",
                resolved |-> p, type |-> "local", line |-> n]
Std(n) == [path |-> "sync", resolved |-> "sync", type |-> "stdlib", line |-> n]
Cgo(n) == [path |-> "C", resolved |-> "", type |-> "unresolved", line |-> n]

F(path, pkg, name, imports) ==
    [path |-> path, pkg |-> pkg, name |-> name, line |-> 1, imports |-> imports]

Scan(a, b, t, s) ==
    <<F("a/a.go", "a", "a", a), F("b/b.go", "b", "b", b),
      F("b/b_test.go", "b", "b_test", t), F("sync/s.go", "sync", "sync", s)>>

(* Patterns and templates. *)
Packages == {"a", "b", "sync"}
Texts == Packages \cup {NoText}
(* ^([^/]+)/ *)
Dir == [groups |-> 1,
        on |-> [f \in {"a/a.go", "b/b.go", "b/b_test.go", "sync/s.go"} |->
            CASE f = "a/a.go" -> <<"a">>
              [] f \in {"b/b.go", "b/b_test.go"} -> <<"b">>
              [] f = "sync/s.go" -> <<"sync">>]]
(* ^a/ *)
InA == [groups |-> 0, on |-> [f \in {"a/a.go"} |-> <<>>]]
(* ^$1$ *)
Same == [ref |-> 1, on |-> [t \in Texts |-> {t} \ {NoText}]]
One(values) == [ref |-> 0, on |-> [t \in Texts |-> values]]

Rules(name, severity, scope, from, to) ==
    [name |-> name, severity |-> severity, scope |-> scope, from |-> from, to |-> to]

Config(forbidden, required, allowed, severity) ==
    [forbidden |-> forbidden, required |-> required, allowed |-> allowed,
     allowedSeverity |-> severity]

-----------------------------------------------------------------------------
(* Reachable and unreachable rules, with and without a file filter. *)

Walk(name, from, to, wanted, filter) ==
    Rules(name, "error", "module", from,
          [to EXCEPT !.reachable = {wanted}, !.fileNot = filter])

Test == {"b/b_test.go"}

ReachFroms ==
    {[AnyFrom EXCEPT !.path = <<InA>>],
     [AnyFrom EXCEPT !.path = <<Dir>>],
     [AnyFrom EXCEPT !.path = <<InA, Dir>>],
     [AnyFrom EXCEPT !.pathNot = {"sync/s.go", "b/b.go"}, !.moreThan = {0}]}

ReachTos ==
    {[AnyTo EXCEPT !.path = <<One({"sync"})>>],
     [AnyTo EXCEPT !.path = <<One(Packages)>>, !.pathNot = <<One({"a"})>>],
     [AnyTo EXCEPT !.path = <<One({"b"}), Same>>],
     [AnyTo EXCEPT !.path = <<One(Packages)>>, !.pathNot = <<Same>>]}

ReachConfigurations ==
    {Config(<<Walk("wide", f, t, TRUE, {}), Walk("narrow", f, t, TRUE, Test)>>, <<>>, {}, "warn")
        : f \in ReachFroms, t \in ReachTos}
    \cup
    {Config(<<Walk("wide", f, t, TRUE, {}), Walk("xwide", f, t, FALSE, {}),
              Walk("xnarrow", f, t, FALSE, Test)>>, <<>>, {}, "warn")
        : f \in ReachFroms, t \in ReachTos}

ReachScans ==
    {Scan(a, b, t, s) :
        a \in {<<>>, <<Local("b", 3)>>, <<Local("b", 3), Local("sync", 4)>>,
               <<Local("sync", 3), Local("b", 4)>>},
        b \in {<<>>, <<Local("sync", 3)>>, <<Std(3), Local("a", 4)>>},
        t \in {<<>>, <<Local("sync", 3), Local("b", 3)>>},
        s \in {<<>>, <<Local("a", 3)>>}}

-----------------------------------------------------------------------------
(* moreUnstable and folder scope. *)

UnstableTos ==
    {[AnyTo EXCEPT !.moreUnstable = {TRUE}],
     [AnyTo EXCEPT !.moreUnstable = {TRUE}, !.path = <<One({"a", "sync"})>>],
     [AnyTo EXCEPT !.pathNot = <<One({"b"})>>],
     [AnyTo EXCEPT !.path = <<Same>>]}

FolderConfigurations ==
    {Config(<<Rules("folder", "warn", "folder", AnyFrom, t),
              Rules("forbid", "warn", "module", AnyFrom, t),
              Rules("xfolder", "info", "folder",
                    [AnyFrom EXCEPT !.lessThan = {2}, !.moreThan = {0}], AnyTo)>>,
            <<>>, {}, "warn") : t \in UnstableTos}
    \cup
    {Config(<<Rules("folder", "warn", "folder", [AnyFrom EXCEPT !.path = <<Dir>>],
                    [AnyTo EXCEPT !.path = <<Same>>])>>, <<>>, {}, "warn")}

FolderScans ==
    {Scan(a, b, t, s) :
        a \in {<<>>, <<Local("b", 3)>>, <<Local("b", 3), Local("sync", 4)>>},
        b \in {<<>>, <<Local("sync", 3)>>, <<Local("a", 3), Local("sync", 4)>>},
        t \in {<<Local("b", 3)>>, <<Local("a", 3), Local("b", 3)>>},
        s \in {<<>>, <<Local("a", 3)>>, <<Local("b", 3), Local("a", 4)>>}}

-----------------------------------------------------------------------------
(* Edge, source-only, allowed and required rules; ignored severities. *)

Lists == {
    Config(<<Rules("forbid", "error", "module", [AnyFrom EXCEPT !.path = <<Dir>>],
                   [AnyTo EXCEPT !.pathNot = <<Same>>, !.types = {"local", "stdlib"}]),
             Rules("wide", "info", "module", [AnyFrom EXCEPT !.packageName = {{"a", "b"}}], AnyTo),
             Rules("ignored", "ignore", "module", AnyFrom, AnyTo)>>,
           <<Rules(name, "info", "module", [AnyFrom EXCEPT !.packageName = {{"a", "b"}}],
                   [AnyTo EXCEPT !.path = <<One({"sync"})>>, !.typesNot = {"local"}])>>,
           {}, "warn") : name \in {"need", "wide"}}
  \cup
    {Config(<<Rules("forbid", "error", "module", [AnyFrom EXCEPT !.orphan = {TRUE}], AnyTo),
              Rules("wide", severity, "module", [AnyFrom EXCEPT !.lessThan = {1}], AnyTo)>>,
            <<Rules("ignored", "ignore", "module", AnyFrom, [AnyTo EXCEPT !.types = {"module"}])>>,
            allowed, "error") :
        severity \in {"warn", "ignore"},
        allowed \in {{}, {<<>>},
            {<<Rules("need", "warn", "module", [AnyFrom EXCEPT !.path = <<InA>>],
                     [AnyTo EXCEPT !.path = <<One({"sync"})>>]),
               Rules("wide", "warn", "module", [AnyFrom EXCEPT !.path = <<Dir>>],
                     [AnyTo EXCEPT !.path = <<Same>>])>>}}}
  \cup
    {Config(<<>>, <<Rules("need", "warn", "module", AnyFrom, [AnyTo EXCEPT !.path = <<Same>>]),
                    Rules("wide", "warn", "module", [AnyFrom EXCEPT !.path = <<InA, Dir>>],
                          [AnyTo EXCEPT !.path = <<t>>])>>,
            {<<>>}, "ignore") : t \in {Same, One({"b"})}}

ListScans ==
    {Scan(a, b, t, s) :
        a \in {<<>>, <<Std(3), Local("sync", 3)>>, <<Std(3), Std(3)>>,
               <<Local("b", 3), Std(4), Std(4)>>},
        b \in {<<>>, <<Local("sync", 3), Std(3)>>},
        t \in {<<Local("b", 3)>>, <<Std(2), Std(3)>>, <<Cgo(2), Local("b", 2)>>},
        s \in {<<>>, <<Std(2)>>}}
-----------------------------------------------------------------------------

Walking == [configurations |-> ReachConfigurations, scans |-> ReachScans]
Scopes == [configurations |-> FolderConfigurations, scans |-> FolderScans]
Together == [configurations |-> Lists, scans |-> ListScans]

Walks == {Walking}
MCQuestions == {Walking, Scopes, Together}
=============================================================================

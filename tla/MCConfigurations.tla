-------------------------- MODULE MCConfigurations --------------------------
(* Documents of one rule with every combination of its fields, with every  *)
(* malformed value in every field, and of two rules with their names; and  *)
(* programs that set every field to nil, to an empty slice and to values   *)
(* good and bad.                                                           *)
EXTENDS Normalisation

Str(text) == Loader!Str(text)
Arr(items) == Loader!Arr(items)
Obj(members) == Loader!Obj(members)
Scalar(kind, text) == Loader!Scalar(kind, text)
Lists == Loader!Lists

Mem(name, value) == [name |-> name, value |-> value]
True == Scalar("boolean", "true")
False == Scalar("boolean", "false")
Num(text) == Scalar("number", text)
Strs(texts) == Arr([i \in DOMAIN texts |-> Str(texts[i])])

MCGroups == "a" :> 0 @@ "(a)" :> 1
MCReference == "a" :> 0 @@ "$1" :> 1
MCInteger == "0" :> 0 @@ "1" :> 1 @@ "2" :> 2 @@ "3" :> 3

(* Objects of the fields names[i], each absent or with one of values[i]. *)
Objects(names_, values) ==
    {Obj(FlattenSeq([i \in DOMAIN names_ |->
        IF v[i] = 0 THEN <<>> ELSE <<Mem(names_[i], values[i][v[i]])>>])) :
     v \in {w \in [DOMAIN names_ -> 0..4] : \A i \in DOMAIN names_ : w[i] <= Len(values[i])}}

Tos == Objects(
    <<"path", "pathNot", "dependencyTypes", "dependencyTypesNot", "reachable",
      "reachableFilePathNot", "moreUnstable">>,
    << <<Strs(<<"a">>), Strs(<<"$1">>)>>, <<Strs(<<"a", "$1">>)>>,
       <<Strs(<<"stdlib", "local">>), Strs(<<"stdlib">>)>>,
       <<Strs(<<"local">>), Strs(<<"stdlib">>)>>, <<True, False>>, <<Strs(<<"a">>)>>,
       <<True, False>> >>)

FromPaths == Objects(<<"path">>, << <<Strs(<<"a">>), Strs(<<"(a)">>), Strs(<<"(a)", "a">>)>> >>)

Froms == Objects(
    <<"orphan", "packageName", "numberOfDependentsLessThan", "numberOfDependentsMoreThan">>,
    << <<True>>, <<Strs(<<"a">>)>>, <<Num("0"), Num("1"), Num("2"), Num("3")>>,
       <<Num("0"), Num("1"), Num("2")>> >>)

RuleOf(name, from, to, others) ==
    Obj(<<Mem("name", Str(name)), Mem("from", from), Mem("to", to)>> \o others)
Doc(kind, rules) == Obj(<<Mem(kind, Arr(rules))>>)

Headers == {<<kind, <<>>>> : kind \in ToSet(Lists)} \cup {<<"forbidden", <<Mem("scope", Str("folder"))>>>>}

Targets == {Doc(h[1], <<RuleOf("r", from, to, h[2])>>) :
                h \in Headers, from \in FromPaths, to \in Tos}
Sources == {Doc(h[1], <<RuleOf("r", from, Obj(<<Mem("path", Strs(<<"a">>))>>), h[2])>>) :
                h \in Headers, from \in Froms}

(* A field of any name and value, added to each object of a document; it   *)
(* may be there already.                                                   *)
Odd == {Mem(n, v) :
    n \in {"path", "pathNot", "packageName", "orphan", "numberOfDependentsLessThan",
           "dependencyTypes", "dependencyTypesNot", "reachable", "reachableFilePathNot",
           "moreUnstable", "name", "comment", "severity", "scope", "from", "to", "forbidden",
           "allowedSeverity", "other"},
    v \in {Scalar("null", "null"), True, Num("1"), Num("1.5"), Num("9e9"), Str("not-in-allowed"),
           Str(""), Str("error"), Str("module"), Strs(<<>>), Arr(<<True>>), Strs(<<"(">>),
           Strs(<<"a", "$0">>), Strs(<<"stdlib">>), Obj(<<>>)}}

Plain == Obj(<<Mem("path", Strs(<<"a">>))>>)

(* The document with m at one of its places. *)
With(place, kind, m) ==
    CASE place = "from" -> Doc(kind, <<RuleOf("r", Obj(<<m>>), Plain, <<>>)>>)
      [] place = "to" -> Doc(kind, <<RuleOf("r", Plain, Obj(<<m>>), <<>>)>>)
      [] place = "second" -> Doc(kind, <<RuleOf("r", Plain, Obj(Plain.members \o <<m>>), <<>>)>>)
      [] place = "rule" -> Doc(kind, <<RuleOf("r", Plain, Plain, <<m>>)>>)
      [] place = "name" -> Doc(kind, <<Obj(<<m, Mem("from", Plain), Mem("to", Plain)>>)>>)
      [] place = "source" -> Doc(kind, <<Obj(<<Mem("name", Str("r")), Mem("to", Plain), m>>)>>)
      [] place = "target" -> Doc(kind, <<Obj(<<Mem("name", Str("r")), Mem("from", Plain), m>>)>>)
      [] place = "item" -> Doc(kind, <<m.value>>)
      [] place = "list" -> Obj(<<Mem(kind, m.value)>>)
      [] place = "top" -> Obj(Doc(kind, <<>>).members \o <<m>>)
      [] OTHER -> m.value

Malformed == {With(place, kind, m) : kind \in ToSet(Lists), m \in Odd,
    place \in {"from", "to", "second", "rule", "name", "source", "target", "item", "list",
               "top", "root"}}

(* Two rules with the same or different names, in one list or in two. *)
Named ==
    {Doc(kind, <<RuleOf("r", Plain, Plain, <<>>), RuleOf(n, Plain, Plain, <<>>)>>) :
        kind \in ToSet(Lists), n \in {"r", "s"}}
    \cup {Obj(<<Mem(kinds[1], Arr(<<RuleOf("r", Plain, Plain, <<>>)>>)),
                Mem(kinds[2], Arr(<<RuleOf("r", Plain, Plain, <<>>)>>))>>) :
            kinds \in ToSet(Lists) \X ToSet(Lists)}

MCDocuments == {Targets, Sources, Malformed, Named}
-----------------------------------------------------------------------------
(* Configurations built by programs *)

Nil == {}
Empty == {<<>>}
A == {<<"a">>}


BuiltFroms ==
    [path: {Nil, Empty, A, {<<"(a)">>}}, pathNot: {Nil, Empty}, orphan: {Nil, {FALSE}},
     packageName: {Nil, A}, lessThan: {Nil, {0}, {2}}, moreThan: {Nil, {-1}, {0}, {1}}]

BuiltTos ==
    [path: {Nil, A, {<<"$1">>}}, pathNot: {Nil, Empty}, types: {Nil, Empty, {<<"local">>}, A},
     typesNot: {Nil, {<<"local">>}}, reachable: {Nil, {TRUE}, {FALSE}},
     fileNot: {Nil, Empty, A}, moreUnstable: {Nil, {TRUE}, {FALSE}}]

From0 == [path |-> A, pathNot |-> Nil, orphan |-> Nil, packageName |-> Nil, lessThan |-> Nil,
          moreThan |-> Nil]
To0 == [path |-> A, pathNot |-> Nil, types |-> Nil, typesNot |-> Nil, reachable |-> Nil,
        fileNot |-> Nil, moreUnstable |-> Nil]

BuiltRuleOf(name, severity, scope, from, to) ==
    [name |-> name, severity |-> severity, scope |-> scope, from |-> from, to |-> to]

(* A configuration with one rule, in the list of a kind. *)
One(kind, r) ==
    [forbidden |-> IF kind = "forbidden" THEN {<<r>>} ELSE Nil,
     required |-> IF kind = "required" THEN {<<r>>} ELSE Nil,
     allowed |-> IF kind = "allowed" THEN {<<r>>} ELSE Nil, allowedSeverity |-> ""]

BuiltHeaders == {<<"forbidden", "">>, <<"forbidden", "folder">>, <<"required", "">>, <<"allowed", "">>}

BuiltSources == {{One(h[1], BuiltRuleOf("r", "", h[2], from, To0))} : h \in BuiltHeaders, from \in BuiltFroms}
BuiltTargets == {{One(h[1], BuiltRuleOf("r", "", h[2], [From0 EXCEPT !.path = path], to))} :
                h \in BuiltHeaders, path \in {A, {<<"(a)">>}}, to \in BuiltTos}

BuiltNamed(names_, severity) ==
    {Nil, Empty, {[i \in DOMAIN names_ |-> BuiltRuleOf(names_[i], severity, "", From0, To0)]}}

Whole == {{config} : config \in
    [forbidden: BuiltNamed(<<"r">>, "error") \cup BuiltNamed(<<"r", "">>, ""),
     required: BuiltNamed(<<"r">>, "warn") \cup BuiltNamed(<<"s">>, "bad"),
     allowed: BuiltNamed(<<"r">>, "") \cup BuiltNamed(<<"r", "r">>, ""),
     allowedSeverity: {"", "error", "bad"}]}

MCPrograms == {BuiltSources, BuiltTargets, Whole, {{}}}
=============================================================================

-------------------------- MODULE ConfigValidator --------------------------
(***************************************************************************)
(* config: from the tree of a document to an accepted configuration. The   *)
(* checks of configValidator in their order, then the decoding and the     *)
(* defaults of parse; and the JSON Schema published for the same           *)
(* documents. An operator named for a function of validate.go is the set   *)
(* of at most one cause for which that function refuses a node.            *)
(***************************************************************************)
EXTENDS Configuration, SequencesExt

CONSTANTS
    Groups,     \* number of groups of each text that is a regular expression
    Reference,  \* highest reference of each text that is a template
    Integer     \* value of each number text made of digits that fits an int

VARIABLES
    document,   \* the tree
    list, rule, \* the list and the rule being checked
    names,      \* [constraint, allowed]: the names met so far
    stage,      \* "root", "list", "from", "to", "name", "severity",
                \* "decode", "accepted", "refused"
    cause,      \* why the document is refused
    result      \* at most one configuration

vars == <<document, list, rule, names, stage, cause, result>>

(* jsonNode *)
Node(kind, text, members, items) ==
    [kind |-> kind, text |-> text, members |-> members, items |-> items]
Str(text) == Node("string", text, <<>>, <<>>)
Arr(items) == Node("array", "", <<>>, items)
Obj(members) == Node("object", "", members, <<>>)
Scalar(kind, text) == Node(kind, text, <<>>, <<>>)

(* The trees parseJSON returns, as deep as the checks look into one. *)
IsNode(n) ==
    /\ n.members \in Seq(ToSet(n.members)) /\ n.items \in Seq(ToSet(n.items))
    /\ n.kind = "boolean" => n.text \in {"true", "false"}

Below(nodes) == UNION {{m.value : m \in ToSet(n.members)} \cup ToSet(n.items) : n \in nodes}

IsDocument(root) ==
    LET lists == Below({root})
        rules == Below(lists)
        clauses == Below(rules)
    IN  \A n \in {root} \cup lists \cup rules \cup clauses \cup Below(clauses) : IsNode(n)

Lists == <<"forbidden", "required", "allowed">>

(* The value of a field, if it is there. *)
Values(node, name) == {m.value : m \in {n \in ToSet(node.members) : n.name = name}}
Has(node, name) == Values(node, name) # {}
The(node, name) == CHOOSE value \in Values(node, name) : TRUE
Kind == Lists[list]
Rules == IF Has(document, Kind) THEN The(document, Kind).items ELSE <<>>
Rule == Rules[rule]

-----------------------------------------------------------------------------
(* The checks of one node *)

When(condition, why) == IF condition THEN {why} ELSE {}

(* Checks are made in their order: the first that fails is reported. *)
First(checks) ==
    LET failing == {i \in DOMAIN checks : checks[i] # {}}
    IN  IF failing = {} THEN {} ELSE checks[CHOOSE i \in failing : \A j \in failing : i <= j]

IfPresent(node, name, Check(_)) == UNION {Check(value) : value \in Values(node, name)}

OfKind(node, kind) == When(node.kind # kind, "kind")

Object(node, allowed) ==
    First(<<OfKind(node, "object")>>
        \o [i \in DOMAIN node.members |->
            First(<<When(\E j \in 1..i - 1 : node.members[j].name = node.members[i].name,
                         "duplicate field"),
                    When(node.members[i].name \notin allowed, "unknown field")>>)])

NonEmptyStringArray(node) ==
    First(<<OfKind(node, "array"), When(node.items = <<>>, "empty"),
            When(\E i \in DOMAIN node.items : node.items[i].kind # "string", "kind")>>)

RegularExpressions(node) ==
    First(<<NonEmptyStringArray(node),
            When(\E i \in DOMAIN node.items : node.items[i].text \notin DOMAIN Groups, "regex")>>)

OneOf(node, texts) == First(<<OfKind(node, "string"), When(node.text \notin texts, "enum")>>)

DependencyTypes(node) ==
    First(<<NonEmptyStringArray(node),
            When(\E i \in DOMAIN node.items : node.items[i].text \notin DependencyType, "enum")>>)

Texts(node) == {node.items[i].text : i \in DOMAIN node.items}

Ref(text) == IF text \in DOMAIN Reference THEN Reference[text] ELSE 0

Templates(node, fromPatterns, captures) ==
    First(<<NonEmptyStringArray(node)>>
        \o [i \in DOMAIN node.items |->
            LET text == node.items[i].text
            IN  First(<<When(text \notin DOMAIN Reference, "regex"),
                        When(Ref(text) > 0 /\ ~captures, "capture"),
                        When(Ref(text) > 0 /\ fromPatterns = {}, "capture"),
                        When(\E p \in fromPatterns : Groups[p] < Ref(text), "capture")>>)])

DependentCount(node) ==
    First(<<OfKind(node, "number"), When(node.text \notin DOMAIN Integer, "number")>>)

Counts(from, name) ==
    {Integer[v.text] : v \in {w \in Values(from, name) : w.text \in DOMAIN Integer}}

-----------------------------------------------------------------------------
(* The checks of one rule *)

RuleFields(kind) ==
    {"name", "comment", "from", "to"} \cup
    CASE kind = "forbidden" -> {"severity", "scope"}
      [] kind = "required" -> {"severity"}
      [] OTHER -> {}

(* rule, up to its scope *)
Header(node, kind) ==
    First(<<Object(node, RuleFields(kind)),
            When(~Has(node, "name"), "missing"),
            IfPresent(node, "name", LAMBDA v : OfKind(v, "string")),
            When(\E v \in Values(node, "name") : v.text = "", "empty"),
            When(\E v \in Values(node, "name") : v.text = Reserved, "reserved"),
            When(~Has(node, "from"), "missing"),
            When(~Has(node, "to"), "missing"),
            IfPresent(node, "comment", LAMBDA v : OfKind(v, "string")),
            IfPresent(node, "severity", LAMBDA v : OneOf(v, Severity)),
            IfPresent(node, "scope", LAMBDA v : OneOf(v, {"module", "folder"}))>>)

Folder(node) == \E v \in Values(node, "scope") : v.text = "folder"

(* Mutated form of EmptyRange: an adjacent bound is off by one. *)
EmptyRangeOffByOne(less, more) == more >= less - 2

EmptyRange(less, more) == more >= less - 1

From(node, kind, folder) ==
    First(<<Object(node, {"path", "pathNot", "packageName"} \cup
                (IF kind = "required" THEN {}
                 ELSE {"orphan", "numberOfDependentsLessThan", "numberOfDependentsMoreThan"})),
            When(folder /\ (Has(node, "orphan") \/ Has(node, "packageName")), "conflict"),
            IfPresent(node, "path", RegularExpressions),
            IfPresent(node, "pathNot", RegularExpressions),
            IfPresent(node, "packageName", RegularExpressions),
            IfPresent(node, "orphan", LAMBDA v : OfKind(v, "boolean")),
            IfPresent(node, "numberOfDependentsLessThan", DependentCount),
            When(\E n \in Counts(node, "numberOfDependentsLessThan") : n < 1, "minimum"),
            IfPresent(node, "numberOfDependentsMoreThan", DependentCount),
            When(\E less \in Counts(node, "numberOfDependentsLessThan"),
                    more \in Counts(node, "numberOfDependentsMoreThan") : EmptyRange(less, more),
                 "range")>>)

FromPatterns(node) == UNION {Texts(v) : v \in Values(node, "path")}

(* Mutated form of Captures: reachable: false does not rule them out. *)
CapturesAlways(node) == TRUE

Captures(node) == \A v \in Values(node, "reachable") : v.text # "false"

To(node, patterns, kind, folder) ==
    LET Conflict(names_) == \E name \in names_ : Has(node, name)
        Types == {"dependencyTypes", "dependencyTypesNot"}
        Template(v) == Templates(v, patterns, Captures(node))
    IN  First(<<
            Object(node, {"path", "pathNot"} \cup Types \cup
                (IF kind = "forbidden"
                 THEN {"reachable", "reachableFilePathNot", "moreUnstable"} ELSE {})),
            When(kind = "required" /\ node.members = <<>>, "empty"),
            When(folder /\ Conflict({"reachable", "reachableFilePathNot"} \cup Types), "conflict"),
            IfPresent(node, "moreUnstable", LAMBDA v : OfKind(v, "boolean")),
            When(\E v \in Values(node, "moreUnstable") : v.text # "true", "true"),
            When(Has(node, "moreUnstable") /\ Has(node, "reachable"), "conflict"),
            IfPresent(node, "reachable", LAMBDA v : OfKind(v, "boolean")),
            When(Has(node, "reachable") /\ ~Has(node, "path"), "missing"),
            When(Has(node, "reachable") /\ Conflict(Types), "conflict"),
            When(Has(node, "reachableFilePathNot") /\ ~Has(node, "reachable"), "missing"),
            IfPresent(node, "reachableFilePathNot", RegularExpressions),
            IfPresent(node, "path", Template),
            IfPresent(node, "pathNot", Template),
            IfPresent(node, "dependencyTypes", DependencyTypes),
            IfPresent(node, "dependencyTypesNot", DependencyTypes),
            When(/\ Has(node, "moreUnstable")
                 /\ \/ \E v \in Values(node, "dependencyTypes") : "local" \notin Texts(v)
                    \/ \E v \in Values(node, "dependencyTypesNot") : "local" \in Texts(v), "local")>>)

-----------------------------------------------------------------------------
(* Decoding an accepted document, and the defaults *)

Or(values, default) == IF values = {} THEN default ELSE CHOOSE v \in values : TRUE
TextOf(node, name, default) == Or({v.text : v \in Values(node, name)}, default)
Items(node, name) == Or({[i \in DOMAIN v.items |-> v.items[i].text] : v \in Values(node, name)}, <<>>)
Flags(node, name) == {v.text = "true" : v \in Values(node, name)}

DecodeFrom(node) ==
    [path |-> [i \in DOMAIN Items(node, "path") |-> [groups |-> Groups[Items(node, "path")[i]]]],
     pathNot |-> ToSet(Items(node, "pathNot")),
     orphan |-> Flags(node, "orphan"), packageName |-> ToSet(Items(node, "packageName")),
     lessThan |-> Counts(node, "numberOfDependentsLessThan"),
     moreThan |-> Counts(node, "numberOfDependentsMoreThan")]

References(texts) == [i \in DOMAIN texts |-> [ref |-> Ref(texts[i])]]

DecodeTo(node) ==
    [path |-> References(Items(node, "path")), pathNot |-> References(Items(node, "pathNot")),
     types |-> ToSet(Items(node, "dependencyTypes")),
     typesNot |-> ToSet(Items(node, "dependencyTypesNot")),
     reachable |-> Flags(node, "reachable"),
     fileNot |-> ToSet(Items(node, "reachableFilePathNot")),
     moreUnstable |-> Flags(node, "moreUnstable")]

DecodeRule(node) ==
    [name |-> TextOf(node, "name", ""), severity |-> TextOf(node, "severity", "warn"),
     scope |-> TextOf(node, "scope", "module"),
     from |-> DecodeFrom(The(node, "from")), to |-> DecodeTo(The(node, "to"))]

DecodeRules(node) == [i \in DOMAIN node.items |-> DecodeRule(node.items[i])]

Decode ==
    [forbidden |-> Or({DecodeRules(v) : v \in Values(document, "forbidden")}, <<>>),
     required |-> Or({DecodeRules(v) : v \in Values(document, "required")}, <<>>),
     allowed |-> {DecodeRules(v) : v \in Values(document, "allowed")},
     allowedSeverity |-> TextOf(document, "allowedSeverity", "warn")]

-----------------------------------------------------------------------------
(* parse and validate *)

Start ==
    /\ list = 1 /\ rule = 1 /\ names = [constraint |-> {}, allowed |-> {}]
    /\ stage = "root" /\ cause = {} /\ result = {}

(* Go on to next, or refuse the document for why. *)
Check(why, next) ==
    /\ cause' = why
    /\ stage' = IF why = {} THEN next ELSE "refused"

CheckRoot ==
    /\ stage = "root"
    /\ Check(Object(document, {"forbidden", "required", "allowed", "allowedSeverity"}), "list")
    /\ UNCHANGED <<document, list, rule, names, result>>

RefuseList ==
    /\ stage = "list" /\ list <= Len(Lists)
    /\ \E value \in Values(document, Kind) : value.kind # "array"
    /\ Check({"kind"}, "list")
    /\ UNCHANGED <<document, list, rule, names, result>>

AtList ==
    /\ stage = "list" /\ list <= Len(Lists)
    /\ \A value \in Values(document, Kind) : value.kind = "array"

NextList ==
    /\ AtList /\ rule > Len(Rules)
    /\ list' = list + 1 /\ rule' = 1
    /\ UNCHANGED <<document, names, stage, cause, result>>

CheckHeader ==
    /\ AtList /\ rule <= Len(Rules)
    /\ Check(Header(Rule, Kind), "from")
    /\ UNCHANGED <<document, list, rule, names, result>>

CheckFrom ==
    /\ stage = "from"
    /\ Check(From(The(Rule, "from"), Kind, Folder(Rule)), "to")
    /\ UNCHANGED <<document, list, rule, names, result>>

CheckTo ==
    /\ stage = "to"
    /\ Check(To(The(Rule, "to"), FromPatterns(The(Rule, "from")), Kind, Folder(Rule)), "name")
    /\ UNCHANGED <<document, list, rule, names, result>>

(* forbidden and required rules share their names. *)
NameSpace == IF Kind = "allowed" THEN "allowed" ELSE "constraint"

CheckName ==
    /\ stage = "name"
    /\ LET name == The(Rule, "name").text
       IN  /\ Check(When(name \in names[NameSpace], "duplicate name"), "list")
           /\ names' = [names EXCEPT ![NameSpace] = @ \cup {name}]
    /\ rule' = rule + 1
    /\ UNCHANGED <<document, list, result>>

CheckSeverity ==
    /\ stage = "list" /\ list > Len(Lists)
    /\ Check(IfPresent(document, "allowedSeverity", LAMBDA v : OneOf(v, Severity)), "decode")
    /\ UNCHANGED <<document, list, rule, names, result>>

Accept ==
    /\ stage = "decode"
    /\ stage' = "accepted" /\ result' = {Decode}
    /\ UNCHANGED <<document, list, rule, names, cause>>

Finished == stage \in {"accepted", "refused"}
Validate ==
    \/ CheckRoot \/ RefuseList \/ NextList \/ CheckHeader \/ CheckFrom \/ CheckTo
    \/ CheckName \/ CheckSeverity \/ Accept

-----------------------------------------------------------------------------
(* schema/godep-cruiser.schema.json: what it admits of each node *)

SObject(node, required, allowed) ==
    /\ node.kind = "object"
    /\ \A m \in ToSet(node.members) : m.name \in allowed
    /\ \A name \in required : Has(node, name)

SField(node, name, Admits(_)) == \A value \in Values(node, name) : Admits(value)

SEnum(node, texts) == node.kind = "string" /\ node.text \in texts

SRegexArray(node) ==
    /\ node.kind = "array" /\ node.items # <<>>
    /\ \A i \in DOMAIN node.items : node.items[i].kind = "string"

STypes(node) == SRegexArray(node) /\ Texts(node) \subseteq DependencyType

SInteger(node, least) ==
    node.kind = "number" /\ (node.text \in DOMAIN Integer => Integer[node.text] >= least)

SFrom(node, required) ==
    /\ SObject(node, {}, {"path", "pathNot", "packageName"} \cup
            (IF required THEN {}
             ELSE {"orphan", "numberOfDependentsLessThan", "numberOfDependentsMoreThan"}))
    /\ \A name \in {"path", "pathNot", "packageName"} : SField(node, name, SRegexArray)
    /\ SField(node, "orphan", LAMBDA v : v.kind = "boolean")
    /\ SField(node, "numberOfDependentsLessThan", LAMBDA v : SInteger(v, 1))
    /\ SField(node, "numberOfDependentsMoreThan", LAMBDA v : SInteger(v, 0))

STo(node) ==
    /\ SObject(node, {}, {"path", "pathNot", "dependencyTypes", "dependencyTypesNot"})
    /\ SField(node, "path", SRegexArray) /\ SField(node, "pathNot", SRegexArray)
    /\ SField(node, "dependencyTypes", STypes) /\ SField(node, "dependencyTypesNot", STypes)

SForbiddenTo(node) ==
    /\ SObject(node, {}, {"path", "pathNot", "dependencyTypes", "dependencyTypesNot",
                          "reachable", "reachableFilePathNot", "moreUnstable"})
    /\ \A name \in {"path", "pathNot", "reachableFilePathNot"} : SField(node, name, SRegexArray)
    /\ SField(node, "dependencyTypes", STypes) /\ SField(node, "dependencyTypesNot", STypes)
    /\ SField(node, "reachable", LAMBDA v : v.kind = "boolean")
    /\ SField(node, "moreUnstable", LAMBDA v : v.kind = "boolean" /\ v.text = "true")
    /\ Has(node, "reachable") =>
        /\ Has(node, "path")
        /\ \A name \in {"dependencyTypes", "dependencyTypesNot", "moreUnstable"} : ~Has(node, name)
    /\ Has(node, "moreUnstable") =>
        /\ SField(node, "dependencyTypes", LAMBDA v : "local" \in Texts(v))
        /\ SField(node, "dependencyTypesNot", LAMBDA v : "local" \notin Texts(v))
    /\ Has(node, "reachableFilePathNot") => Has(node, "reachable")

SRule(node, kind) ==
    /\ SObject(node, {"name", "from", "to"}, {"name", "comment", "from", "to"} \cup
            CASE kind = "forbidden" -> {"severity", "scope"}
              [] kind = "required" -> {"severity"} [] OTHER -> {})
    /\ SField(node, "name", LAMBDA v : v.kind = "string" /\ v.text \notin {"", Reserved})
    /\ SField(node, "comment", LAMBDA v : v.kind = "string")
    /\ SField(node, "severity", LAMBDA v : SEnum(v, Severity))
    /\ SField(node, "scope", LAMBDA v : SEnum(v, {"module", "folder"}))
    /\ SField(node, "from", LAMBDA v : SFrom(v, kind = "required"))
    /\ IF kind = "forbidden" THEN SField(node, "to", SForbiddenTo)
       ELSE SField(node, "to", LAMBDA v : STo(v) /\ (kind = "required" => v.members # <<>>))
    /\ Folder(node) =>
        /\ \A name \in {"orphan", "packageName"} : ~Has(The(node, "from"), name)
        /\ \A name \in {"reachable", "reachableFilePathNot", "dependencyTypes",
                        "dependencyTypesNot"} : ~Has(The(node, "to"), name)

SchemaAdmits ==
    /\ SObject(document, {}, {"forbidden", "required", "allowed", "allowedSeverity"})
    /\ \A kind \in ToSet(Lists) : SField(document, kind, LAMBDA v :
            v.kind = "array" /\ \A i \in DOMAIN v.items : SRule(v.items[i], kind))
    /\ SField(document, "allowedSeverity", LAMBDA v : SEnum(v, Severity))

-----------------------------------------------------------------------------
(* Properties *)

(* What parse accepts, its defaults filled in, is a configuration the      *)
(* engine may be given: the rules between fields are enforced on the       *)
(* fields' presence in the document, and hold of the decoded values.       *)
AcceptsValid == \A config \in result : Valid(config)

(* Every document the loader accepts, the published schema admits.         *)
AcceptedAdmitted == stage = "accepted" => SchemaAdmits

(* README.md:95, DESIGN.ja.md:121: what the schema admits, the loader      *)
(* refuses only for texts that are no regular expression or integer, for   *)
(* a field written twice, and for what makes the decoded configuration     *)
(* invalid across fields: references, the range of counts, names.          *)
RefusedForCause ==
    stage = "refused" /\ SchemaAdmits =>
        \/ cause \subseteq {"regex", "number", "duplicate field"}
        \/ cause \subseteq {"capture", "range", "duplicate name"} /\ ~Valid(Decode)

(* A document is refused exactly where the published schema or a rule the  *)
(* schema cannot state refuses it.                                         *)
SchemaAgrees == AcceptedAdmitted /\ RefusedForCause
=============================================================================

--------------------------- MODULE Normalisation ---------------------------
(***************************************************************************)
(* The two ways a configuration comes to the engine. A document is loaded  *)
(* from a file; a configuration built by a program is written as JSON and  *)
(* read by the same loader (cruiser: normalizeConfiguration), so that both *)
(* kinds of caller are held to the same rules. A Go slice is nil, {}, or   *)
(* one sequence, {<<...>>}, which may be empty; a pointer is nil, {}, or   *)
(* one value. JSON's omitempty leaves both empty slices out, which for a   *)
(* matcher would mean that it is not there: hence the check before         *)
(* writing.                                                                *)
(***************************************************************************)
EXTENDS Integers, SequencesExt, TLC

CONSTANTS
    Documents,  \* sets of the trees a file may have
    Programs,   \* sets of the configurations built, each {config}, or {} for nil
    Groups, Reference, Integer

VARIABLES
    origin,     \* "file" or "program"
    given,      \* at most one configuration built by a program
    document, list, rule, names, stage, cause, result

loader == <<document, list, rule, names, stage, cause, result>>
vars == <<origin, given, loader>>

Loader == INSTANCE ConfigValidator

ASSUME TextsAssumption ==
    /\ \A text \in DOMAIN Groups : Groups[text] \in Nat
    /\ \A text \in DOMAIN Reference : Reference[text] \in Nat
    /\ \A text \in DOMAIN Integer : Integer[text] \in Nat

ASSUME DocumentsAssumption ==
    \A family \in Documents : \A root \in family : Loader!IsDocument(root)

(* Load *)
FromFile ==
    /\ origin = "file" /\ given = {}
    /\ \E family \in Documents : document \in family
    /\ Loader!Start

FromProgram ==
    /\ origin = "program"
    /\ \E family \in Programs : given \in family
    /\ document = Loader!Scalar("null", "null")
    /\ list = 1 /\ rule = 1 /\ names = [constraint |-> {}, allowed |-> {}]
    /\ stage = "given" /\ cause = {} /\ result = {}

RulesOf(config) ==
    UNION {ToSet(rules) : rules \in config.forbidden \cup config.required \cup config.allowed}

(* What the Go types let a program build: slices and pointers are nil or   *)
(* set, a count is an int, and only the rules of a list that has a         *)
(* severity or a scope have that field.                                    *)
AtMostOne(set) == \A x, y \in set : x = y
IsSlice(set) == AtMostOne(set) /\ \A s \in set : s \in Seq(ToSet(s))
IsFlag(set) == AtMostOne(set) /\ set \subseteq BOOLEAN
IsCount(set) ==
    /\ AtMostOne(set)
    /\ \A n \in set :
        /\ n \in Int /\ (n >= 0 <=> ToString(n) \in DOMAIN Integer)
        /\ n >= 0 => Integer[ToString(n)] = n

IsProgramRule(r) ==
    /\ \A slice \in {r.from.path, r.from.pathNot, r.from.packageName, r.to.path, r.to.pathNot,
                     r.to.fileNot, r.to.types, r.to.typesNot} : IsSlice(slice)
    /\ \A flag \in {r.from.orphan, r.to.reachable, r.to.moreUnstable} : IsFlag(flag)
    /\ IsCount(r.from.lessThan) /\ IsCount(r.from.moreThan)

IsProgram(config) ==
    /\ \A slice \in {config.forbidden, config.required, config.allowed} : IsSlice(slice)
    /\ \A r \in RulesOf(config) : IsProgramRule(r)
    /\ \A rules \in config.required \cup config.allowed : \A r \in ToSet(rules) : r.scope = ""
    /\ \A rules \in config.allowed : \A r \in ToSet(rules) : r.severity = ""

ASSUME ProgramsAssumption ==
    \A family \in Programs : \A built \in family :
        AtMostOne(built) /\ \A config \in built : IsProgram(config)

Init == FromFile \/ FromProgram

-----------------------------------------------------------------------------
(* encoding/json and Config.MarshalJSON *)

Member(name, values) ==
    IF values = {} THEN <<>> ELSE <<[name |-> name, value |-> CHOOSE v \in values : TRUE]>>

Strings(texts) == Loader!Arr([i \in DOMAIN texts |-> Loader!Str(texts[i])])

(* Fields with omitempty *)
SliceField(name, slice) == Member(name, {Strings(texts) : texts \in slice \ {<<>>}})
TextField(name, text) == Member(name, {Loader!Str(t) : t \in {text} \ {""}})
BoolField(name, pointer) ==
    Member(name, {Loader!Scalar("boolean", IF b THEN "true" ELSE "false") : b \in pointer})
IntField(name, pointer) == Member(name, {Loader!Scalar("number", ToString(n)) : n \in pointer})

EncodeFrom(from) ==
    Loader!Obj(SliceField("path", from.path) \o SliceField("pathNot", from.pathNot)
        \o BoolField("orphan", from.orphan) \o SliceField("packageName", from.packageName)
        \o IntField("numberOfDependentsLessThan", from.lessThan)
        \o IntField("numberOfDependentsMoreThan", from.moreThan))

EncodeTo(to) ==
    Loader!Obj(SliceField("path", to.path) \o SliceField("pathNot", to.pathNot)
        \o BoolField("reachable", to.reachable) \o SliceField("reachableFilePathNot", to.fileNot)
        \o BoolField("moreUnstable", to.moreUnstable)
        \o SliceField("dependencyTypes", to.types) \o SliceField("dependencyTypesNot", to.typesNot))

EncodeRule(r) ==
    Loader!Obj(<<[name |-> "name", value |-> Loader!Str(r.name)]>>
        \o TextField("severity", r.severity) \o TextField("scope", r.scope)
        \o <<[name |-> "from", value |-> EncodeFrom(r.from)],
             [name |-> "to", value |-> EncodeTo(r.to)]>>)

EncodeRules(rules) == Loader!Arr([i \in DOMAIN rules |-> EncodeRule(rules[i])])

(* Mutated form of AllowedField: omitempty, as the other lists. *)
AllowedFieldOmitted(config) ==
    Member("allowed", {EncodeRules(rules) : rules \in config.allowed \ {<<>>}})

(* MarshalJSON: an empty allowed list is written, an absent one is not. *)
AllowedField(config) == Member("allowed", {EncodeRules(rules) : rules \in config.allowed})

Encode(config) ==
    Loader!Obj(Member("forbidden", {EncodeRules(rules) : rules \in config.forbidden \ {<<>>}})
        \o Member("required", {EncodeRules(rules) : rules \in config.required \ {<<>>}})
        \o AllowedField(config) \o TextField("allowedSeverity", config.allowedSeverity))

-----------------------------------------------------------------------------
(* normalizeConfiguration *)

(* Mutated form of MatcherSlices: a field added to To is forgotten. *)
MatcherSlicesWithoutFiles(r) ==
    {r.from.path, r.from.pathNot, r.from.packageName,
     r.to.path, r.to.pathNot, r.to.types, r.to.typesNot}

MatcherSlices(r) ==
    {r.from.path, r.from.pathNot, r.from.packageName,
     r.to.path, r.to.pathNot, r.to.fileNot, r.to.types, r.to.typesNot}

EmptyMatcher(config) == \E r \in RulesOf(config) : {<<>>} \in MatcherSlices(r)

Refuse ==
    /\ stage = "given"
    /\ given = {} \/ \E config \in given : EmptyMatcher(config)
    /\ stage' = "refused" /\ cause' = {"program"}
    /\ UNCHANGED <<origin, given, document, list, rule, names, result>>

Write ==
    /\ stage = "given"
    /\ \E config \in given :
        /\ ~EmptyMatcher(config)
        /\ document' = Encode(config)
    /\ stage' = "root"
    /\ UNCHANGED <<origin, given, list, rule, names, cause, result>>

Parse == Loader!Validate /\ UNCHANGED <<origin, given>>

Finished == stage \in {"accepted", "refused"}
Return == Finished /\ UNCHANGED vars

Next == Refuse \/ Write \/ Parse \/ Return

Spec == Init /\ [][Next]_vars

-----------------------------------------------------------------------------
(* Properties *)

(* Whichever way it came, what the loader accepts is a configuration the   *)
(* engine may be given.                                                    *)
AcceptsValid == Loader!AcceptsValid

(* The loader refuses a document, read from a file or written for a        *)
(* program, exactly where the published schema or a rule the schema cannot *)
(* state refuses it.                                                       *)
SchemaAgrees == Loader!SchemaAgrees

(* What the fields of a program's configuration mean (config.go): nil is   *)
(* an absent condition, an unset severity or scope its default.            *)
SliceOf(slice) == Loader!Or(slice, <<>>)
Default(text, default) == IF text = "" THEN default ELSE text

MeaningOfRule(r) ==
    [name |-> r.name, severity |-> Default(r.severity, "warn"), scope |-> Default(r.scope, "module"),
     from |-> [path |-> [i \in DOMAIN SliceOf(r.from.path) |->
                            [groups |-> Groups[SliceOf(r.from.path)[i]]]],
               pathNot |-> ToSet(SliceOf(r.from.pathNot)), orphan |-> r.from.orphan,
               packageName |-> ToSet(SliceOf(r.from.packageName)),
               lessThan |-> r.from.lessThan, moreThan |-> r.from.moreThan],
     to |-> [path |-> Loader!References(SliceOf(r.to.path)),
             pathNot |-> Loader!References(SliceOf(r.to.pathNot)),
             types |-> ToSet(SliceOf(r.to.types)), typesNot |-> ToSet(SliceOf(r.to.typesNot)),
             reachable |-> r.to.reachable, fileNot |-> ToSet(SliceOf(r.to.fileNot)),
             moreUnstable |-> r.to.moreUnstable]]

MeaningOfRules(rules) == [i \in DOMAIN rules |-> MeaningOfRule(rules[i])]

Meaning(config) ==
    [forbidden |-> MeaningOfRules(SliceOf(config.forbidden)),
     required |-> MeaningOfRules(SliceOf(config.required)),
     allowed |-> {MeaningOfRules(rules) : rules \in config.allowed},
     allowedSeverity |-> Default(config.allowedSeverity, "warn")]

(* The engine evaluates what the program built: writing and reading it     *)
(* drops no rule, no condition and no list, and adds only the defaults. A  *)
(* condition lost on the way would widen its rule, an empty allowed list   *)
(* lost on the way would allow everything.                                 *)
SameMeaning == \A config \in given, read \in result : read = Meaning(config)

Compiles(r) ==
    /\ \A slice \in {r.from.path, r.from.pathNot, r.from.packageName, r.to.fileNot} :
        ToSet(SliceOf(slice)) \subseteq DOMAIN Groups
    /\ \A slice \in {r.to.path, r.to.pathNot} : ToSet(SliceOf(slice)) \subseteq DOMAIN Reference
    /\ \A slice \in {r.to.types, r.to.typesNot} :
        ToSet(SliceOf(slice)) \subseteq Loader!DependencyType
    /\ \A n \in r.from.lessThan \cup r.from.moreThan : n >= 0

(* A program is refused exactly what a file is refused: configurations     *)
(* that break a rule between fields, and matchers that match by nothing.   *)
SameRules ==
    Finished /\ origin = "program" =>
        (stage = "accepted" <=>
            \E config \in given :
                /\ ~\E r \in RulesOf(config) :
                    {<<>>} \in {r.from.path, r.from.pathNot, r.from.packageName, r.to.path,
                                r.to.pathNot, r.to.fileNot, r.to.types, r.to.typesNot}
                /\ \A r \in RulesOf(config) : Compiles(r)
                /\ Loader!Valid(Meaning(config)))
=============================================================================

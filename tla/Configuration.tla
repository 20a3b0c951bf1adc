--------------------------- MODULE Configuration ----------------------------
(***************************************************************************)
(* config: the rules, and which of them the validator accepts.             *)
(*                                                                         *)
(* A regular expression is the set of values it matches. One in from.path  *)
(* also captures: it is a record of its number of groups and a partial     *)
(* function from the matched values to the captured texts. A template of   *)
(* to.path or to.pathNot is a record of its highest capture reference (0:  *)
(* none) and, for each text that may stand for it, the values matched.     *)
(* A list of patterns only asked whether one of them matches is the union  *)
(* of their values. An optional field is a set of at most one value.       *)
(***************************************************************************)
EXTENDS Integers, Sequences, FiniteSets

Severity == {"error", "warn", "info", "ignore"}

DependencyType == {"stdlib", "local", "module", "unresolved"}

Reserved == "not-in-allowed"

NoText == "no text"

(* A pattern captures as many texts as it has groups, and templates refer  *)
(* to groups by number.                                                    *)
WellFormedRule(rule) ==
    /\ Len(rule.from.path) \in Nat
    /\ \A i \in 1..Len(rule.from.path) :
        /\ rule.from.path[i].groups \in Nat
        /\ \A value \in DOMAIN rule.from.path[i].on :
            Len(rule.from.path[i].on[value]) = rule.from.path[i].groups
    /\ \A i \in 1..Len(rule.to.path) : rule.to.path[i].ref \in Nat
    /\ \A i \in 1..Len(rule.to.pathNot) : rule.to.pathNot[i].ref \in Nat

WellFormed(config) ==
    /\ \A i \in 1..Len(config.forbidden) : WellFormedRule(config.forbidden[i])
    /\ \A i \in 1..Len(config.required) : WellFormedRule(config.required[i])
    /\ \A allowed \in config.allowed :
        \A i \in 1..Len(allowed) : WellFormedRule(allowed[i])

(* from: {} and to: {} *)
AnyFrom == [path |-> <<>>, pathNot |-> {}, orphan |-> {}, packageName |-> {},
            lessThan |-> {}, moreThan |-> {}]

AnyTo == [path |-> <<>>, pathNot |-> <<>>, types |-> {}, typesNot |-> {},
          reachable |-> {}, fileNot |-> {}, moreUnstable |-> {}]

(* Mutated form of ValidTemplate: one pattern with enough groups will do. *)
ValidTemplateSomePattern(t, from, captures) ==
    t.ref > 0 =>
        /\ captures
        /\ \E j \in 1..Len(from.path) : from.path[j].groups >= t.ref

(* A reference needs a group in every pattern of from.path, whichever one  *)
(* will match.                                                             *)
ValidTemplate(t, from, captures) ==
    t.ref > 0 =>
        /\ captures
        /\ Len(from.path) > 0
        /\ \A j \in 1..Len(from.path) : from.path[j].groups >= t.ref

ValidFrom(from, graphFields, scope) ==
    /\ ~graphFields =>
        from.orphan = {} /\ from.lessThan = {} /\ from.moreThan = {}
    /\ scope = "folder" => from.orphan = {} /\ from.packageName = {}
    /\ \A n \in from.lessThan : n >= 1 /\ \A m \in from.moreThan : m < n - 1

ValidTo(to, from, kind, scope) ==
    /\ kind # "forbidden" => to.reachable = {} /\ to.fileNot = {} /\ to.moreUnstable = {}
    /\ kind = "required" => to # AnyTo
    /\ scope = "folder" =>
        to.reachable = {} /\ to.fileNot = {} /\ to.types = {} /\ to.typesNot = {}
    /\ to.moreUnstable \subseteq {TRUE}
    /\ to.moreUnstable # {} =>
        /\ to.reachable = {}
        /\ to.types # {} => "local" \in to.types
        /\ "local" \notin to.typesNot
    /\ to.reachable # {} => Len(to.path) > 0 /\ to.types = {} /\ to.typesNot = {}
    /\ to.fileNot # {} => to.reachable # {}
    /\ \A i \in 1..Len(to.path) : ValidTemplate(to.path[i], from, FALSE \notin to.reachable)
    /\ \A i \in 1..Len(to.pathNot) :
        ValidTemplate(to.pathNot[i], from, FALSE \notin to.reachable)

(* One rule: kind is "forbidden", "required" or "allowed". *)
ValidRule(rule, kind) ==
    /\ rule.name \notin {"", Reserved}
    /\ rule.severity \in Severity
    /\ rule.scope \in {"module", "folder"}
    /\ kind # "forbidden" => rule.scope = "module"
    /\ ValidFrom(rule.from, kind # "required", rule.scope)
    /\ ValidTo(rule.to, rule.from, kind, rule.scope)

(* Mutated form of DistinctNames: each list has its own set of names. *)
DistinctNamesPerList(config) ==
    \A rules \in {config.forbidden, config.required} :
        \A i, j \in 1..Len(rules) : rules[i].name = rules[j].name => i = j

(* The names of forbidden and required rules are one name space. *)
DistinctNames(config) ==
    LET constraints == config.forbidden \o config.required
    IN  \A i, j \in 1..Len(constraints) :
            constraints[i].name = constraints[j].name => i = j

(* The configurations Load and Validate accept, with severity and scope    *)
(* defaults filled in. allowed is absent, or a list that may be empty.     *)
Valid(config) ==
    /\ \A i \in 1..Len(config.forbidden) : ValidRule(config.forbidden[i], "forbidden")
    /\ \A i \in 1..Len(config.required) : ValidRule(config.required[i], "required")
    /\ \A allowed \in config.allowed : \A i \in 1..Len(allowed) :
        /\ ValidRule(allowed[i], "allowed")
        /\ \A j \in 1..Len(allowed) : allowed[i].name = allowed[j].name => i = j
    /\ config.allowedSeverity \in Severity
    /\ DistinctNames(config)

=============================================================================

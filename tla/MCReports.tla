------------------------------ MODULE MCReports ------------------------------
(* Reports on every list of up to three of the violations below: source    *)
(* and edge violations that share files, targets, lines, rules or none.    *)
EXTENDS Reports

V(rule, severity, from, line, to) ==
    [rule |-> rule, severity |-> severity, from |-> from, line |-> line, to |-> to]

T(path, type) == {[path |-> path, type |-> type]}

MCViolations ==
    {V("r", "error", "f", 1, T("p", "local")), V("r", "error", "f", 2, T("p", "local")),
     V("s", "warn", "f", 1, T("p", "local")), V("r", "info", "g", 1, T("p", "module")),
     V("r", "error", "f", 1, {}), V("s", "ignore", "f", 2, {}), V("r", "error", "p", 0, T("f", ""))}

MCInputReports ==
    [violations : UNION {[1..n -> MCViolations] : n \in 0..3},
     stale : {<<>>, <<[rule |-> "r", from |-> "f", to |-> {"p"}], [rule |-> "r", from |-> "f", to |-> {}]>>}]
=============================================================================

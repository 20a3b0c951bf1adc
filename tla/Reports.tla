------------------------------- MODULE Reports -------------------------------
(***************************************************************************)
(* internal/reporter and the facade's WriteReport: the graph of the        *)
(* violations that DOT and Mermaid draw, the summary, and the writing of   *)
(* each format. A violation is [rule, severity, from, line, to], where to  *)
(* is a set of at most one [path, type]. What a format writes is a         *)
(* sequence of items; their layout is left out.                            *)
(***************************************************************************)
EXTENDS Integers, SequencesExt

CONSTANTS
    InputReports    \* records [violations, stale]; a stale entry is [rule, from, to]

Severities == {"error", "warn", "info", "ignore"}

(* What an edge violation leads to, and a violation with its five fields. *)
IsTarget(t) == t = [path |-> t.path, type |-> t.type]

IsViolation(v) ==
    /\ v = [rule |-> v.rule, severity |-> v.severity, from |-> v.from, line |-> v.line, to |-> v.to]
    /\ v.severity \in Severities
    /\ v.to = {} \/ \E t \in v.to : v.to = {t} /\ IsTarget(t)

ASSUME ReportsAssumption ==
    \A r \in InputReports :
        /\ r.violations \in Seq(Range(r.violations)) /\ r.stale \in Seq(Range(r.stale))
        /\ \A v \in Range(r.violations) : IsViolation(v)

Formats == {"err", "json", "html", "dot", "mermaid", "other"}

VARIABLES
    report, format,
    phase,      \* "build", "write", "written", "failed"
    at,         \* index into the violations
    nodes,      \* [key, labels]; the id of a node is its position
    edges,      \* [from, to, line, labels]; from and to are positions of nodes
    summary,
    output      \* the items that reached the writer

vars == <<report, format, phase, at, nodes, edges, summary, output>>

Zero == [total |-> 0, error |-> 0, warn |-> 0, info |-> 0, ignore |-> 0]

(* Mutated form of Totals: stale entries are no errors. *)
TotalsOnly(r) == [Zero EXCEPT !.total = Len(r.violations) + Len(r.stale)]

Totals(r) == [Zero EXCEPT !.total = Len(r.violations) + Len(r.stale), !.error = Len(r.stale)]

Init ==
    /\ report \in InputReports /\ format \in Formats
    /\ phase = "build" /\ at = 1
    /\ nodes = <<>> /\ edges = <<>> /\ output = <<>>
    /\ summary = Totals(report)

-----------------------------------------------------------------------------
(* buildViolationGraph (dot, mermaid) and SummarizeReport (json, html),    *)
(* both done for each format, one violation after the other.               *)

Label(v) == [rule |-> v.rule, severity |-> v.severity]
SourceKey(v) == [kind |-> "source", path |-> v.from, type |-> ""]

TargetKey(t) == [kind |-> "dependency", path |-> t.path, type |-> t.type]

Keys(list) == {list[i].key : i \in DOMAIN list}
NodeOf(list, key) == CHOOSE i \in DOMAIN list : list[i].key = key

Ensure(list, key) ==
    IF key \in Keys(list) THEN list ELSE Append(list, [key |-> key, labels |-> <<>>])

SourceLabel(v) == [rule |-> v.rule, severity |-> v.severity, line |-> v.line]

(* Mutated form of SameEdge: the line is not part of the key. *)
SameEdgeAnyLine(e, from, to, line) == e.from = from /\ e.to = to

SameEdge(e, from, to, line) == e.from = from /\ e.to = to /\ e.line = line

AddSource(v, list) ==
    /\ v.to = {}
    /\ nodes' = [list EXCEPT ![NodeOf(list, SourceKey(v))].labels = Append(@, SourceLabel(v))]
    /\ UNCHANGED edges

AddEdge(v, list) ==
    \E t \in v.to :
        LET all   == Ensure(list, TargetKey(t))
            from  == NodeOf(all, SourceKey(v))
            to    == NodeOf(all, TargetKey(t))
            known == {i \in DOMAIN edges : SameEdge(edges[i], from, to, v.line)}
        IN  /\ nodes' = all
            /\ edges' = IF known # {}
                        THEN [edges EXCEPT ![CHOOSE i \in known : TRUE].labels = Append(@, Label(v))]
                        ELSE Append(edges, [from |-> from, to |-> to, line |-> v.line,
                                            labels |-> <<Label(v)>>])

Build ==
    /\ phase = "build" /\ at <= Len(report.violations)
    /\ LET v == report.violations[at]
           list == Ensure(nodes, SourceKey(v))
       IN  /\ AddSource(v, list) \/ AddEdge(v, list)
           /\ summary' = [summary EXCEPT ![v.severity] = @ + 1]
    /\ at' = at + 1
    /\ UNCHANGED <<report, format, phase, output>>

Built ==
    /\ phase = "build" /\ at > Len(report.violations)
    /\ phase' = IF format = "other" THEN "failed" ELSE "write"
    /\ UNCHANGED <<report, format, at, nodes, edges, summary, output>>

-----------------------------------------------------------------------------
(* What each format writes. *)

Items(kind, list) == [i \in DOMAIN list |-> [item |-> kind, value |-> list[i]]]

Stale == Items("stale", report.stale)
Violations == Items("violation", report.violations)
Summary == Items("summary", <<summary>>)

(* A box is written with its id, which the edges name. *)
Boxes == Items("node", [i \in DOMAIN nodes |-> [id |-> i, key |-> nodes[i].key,
                                               labels |-> nodes[i].labels]])
Graph == Boxes \o Stale \o Items("edge", edges)

Rendered ==
    CASE format = "err" -> Violations \o Stale
      [] format = "json" -> Violations \o Stale \o Summary
      [] format = "html" -> Summary \o Violations \o Stale
      [] OTHER -> Graph

(* err and html write piece by piece, the others once. *)
InPieces == format \in {"err", "html"}

WritePiece ==
    /\ phase = "write" /\ InPieces /\ Len(output) < Len(Rendered)
    /\ output' = Append(output, Rendered[Len(output) + 1])
    /\ UNCHANGED <<report, format, phase, at, nodes, edges, summary>>

WriteAll ==
    /\ phase = "write" /\ ~InPieces
    /\ output' = Rendered
    /\ phase' = "written"
    /\ UNCHANGED <<report, format, at, nodes, edges, summary>>

EndPieces ==
    /\ phase = "write" /\ InPieces /\ Len(output) = Len(Rendered)
    /\ phase' = "written"
    /\ UNCHANGED <<report, format, at, nodes, edges, summary, output>>

(* The writer fails, or takes a part only: what it took is a prefix. *)
WriterFails ==
    /\ phase = "write"
    /\ \E n \in Len(output)..Len(Rendered) :
        /\ InPieces => n = Len(output)
        /\ output' = SubSeq(Rendered, 1, n)
    /\ phase' = "failed"
    /\ UNCHANGED <<report, format, at, nodes, edges, summary>>

Finished == phase \in {"written", "failed"}
Return == Finished /\ UNCHANGED vars

Next == Build \/ Built \/ WritePiece \/ WriteAll \/ EndPieces \/ WriterFails \/ Return

Spec == Init /\ [][Next]_vars

-----------------------------------------------------------------------------
(* Properties *)

Written(kind) == {i \in DOMAIN output : output[i].item = kind}

(* The box of an id: where and what it stands for. *)
Box(id) == output[CHOOSE i \in Written("node") : output[i].value.id = id].value.key

Arrow(e, label) ==
    [rule |-> label.rule, severity |-> label.severity, from |-> Box(e.from).path, line |-> e.line,
     to |-> {[path |-> Box(e.to).path, type |-> Box(e.to).type]}]

Alone(n, label) ==
    [rule |-> label.rule, severity |-> label.severity, from |-> n.key.path, line |-> label.line,
     to |-> {}]

(* The violations an item tells its reader: a listed one itself, an edge    *)
(* between two boxes one for each of its labels, and so a box by itself.    *)
Tells(item) ==
    CASE item.item = "violation" -> <<item.value>>
      [] item.item = "edge" -> [k \in DOMAIN item.value.labels |->
                                    Arrow(item.value, item.value.labels[k])]
      [] item.item = "node" -> [k \in DOMAIN item.value.labels |->
                                    Alone(item.value, item.value.labels[k])]
      [] OTHER -> <<>>

(* The places of the output that tell v. *)
Places(v) ==
    UNION {{<<i, k>> : k \in {l \in DOMAIN Tells(output[i]) : Tells(output[i])[l] = v}} :
           i \in DOMAIN output}

Occurrences(v) == {i \in DOMAIN report.violations : report.violations[i] = v}

(* Whatever the format, a report written without an error tells each       *)
(* violation as often as it occurred, and nothing else: sharing boxes and  *)
(* edges merges nothing that can be told apart. It tells each stale entry, *)
(* in their order.                                                         *)
EveryViolationTold ==
    phase = "written" =>
        /\ \A i \in DOMAIN output : Range(Tells(output[i])) \subseteq Range(report.violations)
        /\ \A v \in Range(report.violations) :
               Cardinality(Places(v)) = Cardinality(Occurrences(v))
        /\ \E n \in 0..Len(output) :
               /\ Written("stale") = n + 1..n + Len(report.stale)
               /\ \A k \in 1..Len(report.stale) : output[n + k].value = report.stale[k]

(* Result.ErrorCount, the number the exit code is made of. *)
ErrorCount ==
    Len(report.stale)
    + Cardinality({i \in DOMAIN report.violations : report.violations[i].severity = "error"})

(* The counts of the summary add up, and its errors are the errors of the  *)
(* exit code, which the facade counts by itself.                           *)
SummaryAgrees ==
    phase = "written" =>
        /\ summary.total = summary.error + summary.warn + summary.info + summary.ignore
        /\ summary.error = ErrorCount
=============================================================================

--------------------------- MODULE MCBaselineCodec ---------------------------
(* BaselineCodec on documents of one entry with up to three fields, of two *)
(* entries, of any two top-level fields, and on what Write writes.         *)
EXTENDS BaselineCodec

MCFold ==
    [n \in {"entries", "Entries", "rule", "Rule", "from", "to", "TO"} |->
        CASE n = "Entries" -> "entries" [] n = "Rule" -> "rule" [] n = "TO" -> "to" [] OTHER -> n]

MCEncoded ==
    [s \in {"", "r", "s", "f", "t", "not UTF-8", "nor this"} |->
        IF s \in {"not UTF-8", "nor this"} THEN "replaced" ELSE s]

Text(s) == Scalar("string", s)

Fields ==
    {Member("rule", Text("r")), Member("rule", Text("")), Member("from", Text("f")),
     Member("from", Scalar("number", "1")), Member("to", Text("t")), Member("to", Null),
     Member("TO", Null), Member("Rule", Text("s")), Member("note", Null),
     Member("note", Object(<<Member("a", Null), Member("a", Null)>>)),
     Member("note", Object(<<Member("rule", Object(<<>>))>>)), Member("note", Scalar("torn", ""))}

Objects3 == {Object(m) : m \in UNION {[1..n -> Fields] : n \in 0..3}}

Some ==
    {Object(<<Member("rule", Text("r")), Member("from", Text("f"))>>),
     Object(<<Member("rule", Text("s")), Member("from", Text("f")), Member("to", Text("t"))>>),
     Null, Object(<<>>), Text("r"), Array(<<>>), Scalar("torn", "")}

List(items) == Member("entries", Array(items))
Document(item) == Object(<<List(<<item>>)>>)

Roots ==
    {List(<<e>>) : e \in Some} \cup
    {List(<<>>), Member("entries", Null), Member("Entries", Null), Member("other", Null)}

MCDocuments ==
    {<<Document(e)>> : e \in Objects3} \cup
    {<<Object(<<List(e)>>)>> : e \in [1..2 -> Some] \cup [1..3 -> Some]} \cup
    {<<Object(m)>> : m \in [1..2 -> Roots]} \cup
    {<<>>, <<Null>>, <<Array(<<>>)>>} \cup
    {<<Document(e), f>> : e \in Some, f \in Some}

Entry == [rule : {"r", ""}, from : {"f", "not UTF-8", "nor this"}, to : {{}, {"t"}, {""}}]

MCBaselines == UNION {[1..n -> Entry] : n \in 0..2}

(* The order of compareEntries, which is that of bytes. *)
Rank(e) ==
    LET place == [s \in {"", "r", "f", "nor this", "not UTF-8"} |->
                     CASE s \in {"", "f"} -> 0 [] s \in {"r", "nor this"} -> 1 [] OTHER -> 2]
        target == IF e.to = {} THEN 0 ELSE IF e.to = {""} THEN 1 ELSE 2
    IN  9 * place[e.rule] + 3 * place[e.from] + target

MCSorted ==
    [b \in MCBaselines |-> IF Len(b) = 2 /\ Rank(b[2]) < Rank(b[1]) THEN <<b[2], b[1]>> ELSE b]
=============================================================================

------------------------------ MODULE JSONTree ------------------------------
(***************************************************************************)
(* config: parseJSON, which reads a document twice. encoding/json decides  *)
(* whether it is JSON; jsonParser then walks the same text by hand, for    *)
(* the offsets and the order of the fields, and never looks again at what  *)
(* the decoder has checked. The texts of this module are those the decoder *)
(* lets pass: the tokens of a tree with blanks between them.               *)
(***************************************************************************)
EXTENDS Integers, SequencesExt

CONSTANT Trees  \* the trees documents are written from, without offsets

VARIABLES
    tree, data, at, \* the tree, its text, the offset of each of its tokens
    index,          \* offset of the next character, from 1
    stack,          \* the open containers: records [node, name, nameOffset]
    expect,         \* "value", "key", "after" (a value), "end", "done", "failed"
    root            \* at most one node

input == <<tree, data, at>>
vars == <<input, index, stack, expect, root>>

Blank == {" ", "\n"}

-----------------------------------------------------------------------------
(* The text of a tree *)

(* A string as it is written: quotes and backslashes escaped. *)
Quoted(text) ==
    <<"\"">> \o FlattenSeq([i \in DOMAIN text |->
        IF text[i] \in {"\"", "\\"} THEN <<"\\", text[i]>> ELSE <<text[i]>>]) \o <<"\"">>

Separated(lists) ==
    FlattenSeq([i \in DOMAIN lists |-> IF i = 1 THEN lists[i] ELSE << <<",">> >> \o lists[i]])

RECURSIVE Tokens(_)
Tokens(t) ==
    CASE t.kind = "object" ->
            << <<"{">> >>
            \o Separated([i \in DOMAIN t.members |->
                    <<Quoted(t.members[i].name), <<":">> >> \o Tokens(t.members[i].value)])
            \o << <<"}">> >>
      [] t.kind = "array" ->
            << <<"[">> >> \o Separated([i \in DOMAIN t.items |-> Tokens(t.items[i])])
            \o << <<"]">> >>
      [] t.kind = "string" -> <<Quoted(t.text)>>
      [] OTHER -> <<t.text>>

(* blanks[i] stands before token i, the last one after all tokens. *)
Text(tokens, blanks) ==
    FlattenSeq([i \in DOMAIN tokens |-> blanks[i] \o tokens[i]]) \o Last(blanks)

Offset(tokens, blanks, i) ==
    Len(Text(SubSeq(tokens, 1, i - 1), SubSeq(blanks, 1, i))) + 1

Init ==
    /\ tree \in Trees
    /\ LET tokens == Tokens(tree)
       IN  \E blanks \in [1..Len(tokens) + 1 -> {<<>>, <<" ">>}] :
            /\ data = Text(tokens, blanks)
            /\ at = [i \in DOMAIN tokens |-> Offset(tokens, blanks, i)]
    /\ index = 1 /\ stack = <<>> /\ expect = "value" /\ root = {}

-----------------------------------------------------------------------------
(* jsonParser *)

(* skipSpace, from index i *)
Skip(i) ==
    CHOOSE k \in i..Len(data) + 1 :
        /\ \A j \in i..k - 1 : data[j] \in Blank
        /\ k <= Len(data) => data[k] \notin Blank

Here == Skip(index)
Char(i) == IF i <= Len(data) THEN data[i] ELSE "end"

(* Mutated form of StringEnd: a backslash skips nothing. *)
StringEndAtQuote(start) ==
    LET Scan[i \in 1..Len(data) + 2] == IF Char(i) = "\"" THEN i ELSE Scan[i + 1]
    IN  Scan[start + 1]

(* The quote that closes the string opening at start (parseString). *)
StringEnd(start) ==
    LET Scan[i \in 1..Len(data) + 2] ==
            CASE Char(i) = "\\" -> Scan[i + 2]
              [] Char(i) = "\"" -> i
              [] OTHER -> Scan[i + 1]
    IN  Scan[start + 1]

(* json.Unmarshal of the string from start to end *)
Unquoted(start, end) ==
    LET Rest[i \in 1..Len(data) + 2] ==
            IF i >= end THEN <<>>
            ELSE IF data[i] = "\\" THEN <<data[i + 1]>> \o Rest[i + 2]
            ELSE <<data[i]>> \o Rest[i + 1]
    IN  Rest[start + 1]

PrimitiveEnd(i) ==
    CHOOSE k \in i..Len(data) + 1 :
        /\ \A j \in i..k - 1 : data[j] \notin Blank \cup {",", "]", "}"}
        /\ k <= Len(data) => data[k] \in Blank \cup {",", "]", "}"}

Fail == expect' = "failed" /\ UNCHANGED <<input, index, stack, root>>

(* A finished node becomes the root, a member of the open object or an     *)
(* item of the open array. below: the containers open around it.           *)
Attach(below, node, next) ==
    /\ index' = next
    /\ IF below = <<>>
       THEN root' = {node} /\ expect' = "end" /\ stack' = below
       ELSE LET frame == Last(below)
                grown ==
                    IF frame.node.kind = "object"
                    THEN [frame.node EXCEPT !.members = Append(@,
                            [name |-> frame.name, nameOffset |-> frame.nameOffset,
                             value |-> node])]
                    ELSE [frame.node EXCEPT !.items = Append(@, node)]
            IN  /\ stack' = [below EXCEPT ![Len(below)].node = grown]
                /\ expect' = "after" /\ UNCHANGED root
    /\ UNCHANGED input

AtValue == expect = "value"

Container(c) ==
    IF c = "{" THEN [kind |-> "object", offset |-> Here, members |-> <<>>]
    ELSE [kind |-> "array", offset |-> Here, items |-> <<>>]

(* parseObject and parseArray, up to the first key or item *)
Open ==
    /\ AtValue /\ Char(Here) \in {"{", "["}
    /\ LET node == Container(Char(Here))
           next == Skip(Here + 1)
       IN  IF Char(next) = (IF node.kind = "object" THEN "}" ELSE "]")
           THEN Attach(stack, node, next + 1)
           ELSE /\ stack' = Append(stack, [node |-> node, name |-> <<>>, nameOffset |-> 0])
                /\ index' = next
                /\ expect' = IF node.kind = "object" THEN "key" ELSE "value"
                /\ UNCHANGED <<input, root>>

ParseString ==
    /\ AtValue /\ Char(Here) = "\""
    /\ Attach(stack, [kind |-> "string", offset |-> Here, text |-> Unquoted(Here, StringEnd(Here))],
              StringEnd(Here) + 1)

PrimitiveKind(c) ==
    IF c \in {"t", "f"} THEN "boolean" ELSE IF c = "n" THEN "null" ELSE "number"

ParsePrimitive ==
    /\ AtValue /\ Char(Here) \notin {"{", "[", "\""}
    /\ IF Here > Len(data) THEN Fail
       ELSE Attach(stack, [kind |-> PrimitiveKind(Char(Here)), offset |-> Here,
                           text |-> SubSeq(data, Here, PrimitiveEnd(Here) - 1)],
                   PrimitiveEnd(Here))

(* A key and its colon *)
ParseKey ==
    /\ expect = "key"
    /\ LET colon == Skip(StringEnd(Here) + 1)
       IN  IF Char(colon) # ":" THEN Fail
           ELSE /\ stack' = [stack EXCEPT ![Len(stack)].name = Unquoted(Here, StringEnd(Here)),
                                          ![Len(stack)].nameOffset = Here]
                /\ index' = colon + 1
                /\ expect' = "value"
                /\ UNCHANGED <<input, root>>

InObject == Last(stack).node.kind = "object"

Close ==
    /\ expect = "after" /\ Char(Here) = (IF InObject THEN "}" ELSE "]")
    /\ Attach(Front(stack), Last(stack).node, Here + 1)

Continue ==
    /\ expect = "after" /\ Char(Here) # (IF InObject THEN "}" ELSE "]")
    /\ IF Char(Here) # "," THEN Fail
       ELSE /\ index' = Here + 1
            /\ expect' = IF InObject THEN "key" ELSE "value"
            /\ UNCHANGED <<input, stack, root>>

(* parseJSON, behind the root *)
End ==
    /\ expect = "end"
    /\ index' = Here
    /\ expect' = IF Here = Len(data) + 1 THEN "done" ELSE "failed"
    /\ UNCHANGED <<input, stack, root>>

Finished == expect \in {"done", "failed"}
Return == Finished /\ UNCHANGED vars

Next ==
    \/ Open \/ ParseString \/ ParsePrimitive \/ ParseKey
    \/ Close \/ Continue \/ End \/ Return

(* parseJSON is one loop that nothing else waits for: it is always allowed *)
(* to go on.                                                               *)
Spec == Init /\ [][Next]_vars /\ WF_vars(Next)

-----------------------------------------------------------------------------
(* Properties *)

(* The tree t with the offsets of its tokens, the first of which is k. *)
RECURSIVE Placed(_, _)
Placed(t, k) ==
    CASE t.kind = "object" ->
            LET First[i \in 1..Len(t.members)] ==
                    IF i = 1 THEN k + 1
                    ELSE First[i - 1] + 3 + Len(Tokens(t.members[i - 1].value))
            IN  [kind |-> "object", offset |-> at[k],
                 members |-> [i \in 1..Len(t.members) |->
                    [name |-> t.members[i].name, nameOffset |-> at[First[i]],
                     value |-> Placed(t.members[i].value, First[i] + 2)]]]
      [] t.kind = "array" ->
            LET First[i \in 1..Len(t.items)] ==
                    IF i = 1 THEN k + 1 ELSE First[i - 1] + 1 + Len(Tokens(t.items[i - 1]))
            IN  [kind |-> "array", offset |-> at[k],
                 items |-> [i \in 1..Len(t.items) |-> Placed(t.items[i], First[i])]]
      [] OTHER -> [kind |-> t.kind, offset |-> at[k], text |-> t.text]

(* The second reading ends, accepts what the first did, and returns the    *)
(* tree of the document: every value with its kind and text, in order, and *)
(* every value and name with the offset errors are reported at and boolean *)
(* reads the value from.                                                   *)
ReadsTheTree == <>(expect = "done" /\ root = {Placed(tree, 1)})
=============================================================================

---------------------------- MODULE BaselineCodec ----------------------------
(***************************************************************************)
(* internal/baseline: Load reads a JSON document in four passes over the   *)
(* same bytes, each with a reading of its own: the tokens, the fields of   *)
(* the document, the targets of the entries and the decoder that fills the *)
(* entries. Write is the document it reads back.                           *)
(*                                                                         *)
(* A JSON value is a record [kind, text, items, members]; a member is      *)
(* [name, value]. A "torn" value is a place where the text is no JSON.     *)
(* Sorted is what sortEntries makes of a list; Baseline shows the order.    *)
(***************************************************************************)
EXTENDS Integers, SequencesExt

CONSTANTS
    Documents,      \* the files a person may write: sequences of JSON values
    Baselines,      \* the lists of entries Write may be given
    Sorted,         \* each of them in the order of sortEntries
    Fold,           \* the keys the decoder takes for a field, each to that field
    Encoded,        \* what the encoder makes of a string: only UTF-8 stays as it is
    MaxNesting      \* how deep a document may nest (maxNestingDepth of encoding/json)

(* The values directly inside a value, and those n levels below a set.     *)
Children(v) == Range(v.items) \cup {m.value : m \in Range(v.members)}

Below(values, n) ==
    LET Level[k \in Nat] ==
            IF k = 0 THEN values ELSE UNION {Children(v) : v \in Level[k - 1]}
    IN  Level[n]

Nodes(text) == UNION {Below(Range(text), n) : n \in 0..MaxNesting}

IsValue(v) ==
    /\ v.items \in Seq(Range(v.items)) /\ v.members \in Seq(Range(v.members))
    /\ v.kind # "array" => v.items = <<>>
    /\ v.kind # "object" => v.members = <<>>

(* Documents are trees of JSON values. A second array under another        *)
(* spelling of "entries" is left out: the decoder would put it over the    *)
(* first one, element by element.                                          *)
ASSUME DocumentsAssumption ==
    \A d \in Documents :
        /\ d \in Seq(Range(d)) /\ Below(Range(d), MaxNesting) = {}
        /\ \A v \in Nodes(d) : IsValue(v)
        /\ \A v \in Range(d) : \A m \in Range(v.members) :
            m.name \in DOMAIN Fold \ {"entries"} /\ Fold[m.name] = "entries" =>
                m.value.kind # "array"

ASSUME BaselinesAssumption ==
    \A list \in Baselines :
        /\ list \in Seq(Range(list))
        /\ \A e \in Range(list) :
            /\ e = [rule |-> e.rule, from |-> e.from, to |-> e.to]
            /\ e.to = {} \/ \E t \in e.to : e.to = {t}

ASSUME SortedAssumption ==
    \A list \in Baselines : \E p \in Bijection(DOMAIN list, DOMAIN list) :
        Sorted[list] = [i \in DOMAIN list |-> list[p[i]]]

FieldNames == {"entries", "rule", "from", "to"}

ASSUME FoldAssumption ==
    /\ FieldNames \subseteq DOMAIN Fold
    /\ \A name \in FieldNames : Fold[name] = name

(* A written baseline nests four deep. *)
ASSUME NestingAssumption == MaxNesting \in Nat /\ MaxNesting >= 4

VARIABLES
    document,
    written,        \* the entries Write was given: at most one list
    pass,           \* "tokens", "fields", "targets", "decode", "validate"; "malformed" (refused
                    \* by tokens), "refused" (by another pass) or "accepted"
    stack,          \* tokens: the open values, innermost first
    index,          \* index into the entries
    loaded          \* baseline.Entries

loadVars == <<document, written, pass, stack, index, loaded>>

-----------------------------------------------------------------------------
(* Values, entries and Write. *)

Scalar(kind, text) == [kind |-> kind, text |-> text, items |-> <<>>, members |-> <<>>]
Null == Scalar("null", "")
Array(items) == [kind |-> "array", text |-> "", items |-> items, members |-> <<>>]
Object(members) == [kind |-> "object", text |-> "", items |-> <<>>, members |-> members]
Member(name, value) == [name |-> name, value |-> value]

(* validateEntries *)
ValidEntries(list) ==
    \A i \in DOMAIN list :
        /\ list[i].rule # "" /\ list[i].from # "" /\ "" \notin list[i].to
        /\ \A j \in 1..i - 1 : list[i] # list[j]

String(s) == Scalar("string", Encoded[s])

(* Mutated form of EntryText: an absent target is written as null. *)
EntryTextNull(e) ==
    Object(<<Member("rule", String(e.rule)), Member("from", String(e.from)),
             Member("to", IF e.to = {} THEN Null ELSE String(CHOOSE t \in e.to : TRUE))>>)

EntryText(e) ==
    Object(<<Member("rule", String(e.rule)), Member("from", String(e.from))>>
           \o IF e.to = {} THEN <<>> ELSE <<Member("to", String(CHOOSE t \in e.to : TRUE))>>)

Written(list) ==
    <<Object(<<Member("entries", Array([i \in DOMAIN list |-> EntryText(list[i])]))>>)>>

LoadInit ==
    /\ \/ document \in Documents /\ written = {}
       \/ \E list \in {b \in Baselines : ValidEntries(b)} :
              document = Written(Sorted[list]) /\ written = {list}
    /\ pass = "tokens"
    /\ stack = <<[object |-> FALSE, items |-> document, members |-> <<>>, seen |-> {}]>>
    /\ index = 1
    /\ loaded = <<>>

-----------------------------------------------------------------------------
(* rejectDuplicateObjectKeys: readJSONValue, its recursion as a stack.     *)
(* The bottom of the stack is the document, which holds one value.         *)

Stop(why) == pass' = why /\ UNCHANGED <<document, written, stack, index, loaded>>

Top == stack[1]
More == IF Top.object THEN Top.members # <<>> ELSE Top.items # <<>>
NextValue == IF Top.object THEN Head(Top.members).value ELSE Head(Top.items)
Reading == pass = "tokens" /\ More

SeenAnywhere == UNION {stack[i].seen : i \in DOMAIN stack}

Seen == Top.seen

Duplicate == Top.object /\ Head(Top.members).name \in Seen
Trailing == Len(stack) = 1 /\ Top.items # document

RefuseToken == Reading /\ (Duplicate \/ Trailing \/ NextValue.kind = "torn") /\ Stop("malformed")

(* The frame that is left when the next value has been taken from it. *)
Taken ==
    IF Top.object
    THEN [Top EXCEPT !.members = Tail(@), !.seen = @ \cup {Head(Top.members).name}]
    ELSE [Top EXCEPT !.items = Tail(@)]

Frame(v) == [object |-> v.kind = "object", items |-> v.items, members |-> v.members, seen |-> {}]

ReadValue ==
    /\ Reading /\ ~Duplicate /\ ~Trailing /\ NextValue.kind # "torn"
    /\ stack' = IF NextValue.kind \in {"object", "array"}
                THEN <<Frame(NextValue), Taken>> \o Tail(stack)
                ELSE <<Taken>> \o Tail(stack)
    /\ UNCHANGED <<document, written, pass, index, loaded>>

Close ==
    /\ pass = "tokens" /\ ~More
    /\ IF Len(stack) > 1 THEN stack' = Tail(stack) /\ pass' = pass
       ELSE stack' = stack /\ pass' = IF document = <<>> THEN "malformed" ELSE "fields"
    /\ UNCHANGED <<document, written, index, loaded>>

-----------------------------------------------------------------------------
(* Load *)

Root == document[1]
Named(v, name) == {i \in DOMAIN v.members : v.members[i].name = name}

(* The value of "entries", once it is known to be there. *)
Encodings == {Root.members[i].value : i \in Named(Root, "entries")}

ReadFields ==
    /\ pass = "fields"
    /\ pass' = IF Root.kind = "object" /\ \E v \in Encodings : v.kind = "array"
                THEN "targets" ELSE "refused"
    /\ UNCHANGED <<document, written, stack, index, loaded>>

Items == (CHOOSE v \in Encodings : TRUE).items

(* Mutated form of NullTarget: null stands for an absent target. *)
NullTargetAllowed(v) == FALSE

NullTarget(v) == \E i \in Named(v, "to") : v.members[i].value.kind = "null"

(* rejectNullTargets: the elements are objects (or null, a nil map). *)
RejectNullTargets ==
    /\ pass = "targets"
    /\ pass' = IF \A i \in DOMAIN Items :
                       Items[i].kind \in {"object", "null"} /\ ~NullTarget(Items[i])
                THEN "decode" ELSE "refused"
    /\ UNCHANGED <<document, written, stack, index, loaded>>

(* The fields of the document, as the decoder names them, that are not the *)
(* array itself: a null sets the slice to nil, anything else is an error.  *)
OtherFields == {m \in Range(Root.members) : m.name # "entries"}

RootDecodes ==
    \A m \in OtherFields :
        m.name \in DOMAIN Fold /\ Fold[m.name] = "entries" /\ m.value.kind = "null"

(* What an object makes of an empty entry: of the members for one field    *)
(* the last counts, but a null leaves a string alone.                      *)
Latest(members, field, kinds) ==
    LET For == {i \in DOMAIN members :
                   Fold[members[i].name] = field /\ members[i].value.kind \in kinds}
    IN  {i \in For : \A j \in For : j <= i}

Texts(members, field, kinds) ==
    {members[i].value.text :
        i \in {j \in Latest(members, field, kinds) : members[j].value.kind = "string"}}

StringIn(texts) == IF texts = {} THEN "" ELSE CHOOSE t \in texts : TRUE

Decoded(members) ==
    [rule |-> StringIn(Texts(members, "rule", {"string"})),
     from |-> StringIn(Texts(members, "from", {"string"})),
     to   |-> Texts(members, "to", {"string", "null"})]

MemberDecodes(m) ==
    /\ m.name \in DOMAIN Fold /\ Fold[m.name] \in {"rule", "from", "to"}
    /\ m.value.kind \in {"null", "string"}

EntryDecodes == \A m \in Range(Items[index].members) : MemberDecodes(m)

RefuseDecode ==
    /\ pass = "decode"
    /\ \/ ~RootDecodes
       \/ index \in DOMAIN Items /\ ~EntryDecodes
    /\ Stop("refused")

DecodeEntry ==
    /\ pass = "decode" /\ RootDecodes /\ index \in DOMAIN Items
    /\ EntryDecodes
    /\ loaded' = Append(loaded, Decoded(Items[index].members))
    /\ index' = index + 1
    /\ UNCHANGED <<document, written, pass, stack>>

(* A null after the array under another spelling of its key drops it. *)
Dropped ==
    \E i, j \in DOMAIN Root.members :
        i < j /\ Root.members[i].name = "entries" /\ Root.members[j].name # "entries"

DecodeEnd ==
    /\ pass = "decode" /\ RootDecodes /\ index > Len(Items)
    /\ pass' = "validate"
    /\ loaded' = IF Dropped THEN <<>> ELSE loaded
    /\ UNCHANGED <<document, written, stack, index>>

ValidateLoaded ==
    /\ pass = "validate"
    /\ pass' = IF ValidEntries(loaded) THEN "accepted" ELSE "refused"
    /\ UNCHANGED <<document, written, stack, index, loaded>>

Finished == pass \in {"accepted", "malformed", "refused"}
Return == Finished /\ UNCHANGED loadVars

LoadNext ==
    \/ RefuseToken \/ ReadValue \/ Close \/ ReadFields \/ RejectNullTargets
    \/ RefuseDecode \/ DecodeEntry \/ DecodeEnd \/ ValidateLoaded \/ Return

LoadSpec == LoadInit /\ [][LoadNext]_loadVars

-----------------------------------------------------------------------------
(* Properties. *)

Objects == {v \in Nodes(document) : v.kind = "object"}

DistinctNames(v) ==
    \A i, j \in DOMAIN v.members : v.members[i].name = v.members[j].name => i = j

Sound ==
    /\ Len(document) = 1
    /\ \A v \in Nodes(document) : v.kind # "torn" /\ DistinctNames(v)

(* The first pass lets a document through exactly when it is one JSON      *)
(* value in which no object has the same key twice; equal keys of objects  *)
(* inside, beside or after one another are no duplicates.                  *)
DuplicatesRefused ==
    /\ pass = "malformed" => ~Sound
    /\ pass \notin {"tokens", "malformed"} => Sound

(* A document without keys that differ from a field in case only means     *)
(* what it says: each entry has the strings of its object, and a target    *)
(* exactly when the object has one; no null or later field erases any.     *)
Faithful ==
    pass = "accepted" /\ (\A v \in Objects : \A m \in Range(v.members) : m.name \in FieldNames) =>
        /\ Len(loaded) = Len(Items)
        /\ \A i \in DOMAIN Items :
               /\ \A m \in Range(Items[i].members) :
                      /\ m.value.kind = "string"
                      /\ IF m.name = "to" THEN loaded[i].to = {m.value.text}
                         ELSE loaded[i][m.name] = m.value.text
               /\ Named(Items[i], "to") = {} => loaded[i].to = {}

(* The four readings of a document together load only what means one list  *)
(* of entries: none relies on a test that another leaves out.              *)
OneMeaning == DuplicatesRefused /\ Faithful

(* Load accepts what Write wrote of entries whose strings are UTF-8, and   *)
(* returns them in the order of the file: none more, less or changed.      *)
LoadAfterWrite ==
    \A list \in written :
        (\A e \in Range(list) : \A s \in {e.rule, e.from} \cup e.to : Encoded[s] = s) =>
            /\ pass \notin {"malformed", "refused"}
            /\ pass = "accepted" => loaded = Sorted[list]
=============================================================================

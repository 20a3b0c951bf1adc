--------------------------- MODULE CaptureScanner ---------------------------
(***************************************************************************)
(* config: rewriteCaptures, as configValidator.templates calls it to check *)
(* a template of to.path and as ExpandCaptures calls it for a file.        *)
(*                                                                         *)
(* A pattern is a sequence of characters. The check pass puts a            *)
(* placeholder for each reference, the expansion pass the quoted text that *)
(* a group captured; both are one regular-expression atom, so one          *)
(* character, Atom, stands for either. Ranges (a-b) and repetitions are    *)
(* not among the characters: neither pass treats them specially.           *)
(***************************************************************************)
EXTENDS Integers, SequencesExt

CONSTANTS
    Patterns,   \* the templates, sequences of characters
    Captures,   \* lengths of FindStringSubmatch: groups + 1, or 0 without from.path
    MaxInt,     \* the largest number strconv.Atoi accepts
    Atom        \* what a reference is replaced by

Digit == {"0", "1", "2"}
Letter == {"Q", "E", "a"}
Value == [d \in Digit |-> CASE d = "0" -> 0 [] d = "1" -> 1 [] d = "2" -> 2]

(* A template is a text of characters, none of which is the atom. *)
ASSUME TemplatesAssumption ==
    /\ \A p \in Patterns : p \in Seq(Range(p)) /\ Atom \notin Range(p)
    /\ Atom \notin Digit \cup Letter \cup {"\\", "[", "]", "^", ":", "$"}
    /\ Captures \subseteq Nat

Refusals == {"quoted", "class", "syntax", "number", "unavailable",
             "uncompilable", "groups"}

VARIABLES
    pattern, captures,
    stage,      \* "check", "expand", "expanded" or why the template was refused
    index,
    result,     \* the text written
    highest,    \* highestReference
    scan        \* what the scanner is in: its five flags

templateVars == <<pattern, captures, stage, index, result, highest, scan>>

Outside == [quoted |-> FALSE,       \* inQuotedLiteral
            class |-> FALSE,        \* inCharacterClass
            first |-> FALSE,        \* characterClassFirst
            negatable |-> FALSE,    \* characterClassCanNegate
            posix |-> FALSE]        \* inPOSIXClass

TemplateInit ==
    /\ pattern \in Patterns /\ captures \in Captures
    /\ stage = "check"
    /\ index = 1 /\ result = <<>> /\ highest = 0 /\ scan = Outside

-----------------------------------------------------------------------------
(* The compiler, regexp/syntax: which tokens a text has outside character  *)
(* classes. 0 stands for a text that does not compile.                     *)

At(text, i, c) == i \in DOMAIN text /\ text[i] = c

Names == {<<"a">>, <<"^", "a">>}    \* "a" stands for the name of a POSIX class

(* Where the name of a POSIX class may end: Go looks for ":]" two          *)
(* characters on, and reads "[" as itself when there is none.              *)
NameEnds(text, i) == {j \in i + 2..Len(text) : text[j] = ":" /\ At(text, j + 1, "]")}

IsPosix(text, i) == At(text, i, "[") /\ At(text, i + 1, ":") /\ NameEnds(text, i) # {}

NamedClass(text, i) ==
    LET end == Min(NameEnds(text, i))
    IN  IF SubSeq(text, i + 2, end - 1) \in Names THEN end + 2 ELSE 0

EscapeEnd(text, i) ==
    IF i = Len(text) \/ text[i + 1] \in {"Q", "E"} \cup Digit THEN 0 ELSE i + 2

ClassItem(text, i) ==
    IF i > Len(text) THEN 0
    ELSE IF text[i] = "\\" THEN EscapeEnd(text, i)
    ELSE IF IsPosix(text, i) THEN NamedClass(text, i)
    ELSE i + 1

(* The position after the class that goes on with an item or its end at i. *)
ClassFrom(text, i) ==
    LET Rest[j \in 0..Len(text) + 1] ==
            IF j = 0 THEN 0
            ELSE IF At(text, j, "]") THEN j + 1
            ELSE Rest[ClassItem(text, j)]
    IN  Rest[i]

(* Where the first item of the class that opens at i is; it may be "]". *)
FirstItem(text, i) == IF At(text, i + 1, "^") THEN i + 2 ELSE i + 1

ClassEnd(text, i) == ClassFrom(text, ClassItem(text, FirstItem(text, i)))

QuoteEnd(text, i) ==
    Min({Len(text) + 1} \cup {j + 2 : j \in {k \in i + 2..Len(text) :
                                         text[k] = "\\" /\ At(text, k + 1, "E")}})

TokenEnd(text, i) ==
    CASE text[i] = "[" -> ClassEnd(text, i)
      [] text[i] = "\\" /\ At(text, i + 1, "Q") -> QuoteEnd(text, i)
      [] text[i] = "\\" /\ ~At(text, i + 1, "Q") -> EscapeEnd(text, i)
      [] OTHER -> i + 1

(* Where tokens begin: at 1 and behind every token. *)
Tokens(text) ==
    LET Begins[i \in 1..Len(text) + 1] ==
            i = 1 \/ \E j \in 1..i - 1 : TokenEnd(text, j) = i /\ Begins[j]
    IN  {i \in 1..Len(text) + 1 : Begins[i]}

Compiles(text) == Len(text) + 1 \in Tokens(text)

-----------------------------------------------------------------------------
(* rewriteCaptures *)

Running == stage \in {"check", "expand"}
Reading == Running /\ index <= Len(pattern)
Sees(c) == pattern[index] = c
FollowedBy(chars) == index < Len(pattern) /\ pattern[index + 1] \in chars
InText == Reading /\ ~scan.quoted

Take(length, after) ==
    /\ result' = result \o SubSeq(pattern, index, index + length - 1)
    /\ index' = index + length
    /\ scan' = after
    /\ UNCHANGED <<pattern, captures, stage, highest>>

Leave(why) == stage' = why /\ UNCHANGED <<pattern, captures, index, result, highest, scan>>

EndsQuote == Sees("\\") /\ FollowedBy({"E"})
ReferenceLike == Sees("$") /\ FollowedBy(Digit \cup Letter \cup {"{"})

Unquote == Reading /\ scan.quoted /\ EndsQuote /\ Take(2, [scan EXCEPT !.quoted = FALSE])

RefuseQuoted == Reading /\ scan.quoted /\ ReferenceLike /\ Leave("quoted")

CopyQuoted == Reading /\ scan.quoted /\ ~EndsQuote /\ ~ReferenceLike /\ Take(1, scan)

Escape ==
    /\ InText /\ Sees("\\")
    /\ Take(Min({2, Len(pattern) + 1 - index}),
            [scan EXCEPT !.quoted = FollowedBy({"Q"}), !.first = @ /\ ~scan.class])

Negates == scan.class /\ scan.first /\ scan.negatable /\ Sees("^")

Negate == InText /\ Negates /\ Take(1, [scan EXCEPT !.negatable = FALSE])

OpensPosix == scan.class /\ ~scan.posix /\ Sees("[") /\ FollowedBy({":"})

OpenPosix == InText /\ OpensPosix /\ Take(1, [scan EXCEPT !.posix = TRUE])

ClosesPosix == scan.posix /\ Sees(":") /\ FollowedBy({"]"})

ClosePosix == InText /\ ClosesPosix /\ Take(2, [scan EXCEPT !.posix = FALSE, !.first = FALSE])

OpensClass == ~scan.class /\ Sees("[")

OpenClass ==
    /\ InText /\ OpensClass
    /\ Take(1, [scan EXCEPT !.class = TRUE, !.first = TRUE, !.negatable = TRUE])

(* Mutated form of ClosesClass: "]" closes a class it is the first item of. *)
ClosesClassAtOnce == scan.class /\ ~scan.posix /\ Sees("]")

ClosesClass == scan.class /\ ~scan.posix /\ ~scan.first /\ Sees("]")

CloseClass ==
    /\ InText /\ ClosesClass
    /\ Take(1, [scan EXCEPT !.class = FALSE, !.first = FALSE, !.negatable = FALSE])

(* ${1} and $name *)
RefuseSyntax == InText /\ Sees("$") /\ FollowedBy(Letter \cup {"{"}) /\ Leave("syntax")

Ordinary ==
    /\ ~Sees("\\") /\ ~ReferenceLike
    /\ ~Negates /\ ~OpensPosix /\ ~ClosesPosix /\ ~OpensClass /\ ~ClosesClass

Copy == InText /\ Ordinary /\ Take(1, [scan EXCEPT !.first = @ /\ ~scan.class])

(* The position after the digits of a reference at i, and its number. *)
End(i) ==
    CHOOSE e \in i + 2..Len(pattern) + 1 :
        /\ \A j \in i + 1..e - 1 : pattern[j] \in Digit
        /\ e \in DOMAIN pattern => pattern[e] \notin Digit

Number(digits) ==
    LET Upto[n \in 0..Len(digits)] ==
            IF n = 0 THEN 0 ELSE 10 * Upto[n - 1] + Value[digits[n]]
    IN  Upto[Len(digits)]

Reference(i) == Number(SubSeq(pattern, i + 1, End(i) - 1))

AtReference == InText /\ Sees("$") /\ FollowedBy(Digit)
IsNumber(i) == pattern[i + 1] # "0" /\ Reference(i) <= MaxInt

RefuseInClass == AtReference /\ scan.class /\ Leave("class")

RefuseNumber == AtReference /\ ~scan.class /\ ~IsNumber(index) /\ Leave("number")

(* Mutated form of Highest: the last reference. *)
HighestLast(n) == n

Highest(n) == IF n > highest THEN n ELSE highest

(* The check pass replaces every reference, ExpandCaptures what it captured. *)
Replace ==
    /\ AtReference /\ ~scan.class /\ IsNumber(index)
    /\ IF stage = "expand" /\ Reference(index) >= captures THEN Leave("unavailable")
       ELSE /\ result' = Append(result, Atom)
            /\ highest' = Highest(Reference(index))
            /\ index' = End(index)
            /\ UNCHANGED <<pattern, captures, stage, scan>>

-----------------------------------------------------------------------------
(* templates: the masked text compiles and from.path has the groups. *)

Checked == stage = "check" /\ index > Len(pattern)
Served == highest = 0 \/ highest < captures

RefuseTemplate ==
    /\ Checked
    /\ IF ~Compiles(result) THEN Leave("uncompilable") ELSE ~Served /\ Leave("groups")

Accept ==
    /\ Checked /\ Compiles(result) /\ Served
    /\ stage' = "expand"
    /\ index' = 1 /\ result' = <<>> /\ highest' = 0 /\ scan' = Outside
    /\ UNCHANGED <<pattern, captures>>

Expanded == stage = "expand" /\ index > Len(pattern) /\ Leave("expanded")

Done == ~Running /\ UNCHANGED templateVars

TemplateNext ==
    \/ Unquote \/ RefuseQuoted \/ CopyQuoted \/ Escape \/ Negate \/ OpenPosix \/ ClosePosix
    \/ OpenClass \/ CloseClass \/ RefuseSyntax \/ Copy \/ RefuseInClass \/ RefuseNumber
    \/ Replace \/ RefuseTemplate \/ Accept \/ Expanded \/ Done

TemplateSpec == TemplateInit /\ [][TemplateNext]_templateVars

-----------------------------------------------------------------------------
(* Properties. *)

Atoms == {i \in DOMAIN result : result[i] = Atom}

(* Every "[:" of the template opens a complete POSIX class. *)
PosixComplete ==
    \A i \in DOMAIN pattern :
        At(pattern, i, "[") /\ At(pattern, i + 1, ":") =>
            IsPosix(pattern, i) /\ NamedClass(pattern, i) # 0

(* Scanner and compiler agree where a class begins and ends: a reference   *)
(* of an accepted template is replaced outside classes only. The two do    *)
(* not agree on a "[:" that opens no POSIX class.                          *)
AtomsOnly ==
    stage \in {"expand", "expanded"} /\ PosixComplete => Atoms \subseteq Tokens(result)

(* In an accepted template no reference is overlooked: the compiler meets  *)
(* no "$" before a digit, which would be an end of text and never match.   *)
NoReferenceLeft ==
    stage \in {"expand", "expanded"} =>
        \A i \in Tokens(result) :
            At(result, i, "$") => \A d \in Digit : ~At(result, i + 1, d)

(* A reference is refused as quoted or inside a class only where the       *)
(* compiler does not read it as a token of its own.                        *)
RefusedForCause ==
    stage \in {"quoted", "class"} /\ PosixComplete =>
        Len(result) + 1 \notin Tokens(result \o SubSeq(pattern, index, Len(pattern)))

(* Scanner and compiler read a template alike: what the scanner replaces,  *)
(* overlooks or refuses is what the compiler takes for a reference, for an *)
(* item of a class or for quoted text.                                     *)
ReadersAgree == AtomsOnly /\ NoReferenceLeft /\ RefusedForCause

(* What templates accepts, ExpandCaptures expands, whichever pattern of    *)
(* from.path gave the captures: no file makes an accepted template fail.   *)
ExpansionServed == [][stage = "expand" => stage' \in {"expand", "expanded"}]_templateVars
=============================================================================

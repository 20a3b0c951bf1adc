------------------------------ MODULE Baseline ------------------------------
(***************************************************************************)
(* internal/baseline: Generate, Write's validation and Apply, as they      *)
(* follow one another in the life of a baseline: generated from the        *)
(* violations of one run, or written by hand, it is applied to the         *)
(* violations of a later one.                                              *)
(*                                                                         *)
(* A violation is reduced to what the identity is made of: its rule, its   *)
(* source path and its target, absent (a nil pointer) or a record of the   *)
(* import path and the package path. An optional value is a set of at most *)
(* one element. A slice that a loop fills in the order of another one is   *)
(* the set of the positions it holds.                                      *)
(***************************************************************************)
EXTENDS Integers, Sequences, Functions

CONSTANTS
    Rule, SourcePath, Target,   \* the strings of an identity, "" included
    Rank,           \* the order of strings: an injection to the naturals
    Results,        \* the lists of violations a run may find
    Handwritten,    \* the lists of entries a person may write
    Pending, Refused

Entry == [rule : Rule, from : SourcePath, to : {{}} \cup {{t} : t \in Target}]

Violation ==
    [rule : Rule, path : SourcePath,
     to : {{}} \cup {{[path |-> p, importPath |-> i]} : p \in Target, i \in Target}]

ASSUME ResultsAssumption == Results \subseteq Seq(Violation)

ASSUME HandwrittenAssumption == Handwritten \subseteq Seq(Entry)

ASSUME RankAssumption ==
    /\ Rank \in [Rule \cup SourcePath \cup Target -> Nat]
    /\ \A s, t \in Rule \cup SourcePath \cup Target : Rank[s] = Rank[t] => s = t

VARIABLES
    previous,   \* the violations Generate is called with
    current,    \* the violations Apply is called with
    handmade,   \* the baseline was not generated
    phase,      \* "generate", "validate", "partition", "stale", "done", "refused"
    at,         \* loop index
    seen,       \* Generate: the identities met
    entries,    \* the baseline
    matched,    \* Apply: the identities a current violation has
    reported,   \* Apply: positions in current of result.Violations,
    known,      \* of result.Known,
    stale       \* and positions in entries of result.Stale

vars == <<previous, current, handmade, phase, at, seen, entries, matched,
          reported, known, stale>>

input == <<previous, current, handmade>>

Init ==
    /\ current \in Results
    /\ \/ /\ handmade = FALSE
          /\ previous \in Results
          /\ phase = "generate"
          /\ entries = <<>>
       \/ /\ handmade = TRUE
          /\ previous = <<>>
          /\ phase = "validate"
          /\ entries \in Handwritten
    /\ at = 1
    /\ seen = {}
    /\ matched = {}
    /\ reported = {}
    /\ known = {}
    /\ stale = {}

-----------------------------------------------------------------------------

(* The import path as written, else the package path. *)
EntryOf(v) ==
    [rule |-> v.rule, from |-> v.path,
     to |-> {IF t.importPath # "" THEN t.importPath ELSE t.path : t \in v.to}]

(* Mutated form of IdentityOf: always the package path. *)
IdentityOfPackage(v) ==
    [rule |-> v.rule, from |-> v.path, to |-> {t.path : t \in v.to}]

(* identityFromEntry turns the pointer into a flag and a string, which      *)
(* tells the same entries apart: an entry is its own identity.              *)
IdentityOf(v) == EntryOf(v)

(* Mutated form of Less: the target is compared only when one is absent. *)
LessIgnoringTarget(d, e) ==
    \/ Rank[d.rule] < Rank[e.rule]
    \/ d.rule = e.rule /\ Rank[d.from] < Rank[e.from]
    \/ d.rule = e.rule /\ d.from = e.from /\ d.to = {} /\ e.to # {}

(* compareEntries *)
Less(d, e) ==
    \/ Rank[d.rule] < Rank[e.rule]
    \/ d.rule = e.rule /\ Rank[d.from] < Rank[e.from]
    \/ /\ d.rule = e.rule /\ d.from = e.from
       /\ \/ d.to = {} /\ e.to # {}
          \/ \E s \in d.to, t \in e.to : Rank[s] < Rank[t]

(* The arrangements of a list the comparison accepts as sorted. *)
Arranged(list) ==
    LET N == 1..Len(list)
    IN  {t \in {[i \in N |-> list[p[i]]] : p \in Bijection(N, N)} :
            \A i, j \in N : i < j => ~Less(t[j], t[i])}

-----------------------------------------------------------------------------
(* Generate *)

Continue(new) == phase' = new /\ at' = 1

(* Mutated form of GenerateStep: equal identities are kept. *)
GenerateStepAll ==
    /\ phase = "generate"
    /\ at <= Len(previous)
    /\ seen' = seen \cup {EntryOf(previous[at])}
    /\ entries' = Append(entries, EntryOf(previous[at]))
    /\ at' = at + 1
    /\ UNCHANGED <<input, phase, matched, reported, known, stale>>

GenerateStep ==
    /\ phase = "generate"
    /\ at <= Len(previous)
    /\ LET entry == EntryOf(previous[at])
       IN  IF entry \in seen
           THEN UNCHANGED <<seen, entries>>
           ELSE /\ seen' = seen \cup {entry}
                /\ entries' = Append(entries, entry)
    /\ at' = at + 1
    /\ UNCHANGED <<input, phase, matched, reported, known, stale>>

(* sortEntries, then Write or the caller takes the baseline. *)
GenerateEnd ==
    /\ phase = "generate"
    /\ at > Len(previous)
    /\ entries' \in Arranged(entries)
    /\ Continue("validate")
    /\ UNCHANGED <<input, seen, matched, reported, known, stale>>

-----------------------------------------------------------------------------
(* validateEntries: before a baseline is written, after it is loaded, and   *)
(* before it is applied.                                                    *)

Malformed ==
    \/ \E i \in 1..Len(entries) :
        \/ entries[i].rule = ""
        \/ entries[i].from = ""
        \/ entries[i].to = {""}
    \/ \E i, j \in 1..Len(entries) : i # j /\ entries[i] = entries[j]

Validate ==
    /\ phase = "validate"
    /\ Continue(IF Malformed THEN "refused" ELSE "partition")
    /\ UNCHANGED <<input, seen, entries, matched, reported, known, stale>>

-----------------------------------------------------------------------------
(* Apply *)

Exists(id) == \E e \in 1..Len(entries) : entries[e] = id

(* Mutated form of PartitionStep: an entry is used up by its first match. *)
PartitionStepOnce ==
    /\ phase = "partition"
    /\ at <= Len(current)
    /\ LET id == IdentityOf(current[at])
       IN  IF Exists(id) /\ id \notin matched
           THEN /\ known' = known \cup {at}
                /\ matched' = matched \cup {id}
                /\ UNCHANGED reported
           ELSE /\ reported' = reported \cup {at}
                /\ UNCHANGED <<known, matched>>
    /\ at' = at + 1
    /\ UNCHANGED <<input, phase, seen, entries, stale>>

(* Mutated form of PartitionStep: the match is not recorded. *)
PartitionStepUnrecorded ==
    /\ phase = "partition"
    /\ at <= Len(current)
    /\ IF Exists(IdentityOf(current[at]))
       THEN known' = known \cup {at} /\ UNCHANGED reported
       ELSE reported' = reported \cup {at} /\ UNCHANGED known
    /\ at' = at + 1
    /\ UNCHANGED <<input, phase, seen, entries, matched, stale>>

PartitionStep ==
    /\ phase = "partition"
    /\ at <= Len(current)
    /\ LET id == IdentityOf(current[at])
       IN  IF Exists(id)
           THEN /\ known' = known \cup {at}
                /\ matched' = matched \cup {id}
                /\ UNCHANGED reported
           ELSE /\ reported' = reported \cup {at}
                /\ UNCHANGED <<known, matched>>
    /\ at' = at + 1
    /\ UNCHANGED <<input, phase, seen, entries, stale>>

PartitionEnd ==
    /\ phase = "partition"
    /\ at > Len(current)
    /\ Continue("stale")
    /\ UNCHANGED <<input, seen, entries, matched, reported, known, stale>>

(* The code goes through a sorted copy of the entries; the set of stale     *)
(* positions is the same in any order.                                      *)
StaleStep ==
    /\ phase = "stale"
    /\ at <= Len(entries)
    /\ stale' = IF entries[at] \in matched THEN stale ELSE stale \cup {at}
    /\ at' = at + 1
    /\ UNCHANGED <<input, phase, seen, entries, matched, reported, known>>

StaleEnd ==
    /\ phase = "stale"
    /\ at > Len(entries)
    /\ Continue("done")
    /\ UNCHANGED <<input, seen, entries, matched, reported, known, stale>>

Returned == phase \in {"done", "refused"} /\ UNCHANGED vars

Next ==
    \/ GenerateStep
    \/ GenerateEnd
    \/ Validate
    \/ PartitionStep
    \/ PartitionEnd
    \/ StaleStep
    \/ StaleEnd
    \/ Returned

Spec == Init /\ [][Next]_vars /\ WF_vars(Next)

-----------------------------------------------------------------------------
(* Properties *)

Phases == {"generate", "validate", "partition", "stale", "done", "refused"}

(* How often the loop of a phase runs. *)
Iterations ==
    CASE phase = "generate"  -> Len(previous)
      [] phase = "partition" -> Len(current)
      [] phase = "stale"     -> Len(entries)
      [] OTHER -> 0

TypeOK ==
    /\ previous \in Results \cup {<<>>}
    /\ current \in Results
    /\ handmade \in BOOLEAN
    /\ phase \in Phases
    /\ at \in 1..(Iterations + 1)
    /\ seen \subseteq Entry
    /\ entries \in Seq(Entry)
    /\ matched \subseteq Entry
    /\ reported \subseteq 1..Len(current)
    /\ known \subseteq 1..Len(current)
    /\ stale \subseteq 1..Len(entries)

(* The identities of a list of violations. *)
Ids(list) == {IdentityOf(list[i]) : i \in 1..Len(list)}

Outcome ==
    CASE phase = "done" -> [reported |-> reported, known |-> known, stale |-> stale]
      [] phase = "refused" -> Refused
      [] OTHER -> Pending

Abstract ==
    INSTANCE BaselineSpec WITH
        entryIds <- [e \in 1..Len(entries) |-> entries[e]],
        violationIds <- [i \in 1..Len(current) |-> IdentityOf(current[i])],
        malformed <- Malformed,
        verdict <- Outcome

(* Applying a baseline decides as promised, and does decide: every current *)
(* violation is known or reported, by its identity alone and however many   *)
(* violations share it, every other entry is stale, and a malformed         *)
(* baseline suppresses nothing.                                             *)
ImplementsPartition == Abstract!Spec

(* A baseline generated from a run and applied to a run with the same       *)
(* identities suppresses everything and expires nothing, whatever order     *)
(* and however many violations share an identity.                           *)
RoundTrip ==
    phase = "done" /\ ~handmade /\ Ids(previous) = Ids(current)
        => reported = {} /\ stale = {}

(* Generate never produces a baseline that its own validation refuses, as   *)
(* long as the violations have a rule, a source and a target by name.       *)
GeneratedAccepted ==
    phase = "refused" /\ ~handmade =>
        \E i \in 1..Len(previous) :
            LET e == EntryOf(previous[i]) IN e.rule = "" \/ e.from = "" \/ e.to = {""}

(* The written baseline depends on the identities only: two entries the     *)
(* comparison cannot order are the same, so there is one arrangement.       *)
Canonical ==
    phase # "generate" /\ ~handmade =>
        \A i, j \in 1..Len(entries) : i < j => Less(entries[i], entries[j])

(* Regenerating after a change only adds entries for violations that are    *)
(* there: an entry of a generated baseline is the identity of a violation   *)
(* of that run, so a stale one is a violation that was fixed since.         *)
StaleMeansFixed ==
    phase = "done" /\ ~handmade =>
        \A e \in stale : entries[e] \in Ids(previous) \ Ids(current)

=============================================================================

--------------------------- MODULE BaselineProofs ---------------------------
(* internal/baseline. A baseline is generated, refused and applied as it    *)
(* promises, for every list of violations, every handwritten list of        *)
(* entries and every order of strings; and Load reads of every document,    *)
(* and of every list of entries written, what it means.                     *)
EXTENDS Baseline, BaselineCodec, WellFoundedInduction, TLAPS

Members(list) == {list[i] : i \in 1..Len(list)}

Distinct(list) == \A i, j \in 1..Len(list) : list[i] = list[j] => i = j

-----------------------------------------------------------------------------
(* The inductive invariant. *)

(* Generate has kept one entry for each identity it has met. *)
Generated ==
    ~handmade =>
        /\ seen = Members(entries)
        /\ Distinct(entries)
        /\ phase = "generate" => Members(entries) = {EntryOf(previous[i]) : i \in 1..(at - 1)}
        /\ phase # "generate" => Members(entries) = Ids(previous)

HandmadeReady == handmade => phase # "generate"

(* Apply has been through the violation at i. *)
Applied(i) == phase \in {"stale", "done"} \/ (phase = "partition" /\ i < at)

Sorting ==
    /\ known = {i \in 1..Len(current) : Applied(i) /\ Exists(IdentityOf(current[i]))}
    /\ reported = {i \in 1..Len(current) : Applied(i) /\ ~Exists(IdentityOf(current[i]))}
    /\ matched = {IdentityOf(current[i]) : i \in known}

(* Apply has been through the entry at e. *)
Checked(e) == phase = "done" \/ (phase = "stale" /\ e < at)

Expiring == stale = {e \in 1..Len(entries) : Checked(e) /\ entries[e] \notin matched}

Vetted ==
    /\ phase \in {"partition", "stale", "done"} => ~Malformed
    /\ phase = "refused" => Malformed

Inv ==
    /\ TypeOK
    /\ HandmadeReady
    /\ Generated
    /\ Canonical
    /\ Sorting
    /\ Expiring
    /\ Vetted

-----------------------------------------------------------------------------
(* Identities and their order. *)

LEMMA EntryType == ASSUME NEW v \in Violation PROVE EntryOf(v) \in Entry
<1>1. v.rule \in Rule /\ v.path \in SourcePath
  BY DEF Violation
<1>2. CASE v.to = {}
  BY <1>1, <1>2 DEF EntryOf, Entry
<1>3. CASE v.to # {}
  <2>1. PICK p \in Target, i \in Target : v.to = {[path |-> p, importPath |-> i]}
    BY <1>3 DEF Violation
  <2> DEFINE name(t) == IF t.importPath # "" THEN t.importPath ELSE t.path
  <2>2. \A t \in v.to : name(t) \in Target
    <3>1. \A t \in v.to : t.path \in Target /\ t.importPath \in Target
      BY <2>1
    <3> QED
      BY <3>1
  <2>3. PICK t : v.to = {t}
    BY <2>1
  <2> HIDE DEF name
  <2>4. {name(s) : s \in v.to} = {name(t)} /\ name(t) \in Target
    BY <2>2, <2>3
  <2>5. EntryOf(v) = [rule |-> v.rule, from |-> v.path, to |-> {name(s) : s \in v.to}]
    BY DEF EntryOf, name
  <2> QED
    BY <1>1, <2>4, <2>5 DEF Entry
<1> QED
  BY <1>2, <1>3

(* The comparison tells any two entries apart. *)
LEMMA LessTotal ==
    ASSUME NEW d \in Entry, NEW e \in Entry, d # e, ~Less(e, d)
    PROVE  Less(d, e)
<1>1. /\ d.rule \in Rule /\ d.from \in SourcePath
      /\ e.rule \in Rule /\ e.from \in SourcePath
      /\ d = [rule |-> d.rule, from |-> d.from, to |-> d.to]
      /\ e = [rule |-> e.rule, from |-> e.from, to |-> e.to]
  BY DEF Entry
<1>2. \A s, t \in Rule \cup SourcePath \cup Target :
        /\ Rank[s] \in Nat /\ Rank[t] \in Nat
        /\ Rank[s] = Rank[t] => s = t
  BY RankAssumption
<1>3. CASE d.rule # e.rule
  <2>1. Rank[d.rule] # Rank[e.rule] /\ Rank[d.rule] \in Nat /\ Rank[e.rule] \in Nat
    BY <1>1, <1>2, <1>3
  <2> QED
    BY <2>1 DEF Less
<1>4. CASE d.rule = e.rule /\ d.from # e.from
  <2>1. Rank[d.from] # Rank[e.from] /\ Rank[d.from] \in Nat /\ Rank[e.from] \in Nat
    BY <1>1, <1>2, <1>4
  <2> QED
    BY <1>4, <2>1 DEF Less
<1>5. CASE d.rule = e.rule /\ d.from = e.from
  <2>1. d.to # e.to
    BY <1>1, <1>5
  <2>2. CASE d.to = {} \/ e.to = {}
    BY <1>5, <2>1, <2>2 DEF Less
  <2>3. CASE d.to # {} /\ e.to # {}
    <3>1. PICK s \in Target : d.to = {s}
      BY <2>3 DEF Entry
    <3>2. PICK t \in Target : e.to = {t}
      BY <2>3 DEF Entry
    <3>3. Rank[s] # Rank[t] /\ Rank[s] \in Nat /\ Rank[t] \in Nat
      BY <1>2, <2>1, <3>1, <3>2
    <3>4. ~(Rank[t] < Rank[s])
      BY <1>5, <3>1, <3>2 DEF Less
    <3>5. Rank[s] < Rank[t]
      BY <3>3, <3>4
    <3> QED
      BY <1>5, <3>1, <3>2, <3>5 DEF Less
  <2> QED
    BY <2>2, <2>3
<1> QED
  BY <1>3, <1>4, <1>5

(* A sorted arrangement of distinct entries has the same entries, in        *)
(* strictly ascending order.                                                *)
LEMMA ArrangedFacts ==
    ASSUME NEW list \in Seq(Entry), Distinct(list), NEW t \in Arranged(list)
    PROVE  /\ t \in Seq(Entry)
           /\ Len(t) = Len(list)
           /\ Members(t) = Members(list)
           /\ Distinct(t)
           /\ \A i, j \in 1..Len(t) : i < j => Less(t[i], t[j])
<1> DEFINE N == 1..Len(list)
<1>1. PICK p \in Bijection(N, N) :
        /\ t = [i \in N |-> list[p[i]]]
        /\ \A i, j \in N : i < j => ~Less(t[j], t[i])
  BY DEF Arranged
<1>2. /\ p \in [N -> N]
      /\ \A i, j \in N : p[i] = p[j] => i = j
      /\ \A j \in N : \E i \in N : p[i] = j
  BY DEF Bijection, Injection, Surjection, IsInjective
<1>3. t \in [N -> Entry]
  BY <1>1, <1>2
<1>4. t \in Seq(Entry) /\ Len(t) = Len(list)
  BY <1>3
<1>5. \A i \in N : p[i] \in N /\ t[i] = list[p[i]] /\ t[i] \in Entry
  BY <1>1, <1>2, <1>3
<1>6. Members(t) = Members(list)
  <2>1. \A i \in N : t[i] \in Members(list)
    BY <1>5 DEF Members
  <2>2. \A j \in N : \E i \in N : t[i] = list[j]
    BY <1>2, <1>5
  <2> QED
    BY <1>4, <2>1, <2>2 DEF Members
<1>7. Distinct(t)
  <2> SUFFICES ASSUME NEW i \in N, NEW j \in N, t[i] = t[j] PROVE i = j
    BY <1>4 DEF Distinct
  <2>1. p[i] \in N /\ p[j] \in N /\ list[p[i]] = list[p[j]]
    BY <1>5
  <2>2. p[i] = p[j]
    BY <2>1 DEF Distinct
  <2> QED
    BY <1>2, <2>2
<1>8. ASSUME NEW i \in N, NEW j \in N, i < j PROVE Less(t[i], t[j])
  <2>1. t[i] # t[j]
    BY <1>4, <1>7, <1>8 DEF Distinct
  <2>2. ~Less(t[j], t[i]) /\ t[i] \in Entry /\ t[j] \in Entry
    BY <1>1, <1>5, <1>8
  <2> QED
    BY <2>1, <2>2, LessTotal
<1> QED
  BY <1>4, <1>6, <1>7, <1>8

-----------------------------------------------------------------------------
(* The invariant holds. *)

LEMMA InvInit == Init => Inv
<1> SUFFICES ASSUME Init PROVE Inv
  OBVIOUS
<1>1. TypeOK
  <2>1. CASE handmade = FALSE
    <3>1. previous \in Seq(Violation)
      BY <2>1, ResultsAssumption DEF Init
    <3>2. Iterations = Len(previous) /\ Len(previous) \in Nat
      BY <2>1, <3>1 DEF Init, Iterations
    <3>3. 1 \in 1..(Iterations + 1)
      BY <3>2
    <3>4. <<>> \in Seq(Entry)
      OBVIOUS
    <3>5. entries \in Seq(Entry) /\ previous \in Results /\ current \in Results
      BY <2>1, <3>4 DEF Init
    <3> QED
      BY <2>1, <3>3, <3>5 DEF Init, TypeOK, Phases
  <2>2. CASE handmade = TRUE
    <3>1. entries \in Seq(Entry)
      BY <2>2, HandwrittenAssumption DEF Init
    <3>2. 1 \in 1..(Iterations + 1)
      BY <2>2 DEF Init, Iterations
    <3> QED
      BY <2>2, <3>1, <3>2 DEF Init, TypeOK, Phases
  <2> QED
    BY <2>1, <2>2 DEF Init
<1>2. HandmadeReady /\ Generated /\ Canonical /\ Vetted
  BY DEF Init, HandmadeReady, Generated, Canonical, Vetted, Members, Distinct
<1>3. Sorting /\ Expiring
  BY DEF Init, Sorting, Expiring, Applied, Checked
<1> QED
  BY <1>1, <1>2, <1>3 DEF Inv

(* A generated list has one entry of the right type for each violation. *)
LEMMA PreviousType ==
    ASSUME TypeOK, NEW i \in 1..Len(previous)
    PROVE  EntryOf(previous[i]) \in Entry
<1>1. previous \in Seq(Violation)
  BY ResultsAssumption DEF TypeOK
<1> QED
  BY <1>1, EntryType

LEMMA CurrentType ==
    ASSUME TypeOK, NEW i \in 1..Len(current)
    PROVE  IdentityOf(current[i]) \in Entry
<1>1. current \in Seq(Violation)
  BY ResultsAssumption DEF TypeOK
<1> QED
  BY <1>1, EntryType DEF IdentityOf

LEMMA Lengths ==
    ASSUME TypeOK
    PROVE  /\ Len(previous) \in Nat
           /\ Len(current) \in Nat
           /\ Len(entries) \in Nat
           /\ at \in Nat \ {0}
           /\ phase = "generate" => at \in 1..(Len(previous) + 1)
           /\ phase = "partition" => at \in 1..(Len(current) + 1)
           /\ phase = "stale" => at \in 1..(Len(entries) + 1)
<1>0. <<>> \in Seq(Violation)
  OBVIOUS
<1>1. previous \in Seq(Violation) /\ current \in Seq(Violation)
  BY <1>0, ResultsAssumption DEF TypeOK
<1>2. entries \in Seq(Entry)
  BY DEF TypeOK
<1> QED
  BY <1>1, <1>2 DEF TypeOK, Iterations

(* Appending an element no member equals. *)
LEMMA AppendNew ==
    ASSUME NEW list \in Seq(Entry), NEW e \in Entry, Distinct(list), e \notin Members(list)
    PROVE  /\ Append(list, e) \in Seq(Entry)
           /\ Members(Append(list, e)) = Members(list) \cup {e}
           /\ Distinct(Append(list, e))
<1> DEFINE longer == Append(list, e)
<1>1. /\ longer \in Seq(Entry)
      /\ Len(longer) = Len(list) + 1
      /\ longer[Len(list) + 1] = e
      /\ \A i \in 1..Len(list) : longer[i] = list[i]
      /\ Len(list) \in Nat
  OBVIOUS
<1>2. \A i \in 1..Len(longer) : i \in 1..Len(list) \/ i = Len(list) + 1
  BY <1>1
<1>3. 1..Len(list) \subseteq 1..Len(longer) /\ Len(list) + 1 \in 1..Len(longer)
  BY <1>1
<1> HIDE DEF longer
<1>4. Members(longer) = Members(list) \cup {e}
  BY <1>1, <1>2, <1>3 DEF Members
<1>5. Distinct(longer)
  <2> SUFFICES ASSUME NEW i \in 1..Len(longer), NEW j \in 1..Len(longer),
                      longer[i] = longer[j]
               PROVE  i = j
    BY DEF Distinct
  <2>1. CASE i \in 1..Len(list) /\ j \in 1..Len(list)
    BY <1>1, <2>1 DEF Distinct
  <2>2. CASE i = Len(list) + 1 /\ j \in 1..Len(list)
    BY <1>1, <2>2 DEF Members
  <2>3. CASE i \in 1..Len(list) /\ j = Len(list) + 1
    BY <1>1, <2>3 DEF Members
  <2>4. CASE i = Len(list) + 1 /\ j = Len(list) + 1
    BY <2>4
  <2> QED
    BY <1>2, <2>1, <2>2, <2>3, <2>4
<1> QED
  BY <1>1, <1>4, <1>5 DEF longer

LEMMA InvStep == Inv /\ [Next]_vars => Inv'
<1> SUFFICES ASSUME Inv, [Next]_vars PROVE Inv'
  OBVIOUS
<1>t. TypeOK
  BY DEF Inv
<1>n. /\ Len(previous) \in Nat /\ Len(current) \in Nat /\ Len(entries) \in Nat
      /\ at \in Nat \ {0}
      /\ entries \in Seq(Entry)
  BY <1>t, Lengths DEF TypeOK
<1>1. CASE GenerateStep
  <2>1. /\ phase = "generate" /\ at \in 1..Len(previous) /\ at' = at + 1
        /\ ~handmade
        /\ UNCHANGED <<input, phase, matched, reported, known, stale>>
    BY <1>1, <1>n DEF GenerateStep, Inv, HandmadeReady
  <2>u. UNCHANGED <<previous, current, handmade>>
    BY <2>1 DEF input
  <2> DEFINE entry == EntryOf(previous[at])
  <2>2. entry \in Entry
    BY <1>t, <2>1, PreviousType
  <2>3. /\ seen = Members(entries)
        /\ Distinct(entries)
        /\ Members(entries) = {EntryOf(previous[i]) : i \in 1..(at - 1)}
    BY <2>1 DEF Inv, Generated
  <2>4. 1..(at' - 1) = 1..(at - 1) \cup {at}
    BY <1>n, <2>1
  <2> HIDE DEF entry
  <2>5. {EntryOf(previous[i]) : i \in 1..(at' - 1)} = Members(entries) \cup {entry}
    BY <2>3, <2>4 DEF entry
  <2>6. /\ entries' \in Seq(Entry)
        /\ seen' = Members(entries')
        /\ Members(entries') = Members(entries) \cup {entry}
        /\ Distinct(entries')
    <3>1. CASE entry \in seen
      BY <1>1, <1>n, <2>3, <3>1 DEF GenerateStep, entry
    <3>2. CASE entry \notin seen
      <4>1. seen' = seen \cup {entry} /\ entries' = Append(entries, entry)
        BY <1>1, <3>2 DEF GenerateStep, entry
      <4> QED
        BY <1>n, <2>2, <2>3, <3>2, <4>1, AppendNew
    <3> QED
      BY <3>1, <3>2
  <2>7. Generated'
    BY <2>1, <2>u, <2>5, <2>6 DEF Generated
  <2>8. seen' \subseteq Entry
    BY <2>6 DEF Members
  <2>9. stale' \subseteq 1..Len(entries')
    BY <2>1 DEF Inv, Expiring, Checked
  <2>10. at' \in 1..(Iterations + 1)'
    BY <1>n, <2>1, <2>u DEF Iterations
  <2>11. TypeOK'
    BY <1>t, <2>1, <2>u, <2>6, <2>8, <2>9, <2>10 DEF TypeOK
  <2>12. Sorting' /\ Expiring'
    BY <2>1, <2>u DEF Inv, Sorting, Expiring, Applied, Checked
  <2> QED
    BY <2>1, <2>u, <2>7, <2>11, <2>12 DEF Inv, HandmadeReady, Canonical, Vetted
<1>2. CASE GenerateEnd
  <2>1. /\ phase = "generate" /\ phase' = "validate" /\ at' = 1
        /\ ~handmade /\ at = Len(previous) + 1
        /\ entries' \in Arranged(entries)
        /\ UNCHANGED <<input, seen, matched, reported, known, stale>>
    BY <1>2, <1>t, <1>n, Lengths DEF GenerateEnd, Continue, Inv, HandmadeReady
  <2>u. UNCHANGED <<previous, current, handmade>>
    BY <2>1 DEF input
  <2>2. /\ seen = Members(entries)
        /\ Distinct(entries)
        /\ Members(entries) = {EntryOf(previous[i]) : i \in 1..(at - 1)}
    BY <2>1 DEF Inv, Generated
  <2>3. /\ entries' \in Seq(Entry)
        /\ Members(entries') = Members(entries)
        /\ Distinct(entries')
        /\ \A i, j \in 1..Len(entries') : i < j => Less(entries'[i], entries'[j])
    BY <1>n, <2>1, <2>2, ArrangedFacts
  <2>4. Members(entries') = Ids(previous)
    BY <1>n, <2>1, <2>2, <2>3 DEF Ids, IdentityOf
  <2>5. Generated'
    BY <2>1, <2>u, <2>2, <2>3, <2>4 DEF Generated, Ids
  <2>6. Canonical'
    BY <2>3 DEF Canonical
  <2>7. stale' = {}
    BY <2>1 DEF Inv, Expiring, Checked
  <2>8. TypeOK'
    BY <1>t, <2>1, <2>u, <2>3, <2>7 DEF TypeOK, Phases, Iterations
  <2>9. Sorting' /\ Expiring'
    BY <2>1, <2>u DEF Inv, Sorting, Expiring, Applied, Checked
  <2> QED
    BY <2>1, <2>u, <2>5, <2>6, <2>8, <2>9 DEF Inv, HandmadeReady, Vetted
<1>3. CASE Validate
  <2>1. /\ phase = "validate" /\ at' = 1
        /\ phase' = IF Malformed THEN "refused" ELSE "partition"
        /\ UNCHANGED <<previous, current, handmade, seen, entries, matched, reported,
                       known, stale>>
    BY <1>3 DEF Validate, Continue, input
  <2>2. TypeOK'
    BY <1>t, <1>n, <2>1 DEF TypeOK, Phases, Iterations
  <2>3. Generated' /\ Canonical' /\ HandmadeReady'
    BY <2>1 DEF Inv, Generated, Canonical, HandmadeReady, Ids
  <2>4. Sorting' /\ Expiring'
    BY <2>1 DEF Inv, Sorting, Expiring, Applied, Checked, Exists
  <2>5. Vetted'
    BY <2>1 DEF Vetted, Malformed
  <2> QED
    BY <2>2, <2>3, <2>4, <2>5 DEF Inv
<1>4. CASE PartitionStep
  <2>1. /\ phase = "partition" /\ at \in 1..Len(current) /\ at' = at + 1
        /\ UNCHANGED <<previous, current, handmade, phase, seen, entries, stale>>
    BY <1>4, <1>n DEF PartitionStep, input
  <2> DEFINE id == IdentityOf(current[at])
  <2>2. \A i \in 1..Len(current) : Applied(i)' <=> Applied(i) \/ i = at
    BY <1>n, <2>1 DEF Applied
  <2>3. \A i : Exists(i)' <=> Exists(i)
    BY <2>1 DEF Exists
  <2>4. id \in Entry
    BY <1>t, <2>1, CurrentType
  <2>5. /\ known = {i \in 1..Len(current) : Applied(i) /\ Exists(IdentityOf(current[i]))}
        /\ reported = {i \in 1..Len(current) : Applied(i) /\ ~Exists(IdentityOf(current[i]))}
        /\ matched = {IdentityOf(current[i]) : i \in known}
    BY DEF Inv, Sorting
  <2>6. Sorting'
    <3>1. CASE Exists(id)
      <4>1. known' = known \cup {at} /\ matched' = matched \cup {id} /\ reported' = reported
        BY <1>4, <3>1 DEF PartitionStep
      <4>2. known' = {i \in 1..Len(current) :
                        Applied(i)' /\ Exists(IdentityOf(current[i]))}
        BY <2>1, <2>2, <2>5, <3>1, <4>1
      <4>3. reported' = {i \in 1..Len(current) :
                        Applied(i)' /\ ~Exists(IdentityOf(current[i]))}
        BY <2>1, <2>2, <2>5, <3>1, <4>1
      <4>4. matched' = {IdentityOf(current[i]) : i \in known'}
        BY <2>5, <4>1
      <4> QED
        BY <2>1, <2>3, <4>2, <4>3, <4>4 DEF Sorting
    <3>2. CASE ~Exists(id)
      <4>1. reported' = reported \cup {at} /\ known' = known /\ matched' = matched
        BY <1>4, <3>2 DEF PartitionStep
      <4>2. known' = {i \in 1..Len(current) :
                        Applied(i)' /\ Exists(IdentityOf(current[i]))}
        BY <2>1, <2>2, <2>5, <3>2, <4>1
      <4>3. reported' = {i \in 1..Len(current) :
                        Applied(i)' /\ ~Exists(IdentityOf(current[i]))}
        BY <2>1, <2>2, <2>5, <3>2, <4>1
      <4> QED
        BY <2>1, <2>3, <2>5, <4>1, <4>2, <4>3 DEF Sorting
    <3> QED
      BY <3>1, <3>2
  <2>7. Expiring'
    BY <2>1 DEF Inv, Expiring, Checked
  <2>8. known' \subseteq 1..Len(current) /\ reported' \subseteq 1..Len(current)
    BY <2>1, <2>6 DEF Sorting
  <2>9. matched' \subseteq Entry
    BY <1>t, <1>4, <2>4 DEF PartitionStep, TypeOK
  <2>10. at' \in 1..(Iterations + 1)'
    BY <1>n, <2>1 DEF Iterations
  <2>11. TypeOK'
    BY <1>t, <2>1, <2>8, <2>9, <2>10 DEF TypeOK
  <2>12. Generated' /\ Canonical' /\ HandmadeReady' /\ Vetted'
    BY <2>1 DEF Inv, Generated, Canonical, HandmadeReady, Vetted, Ids, Malformed
  <2> QED
    BY <2>6, <2>7, <2>11, <2>12 DEF Inv
<1>5. CASE PartitionEnd
  <2>1. /\ phase = "partition" /\ phase' = "stale" /\ at' = 1 /\ at = Len(current) + 1
        /\ UNCHANGED <<previous, current, handmade, seen, entries, matched, reported,
                       known, stale>>
    BY <1>5, <1>t, <1>n, Lengths DEF PartitionEnd, Continue, input
  <2>2. TypeOK'
    BY <1>t, <1>n, <2>1 DEF TypeOK, Phases, Iterations
  <2>3. \A i \in 1..Len(current) : Applied(i)' /\ Applied(i)
    BY <1>n, <2>1 DEF Applied
  <2>4. Sorting'
    BY <2>1, <2>3 DEF Inv, Sorting, Exists
  <2>5. Expiring'
    BY <1>n, <2>1 DEF Inv, Expiring, Checked
  <2>6. Generated' /\ Canonical' /\ HandmadeReady' /\ Vetted'
    BY <2>1 DEF Inv, Generated, Canonical, HandmadeReady, Vetted, Ids, Malformed
  <2> QED
    BY <2>2, <2>4, <2>5, <2>6 DEF Inv
<1>6. CASE StaleStep
  <2>1. /\ phase = "stale" /\ at \in 1..Len(entries) /\ at' = at + 1
        /\ stale' = IF entries[at] \in matched THEN stale ELSE stale \cup {at}
        /\ UNCHANGED <<previous, current, handmade, phase, seen, entries, matched,
                       reported, known>>
    BY <1>6, <1>n DEF StaleStep, input
  <2>2. \A e \in 1..Len(entries) : Checked(e)' <=> Checked(e) \/ e = at
    BY <1>n, <2>1 DEF Checked
  <2>3. Expiring'
    BY <2>1, <2>2 DEF Inv, Expiring
  <2>4. stale' \subseteq 1..Len(entries) /\ at' \in 1..(Iterations + 1)'
    BY <1>t, <1>n, <2>1 DEF TypeOK, Iterations
  <2>5. TypeOK'
    BY <1>t, <2>1, <2>4 DEF TypeOK
  <2>6. Sorting'
    BY <2>1 DEF Inv, Sorting, Applied, Exists
  <2>7. Generated' /\ Canonical' /\ HandmadeReady' /\ Vetted'
    BY <2>1 DEF Inv, Generated, Canonical, HandmadeReady, Vetted, Ids, Malformed
  <2> QED
    BY <2>3, <2>5, <2>6, <2>7 DEF Inv
<1>7. CASE StaleEnd
  <2>1. /\ phase = "stale" /\ phase' = "done" /\ at' = 1 /\ at = Len(entries) + 1
        /\ UNCHANGED <<previous, current, handmade, seen, entries, matched, reported,
                       known, stale>>
    BY <1>7, <1>t, <1>n, Lengths DEF StaleEnd, Continue, input
  <2>2. TypeOK'
    BY <1>t, <1>n, <2>1 DEF TypeOK, Phases, Iterations
  <2>3. \A e \in 1..Len(entries) : Checked(e)' /\ Checked(e)
    BY <1>n, <2>1 DEF Checked
  <2>4. Expiring'
    BY <2>1, <2>3 DEF Inv, Expiring
  <2>5. Sorting'
    BY <2>1 DEF Inv, Sorting, Applied, Exists
  <2>6. Generated' /\ Canonical' /\ HandmadeReady' /\ Vetted'
    BY <2>1 DEF Inv, Generated, Canonical, HandmadeReady, Vetted, Ids, Malformed
  <2> QED
    BY <2>2, <2>4, <2>5, <2>6 DEF Inv
<1>8. CASE Returned \/ UNCHANGED vars
  <2>1. UNCHANGED <<previous, current, handmade, phase, at, seen, entries, matched,
                    reported, known, stale>>
    BY <1>8 DEF Returned, vars
  <2>2. TypeOK'
    BY <1>t, <2>1 DEF TypeOK, Iterations
  <2>3. Generated' /\ Canonical' /\ HandmadeReady' /\ Vetted'
    BY <2>1 DEF Inv, Generated, Canonical, HandmadeReady, Vetted, Ids, Malformed
  <2>4. Sorting' /\ Expiring'
    BY <2>1 DEF Inv, Sorting, Expiring, Applied, Checked, Exists
  <2> QED
    BY <2>2, <2>3, <2>4 DEF Inv
<1> QED
  BY <1>1, <1>2, <1>3, <1>4, <1>5, <1>6, <1>7, <1>8 DEF Next

LEMMA Invariant == Spec => []Inv
  BY InvInit, InvStep, PTL DEF Spec

(* The variables of Generate and Apply keep their types. *)
THEOREM TypeCorrect == Spec => []TypeOK
  BY Invariant, PTL DEF Inv

(* The file a generated baseline is written to has one form: its entries    *)
(* are strictly ascending, so they do not depend on the order of the        *)
(* violations nor on how often an identity occurs.                          *)
THEOREM CanonicalForm == Spec => []Canonical
  BY Invariant, PTL DEF Inv

(* Generate writes nothing that loading would refuse. *)
THEOREM Accepted == Spec => []GeneratedAccepted
<1>1. Inv => GeneratedAccepted
  <2> SUFFICES ASSUME Inv, phase = "refused", ~handmade
               PROVE  \E i \in 1..Len(previous) :
                        LET e == EntryOf(previous[i])
                        IN  e.rule = "" \/ e.from = "" \/ e.to = {""}
    BY DEF GeneratedAccepted
  <2>1. Malformed /\ Distinct(entries) /\ Members(entries) = Ids(previous)
    BY DEF Inv, Vetted, Generated
  <2>2. PICK e \in 1..Len(entries) :
            entries[e].rule = "" \/ entries[e].from = "" \/ entries[e].to = {""}
    BY <2>1 DEF Malformed, Distinct
  <2>3. entries[e] \in Ids(previous)
    BY <2>1 DEF Members
  <2>4. PICK i \in 1..Len(previous) : entries[e] = EntryOf(previous[i])
    BY <2>3 DEF Ids, IdentityOf
  <2> QED
    BY <2>2, <2>4
<1> QED
  BY <1>1, Invariant, PTL

(* What Apply has decided when its second loop has ended. *)
LEMMA Settled ==
    ASSUME Inv, phase = "done" \/ (phase = "stale" /\ at > Len(entries))
    PROVE  /\ known = {i \in 1..Len(current) : Exists(IdentityOf(current[i]))}
           /\ reported = {i \in 1..Len(current) : ~Exists(IdentityOf(current[i]))}
           /\ stale = {e \in 1..Len(entries) : entries[e] \notin Ids(current)}
<1>1. /\ known = {i \in 1..Len(current) : Exists(IdentityOf(current[i]))}
      /\ reported = {i \in 1..Len(current) : ~Exists(IdentityOf(current[i]))}
      /\ matched = {IdentityOf(current[i]) : i \in known}
      /\ stale = {e \in 1..Len(entries) : entries[e] \notin matched}
  BY Lengths DEF Inv, Sorting, Applied, Expiring, Checked
<1>2. \A e \in 1..Len(entries) : entries[e] \in matched <=> entries[e] \in Ids(current)
  <2> SUFFICES ASSUME NEW e \in 1..Len(entries)
               PROVE  entries[e] \in matched <=> entries[e] \in Ids(current)
    OBVIOUS
  <2>1. ASSUME NEW i \in 1..Len(current), IdentityOf(current[i]) = entries[e]
        PROVE  i \in known
    BY <1>1, <2>1 DEF Exists
  <2> QED
    BY <1>1, <2>1 DEF Ids
<1> QED
  BY <1>1, <1>2

(* Applying a baseline to the violations it was generated from, or to any   *)
(* others with the same identities, reports nothing.                        *)
THEOREM RoundTripExact == Spec => []RoundTrip
<1>1. Inv => RoundTrip
  <2> SUFFICES ASSUME Inv, phase = "done", ~handmade, Ids(previous) = Ids(current)
               PROVE  reported = {} /\ stale = {}
    BY DEF RoundTrip
  <2>1. Members(entries) = Ids(current)
    BY DEF Inv, Generated
  <2>2. \A i \in 1..Len(current) : Exists(IdentityOf(current[i]))
    BY <2>1 DEF Ids, Members, Exists
  <2>3. \A e \in 1..Len(entries) : entries[e] \in Ids(current)
    BY <2>1 DEF Members
  <2> QED
    BY <2>2, <2>3, Settled
<1> QED
  BY <1>1, Invariant, PTL

(* A stale entry of a generated baseline is a violation fixed since. *)
THEOREM StaleFixed == Spec => []StaleMeansFixed
<1>1. Inv => StaleMeansFixed
  BY Settled DEF Inv, Generated, StaleMeansFixed, Members
<1> QED
  BY <1>1, Invariant, PTL

(* Apply implements the partition: every step of the loops is invisible but *)
(* the last, which decides as promised, and a malformed baseline is refused.*)
THEOREM Refinement == Spec => Abstract!Init /\ [][Abstract!Next]_Abstract!vars
<1>1. Init => Abstract!Init
  BY DEF Init, Abstract!Init, Outcome
<1>2. Inv /\ Inv' /\ [Next]_vars => [Abstract!Next]_Abstract!vars
  <2> SUFFICES ASSUME Inv, Inv', [Next]_vars
               PROVE  Abstract!Next \/ UNCHANGED Abstract!vars
    OBVIOUS
  <2>1. CASE GenerateStep \/ GenerateEnd \/ PartitionStep \/ PartitionEnd \/ StaleStep
    <3>1. current' = current /\ Outcome = Pending /\ Outcome' = Pending
      BY <2>1 DEF GenerateStep, GenerateEnd, PartitionStep, PartitionEnd, StaleStep,
                  Continue, input, Outcome
    <3> QED
      BY <3>1 DEF Abstract!Next, Abstract!Obtain
  <2>2. CASE Validate
    <3>1. /\ UNCHANGED <<current, entries>> /\ Outcome = Pending
          /\ Outcome' = IF Malformed THEN Refused ELSE Pending
      BY <2>2 DEF Validate, Continue, input, Outcome
    <3>2. Malformed' <=> Malformed
      BY <3>1 DEF Malformed
    <3>3. CASE Malformed
      BY <3>1, <3>2, <3>3 DEF Abstract!Next, Abstract!Decide
    <3>4. CASE ~Malformed
      BY <3>1, <3>2, <3>4 DEF Abstract!Next, Abstract!Obtain
    <3> QED
      BY <3>3, <3>4
  <2>3. CASE StaleEnd
    <3>1. /\ phase = "stale" /\ phase' = "done" /\ at > Len(entries)
          /\ UNCHANGED <<current, entries, reported, known, stale>>
      BY <2>3 DEF StaleEnd, Continue, input
    <3>2. Outcome = Pending
      BY <3>1 DEF Outcome
    <3>3. Outcome' = [reported |-> reported, known |-> known, stale |-> stale]'
      BY <3>1 DEF Outcome
    <3>4. ~Malformed
      BY <3>1 DEF Inv, Vetted
    <3>5. Malformed' <=> Malformed
      BY <3>1 DEF Malformed
    <3>6. Abstract!Partition = [reported |-> reported, known |-> known, stale |-> stale]'
      <4>1. /\ known' = {i \in 1..Len(current) : Exists(IdentityOf(current[i]))}
            /\ reported' = {i \in 1..Len(current) : ~Exists(IdentityOf(current[i]))}
            /\ stale' = {e \in 1..Len(entries) : entries[e] \notin Ids(current)}
        BY <3>1, Settled
      <4>2. \A i \in 1..Len(current) :
                Abstract!Covered(i) <=> Exists(IdentityOf(current[i]))
        BY DEF Abstract!Covered, Exists
      <4>3. \A e \in 1..Len(entries) :
                entries[e] \notin Ids(current)
                    <=> \A i \in 1..Len(current) : IdentityOf(current[i]) # entries[e]
        BY DEF Ids
      <4> QED
        BY <4>1, <4>2, <4>3 DEF Abstract!Partition
    <3> QED
      BY <3>1, <3>2, <3>3, <3>4, <3>5, <3>6 DEF Abstract!Next, Abstract!Decide
  <2>4. CASE Returned \/ UNCHANGED vars
    <3>1. UNCHANGED <<current, entries, phase, reported, known, stale>>
      BY <2>4 DEF Returned, vars
    <3> QED
      BY <3>1 DEF Abstract!vars, Outcome, Malformed
  <2> QED
    BY <2>1, <2>2, <2>3, <2>4 DEF Next
<1> QED
  BY <1>1, <1>2, Invariant, PTL DEF Spec

-----------------------------------------------------------------------------
(* The values below a value: the recursive definition satisfies its own     *)
(* equation, from above and from below.                                     *)

(* A set of numbers that is not empty has a least one.                      *)
LEMMA LeastOf ==
    ASSUME NEW S, S \subseteq Nat, S # {}
    PROVE  \E k \in S : \A m \in S : k <= m
<1> DEFINE R == OpToRel(<, Nat)
<1>1. IsWellFoundedOn(R, Nat)
  BY NatLessThanWellFounded
<1>2. \A x, y \in Nat : <<x, y>> \in R <=> x < y
  BY DEF OpToRel
<1> HIDE DEF R
<1>3. PICK k \in S : \A m \in S : ~(<<m, k>> \in R)
  BY <1>1, WFMin
<1>4. \A m \in S : k <= m
  <2> SUFFICES ASSUME NEW m \in S PROVE k <= m
    OBVIOUS
  <2>1. m \in Nat /\ k \in Nat /\ ~(m < k)
    BY <1>2, <1>3
  <2> QED
    BY <2>1
<1> QED
  BY <1>3, <1>4

(* A set that holds 0 and with every number the next one holds them all.    *)
LEMMA Induction ==
    ASSUME NEW S, 0 \in S, \A n \in Nat : n \in S => n + 1 \in S
    PROVE  Nat \subseteq S
<1> DEFINE Bad == Nat \ S
<1> SUFFICES ASSUME Bad # {} PROVE FALSE
  OBVIOUS
<1>1. PICK k \in Bad : \A m \in Bad : k <= m
  BY LeastOf
<1>2. k - 1 \in Nat /\ k - 1 \notin Bad
  BY <1>1
<1> QED
  BY <1>1, <1>2

Kids(values) == UNION {Children(v) : v \in values}

(* The first levels, as a function of 0..n.                                 *)
Levels(g, values, n) == g = [k \in 0..n |-> IF k = 0 THEN values ELSE Kids(g[k - 1])]

LEMMA LevelsExist ==
    ASSUME NEW values
    PROVE  \A n \in Nat : \E g : Levels(g, values, n)
<1> DEFINE S == {n \in Nat : \E g : Levels(g, values, n)}
<1>1. 0 \in S
  <2>1. Levels([k \in 0..0 |-> values], values, 0)
    BY DEF Levels
  <2> QED
    BY <2>1
<1>2. ASSUME NEW n \in Nat, n \in S PROVE n + 1 \in S
  <2>1. PICK g : Levels(g, values, n)
    BY <1>2
  <2> DEFINE h == [k \in 0..n + 1 |-> IF k = n + 1 THEN Kids(g[n]) ELSE g[k]]
  <2>2. ASSUME NEW k \in 0..n + 1 PROVE h[k] = IF k = 0 THEN values ELSE Kids(h[k - 1])
    <3>1. CASE k = n + 1
      BY <3>1
    <3>2. CASE k # n + 1
      <4>1. k \in 0..n /\ h[k] = g[k]
        BY <3>2
      <4>2. g[k] = IF k = 0 THEN values ELSE Kids(g[k - 1])
        BY <2>1, <4>1 DEF Levels
      <4>3. k # 0 => k - 1 \in 0..n /\ h[k - 1] = g[k - 1]
        BY <4>1
      <4> QED
        BY <4>1, <4>2, <4>3
    <3> QED
      BY <3>1, <3>2
  <2>3. h = [k \in 0..n + 1 |-> h[k]]
    OBVIOUS
  <2> HIDE DEF h
  <2>4. Levels(h, values, n + 1)
    BY <2>2, <2>3 DEF Levels
  <2> QED
    BY <2>4
<1> HIDE DEF S
<1>3. Nat \subseteq S
  BY <1>1, <1>2, Induction
<1> QED
  BY <1>3 DEF S

LEMMA LevelsAgree ==
    ASSUME NEW values, NEW m \in Nat, NEW n \in Nat, NEW g, NEW h,
           Levels(g, values, m), Levels(h, values, n)
    PROVE  \A k \in Nat : k <= m /\ k <= n => g[k] = h[k]
<1> DEFINE S == {k \in Nat : k <= m /\ k <= n => g[k] = h[k]}
<1>1. 0 \in S
  BY DEF Levels
<1>2. ASSUME NEW k \in Nat, k \in S PROVE k + 1 \in S
  <2>1. SUFFICES ASSUME k + 1 <= m, k + 1 <= n PROVE g[k + 1] = h[k + 1]
    OBVIOUS
  <2>2. g[k] = h[k]
    BY <1>2, <2>1
  <2>3. g[k + 1] = Kids(g[k]) /\ h[k + 1] = Kids(h[k])
    <3>1. k + 1 \in 0..m /\ k + 1 \in 0..n /\ k + 1 # 0 /\ (k + 1) - 1 = k
      BY <2>1
    <3>2. g[k + 1] = Kids(g[(k + 1) - 1])
      BY <3>1 DEF Levels
    <3>3. h[k + 1] = Kids(h[(k + 1) - 1])
      BY <3>1 DEF Levels
    <3> QED
      BY <3>1, <3>2, <3>3
  <2> QED
    BY <2>2, <2>3
<1> HIDE DEF S
<1>3. Nat \subseteq S
  BY <1>1, <1>2, Induction
<1> QED
  BY <1>3 DEF S

LEMMA BelowDef ==
    ASSUME NEW values
    PROVE  /\ Below(values, 0) = values
           /\ \A n \in Nat : Below(values, n + 1) = Kids(Below(values, n))
<1> DEFINE Is(f) == f = [k \in Nat |-> IF k = 0 THEN values ELSE Kids(f[k - 1])]
           G(n) == CHOOSE g : Levels(g, values, n)
           f == [n \in Nat |-> G(n)[n]]
<1>1. \A n \in Nat : Levels(G(n), values, n)
  BY LevelsExist
<1> HIDE DEF G
<1>2. ASSUME NEW n \in Nat PROVE f[n] = IF n = 0 THEN values ELSE Kids(f[n - 1])
  <2>1. n \in 0..n /\ Levels(G(n), values, n)
    BY <1>1
  <2>2. G(n)[n] = IF n = 0 THEN values ELSE Kids(G(n)[n - 1])
    BY <2>1 DEF Levels
  <2>3. ASSUME n # 0 PROVE G(n)[n - 1] = G(n - 1)[n - 1]
    <3>1. n - 1 \in Nat /\ n - 1 <= n /\ n - 1 <= n - 1
      BY <2>3
    <3>2. Levels(G(n - 1), values, n - 1)
      BY <1>1, <3>1
    <3> QED
      BY <2>1, <3>1, <3>2, LevelsAgree
  <2> QED
    BY <2>2, <2>3
<1>3. f = [k \in Nat |-> f[k]]
  OBVIOUS
<1> HIDE DEF f
<1>4. Is(f)
  BY <1>2, <1>3
<1> DEFINE L == CHOOSE g : Is(g)
<1>5. Is(L)
  BY <1>4
<1>6. \A n : Below(values, n) = L[n]
  BY DEF Below, Kids
<1> HIDE DEF L
<1>7. L[0] = values
  BY <1>5
<1>8. ASSUME NEW n \in Nat PROVE L[n + 1] = Kids(L[n])
  <2>1. n + 1 \in Nat /\ n + 1 # 0 /\ (n + 1) - 1 = n
    OBVIOUS
  <2>2. L[n + 1] = Kids(L[(n + 1) - 1])
    BY <1>5, <2>1
  <2> QED
    BY <2>1, <2>2
<1> QED
  BY <1>6, <1>7, <1>8

(* The levels below a set are those below its members.                      *)
LEMMA BelowEach ==
    ASSUME NEW values, NEW n \in Nat
    PROVE  \A w : w \in Below(values, n) <=> \E v \in values : w \in Below({v}, n)
<1> DEFINE Same(k) == \A w : w \in Below(values, k) <=> \E v \in values : w \in Below({v}, k)
           S == {k \in Nat : Same(k)}
<1>1. Same(0)
  <2>1. Below(values, 0) = values
    BY BelowDef
  <2>2. ASSUME NEW v PROVE Below({v}, 0) = {v}
    BY BelowDef
  <2>3. \A v, w : w \in Below({v}, 0) <=> w = v
    BY <2>2
  <2> QED
    BY <2>1, <2>3
<1>2. ASSUME NEW k \in Nat, Same(k) PROVE Same(k + 1)
  <2>1. Below(values, k + 1) = Kids(Below(values, k))
    BY BelowDef
  <2>2. ASSUME NEW v PROVE Below({v}, k + 1) = Kids(Below({v}, k))
    BY BelowDef
  <2>3. \A set, w : w \in Kids(set) <=> \E u \in set : w \in Children(u)
    BY DEF Kids
  <2> SUFFICES ASSUME NEW w
               PROVE  w \in Below(values, k + 1) <=> \E v \in values : w \in Below({v}, k + 1)
    OBVIOUS
  <2>4. w \in Below(values, k + 1) <=> \E u \in Below(values, k) : w \in Children(u)
    BY <2>1, <2>3
  <2>5. ASSUME NEW v
        PROVE  w \in Below({v}, k + 1) <=> \E u \in Below({v}, k) : w \in Children(u)
    <3>1. Below({v}, k + 1) = Kids(Below({v}, k))
      BY <2>2
    <3>2. w \in Kids(Below({v}, k)) <=> \E u \in Below({v}, k) : w \in Children(u)
      BY <2>3
    <3> QED
      BY <3>1, <3>2
  <2> QED
    BY <1>2, <2>4, <2>5
<1> HIDE DEF Same
<1>3. Nat \subseteq S
  <2>1. 0 \in S
    BY <1>1
  <2>2. \A k \in Nat : k \in S => k + 1 \in S
    BY <1>2
  <2> HIDE DEF S
  <2> QED
    BY <2>1, <2>2, Induction
<1> QED
  BY <1>3 DEF Same

LEMMA BelowKids ==
    ASSUME NEW values, NEW n \in Nat
    PROVE  Below(values, n + 1) = Below(Kids(values), n)
<1> DEFINE S == {k \in Nat : Below(values, k + 1) = Below(Kids(values), k)}
<1>1. 0 \in S
  <2>1. Below(values, 0 + 1) = Kids(Below(values, 0)) /\ Below(values, 0) = values
    BY BelowDef
  <2>2. Below(Kids(values), 0) = Kids(values)
    BY BelowDef
  <2> QED
    BY <2>1, <2>2
<1>2. ASSUME NEW k \in Nat, k \in S PROVE k + 1 \in S
  <2>1. Below(values, (k + 1) + 1) = Kids(Below(values, k + 1))
    BY BelowDef
  <2>2. Below(Kids(values), k + 1) = Kids(Below(Kids(values), k))
    BY BelowDef
  <2> QED
    BY <1>2, <2>1, <2>2
<1> HIDE DEF S
<1>3. Nat \subseteq S
  BY <1>1, <1>2, Induction
<1> QED
  BY <1>3 DEF S

(* A value and everything below it is in the set.                           *)
Within(v, set) == \A n \in Nat : Below({v}, n) \subseteq set

LEMMA WithinUnfolds ==
    ASSUME NEW v, NEW set
    PROVE  Within(v, set) <=> v \in set /\ \A c \in Children(v) : Within(c, set)
<1>1. Below({v}, 0) = {v}
  BY BelowDef
<1>2. Kids({v}) = Children(v)
  BY DEF Kids
<1>3. ASSUME NEW n \in Nat
      PROVE  \A w : w \in Below({v}, n + 1) <=> \E c \in Children(v) : w \in Below({c}, n)
  <2>1. Below({v}, n + 1) = Below(Kids({v}), n)
    BY BelowKids
  <2>2. \A w : w \in Below(Children(v), n) <=> \E c \in Children(v) : w \in Below({c}, n)
    BY BelowEach
  <2> QED
    BY <1>2, <2>1, <2>2
<1>4. ASSUME Within(v, set) PROVE v \in set /\ \A c \in Children(v) : Within(c, set)
  <2>1. v \in set
    BY <1>1, <1>4 DEF Within
  <2>2. ASSUME NEW c \in Children(v), NEW n \in Nat PROVE Below({c}, n) \subseteq set
    <3>1. Below({v}, n + 1) \subseteq set
      BY <1>4 DEF Within
    <3> QED
      BY <1>3, <3>1
  <2> QED
    BY <2>1, <2>2 DEF Within
<1>5. ASSUME v \in set, \A c \in Children(v) : Within(c, set) PROVE Within(v, set)
  <2> SUFFICES ASSUME NEW n \in Nat PROVE Below({v}, n) \subseteq set
    BY DEF Within
  <2>1. CASE n = 0
    BY <1>1, <1>5, <2>1
  <2>2. CASE n # 0
    <3>1. n - 1 \in Nat /\ (n - 1) + 1 = n
      BY <2>2
    <3>2. \A w : w \in Below({v}, (n - 1) + 1) <=>
                    \E c \in Children(v) : w \in Below({c}, n - 1)
      BY <1>3, <3>1
    <3>3. \A c \in Children(v) : Below({c}, n - 1) \subseteq set
      BY <1>5, <3>1 DEF Within
    <3> QED
      BY <3>1, <3>2, <3>3
  <2> QED
    BY <2>1, <2>2
<1> QED
  BY <1>4, <1>5

(* Below a level that is empty every level is.                              *)
LEMMA BottomEmpty ==
    ASSUME NEW values, NEW bottom \in Nat, Below(values, bottom) = {}
    PROVE  \A n \in Nat : n >= bottom => Below(values, n) = {}
<1> DEFINE S == {k \in Nat : Below(values, bottom + k) = {}}
<1>1. 0 \in S
  OBVIOUS
<1>2. ASSUME NEW k \in Nat, k \in S PROVE k + 1 \in S
  <2>1. bottom + k \in Nat /\ bottom + (k + 1) = (bottom + k) + 1
    OBVIOUS
  <2>2. Below(values, (bottom + k) + 1) = Kids(Below(values, bottom + k))
    BY <2>1, BelowDef
  <2>3. Kids({}) = {}
    BY DEF Kids
  <2> QED
    BY <1>2, <2>1, <2>2, <2>3
<1> HIDE DEF S
<1>3. Nat \subseteq S
  BY <1>1, <1>2, Induction
<1> SUFFICES ASSUME NEW n \in Nat, n >= bottom PROVE Below(values, n) = {}
  OBVIOUS
<1>4. n - bottom \in Nat /\ bottom + (n - bottom) = n
  OBVIOUS
<1> QED
  BY <1>3, <1>4 DEF S

(* The nodes of a text are in a set when every value of it is within.       *)
LEMMA NodesWithin ==
    ASSUME NEW text, Below(Range(text), MaxNesting) = {}, NEW set
    PROVE  Nodes(text) \subseteq set <=> \A v \in Range(text) : Within(v, set)
<1> USE NestingAssumption
<1>1. \A n \in Nat : \A w :
          w \in Below(Range(text), n) <=> \E v \in Range(text) : w \in Below({v}, n)
  BY BelowEach
<1>2. ASSUME Nodes(text) \subseteq set, NEW v \in Range(text), NEW n \in Nat
      PROVE  Below({v}, n) \subseteq set
  <2>1. Below({v}, n) \subseteq Below(Range(text), n)
    BY <1>1
  <2>2. CASE n >= MaxNesting
    BY <2>1, <2>2, BottomEmpty
  <2>3. CASE ~(n >= MaxNesting)
    <3>1. n \in 0..MaxNesting
      BY <2>3
    <3> QED
      BY <1>2, <2>1, <3>1 DEF Nodes
  <2> QED
    BY <2>2, <2>3
<1>3. ASSUME \A v \in Range(text) : Within(v, set), NEW n \in 0..MaxNesting
      PROVE  Below(Range(text), n) \subseteq set
  <2>1. n \in Nat
    OBVIOUS
  <2>2. \A v \in Range(text) : Below({v}, n) \subseteq set
    BY <1>3, <2>1 DEF Within
  <2> QED
    BY <1>1, <2>1, <2>2
<1> QED
  BY <1>2, <1>3 DEF Nodes, Within

-----------------------------------------------------------------------------
(* The first pass: the stack of open values is what is left of the          *)
(* document, so the document is sound exactly when every frame is.          *)

IsText(text) ==
    /\ text \in Seq(Range(text)) /\ Below(Range(text), MaxNesting) = {}
    /\ \A v \in Nodes(text) : IsValue(v)

Proper == {v \in Nodes(document) : v.kind # "torn" /\ DistinctNames(v)}

(* A frame: the values of an array or the members of an object not yet read. *)
FrameOK(f, nodes) ==
    /\ f = [object |-> f.object, items |-> f.items, members |-> f.members, seen |-> f.seen]
    /\ f.object \in BOOLEAN
    /\ f.items \in Seq(Range(f.items)) /\ f.members \in Seq(Range(f.members))
    /\ f.object => f.items = <<>>
    /\ ~f.object => f.members = <<>>
    /\ \A c \in Children(f) : Within(c, nodes)

FrameProper(f, proper) ==
    /\ \A c \in Children(f) : Within(c, proper)
    /\ DistinctNames(f)
    /\ \A i \in DOMAIN f.members : f.members[i].name \notin f.seen

(* The bottom of the stack holds the document, or what is left of it.       *)
BottomOK ==
    LET f == stack[Len(stack)]
    IN  /\ ~f.object
        /\ \/ f.items = document /\ Len(stack) = 1
           \/ document # <<>> /\ f.items = Tail(document)

Stacked ==
    /\ stack \in Seq(Range(stack)) /\ stack # <<>>
    /\ \A i \in 1..Len(stack) : FrameOK(stack[i], Nodes(document))
    /\ BottomOK
    /\ (\A v \in Range(document) : Within(v, Proper))
            <=> \A i \in 1..Len(stack) : FrameProper(stack[i], Proper)

Passes == {"tokens", "fields", "targets", "decode", "validate", "malformed", "refused",
           "accepted"}

TokensInv ==
    /\ pass \in Passes
    /\ IsText(document)
    /\ pass = "tokens" => Stacked
    /\ DuplicatesRefused

LEMMA RangeTyped ==
    ASSUME NEW R, NEW s, s \in Seq(R)
    PROVE  s \in Seq(Range(s))
<1>1. /\ s = [i \in 1..Len(s) |-> s[i]] /\ Len(s) \in Nat
      /\ \A i \in 1..Len(s) : s[i] \in Range(s)
  BY DEF Range
<1> QED
  BY <1>1

(* Taking the first element of a sequence that is not empty.                *)
LEMMA TakeFirst ==
    ASSUME NEW s, s \in Seq(Range(s)), s # <<>>
    PROVE  /\ Len(s) \in Nat \ {0} /\ DOMAIN s = 1..Len(s)
           /\ Head(s) = s[1] /\ Tail(s) \in Seq(Range(Tail(s)))
           /\ Len(Tail(s)) = Len(s) - 1 /\ DOMAIN Tail(s) = 1..Len(s) - 1
           /\ \A i \in 1..Len(s) - 1 : Tail(s)[i] = s[i + 1]
           /\ \A x : x \in Range(s) <=> x = Head(s) \/ x \in Range(Tail(s))
<1> DEFINE R == Range(s)
<1>0. s \in Seq(R)
  OBVIOUS
<1>1. /\ Len(s) \in Nat \ {0} /\ DOMAIN s = 1..Len(s)
      /\ Head(s) = s[1]
      /\ Len(Tail(s)) = Len(s) - 1 /\ DOMAIN Tail(s) = 1..Len(s) - 1
      /\ \A i \in 1..Len(s) - 1 : Tail(s)[i] = s[i + 1]
      /\ Tail(s) \in Seq(R)
  <2> HIDE DEF R
  <2> QED
    BY <1>0
<1>2. \A x : x \in Range(s) <=> \E i \in 1..Len(s) : s[i] = x
  BY <1>1 DEF Range
<1>3. \A x : x \in Range(Tail(s)) <=> \E i \in 1..Len(s) - 1 : Tail(s)[i] = x
  BY <1>1 DEF Range
<1>4. Tail(s) \in Seq(Range(Tail(s)))
  <2> HIDE DEF R
  <2> QED
    BY <1>1, RangeTyped
<1>5. ASSUME NEW x PROVE x \in Range(s) <=> x = Head(s) \/ x \in Range(Tail(s))
  <2>1. ASSUME NEW i \in 1..Len(s), s[i] = x PROVE x = Head(s) \/ x \in Range(Tail(s))
    <3>1. CASE i = 1
      BY <1>1, <2>1, <3>1
    <3>2. CASE i # 1
      <4>1. i - 1 \in 1..Len(s) - 1 /\ Tail(s)[i - 1] = s[(i - 1) + 1] /\ (i - 1) + 1 = i
        BY <1>1, <3>2
      <4> QED
        BY <1>3, <2>1, <4>1
    <3> QED
      BY <3>1, <3>2
  <2>2. ASSUME NEW i \in 1..Len(s) - 1, Tail(s)[i] = x PROVE x \in Range(s)
    <3>1. i + 1 \in 1..Len(s) /\ s[i + 1] = x
      BY <1>1, <2>2
    <3> QED
      BY <1>2, <3>1
  <2>3. 1 \in 1..Len(s) /\ Head(s) \in Range(s)
    BY <1>1, <1>2
  <2> QED
    BY <1>2, <1>3, <2>1, <2>2, <2>3
<1> QED
  BY <1>1, <1>4, <1>5

LEMMA SoundIs ==
    ASSUME IsText(document)
    PROVE  /\ Sound <=> Len(document) = 1 /\ \A v \in Range(document) : Within(v, Proper)
           /\ \A v \in Range(document) : Within(v, Nodes(document))
<1>1. Below(Range(document), MaxNesting) = {}
  BY DEF IsText
<1>2. Nodes(document) \subseteq Proper <=> \A v \in Range(document) : Within(v, Proper)
  BY <1>1, NodesWithin
<1>3. Nodes(document) \subseteq Nodes(document)
          <=> \A v \in Range(document) : Within(v, Nodes(document))
  BY <1>1, NodesWithin
<1>4. Sound <=> Len(document) = 1 /\ Nodes(document) \subseteq Proper
  BY DEF Sound, Proper
<1> QED
  BY <1>2, <1>3, <1>4

LEMMA OpenValue ==
    ASSUME IsText(document), NEW v, Within(v, Nodes(document)), v.kind # "torn"
    PROVE  /\ v.kind \in {"object", "array"} =>
                  FrameOK(Frame(v), Nodes(document)) /\ (Within(v, Proper) <=> FrameProper(Frame(v), Proper))
           /\ v.kind \notin {"object", "array"} => Within(v, Proper)
<1>1. v \in Nodes(document) /\ \A c \in Children(v) : Within(c, Nodes(document))
  BY WithinUnfolds
<1>2. IsValue(v)
  BY <1>1 DEF IsText
<1>3. /\ Frame(v).object = (v.kind = "object") /\ Frame(v).items = v.items
      /\ Frame(v).members = v.members /\ Frame(v).seen = {}
  BY DEF Frame
<1>4. Children(Frame(v)) = Children(v) /\ (DistinctNames(Frame(v)) <=> DistinctNames(v))
  BY <1>3 DEF Children, DistinctNames
<1>5. v \in Proper <=> DistinctNames(v)
  BY <1>1 DEF Proper
<1>6. Within(v, Proper) <=> v \in Proper /\ \A c \in Children(v) : Within(c, Proper)
  BY WithinUnfolds
<1>7. ASSUME v.kind \in {"object", "array"}
      PROVE  FrameOK(Frame(v), Nodes(document)) /\ (Within(v, Proper) <=> FrameProper(Frame(v), Proper))
  <2>0. Frame(v) = [object |-> Frame(v).object, items |-> Frame(v).items,
                    members |-> Frame(v).members, seen |-> Frame(v).seen]
    BY DEF Frame
  <2>1. FrameOK(Frame(v), Nodes(document))
    BY <1>1, <1>2, <1>3, <1>4, <1>7, <2>0 DEF FrameOK, IsValue
  <2>2. FrameProper(Frame(v), Proper) <=> DistinctNames(v) /\ \A c \in Children(v) : Within(c, Proper)
    BY <1>3, <1>4 DEF FrameProper
  <2> QED
    BY <1>5, <1>6, <2>1, <2>2
<1>8. ASSUME v.kind \notin {"object", "array"} PROVE Within(v, Proper)
  <2>1. v.items = <<>> /\ v.members = <<>>
    BY <1>2, <1>8 DEF IsValue
  <2>2. Children(v) = {} /\ DistinctNames(v)
    BY <2>1 DEF Children, DistinctNames, Range
  <2> QED
    BY <1>5, <1>6, <2>2
<1> QED
  BY <1>7, <1>8

(* What reading the next value of the innermost frame leaves of it.         *)
LEMMA TakeNext ==
    ASSUME FrameOK(Top, Nodes(document)), More
    PROVE  /\ Within(NextValue, Nodes(document))
           /\ FrameOK(Taken, Nodes(document))
           /\ Duplicate => ~FrameProper(Top, Proper)
           /\ ~Duplicate => (FrameProper(Top, Proper) <=>
                                 Within(NextValue, Proper) /\ FrameProper(Taken, Proper))
           /\ Taken.object = Top.object
           /\ ~Top.object => Taken.items = Tail(Top.items)
<1>1. CASE Top.object
  <2>1. Top.members \in Seq(Range(Top.members)) /\ Top.members # <<>> /\ Top.items = <<>>
    BY <1>1 DEF FrameOK, More
  <2> DEFINE ms == Top.members
  <2>2. /\ Len(ms) \in Nat \ {0} /\ DOMAIN ms = 1..Len(ms)
        /\ Head(ms) = ms[1] /\ Tail(ms) \in Seq(Range(Tail(ms)))
        /\ Len(Tail(ms)) = Len(ms) - 1 /\ DOMAIN Tail(ms) = 1..Len(ms) - 1
        /\ \A i \in 1..Len(ms) - 1 : Tail(ms)[i] = ms[i + 1]
        /\ \A x : x \in Range(ms) <=> x = Head(ms) \/ x \in Range(Tail(ms))
    BY <2>1, TakeFirst
  <2>3. NextValue = Head(ms).value /\ (Duplicate <=> Head(ms).name \in Top.seen)
    BY <1>1 DEF NextValue, Duplicate, Seen
  <2>4. /\ Taken.object = Top.object /\ Taken.items = Top.items /\ Taken.members = Tail(ms)
        /\ Taken.seen = Top.seen \cup {Head(ms).name}
    BY <1>1 DEF Taken, FrameOK
  <2>5. Children(Top) = {m.value : m \in Range(ms)} /\ Range(<<>>) = {}
    BY <2>1 DEF Children, Range
  <2>6. \A c : c \in Children(Top) <=> c = NextValue \/ c \in Children(Taken)
    BY <2>2, <2>3, <2>4, <2>5, <2>1 DEF Children
  <2>7. FrameOK(Taken, Nodes(document))
    <3>1. Taken = [object |-> Taken.object, items |-> Taken.items,
                   members |-> Taken.members, seen |-> Taken.seen]
      BY <1>1 DEF Taken, FrameOK
    <3> QED
      BY <1>1, <2>1, <2>2, <2>4, <2>6, <3>1 DEF FrameOK
  <2>8. ASSUME Duplicate PROVE ~FrameProper(Top, Proper)
    <3>1. Top.members[1].name \in Top.seen /\ 1 \in DOMAIN Top.members
      BY <2>2, <2>3, <2>8
    <3> QED
      BY <3>1 DEF FrameProper
  <2>9. ASSUME ~Duplicate, FrameProper(Top, Proper) PROVE FrameProper(Taken, Proper)
    <3>1. ASSUME NEW i \in 1..Len(ms) - 1, NEW j \in 1..Len(ms) - 1,
                 Tail(ms)[i].name = Tail(ms)[j].name
          PROVE  i = j
      <4>1. i + 1 \in DOMAIN ms /\ j + 1 \in DOMAIN ms /\ ms[i + 1].name = ms[j + 1].name
        BY <2>2, <3>1
      <4>2. i + 1 = j + 1
        BY <2>9, <4>1 DEF FrameProper, DistinctNames
      <4> QED
        BY <4>2
    <3>2. ASSUME NEW i \in 1..Len(ms) - 1
          PROVE  Tail(ms)[i].name \notin Top.seen \cup {Head(ms).name}
      <4>1. i + 1 \in DOMAIN ms /\ 1 \in DOMAIN ms /\ i + 1 # 1 /\ Tail(ms)[i] = ms[i + 1]
        BY <2>2
      <4>2. ms[i + 1].name \notin Top.seen /\ ms[i + 1].name # ms[1].name
        BY <2>9, <4>1 DEF FrameProper, DistinctNames
      <4> QED
        BY <2>2, <4>1, <4>2
    <3>3. DistinctNames(Taken)
      BY <2>2, <2>4, <3>1 DEF DistinctNames
    <3> QED
      BY <2>2, <2>4, <2>6, <2>9, <3>2, <3>3 DEF FrameProper
  <2>10. ASSUME ~Duplicate, Within(NextValue, Proper), FrameProper(Taken, Proper) PROVE FrameProper(Top, Proper)
    <3>1. ASSUME NEW i \in DOMAIN ms PROVE ms[i].name \notin Top.seen
      <4>1. CASE i = 1
        BY <2>2, <2>3, <2>10, <4>1
      <4>2. CASE i # 1
        <5>1. i - 1 \in 1..Len(ms) - 1 /\ Tail(ms)[i - 1] = ms[(i - 1) + 1] /\ (i - 1) + 1 = i
          BY <2>2, <4>2
        <5> QED
          BY <2>2, <2>4, <2>10, <5>1 DEF FrameProper
      <4> QED
        BY <4>1, <4>2
    <3>2. ASSUME NEW i \in DOMAIN ms, i # 1 PROVE ms[i].name # ms[1].name
      <4>1. i - 1 \in 1..Len(ms) - 1 /\ Tail(ms)[i - 1] = ms[(i - 1) + 1] /\ (i - 1) + 1 = i
        BY <2>2, <3>2
      <4>2. Taken.members[i - 1].name \notin Taken.seen
        BY <2>2, <2>4, <2>10, <4>1 DEF FrameProper
      <4> QED
        BY <2>2, <2>4, <4>1, <4>2
    <3>3. ASSUME NEW i \in DOMAIN ms, NEW j \in DOMAIN ms, i # 1, j # 1,
                 ms[i].name = ms[j].name
          PROVE  i = j
      <4>1. /\ i - 1 \in 1..Len(ms) - 1 /\ Tail(ms)[i - 1] = ms[(i - 1) + 1] /\ (i - 1) + 1 = i
            /\ j - 1 \in 1..Len(ms) - 1 /\ Tail(ms)[j - 1] = ms[(j - 1) + 1] /\ (j - 1) + 1 = j
        BY <2>2, <3>3
      <4>2. Taken.members[i - 1].name = Taken.members[j - 1].name
        BY <2>4, <3>3, <4>1
      <4>3. i - 1 \in DOMAIN Taken.members /\ j - 1 \in DOMAIN Taken.members
        BY <2>2, <2>4, <4>1
      <4>4. i - 1 = j - 1
        BY <2>10, <4>2, <4>3 DEF FrameProper, DistinctNames
      <4> QED
        BY <4>1, <4>4
    <3>4. DistinctNames(Top)
      BY <2>2, <3>2, <3>3 DEF DistinctNames
    <3> QED
      BY <2>6, <2>10, <3>1, <3>4 DEF FrameProper
  <2>11. FrameProper(Top, Proper) => Within(NextValue, Proper)
    BY <2>6 DEF FrameProper
  <2>12. Within(NextValue, Nodes(document))
    BY <2>6 DEF FrameOK
  <2> QED
    BY <1>1, <2>4, <2>7, <2>8, <2>9, <2>10, <2>11, <2>12
<1>2. CASE ~Top.object
  <2>1. Top.items \in Seq(Range(Top.items)) /\ Top.items # <<>> /\ Top.members = <<>>
    BY <1>2 DEF FrameOK, More
  <2> DEFINE vs == Top.items
  <2>2. /\ Tail(vs) \in Seq(Range(Tail(vs)))
        /\ \A x : x \in Range(vs) <=> x = Head(vs) \/ x \in Range(Tail(vs))
    BY <2>1, TakeFirst
  <2>3. NextValue = Head(vs) /\ ~Duplicate
    BY <1>2 DEF NextValue, Duplicate
  <2>4. /\ Taken.object = Top.object /\ Taken.items = Tail(vs) /\ Taken.members = <<>>
        /\ Taken.seen = Top.seen
        /\ Taken = [object |-> Taken.object, items |-> Taken.items,
                    members |-> Taken.members, seen |-> Taken.seen]
    BY <1>2, <2>1 DEF Taken, FrameOK
  <2>5. \A c : c \in Children(Top) <=> c = NextValue \/ c \in Children(Taken)
    BY <2>1, <2>2, <2>3, <2>4 DEF Children, Range
  <2>6. FrameOK(Taken, Nodes(document))
    BY <1>2, <2>1, <2>2, <2>4, <2>5 DEF FrameOK
  <2>7. DistinctNames(Top) /\ DistinctNames(Taken)
    BY <2>1, <2>4 DEF DistinctNames
  <2>8. FrameProper(Top, Proper) <=> \A c \in Children(Top) : Within(c, Proper)
    BY <2>1, <2>7 DEF FrameProper
  <2>9. FrameProper(Taken, Proper) <=> \A c \in Children(Taken) : Within(c, Proper)
    BY <2>4, <2>7 DEF FrameProper
  <2>10. Within(NextValue, Nodes(document))
    BY <2>5 DEF FrameOK
  <2> QED
    BY <1>2, <2>3, <2>4, <2>5, <2>6, <2>8, <2>9, <2>10
<1> QED
  BY <1>1, <1>2 DEF FrameOK

LEMMA ReadStep ==
    ASSUME TokensInv, ReadValue
    PROVE  TokensInv'
<1>s. Stacked /\ IsText(document) /\ More /\ ~Duplicate /\ ~Trailing /\ NextValue.kind # "torn"
  BY DEF TokensInv, ReadValue, Reading
<1>0. pass = "tokens" /\ pass' = pass /\ document' = document
  BY DEF ReadValue, Reading
<1> DEFINE v == NextValue
           opens == v.kind \in {"object", "array"}
           rest == IF opens THEN <<Frame(v), Taken>> ELSE <<Taken>>
           shift == Len(rest) - 1
<1>1. /\ Len(stack) \in Nat \ {0} /\ DOMAIN stack = 1..Len(stack)
      /\ Tail(stack) \in Seq(Range(Tail(stack)))
      /\ Len(Tail(stack)) = Len(stack) - 1 /\ DOMAIN Tail(stack) = 1..Len(stack) - 1
      /\ \A i \in 1..Len(stack) - 1 : Tail(stack)[i] = stack[i + 1]
  BY <1>s, TakeFirst DEF Stacked
<1>2. FrameOK(Top, Nodes(document)) /\ Top = stack[1]
  BY <1>s, <1>1 DEF Stacked, Top
<1>3. /\ Within(v, Nodes(document)) /\ FrameOK(Taken, Nodes(document))
      /\ FrameProper(Top, Proper) <=> Within(v, Proper) /\ FrameProper(Taken, Proper)
      /\ Taken.object = Top.object
      /\ ~Top.object => Taken.items = Tail(Top.items)
  BY <1>s, <1>2, TakeNext
<1>4. /\ opens => FrameOK(Frame(v), Nodes(document)) /\ (Within(v, Proper) <=> FrameProper(Frame(v), Proper))
      /\ ~opens => Within(v, Proper)
  BY <1>s, <1>3, OpenValue
<1>5. stack' = rest \o Tail(stack)
  BY DEF ReadValue
<1> HIDE DEF v
<1>6. ASSUME opens
      PROVE  /\ Len(stack') = Len(stack) + 1 /\ DOMAIN stack' = 1..Len(stack) + 1
             /\ stack'[1] = Frame(v) /\ stack'[2] = Taken
             /\ \A i \in 2..Len(stack) : stack'[i + 1] = stack[i]
  <2>1. stack' = <<Frame(v), Taken>> \o Tail(stack)
    BY <1>5, <1>6
  <2>2. /\ Len(stack') = 2 + Len(Tail(stack)) /\ DOMAIN stack' = 1..2 + Len(Tail(stack))
        /\ stack'[1] = Frame(v) /\ stack'[2] = Taken
        /\ \A k \in 1..Len(Tail(stack)) : stack'[k + 2] = Tail(stack)[k]
    BY <1>1, <2>1
  <2>3. ASSUME NEW i \in 2..Len(stack) PROVE stack'[i + 1] = stack[i]
    <3>1. i - 1 \in 1..Len(Tail(stack)) /\ (i - 1) + 2 = i + 1 /\ (i - 1) + 1 = i
      BY <1>1
    <3> QED
      BY <1>1, <2>2, <3>1
  <2> QED
    BY <1>1, <2>2, <2>3
<1>7. ASSUME ~opens
      PROVE  /\ Len(stack') = Len(stack) /\ DOMAIN stack' = 1..Len(stack)
             /\ stack'[1] = Taken
             /\ \A i \in 2..Len(stack) : stack'[i] = stack[i]
  <2>1. stack' = <<Taken>> \o Tail(stack)
    BY <1>5, <1>7
  <2>2. /\ Len(stack') = 1 + Len(Tail(stack)) /\ DOMAIN stack' = 1..1 + Len(Tail(stack))
        /\ stack'[1] = Taken
        /\ \A k \in 1..Len(Tail(stack)) : stack'[k + 1] = Tail(stack)[k]
    BY <1>1, <2>1
  <2>3. ASSUME NEW i \in 2..Len(stack) PROVE stack'[i] = stack[i]
    <3>1. i - 1 \in 1..Len(Tail(stack)) /\ (i - 1) + 1 = i
      BY <1>1
    <3> QED
      BY <1>1, <2>2, <3>1
  <2> QED
    BY <1>1, <2>2, <2>3
<1>8. stack' \in Seq(Range(stack'))
  <2> DEFINE R == Range(Tail(stack)) \cup {Frame(v), Taken}
  <2>1. rest \in Seq(R)
    <3>1. Frame(v) \in R /\ Taken \in R
      OBVIOUS
    <3> HIDE DEF R
    <3>2. <<Frame(v), Taken>> \in Seq(R) /\ <<Taken>> \in Seq(R)
      BY <3>1
    <3> QED
      BY <3>2
  <2>2. Tail(stack) \in Seq(R)
    <3>1. \A S, T : \A s \in Seq(S) : S \subseteq T => s \in Seq(T)
      OBVIOUS
    <3> QED
      BY <1>1, <3>1
  <2> HIDE DEF R, rest
  <2>3. stack' \in Seq(R)
    BY <1>5, <2>1, <2>2
  <2> QED
    BY <2>3, RangeTyped
<1>9. Nodes(document)' = Nodes(document) /\ Proper' = Proper
  BY <1>0 DEF Proper
<1>11. \A i \in 1..Len(stack) : FrameOK(stack[i], Nodes(document))
  BY <1>s DEF Stacked
<1>12. \A i \in 1..Len(stack') : FrameOK(stack'[i], Nodes(document))
  <2> SUFFICES ASSUME NEW i \in 1..Len(stack') PROVE FrameOK(stack'[i], Nodes(document))
    OBVIOUS
  <2>1. CASE opens
    <3>1. i > 2 => i - 1 \in 2..Len(stack) /\ (i - 1) + 1 = i
      BY <1>1, <1>6, <2>1
    <3>2. i = 1 \/ i = 2 \/ i > 2
      BY <1>1, <1>6, <2>1
    <3> QED
      BY <1>1, <1>3, <1>4, <1>6, <1>11, <2>1, <3>1, <3>2
  <2>2. CASE ~opens
    <3>1. i = 1 \/ i \in 2..Len(stack)
      BY <1>1, <1>7, <2>2
    <3> QED
      BY <1>1, <1>3, <1>7, <1>11, <2>2, <3>1
  <2> QED
    BY <2>1, <2>2
<1>13. (\A i \in 1..Len(stack) : FrameProper(stack[i], Proper))
           <=> \A i \in 1..Len(stack') : FrameProper(stack'[i], Proper)
  <2>1. CASE opens
    <3>1. FrameProper(stack[1], Proper) <=> FrameProper(stack'[1], Proper) /\ FrameProper(stack'[2], Proper)
      BY <1>2, <1>3, <1>4, <1>6, <2>1
    <3>2. ASSUME NEW i \in 1..Len(stack), \A k \in 1..Len(stack') : FrameProper(stack'[k], Proper)
          PROVE  FrameProper(stack[i], Proper)
      <4>1. CASE i = 1
        <5>1. 1 \in 1..Len(stack') /\ 2 \in 1..Len(stack')
          BY <1>1, <1>6, <2>1
        <5> QED
          BY <3>1, <3>2, <4>1, <5>1
      <4>2. CASE i # 1
        <5>1. i \in 2..Len(stack) /\ i + 1 \in 1..Len(stack')
          BY <1>1, <1>6, <2>1, <4>2
        <5> QED
          BY <1>6, <2>1, <3>2, <5>1
      <4> QED
        BY <4>1, <4>2
    <3>3. ASSUME NEW i \in 1..Len(stack'), \A k \in 1..Len(stack) : FrameProper(stack[k], Proper)
          PROVE  FrameProper(stack'[i], Proper)
      <4>1. CASE i \in {1, 2}
        BY <1>1, <3>1, <3>3, <4>1
      <4>2. CASE i \notin {1, 2}
        <5>1. i - 1 \in 2..Len(stack) /\ (i - 1) + 1 = i
          BY <1>1, <1>6, <2>1, <4>2
        <5>2. stack'[(i - 1) + 1] = stack[i - 1]
          BY <1>6, <2>1, <5>1
        <5> QED
          BY <3>3, <5>1, <5>2
      <4> QED
        BY <4>1, <4>2
    <3> QED
      BY <3>2, <3>3
  <2>2. CASE ~opens
    <3>1. FrameProper(stack[1], Proper) <=> FrameProper(stack'[1], Proper)
      BY <1>2, <1>3, <1>4, <1>7, <2>2
    <3>2. Len(stack') = Len(stack) /\ \A i \in 1..Len(stack) : i = 1 \/ i \in 2..Len(stack)
      BY <1>1, <1>7, <2>2
    <3> QED
      BY <1>7, <2>2, <3>1, <3>2
  <2> QED
    BY <2>1, <2>2
<1>14. BottomOK'
  <2> DEFINE f == stack[Len(stack)]
  <2>1. /\ ~f.object
        /\ \/ f.items = document /\ Len(stack) = 1
           \/ document # <<>> /\ f.items = Tail(document)
    BY <1>s DEF Stacked, BottomOK
  <2>2. CASE Len(stack) = 1
    <3>1. Top = f /\ ~Top.object /\ Top.items = document /\ document # <<>>
      BY <1>s, <1>2, <2>1, <2>2 DEF Trailing, More
    <3>2. stack'[Len(stack')] = Taken
      BY <1>6, <1>7, <2>2
    <3> QED
      BY <1>0, <1>3, <3>1, <3>2 DEF BottomOK
  <2>3. CASE Len(stack) # 1
    <3>1. Len(stack) \in 2..Len(stack)
      BY <1>1, <2>3
    <3>2. stack'[Len(stack')] = f
      BY <1>6, <1>7, <3>1
    <3> QED
      BY <1>0, <2>1, <2>3, <3>2 DEF BottomOK
  <2> QED
    BY <2>2, <2>3
<1>15. IsText(document)'
  BY <1>s, <1>0
<1>16. Stacked'
  <2>1. stack' # <<>>
    BY <1>1, <1>6, <1>7
  <2>2. (\A w \in Range(document) : Within(w, Proper))
            <=> \A i \in 1..Len(stack) : FrameProper(stack[i], Proper)
    BY <1>s DEF Stacked
  <2>3. \A i \in 1..Len(stack') : FrameOK(stack'[i], Nodes(document'))
    BY <1>0, <1>12
  <2>4. (\A w \in Range(document') : Within(w, Proper'))
            <=> \A i \in 1..Len(stack') : FrameProper(stack'[i], Proper')
    BY <1>0, <1>9, <1>13, <2>2
  <2> QED
    BY <1>8, <1>14, <2>1, <2>3, <2>4 DEF Stacked
<1> QED
  BY <1>0, <1>15, <1>16 DEF TokensInv, DuplicatesRefused, Passes

LEMMA RefuseStep ==
    ASSUME TokensInv, RefuseToken
    PROVE  TokensInv'
<1>1. /\ pass = "tokens" /\ More /\ pass' = "malformed" /\ document' = document
      /\ Duplicate \/ Trailing \/ NextValue.kind = "torn"
  BY DEF RefuseToken, Reading, Stop
<1>2. Stacked /\ IsText(document)
  BY <1>1 DEF TokensInv
<1>3. Len(stack) \in Nat \ {0}
  BY <1>2, TakeFirst DEF Stacked
<1>4. Top = stack[1] /\ FrameOK(Top, Nodes(document))
  BY <1>2, <1>3 DEF Stacked, Top
<1>5. ASSUME Duplicate PROVE ~Sound
  <2>1. ~FrameProper(stack[1], Proper)
    BY <1>1, <1>4, <1>5, TakeNext
  <2> QED
    BY <1>2, <1>3, <2>1, SoundIs DEF Stacked
<1>6. ASSUME Trailing PROVE ~Sound
  <2>1. ~Top.object /\ Top.items = Tail(document) /\ document # <<>> /\ Tail(document) # <<>>
    BY <1>1, <1>2, <1>4, <1>6 DEF Trailing, Stacked, BottomOK, More
  <2>2. Len(Tail(document)) = Len(document) - 1 /\ Tail(document) \in Seq(Range(Tail(document)))
    BY <1>2, <2>1, TakeFirst DEF IsText
  <2>3. Len(Tail(document)) # 0
    BY <2>1, <2>2
  <2>4. Len(document) # 1
    BY <2>2, <2>3
  <2> QED
    BY <2>4 DEF Sound
<1>7. ASSUME NextValue.kind = "torn" PROVE ~Sound
  <2>1. Within(NextValue, Nodes(document))
    BY <1>1, <1>4, TakeNext
  <2>2. NextValue \in Nodes(document)
    BY <2>1, WithinUnfolds
  <2> QED
    BY <1>7, <2>2 DEF Sound
<1>8. ~Sound
  BY <1>1, <1>5, <1>6, <1>7
<1>9. ~Sound' /\ IsText(document)'
  BY <1>1, <1>2, <1>8 DEF Sound
<1> QED
  BY <1>1, <1>9 DEF TokensInv, DuplicatesRefused, Passes

LEMMA CloseStep ==
    ASSUME TokensInv, Close
    PROVE  TokensInv'
<1>1. pass = "tokens" /\ ~More /\ document' = document
  BY DEF Close
<1>2. Stacked /\ IsText(document)
  BY <1>1 DEF TokensInv
<1>3. /\ Len(stack) \in Nat \ {0} /\ DOMAIN stack = 1..Len(stack)
      /\ Tail(stack) \in Seq(Range(Tail(stack)))
      /\ Len(Tail(stack)) = Len(stack) - 1 /\ DOMAIN Tail(stack) = 1..Len(stack) - 1
      /\ \A i \in 1..Len(stack) - 1 : Tail(stack)[i] = stack[i + 1]
  BY <1>2, TakeFirst DEF Stacked
<1>4. Top = stack[1] /\ FrameOK(Top, Nodes(document))
  BY <1>2, <1>3 DEF Stacked, Top
<1>5. Top.items = <<>> /\ Top.members = <<>>
  BY <1>1, <1>4 DEF More, FrameOK
<1>6. FrameProper(stack[1], Proper)
  BY <1>4, <1>5 DEF FrameProper, Children, DistinctNames, Range
<1>7. /\ \A i \in 1..Len(stack) : FrameOK(stack[i], Nodes(document))
      /\ BottomOK
      /\ (\A v \in Range(document) : Within(v, Proper))
             <=> \A i \in 1..Len(stack) : FrameProper(stack[i], Proper)
  BY <1>2 DEF Stacked
<1>8. IsText(document)' /\ (Sound' <=> Sound)
  BY <1>1, <1>2 DEF Sound
<1>9. CASE Len(stack) > 1
  <2>1. stack' = Tail(stack) /\ pass' = pass
    BY <1>9 DEF Close
  <2>2. Nodes(document)' = Nodes(document) /\ Proper' = Proper
    BY <1>1 DEF Proper
  <2>3. /\ Len(stack') = Len(stack) - 1 /\ DOMAIN stack' = 1..Len(stack) - 1
        /\ \A i \in 1..Len(stack) - 1 : stack'[i] = stack[i + 1]
    BY <1>3, <2>1
  <2>4. stack' \in Seq(Range(stack')) /\ stack' # <<>>
    <3>1. stack' \in Seq(Range(stack'))
      BY <1>3, <2>1
    <3>2. Len(stack') # 0
      BY <1>3, <1>9, <2>3
    <3>3. Len(<<>>) = 0
      OBVIOUS
    <3> QED
      BY <3>1, <3>2, <3>3
  <2>5. ASSUME NEW i \in 1..Len(stack') PROVE FrameOK(stack'[i], Nodes(document))
    <3>1. i + 1 \in 1..Len(stack) /\ stack'[i] = stack[i + 1]
      BY <1>3, <2>3
    <3> QED
      BY <1>7, <3>1
  <2>6. (\A i \in 1..Len(stack) : FrameProper(stack[i], Proper))
            <=> \A i \in 1..Len(stack') : FrameProper(stack'[i], Proper)
    <3>1. ASSUME NEW i \in 1..Len(stack), \A k \in 1..Len(stack') : FrameProper(stack'[k], Proper)
          PROVE  FrameProper(stack[i], Proper)
      <4>1. CASE i = 1
        BY <1>6, <4>1
      <4>2. CASE i # 1
        <5>1. i - 1 \in 1..Len(stack') /\ stack'[i - 1] = stack[(i - 1) + 1] /\ (i - 1) + 1 = i
          BY <1>3, <2>3, <4>2
        <5> QED
          BY <3>1, <5>1
      <4> QED
        BY <4>1, <4>2
    <3>2. ASSUME NEW i \in 1..Len(stack'), \A k \in 1..Len(stack) : FrameProper(stack[k], Proper)
          PROVE  FrameProper(stack'[i], Proper)
      <4>1. i + 1 \in 1..Len(stack) /\ stack'[i] = stack[i + 1]
        BY <1>3, <2>3
      <4> QED
        BY <3>2, <4>1
    <3> QED
      BY <3>1, <3>2
  <2>7. BottomOK'
    <3>1. Len(stack) - 1 \in 1..Len(stack) - 1 /\ (Len(stack) - 1) + 1 = Len(stack)
      BY <1>3, <1>9
    <3>2. stack'[Len(stack')] = stack[Len(stack)] /\ Len(stack) # 1
      BY <1>9, <2>3, <3>1
    <3> QED
      BY <1>1, <1>7, <3>2 DEF BottomOK
  <2>8. Stacked'
    <3>1. \A i \in 1..Len(stack') : FrameOK(stack'[i], Nodes(document'))
      BY <1>1, <2>5
    <3>2. (\A w \in Range(document') : Within(w, Proper'))
              <=> \A i \in 1..Len(stack') : FrameProper(stack'[i], Proper')
      BY <1>1, <1>7, <2>2, <2>6
    <3> QED
      BY <2>4, <2>7, <3>1, <3>2 DEF Stacked
  <2> QED
    BY <1>1, <1>8, <2>1, <2>8 DEF TokensInv, DuplicatesRefused, Passes
<1>10. CASE ~(Len(stack) > 1)
  <2>1. Len(stack) = 1 /\ pass' = IF document = <<>> THEN "malformed" ELSE "fields"
    BY <1>3, <1>10 DEF Close
  <2>2. \A v \in Range(document) : Within(v, Proper)
    BY <1>6, <1>7, <2>1
  <2>3. CASE document = <<>>
    <3>1. ~Sound
      BY <2>3 DEF Sound
    <3> QED
      BY <1>8, <2>1, <2>3, <3>1 DEF TokensInv, DuplicatesRefused, Passes
  <2>4. CASE document # <<>>
    <3>1. Tail(document) = <<>>
      BY <1>4, <1>5, <1>7, <2>1, <2>4 DEF BottomOK
    <3>2. Len(Tail(document)) = Len(document) - 1 /\ Len(document) \in Nat
      BY <1>2, <2>4, TakeFirst DEF IsText
    <3>3. Len(<<>>) = 0
      OBVIOUS
    <3>4. Len(document) = 1
      <4>1. Len(Tail(document)) = 0
        BY <3>1, <3>3
      <4> QED
        BY <3>2, <4>1
    <3>5. Sound
      BY <1>2, <2>2, <3>4, SoundIs
    <3> QED
      BY <1>8, <2>1, <2>4, <3>5 DEF TokensInv, DuplicatesRefused, Passes
  <2> QED
    BY <2>3, <2>4
<1> QED
  BY <1>9, <1>10

(* The passes after the first leave the document as it is.                  *)
LEMMA LaterStep ==
    ASSUME TokensInv, pass \notin {"tokens", "malformed"}, document' = document,
           pass' \in Passes \ {"tokens", "malformed"}
    PROVE  TokensInv'
<1>1. IsText(document)' /\ Sound'
  BY DEF TokensInv, DuplicatesRefused, Sound
<1> QED
  BY <1>1 DEF TokensInv, DuplicatesRefused

-----------------------------------------------------------------------------
(* What Write writes is a sound document, four levels deep.                 *)

LEMMA Joined ==
    ASSUME NEW S, NEW s \in Seq(S), NEW t \in Seq(S)
    PROVE  /\ s \o t \in Seq(S) /\ Len(s \o t) = Len(s) + Len(t)
           /\ \A i \in 1..Len(s) : (s \o t)[i] = s[i]
           /\ \A i \in 1..Len(s \o t) : i > Len(s) => (s \o t)[i] = t[i - Len(s)]
  OBVIOUS

LEMMA EntryMembers ==
    ASSUME NEW e
    PROVE  /\ EntryText(e).kind = "object" /\ EntryText(e).items = <<>>
           /\ EntryText(e).members \in Seq(Range(EntryText(e).members))
           /\ DOMAIN EntryText(e).members = IF e.to = {} THEN 1..2 ELSE 1..3
           /\ EntryText(e).members[1] = Member("rule", String(e.rule))
           /\ EntryText(e).members[2] = Member("from", String(e.from))
           /\ e.to # {} =>
                  EntryText(e).members[3] = Member("to", String(CHOOSE t \in e.to : TRUE))
<1> DEFINE a == Member("rule", String(e.rule))
           b == Member("from", String(e.from))
           c == Member("to", String(CHOOSE t \in e.to : TRUE))
           first == <<a, b>>
           last == IF e.to = {} THEN <<>> ELSE <<c>>
           ms == first \o last
<1>1. EntryText(e) = Object(ms)
  BY DEF EntryText
<1> HIDE DEF a, b, c, ms
<1>2. EntryText(e).kind = "object" /\ EntryText(e).items = <<>> /\ EntryText(e).members = ms
  <2>1. Object(ms).kind = "object" /\ Object(ms).items = <<>> /\ Object(ms).members = ms
    BY DEF Object
  <2> QED
    BY <1>1, <2>1
<1>3. first \in Seq({a, b, c}) /\ Len(first) = 2 /\ first[1] = a /\ first[2] = b
  OBVIOUS
<1>4. last \in Seq({a, b, c}) /\ (e.to # {} => last[1] = c)
  <2>1. <<>> \in Seq({a, b, c}) /\ <<c>> \in Seq({a, b, c}) /\ <<c>>[1] = c
    OBVIOUS
  <2> QED
    BY <2>1
<1>5. Len(last) = IF e.to = {} THEN 0 ELSE 1
  <2>1. Len(<<>>) = 0 /\ Len(<<c>>) = 1
    OBVIOUS
  <2> QED
    BY <2>1
<1> HIDE DEF first, last
<1>6. /\ ms \in Seq({a, b, c}) /\ DOMAIN ms = 1..2 + Len(last)
      /\ ms[1] = first[1] /\ ms[2] = first[2]
      /\ e.to # {} => ms[3] = last[1]
  <2>1. /\ ms \in Seq({a, b, c}) /\ Len(ms) = Len(first) + Len(last)
        /\ \A i \in 1..Len(first) : ms[i] = first[i]
        /\ \A i \in 1..Len(ms) : i > Len(first) => ms[i] = last[i - Len(first)]
    BY <1>3, <1>4, Joined DEF ms
  <2>2. DOMAIN ms = 1..2 + Len(last) /\ ms[1] = first[1] /\ ms[2] = first[2]
    <3>1. DOMAIN ms = 1..Len(ms)
      BY <2>1
    <3>2. Len(ms) = 2 + Len(last) /\ 1 \in 1..Len(first) /\ 2 \in 1..Len(first)
      BY <1>3, <2>1
    <3> QED
      BY <2>1, <3>1, <3>2
  <2>3. ASSUME e.to # {} PROVE ms[3] = last[1]
    <3>1. 3 \in 1..Len(ms) /\ 3 > Len(first) /\ 3 - Len(first) = 1
      BY <1>3, <1>5, <2>1, <2>3
    <3> QED
      BY <2>1, <3>1
  <2> QED
    BY <2>1, <2>2, <2>3
<1>7. ms \in Seq(Range(ms))
  BY <1>6, RangeTyped
<1>8. DOMAIN ms = IF e.to = {} THEN 1..2 ELSE 1..3
  <2>1. e.to = {} => 2 + Len(last) = 2
    BY <1>5
  <2>2. e.to # {} => 2 + Len(last) = 3
    BY <1>5
  <2> QED
    BY <1>6, <2>1, <2>2
<1>9. ms[1] = a /\ ms[2] = b /\ (e.to # {} => ms[3] = c)
  BY <1>3, <1>4, <1>6
<1> QED
  BY <1>2, <1>7, <1>8, <1>9 DEF a, b, c

LEMMA OneElement ==
    ASSUME NEW x
    PROVE  /\ Len(<<x>>) = 1 /\ <<x>>[1] = x /\ DOMAIN <<x>> = {1}
           /\ Range(<<x>>) = {x} /\ <<x>> \in Seq(Range(<<x>>))
<1>1. Len(<<x>>) = 1 /\ <<x>>[1] = x /\ DOMAIN <<x>> = {1} /\ <<x>> \in Seq({x})
  OBVIOUS
<1>2. Range(<<x>>) = {x}
  BY <1>1 DEF Range
<1> QED
  BY <1>1, <1>2

(* The one value of a written document, and the array in it.                *)
List(list) == Array([i \in DOMAIN list |-> EntryText(list[i])])

LEMMA WrittenRoot ==
    ASSUME NEW list, list \in Seq(Range(list))
    PROVE  /\ Written(list) \in Seq(Range(Written(list)))
           /\ Len(Written(list)) = 1
           /\ Range(Written(list)) = {Written(list)[1]}
           /\ Written(list)[1].kind = "object" /\ Written(list)[1].items = <<>>
           /\ Written(list)[1].members \in Seq(Range(Written(list)[1].members))
           /\ DOMAIN Written(list)[1].members = {1}
           /\ Written(list)[1].members[1] = Member("entries", List(list))
           /\ List(list).kind = "array" /\ List(list).members = <<>>
           /\ DOMAIN List(list).items = 1..Len(list) /\ Len(List(list).items) = Len(list)
           /\ Len(list) \in Nat
           /\ List(list).items \in Seq(Range(List(list).items))
           /\ \A i \in 1..Len(list) : List(list).items[i] = EntryText(list[i])
<1> DEFINE m == Member("entries", List(list))
           r == Object(<<m>>)
<1>1. Written(list) = <<r>>
  BY DEF Written, List
<1>2. r.kind = "object" /\ r.items = <<>> /\ r.members = <<m>>
  BY DEF Object
<1> HIDE DEF m, r
<1>3. Len(<<r>>) = 1 /\ <<r>>[1] = r /\ Range(<<r>>) = {r} /\ <<r>> \in Seq(Range(<<r>>))
  BY OneElement
<1>4. <<m>>[1] = m /\ DOMAIN <<m>> = {1} /\ <<m>> \in Seq(Range(<<m>>))
  BY OneElement
<1> DEFINE texts == [i \in DOMAIN list |-> EntryText(list[i])]
<1>5. List(list).kind = "array" /\ List(list).members = <<>> /\ List(list).items = texts
  BY DEF List, Array
<1>6. DOMAIN list = 1..Len(list) /\ Len(list) \in Nat
  OBVIOUS
<1>7. texts = [i \in 1..Len(list) |-> EntryText(list[i])]
  BY <1>6
<1>8. /\ DOMAIN texts = 1..Len(list) /\ \A i \in 1..Len(list) : texts[i] = EntryText(list[i])
      /\ texts = [i \in 1..Len(list) |-> texts[i]]
  BY <1>7
<1> HIDE DEF texts
<1>9. \A i \in 1..Len(list) : texts[i] \in Range(texts)
  BY <1>8 DEF Range
<1>10. texts \in Seq(Range(texts)) /\ Len(texts) = Len(list)
  BY <1>6, <1>8, <1>9
<1> QED
  BY <1>1, <1>2, <1>3, <1>4, <1>5, <1>6, <1>8, <1>10 DEF m

LEMMA WrittenText ==
    ASSUME NEW list, list \in Seq(Range(list))
    PROVE  /\ IsText(Written(list))
           /\ \A v \in Nodes(Written(list)) : v.kind # "torn" /\ DistinctNames(v)
<1> USE NestingAssumption
<1> DEFINE root == Written(list)[1]
           array == List(list)
           elements == {EntryText(list[i]) : i \in 1..Len(list)}
           IsString(v) == v.kind = "string" /\ v.items = <<>> /\ v.members = <<>>
           L(n) == Below({root}, n)
<1>1. L(0) = {root} /\ \A n \in Nat : L(n + 1) = Kids(L(n))
  BY BelowDef
<1> HIDE DEF L
<1>2. L(1) = {array}
  <2>1. L(0 + 1) = Kids({root})
    BY <1>1
  <2>2. Children(root) = {array}
    <3>1. root.items = <<>> /\ DOMAIN root.members = {1} /\ root.members[1] = Member("entries", array)
      BY WrittenRoot
    <3>2. Range(root.items) = {} /\ Range(root.members) = {Member("entries", array)}
      BY <3>1 DEF Range
    <3> QED
      BY <3>2 DEF Children, Member
  <2> QED
    BY <2>1, <2>2 DEF Kids
<1>3. L(2) = elements
  <2>1. L(1 + 1) = Kids({array})
    BY <1>1, <1>2
  <2>2. Children(array) = elements
    <3>1. /\ array.members = <<>> /\ DOMAIN array.items = 1..Len(list)
          /\ \A i \in 1..Len(list) : array.items[i] = EntryText(list[i])
      BY WrittenRoot
    <3>2. Range(array.members) = {} /\ Range(array.items) = elements
      BY <3>1 DEF Range
    <3> QED
      BY <3>2 DEF Children
  <2> QED
    BY <2>1, <2>2 DEF Kids
<1>4. \A v \in L(3) : IsString(v)
  <2>1. L(2 + 1) = Kids(elements)
    BY <1>1, <1>3
  <2>2. ASSUME NEW e, NEW v \in Children(EntryText(e)) PROVE IsString(v)
    <3>1. /\ EntryText(e).items = <<>>
          /\ DOMAIN EntryText(e).members = IF e.to = {} THEN 1..2 ELSE 1..3
          /\ EntryText(e).members[1] = Member("rule", String(e.rule))
          /\ EntryText(e).members[2] = Member("from", String(e.from))
          /\ e.to # {} =>
                 EntryText(e).members[3] = Member("to", String(CHOOSE t \in e.to : TRUE))
      BY EntryMembers
    <3>2. PICK i \in DOMAIN EntryText(e).members : v = EntryText(e).members[i].value
      BY <2>2, <3>1 DEF Children, Range
    <3>3. \E s : v = String(s)
      <4>1. CASE i = 1
        BY <3>1, <3>2, <4>1 DEF Member
      <4>2. CASE i = 2
        BY <3>1, <3>2, <4>2 DEF Member
      <4>3. CASE i \notin {1, 2}
        <5>1. i = 3 /\ e.to # {}
          BY <3>1, <3>2, <4>3
        <5> QED
          BY <3>1, <3>2, <5>1 DEF Member
      <4> QED
        BY <4>1, <4>2, <4>3
    <3> QED
      BY <3>3 DEF String, Scalar
  <2> QED
    BY <2>1, <2>2 DEF Kids
<1>5. L(4) = {}
  <2>1. L(3 + 1) = Kids(L(3))
    BY <1>1
  <2>2. \A v \in L(3) : Children(v) = {}
    BY <1>4 DEF Children, Range
  <2> QED
    BY <2>1, <2>2 DEF Kids
<1>6. \A n \in Nat : n >= 4 => L(n) = {}
  <2>1. Below({root}, 4) = {}
    BY <1>5 DEF L
  <2>2. \A n \in Nat : n >= 4 => Below({root}, n) = {}
    BY <2>1, BottomEmpty
  <2> QED
    BY <2>2 DEF L
<1>7. Range(Written(list)) = {root}
  BY WrittenRoot
<1>8. \A v : v \in Nodes(Written(list)) <=> \E n \in 0..MaxNesting : v \in L(n)
  BY <1>7 DEF Nodes, L
<1>9. ASSUME NEW v \in Nodes(Written(list)) PROVE v = root \/ v = array \/ v \in elements \/ IsString(v)
  <2>1. PICK n \in 0..MaxNesting : v \in L(n)
    BY <1>8
  <2>2. n \in {0, 1, 2, 3}
    <3>1. ~(n >= 4)
      BY <1>6, <2>1
    <3> QED
      BY <3>1
  <2> QED
    BY <1>1, <1>2, <1>3, <1>4, <2>1, <2>2
<1>10. IsValue(root) /\ root.kind # "torn" /\ DistinctNames(root)
  <2>1. /\ root.kind = "object" /\ root.items = <<>>
        /\ root.members \in Seq(Range(root.members)) /\ DOMAIN root.members = {1}
    BY WrittenRoot
  <2>2. root.items \in Seq(Range(root.items))
    BY <2>1
  <2> QED
    BY <2>1, <2>2 DEF IsValue, DistinctNames
<1>11. IsValue(array) /\ array.kind # "torn" /\ DistinctNames(array)
  <2>1. array.kind = "array" /\ array.members = <<>> /\ array.items \in Seq(Range(array.items))
    BY WrittenRoot
  <2>2. array.members \in Seq(Range(array.members))
    BY <2>1
  <2> QED
    BY <2>1, <2>2 DEF IsValue, DistinctNames
<1>12. ASSUME NEW e
       PROVE  IsValue(EntryText(e)) /\ EntryText(e).kind # "torn" /\ DistinctNames(EntryText(e))
  <2> DEFINE ms == EntryText(e).members
  <2>1. /\ EntryText(e).kind = "object" /\ EntryText(e).items = <<>>
        /\ ms \in Seq(Range(ms))
        /\ DOMAIN ms = IF e.to = {} THEN 1..2 ELSE 1..3
        /\ ms[1] = Member("rule", String(e.rule))
        /\ ms[2] = Member("from", String(e.from))
        /\ e.to # {} => ms[3] = Member("to", String(CHOOSE t \in e.to : TRUE))
    BY EntryMembers
  <2>2. EntryText(e).items \in Seq(Range(EntryText(e).items))
    BY <2>1
  <2>3. ms[1].name = "rule" /\ ms[2].name = "from" /\ (e.to # {} => ms[3].name = "to")
    BY <2>1 DEF Member
  <2>4. \A i \in DOMAIN ms : i = 1 \/ i = 2 \/ (i = 3 /\ e.to # {})
    BY <2>1
  <2>5. \A i, j \in DOMAIN ms : ms[i].name = ms[j].name => i = j
    BY <2>3, <2>4
  <2> QED
    BY <2>1, <2>2, <2>5 DEF IsValue, DistinctNames
<1>13. ASSUME NEW v, IsString(v) PROVE IsValue(v) /\ v.kind # "torn" /\ DistinctNames(v)
  <2>1. v.items \in Seq(Range(v.items)) /\ v.members \in Seq(Range(v.members))
    BY <1>13
  <2> QED
    BY <1>13, <2>1 DEF IsValue, DistinctNames
<1> HIDE DEF root, array
<1>14. \A v \in Nodes(Written(list)) : IsValue(v) /\ v.kind # "torn" /\ DistinctNames(v)
  BY <1>9, <1>10, <1>11, <1>12, <1>13
<1>15. Below(Range(Written(list)), MaxNesting) = {}
  BY <1>6, <1>7 DEF L
<1>16. Written(list) \in Seq(Range(Written(list)))
  BY WrittenRoot
<1> QED
  BY <1>14, <1>15, <1>16 DEF IsText

-----------------------------------------------------------------------------
(* What the decoder makes of an object whose keys are distinct fields.      *)

FieldList(members) ==
    /\ members \in Seq(Range(members))
    /\ \A i, j \in DOMAIN members : members[i].name = members[j].name => i = j
    /\ \A i \in DOMAIN members : members[i].name \in FieldNames

LEMMA OneText ==
    ASSUME NEW members, FieldList(members), NEW j \in DOMAIN members, NEW kinds,
           "string" \in kinds, members[j].value.kind = "string"
    PROVE  Texts(members, members[j].name, kinds) = {members[j].value.text}
<1> DEFINE field == members[j].name
           For == {i \in DOMAIN members :
                      Fold[members[i].name] = field /\ members[i].value.kind \in kinds}
<1>1. \A i \in DOMAIN members : Fold[members[i].name] = members[i].name
  BY FoldAssumption DEF FieldList
<1>2. For = {j}
  BY <1>1 DEF FieldList
<1>3. j <= j
  <2>1. DOMAIN members = 1..Len(members) /\ Len(members) \in Nat
    BY DEF FieldList
  <2> QED
    BY <2>1
<1>4. Latest(members, field, kinds) = {i \in For : \A k \in For : k <= i}
  BY DEF Latest
<1> HIDE DEF For, field
<1>5. Latest(members, field, kinds) = {j}
  BY <1>2, <1>3, <1>4
<1>6. Texts(members, field, kinds) = {members[j].value.text}
  BY <1>5 DEF Texts
<1> QED
  BY <1>6 DEF field

LEMMA NoText ==
    ASSUME NEW members, FieldList(members), NEW field, NEW kinds,
           \A i \in DOMAIN members :
               members[i].name = field => members[i].value.kind # "string"
    PROVE  Texts(members, field, kinds) = {}
<1>1. \A i \in DOMAIN members : Fold[members[i].name] = members[i].name
  BY FoldAssumption DEF FieldList
<1>2. \A i \in Latest(members, field, kinds) :
          i \in DOMAIN members /\ Fold[members[i].name] = field
  BY DEF Latest
<1>3. \A i \in Latest(members, field, kinds) : members[i].value.kind # "string"
  BY <1>1, <1>2
<1> QED
  BY <1>3 DEF Texts

LEMMA OneString ==
    ASSUME NEW x
    PROVE  StringIn({x}) = x /\ StringIn({}) = ""
BY DEF StringIn

UTF8(e) == \A s \in {e.rule, e.from} \cup e.to : Encoded[s] = s

IsEntry(e) ==
    /\ e = [rule |-> e.rule, from |-> e.from, to |-> e.to]
    /\ e.to = {} \/ \E t \in e.to : e.to = {t}

(* The members of a written entry.                                          *)
LEMMA EntryFields ==
    ASSUME NEW e
    PROVE  LET ms == EntryText(e).members IN
           /\ FieldList(ms) /\ 1 \in DOMAIN ms /\ 2 \in DOMAIN ms
           /\ e.to # {} <=> 3 \in DOMAIN ms
           /\ \A i \in DOMAIN ms : i \in {1, 2, 3} /\ ms[i].value.kind = "string"
           /\ ms[1].name = "rule" /\ ms[1].value.text = Encoded[e.rule]
           /\ ms[2].name = "from" /\ ms[2].value.text = Encoded[e.from]
           /\ e.to # {} => /\ ms[3].name = "to"
                           /\ ms[3].value.text = Encoded[CHOOSE t \in e.to : TRUE]
<1> DEFINE ms == EntryText(e).members
<1>1. /\ ms \in Seq(Range(ms))
      /\ DOMAIN ms = IF e.to = {} THEN 1..2 ELSE 1..3
      /\ ms[1] = Member("rule", String(e.rule))
      /\ ms[2] = Member("from", String(e.from))
      /\ e.to # {} => ms[3] = Member("to", String(CHOOSE t \in e.to : TRUE))
  BY EntryMembers
<1> HIDE DEF ms
<1>2. /\ 1 \in DOMAIN ms /\ 2 \in DOMAIN ms /\ (e.to # {} <=> 3 \in DOMAIN ms)
      /\ \A i \in DOMAIN ms : i \in {1, 2, 3}
  <2>1. CASE e.to = {}
    BY <1>1, <2>1
  <2>2. CASE e.to # {}
    BY <1>1, <2>2
  <2> QED
    BY <2>1, <2>2
<1>3. \A s : String(s).kind = "string" /\ String(s).text = Encoded[s]
  BY DEF String, Scalar
<1>4. \A n, v : Member(n, v).name = n /\ Member(n, v).value = v
  BY DEF Member
<1>5. /\ ms[1].name = "rule" /\ ms[1].value.text = Encoded[e.rule] /\ ms[1].value.kind = "string"
      /\ ms[2].name = "from" /\ ms[2].value.text = Encoded[e.from] /\ ms[2].value.kind = "string"
      /\ e.to # {} => /\ ms[3].name = "to" /\ ms[3].value.kind = "string"
                      /\ ms[3].value.text = Encoded[CHOOSE t \in e.to : TRUE]
  BY <1>1, <1>3, <1>4
<1>6. \A i \in DOMAIN ms : ms[i].value.kind = "string" /\ ms[i].name \in FieldNames
  BY <1>2, <1>5 DEF FieldNames
<1>7. \A i, j \in DOMAIN ms : ms[i].name = ms[j].name => i = j
  BY <1>2, <1>5
<1>8. FieldList(ms)
  BY <1>1, <1>6, <1>7 DEF FieldList
<1> QED
  BY <1>2, <1>5, <1>6, <1>8 DEF ms

(* The decoder makes of a written entry the entry itself.                   *)
LEMMA EntryReadBack ==
    ASSUME NEW e, IsEntry(e), UTF8(e)
    PROVE  Decoded(EntryText(e).members) = e
<1> DEFINE ms == EntryText(e).members
<1>1. /\ FieldList(ms) /\ 1 \in DOMAIN ms /\ 2 \in DOMAIN ms
      /\ e.to # {} <=> 3 \in DOMAIN ms
      /\ \A i \in DOMAIN ms : i \in {1, 2, 3} /\ ms[i].value.kind = "string"
      /\ ms[1].name = "rule" /\ ms[1].value.text = Encoded[e.rule]
      /\ ms[2].name = "from" /\ ms[2].value.text = Encoded[e.from]
      /\ e.to # {} => /\ ms[3].name = "to"
                      /\ ms[3].value.text = Encoded[CHOOSE t \in e.to : TRUE]
  BY EntryFields
<1> HIDE DEF ms
<1>2. Encoded[e.rule] = e.rule /\ Encoded[e.from] = e.from
  BY DEF UTF8
<1>3. Texts(ms, "rule", {"string"}) = {e.rule}
  <2>1. Texts(ms, ms[1].name, {"string"}) = {ms[1].value.text}
    BY <1>1, OneText
  <2> QED
    BY <1>1, <1>2, <2>1
<1>4. Texts(ms, "from", {"string"}) = {e.from}
  <2>1. Texts(ms, ms[2].name, {"string"}) = {ms[2].value.text}
    BY <1>1, OneText
  <2> QED
    BY <1>1, <1>2, <2>1
<1>5. Texts(ms, "to", {"string", "null"}) = e.to
  <2>1. CASE e.to = {}
    <3>1. \A i \in DOMAIN ms : ms[i].name # "to"
      BY <1>1, <2>1
    <3> QED
      BY <1>1, <2>1, <3>1, NoText
  <2>2. CASE e.to # {}
    <3>1. PICK t \in e.to : e.to = {t}
      BY <2>2 DEF IsEntry
    <3>2. (CHOOSE u \in e.to : TRUE) = t /\ Encoded[t] = t
      BY <3>1 DEF UTF8
    <3>3. Texts(ms, ms[3].name, {"string", "null"}) = {ms[3].value.text}
      BY <1>1, <2>2, OneText
    <3> QED
      BY <1>1, <2>2, <3>1, <3>2, <3>3
  <2> QED
    BY <2>1, <2>2
<1>6. Decoded(ms) = [rule |-> e.rule, from |-> e.from, to |-> e.to]
  BY <1>3, <1>4, <1>5, OneString DEF Decoded
<1> QED
  BY <1>6 DEF IsEntry, ms

-----------------------------------------------------------------------------
(* The passes after the first, on a sound document: its one value has one   *)
(* "entries", and each element of it is a node of the document.             *)

HasEntries == Root.kind = "object" /\ \E v \in Encodings : v.kind = "array"

ElementsAreObjects ==
    \A i \in DOMAIN Items : Items[i].kind \in {"object", "null"} /\ ~NullTarget(Items[i])

(* The first n elements decode, to the entries loaded.                      *)
ReadTo(n) ==
    /\ loaded \in Seq(Range(loaded)) /\ Len(loaded) = n
    /\ \A i \in 1..n :
           /\ loaded[i] = Decoded(Items[i].members)
           /\ \A m \in Range(Items[i].members) : MemberDecodes(m)

DecodeInv ==
    /\ pass \in {"tokens", "fields", "targets"} => index = 1 /\ loaded = <<>>
    /\ pass \in {"targets", "decode", "validate", "accepted"} => HasEntries
    /\ pass \in {"decode", "validate", "accepted"} => ElementsAreObjects
    /\ pass = "decode" => index \in 1..Len(Items) + 1 /\ ReadTo(index - 1)
    /\ pass \in {"validate", "accepted"} =>
           RootDecodes /\ IF Dropped THEN loaded = <<>> ELSE ReadTo(Len(Items))
    /\ pass = "accepted" => ValidEntries(loaded)

LEMMA RootIs ==
    ASSUME IsText(document), Sound
    PROVE  /\ Root \in Nodes(document) /\ IsValue(Root) /\ DistinctNames(Root)
           /\ \A c \in Children(Root) : Within(c, Nodes(document))
<1>1. document \in Seq(Range(document)) /\ Len(document) = 1
  BY DEF IsText, Sound
<1>2. Root \in Range(document)
  <2>1. 1 \in DOMAIN document
    BY <1>1
  <2> QED
    BY <2>1 DEF Root, Range
<1>3. Within(Root, Nodes(document))
  BY <1>2, SoundIs
<1>4. Root \in Nodes(document) /\ \A c \in Children(Root) : Within(c, Nodes(document))
  BY <1>3, WithinUnfolds
<1> QED
  BY <1>4 DEF IsText, Sound

LEMMA ItemsAre ==
    ASSUME IsText(document), Sound, HasEntries
    PROVE  /\ \E k \in DOMAIN Root.members :
                  /\ Root.members[k].name = "entries"
                  /\ Items = Root.members[k].value.items
           /\ Len(Items) \in Nat /\ DOMAIN Items = 1..Len(Items)
           /\ \A i \in DOMAIN Items :
                  Items[i] \in Nodes(document) /\ IsValue(Items[i]) /\ DistinctNames(Items[i])
<1>1. /\ IsValue(Root) /\ DistinctNames(Root)
      /\ \A c \in Children(Root) : Within(c, Nodes(document))
  BY RootIs
<1>2. PICK k \in DOMAIN Root.members : Root.members[k].name = "entries"
  BY DEF HasEntries, Encodings, Named
<1>3. Named(Root, "entries") = {k}
  BY <1>1, <1>2 DEF Named, DistinctNames
<1> DEFINE v == Root.members[k].value
<1>4. Encodings = {v}
  BY <1>3 DEF Encodings
<1>5. v \in Children(Root)
  BY <1>2 DEF Children, Range
<1> HIDE DEF v
<1>6. Items = v.items
  BY <1>4 DEF Items
<1>7. Within(v, Nodes(document))
  BY <1>1, <1>5
<1>8. v \in Nodes(document) /\ \A c \in Children(v) : Within(c, Nodes(document))
  BY <1>7, WithinUnfolds
<1>9. v.items \in Seq(Range(v.items))
  BY <1>8 DEF IsText, IsValue
<1>10. Len(v.items) \in Nat /\ DOMAIN v.items = 1..Len(v.items)
  BY <1>9
<1>11. ASSUME NEW i \in DOMAIN v.items
       PROVE  v.items[i] \in Nodes(document) /\ IsValue(v.items[i]) /\ DistinctNames(v.items[i])
  <2>1. v.items[i] \in Children(v)
    BY <1>11 DEF Children, Range
  <2>2. Within(v.items[i], Nodes(document))
    BY <1>8, <2>1
  <2>3. v.items[i] \in Nodes(document)
    BY <2>2, WithinUnfolds
  <2> QED
    BY <2>3 DEF IsText, Sound
<1> QED
  BY <1>2, <1>6, <1>10, <1>11 DEF v

LEMMA SameDocument ==
    ASSUME document' = document
    PROVE  /\ Items' = Items /\ (HasEntries' <=> HasEntries) /\ (RootDecodes' <=> RootDecodes)
           /\ Dropped' <=> Dropped
           /\ ElementsAreObjects' <=> ElementsAreObjects
<1>1. Root' = Root
  BY DEF Root
<1>2. Encodings' = Encodings
  BY <1>1 DEF Encodings
<1>3. Items' = Items
  BY <1>2 DEF Items
<1>4. HasEntries' <=> HasEntries
  BY <1>1, <1>2 DEF HasEntries
<1>5. RootDecodes' <=> RootDecodes
  BY <1>1 DEF RootDecodes, OtherFields
<1>6. Dropped' <=> Dropped
  BY <1>1 DEF Dropped
<1>7. ElementsAreObjects' <=> ElementsAreObjects
  BY <1>3 DEF ElementsAreObjects
<1> QED
  BY <1>3, <1>4, <1>5, <1>6, <1>7

LEMMA DecodeStep ==
    ASSUME TokensInv, DecodeInv, [LoadNext]_loadVars
    PROVE  DecodeInv'
<1>1. CASE RefuseToken
  BY <1>1 DEF RefuseToken, Stop, DecodeInv
<1>2. CASE ReadValue
  BY <1>2 DEF ReadValue, Reading, DecodeInv
<1>3. CASE Close
  BY <1>3 DEF Close, DecodeInv
<1>4. CASE ReadFields
  <2>1. document' = document /\ index' = index /\ loaded' = loaded /\ pass = "fields"
    BY <1>4 DEF ReadFields
  <2>2. pass' = IF HasEntries THEN "targets" ELSE "refused"
    BY <1>4 DEF ReadFields, HasEntries
  <2>3. HasEntries' <=> HasEntries
    BY <2>1, SameDocument
  <2> QED
    BY <2>1, <2>2, <2>3 DEF DecodeInv
<1>5. CASE RejectNullTargets
  <2>1. /\ document' = document /\ index' = index /\ loaded' = loaded /\ pass = "targets"
        /\ pass' = IF ElementsAreObjects THEN "decode" ELSE "refused"
    BY <1>5 DEF RejectNullTargets, ElementsAreObjects
  <2>2. /\ Items' = Items /\ (HasEntries' <=> HasEntries)
        /\ ElementsAreObjects' <=> ElementsAreObjects
    BY <2>1, SameDocument
  <2>3. HasEntries /\ index = 1 /\ loaded = <<>>
    BY <2>1 DEF DecodeInv
  <2>4. Len(Items) \in Nat
    BY <2>1, <2>3, ItemsAre DEF TokensInv, DuplicatesRefused
  <2>5. index' \in 1..Len(Items') + 1
    BY <2>1, <2>2, <2>3, <2>4
  <2>6. ReadTo(index - 1)'
    <3>1. loaded' = <<>> /\ index' - 1 = 0 /\ 1..0 = {}
      BY <2>1, <2>3
    <3>2. <<>> \in Seq(Range(<<>>)) /\ Len(<<>>) = 0
      OBVIOUS
    <3> QED
      BY <3>1, <3>2 DEF ReadTo
  <2> QED
    BY <2>1, <2>2, <2>3, <2>5, <2>6 DEF DecodeInv
<1>6. CASE RefuseDecode
  BY <1>6 DEF RefuseDecode, Stop, DecodeInv
<1>7. CASE DecodeEntry
  <2>1. /\ document' = document /\ pass = "decode" /\ pass' = pass /\ index' = index + 1
        /\ index \in DOMAIN Items /\ EntryDecodes
        /\ loaded' = Append(loaded, Decoded(Items[index].members))
    BY <1>7 DEF DecodeEntry
  <2>2. /\ Items' = Items /\ (HasEntries' <=> HasEntries)
        /\ ElementsAreObjects' <=> ElementsAreObjects
    BY <2>1, SameDocument
  <2>3. HasEntries /\ ElementsAreObjects /\ index \in 1..Len(Items) + 1 /\ ReadTo(index - 1)
    BY <2>1 DEF DecodeInv
  <2>4. Len(Items) \in Nat /\ DOMAIN Items = 1..Len(Items)
    BY <2>1, <2>3, ItemsAre DEF TokensInv, DuplicatesRefused
  <2>5. index' \in 1..Len(Items') + 1 /\ index \in Nat /\ index' - 1 = index
    BY <2>1, <2>2, <2>4
  <2> DEFINE e == Decoded(Items[index].members)
             R == Range(loaded) \cup {e}
  <2>6. loaded \in Seq(R) /\ e \in R
    <3>1. loaded \in Seq(Range(loaded))
      BY <2>3 DEF ReadTo
    <3>2. \A S, T : \A s \in Seq(S) : S \subseteq T => s \in Seq(T)
      OBVIOUS
    <3> QED
      BY <3>1, <3>2
  <2>7. Len(loaded) = index - 1
    BY <2>3 DEF ReadTo
  <2> HIDE DEF e, R
  <2>8. loaded' = Append(loaded, e)
    BY <2>1 DEF e
  <2>9. /\ loaded' \in Seq(R) /\ Len(loaded') = index
        /\ loaded'[index] = e
        /\ \A i \in 1..index - 1 : loaded'[i] = loaded[i]
    BY <2>5, <2>6, <2>7, <2>8
  <2>10. loaded' \in Seq(Range(loaded'))
    BY <2>9, RangeTyped
  <2>11. ASSUME NEW i \in 1..index
         PROVE  /\ loaded'[i] = Decoded(Items[i].members)
                /\ \A m \in Range(Items[i].members) : MemberDecodes(m)
    <3>1. CASE i = index
      BY <2>1, <2>9, <3>1 DEF e, EntryDecodes
    <3>2. CASE i # index
      <4>1. i \in 1..index - 1
        BY <2>5, <3>2
      <4> QED
        BY <2>3, <2>9, <4>1 DEF ReadTo
    <3> QED
      BY <3>1, <3>2
  <2>12. ReadTo(index - 1)'
    BY <2>2, <2>5, <2>9, <2>10, <2>11 DEF ReadTo
  <2> QED
    BY <2>1, <2>2, <2>3, <2>5, <2>12 DEF DecodeInv
<1>8. CASE DecodeEnd
  <2>1. /\ document' = document /\ pass = "decode" /\ pass' = "validate" /\ RootDecodes
        /\ index > Len(Items) /\ loaded' = IF Dropped THEN <<>> ELSE loaded
    BY <1>8 DEF DecodeEnd
  <2>2. /\ Items' = Items /\ (HasEntries' <=> HasEntries) /\ (RootDecodes' <=> RootDecodes)
        /\ Dropped' <=> Dropped
        /\ ElementsAreObjects' <=> ElementsAreObjects
    BY <2>1, SameDocument
  <2>3. HasEntries /\ ElementsAreObjects /\ index \in 1..Len(Items) + 1 /\ ReadTo(index - 1)
    BY <2>1 DEF DecodeInv
  <2>4. Len(Items) \in Nat
    BY <2>1, <2>3, ItemsAre DEF TokensInv, DuplicatesRefused
  <2>5. index - 1 = Len(Items)
    BY <2>1, <2>3, <2>4
  <2>6. ReadTo(Len(Items))
    BY <2>3, <2>5
  <2>7. Dropped => loaded' = <<>>
    BY <2>1
  <2>8. ASSUME ~Dropped PROVE ReadTo(Len(Items))'
    <3>1. loaded' = loaded
      BY <2>1, <2>8
    <3> QED
      BY <2>2, <2>6, <3>1 DEF ReadTo
  <2> QED
    BY <2>1, <2>2, <2>3, <2>7, <2>8 DEF DecodeInv
<1>9. CASE ValidateLoaded
  <2>1. /\ document' = document /\ loaded' = loaded /\ pass = "validate"
        /\ pass' = IF ValidEntries(loaded) THEN "accepted" ELSE "refused"
    BY <1>9 DEF ValidateLoaded
  <2>2. /\ Items' = Items /\ (HasEntries' <=> HasEntries) /\ (RootDecodes' <=> RootDecodes)
        /\ Dropped' <=> Dropped
        /\ ElementsAreObjects' <=> ElementsAreObjects
    BY <2>1, SameDocument
  <2>3. /\ HasEntries /\ ElementsAreObjects /\ RootDecodes
        /\ IF Dropped THEN loaded = <<>> ELSE ReadTo(Len(Items))
    BY <2>1 DEF DecodeInv
  <2>4. ReadTo(Len(Items)) => ReadTo(Len(Items))'
    BY <2>1, <2>2 DEF ReadTo
  <2> QED
    BY <2>1, <2>2, <2>3, <2>4 DEF DecodeInv
<1>10. CASE UNCHANGED loadVars
  <2>1. /\ document' = document /\ loaded' = loaded /\ pass' = pass /\ index' = index
    BY <1>10 DEF loadVars
  <2>2. /\ Items' = Items /\ (HasEntries' <=> HasEntries) /\ (RootDecodes' <=> RootDecodes)
        /\ Dropped' <=> Dropped
        /\ ElementsAreObjects' <=> ElementsAreObjects
    BY <2>1, SameDocument
  <2>3. ReadTo(Len(Items)) => ReadTo(Len(Items))'
    BY <2>1, <2>2 DEF ReadTo
  <2>4. ReadTo(index - 1) => ReadTo(index - 1)'
    BY <2>1, <2>2 DEF ReadTo
  <2> QED
    BY <2>1, <2>2, <2>3, <2>4 DEF DecodeInv
<1> QED
  BY <1>1, <1>2, <1>3, <1>4, <1>5, <1>6, <1>7, <1>8, <1>9, <1>10 DEF LoadNext, Return

LEMMA TokensStep ==
    ASSUME TokensInv, [LoadNext]_loadVars
    PROVE  TokensInv'
<1>1. CASE RefuseToken
  BY <1>1, RefuseStep
<1>2. CASE ReadValue
  BY <1>2, ReadStep
<1>3. CASE Close
  BY <1>3, CloseStep
<1>4. ASSUME pass \notin {"tokens", "malformed"}, document' = document,
             pass' \in Passes \ {"tokens", "malformed"}
      PROVE  TokensInv'
  BY <1>4, LaterStep
<1>5. CASE ReadFields
  BY <1>4, <1>5 DEF ReadFields, Passes
<1>6. CASE RejectNullTargets
  BY <1>4, <1>6 DEF RejectNullTargets, Passes
<1>7. CASE RefuseDecode
  BY <1>4, <1>7 DEF RefuseDecode, Stop, Passes
<1>8. CASE DecodeEntry
  BY <1>4, <1>8 DEF DecodeEntry, Passes
<1>9. CASE DecodeEnd
  BY <1>4, <1>9 DEF DecodeEnd, Passes
<1>10. CASE ValidateLoaded
  BY <1>4, <1>10 DEF ValidateLoaded, Passes
<1>11. CASE UNCHANGED loadVars
  <2>1. document' = document /\ pass' = pass /\ stack' = stack
    BY <1>11 DEF loadVars
  <2>2. (Sound' <=> Sound) /\ (IsText(document)' <=> IsText(document))
    BY <2>1 DEF Sound
  <2>3. Stacked' <=> Stacked
    <3>1. Proper' = Proper /\ (BottomOK' <=> BottomOK)
      BY <2>1 DEF Proper, BottomOK
    <3> QED
      BY <2>1, <3>1 DEF Stacked
  <2> QED
    BY <2>1, <2>2, <2>3 DEF TokensInv, DuplicatesRefused
<1> QED
  BY <1>1, <1>2, <1>3, <1>5, <1>6, <1>7, <1>8, <1>9, <1>10, <1>11 DEF LoadNext, Return

(* An accepted document with no key of another spelling means what it says. *)
LEMMA FaithfulHolds ==
    ASSUME TokensInv, DecodeInv
    PROVE  Faithful
<1> SUFFICES ASSUME pass = "accepted",
                    \A v \in Objects : \A m \in Range(v.members) : m.name \in FieldNames
             PROVE  /\ Len(loaded) = Len(Items)
                    /\ \A i \in DOMAIN Items :
                           /\ \A m \in Range(Items[i].members) :
                                  /\ m.value.kind = "string"
                                  /\ IF m.name = "to" THEN loaded[i].to = {m.value.text}
                                     ELSE loaded[i][m.name] = m.value.text
                           /\ Named(Items[i], "to") = {} => loaded[i].to = {}
  BY DEF Faithful
<1>1. IsText(document) /\ Sound
  BY DEF TokensInv, DuplicatesRefused
<1>2. /\ HasEntries /\ ElementsAreObjects /\ RootDecodes /\ ValidEntries(loaded)
      /\ IF Dropped THEN loaded = <<>> ELSE ReadTo(Len(Items))
  BY DEF DecodeInv
<1>3. /\ Len(Items) \in Nat /\ DOMAIN Items = 1..Len(Items)
      /\ \A i \in DOMAIN Items :
             Items[i] \in Nodes(document) /\ IsValue(Items[i]) /\ DistinctNames(Items[i])
  BY <1>1, <1>2, ItemsAre
<1>4. ~Dropped
  <2>1. \A m \in Range(Root.members) : m.name \in FieldNames
    BY <1>1, <1>2, RootIs DEF Objects, HasEntries
  <2>2. ASSUME NEW m \in Range(Root.members), m.name # "entries" PROVE FALSE
    <3>1. Fold[m.name] = "entries"
      BY <1>2, <2>2 DEF RootDecodes, OtherFields
    <3> QED
      BY <2>1, <2>2, <3>1, FoldAssumption
  <2>3. \A j \in DOMAIN Root.members : Root.members[j] \in Range(Root.members)
    BY DEF Range
  <2> QED
    BY <2>2, <2>3 DEF Dropped
<1>5. ReadTo(Len(Items))
  BY <1>2, <1>4
<1>6. /\ Len(loaded) = Len(Items) /\ DOMAIN loaded = DOMAIN Items
      /\ \A i \in DOMAIN Items : /\ loaded[i] = Decoded(Items[i].members)
                                 /\ \A m \in Range(Items[i].members) : MemberDecodes(m)
  BY <1>3, <1>5 DEF ReadTo
<1>7. ASSUME NEW i \in DOMAIN Items
      PROVE  /\ \A m \in Range(Items[i].members) :
                    /\ m.value.kind = "string"
                    /\ IF m.name = "to" THEN loaded[i].to = {m.value.text}
                       ELSE loaded[i][m.name] = m.value.text
             /\ Named(Items[i], "to") = {} => loaded[i].to = {}
  <2> DEFINE ms == Items[i].members
  <2>1. IsValue(Items[i]) /\ DistinctNames(Items[i]) /\ Items[i] \in Nodes(document)
    BY <1>3
  <2>2. \A m \in Range(ms) : m.name \in FieldNames
    <3>1. CASE Items[i].kind = "object"
      BY <2>1, <3>1 DEF Objects
    <3>2. CASE Items[i].kind # "object"
      BY <2>1, <3>2 DEF IsValue, Range
    <3> QED
      BY <3>1, <3>2
  <2>3. \A j \in DOMAIN ms : ms[j] \in Range(ms)
    BY DEF Range
  <2>4. FieldList(ms)
    BY <2>1, <2>2, <2>3 DEF FieldList, IsValue, DistinctNames
  <2>5. /\ loaded[i] = Decoded(ms)
        /\ \A m \in Range(ms) : MemberDecodes(m)
    BY <1>6
  <2>6. /\ loaded[i].rule = StringIn(Texts(ms, "rule", {"string"}))
        /\ loaded[i].from = StringIn(Texts(ms, "from", {"string"}))
        /\ loaded[i].to = Texts(ms, "to", {"string", "null"})
    BY <2>5 DEF Decoded
  <2>7. loaded[i].rule # "" /\ loaded[i].from # ""
    BY <1>2, <1>6 DEF ValidEntries
  <2>8. \A j \in DOMAIN ms : ms[j].name = "to" => ms[j].value.kind # "null"
    BY <1>2 DEF ElementsAreObjects, NullTarget, Named
  <2>9. Named(Items[i], "to") = {} => loaded[i].to = {}
    <3>1. ASSUME Named(Items[i], "to") = {} PROVE Texts(ms, "to", {"string", "null"}) = {}
      <4>1. \A j \in DOMAIN ms : ms[j].name # "to"
        BY <3>1 DEF Named
      <4> HIDE DEF ms
      <4> QED
        BY <2>4, <4>1, NoText
    <3> QED
      BY <2>6, <3>1
  <2> HIDE DEF ms
  <2>10. ASSUME NEW j \in DOMAIN ms
         PROVE  /\ ms[j].value.kind = "string"
                /\ IF ms[j].name = "to" THEN loaded[i].to = {ms[j].value.text}
                   ELSE loaded[i][ms[j].name] = ms[j].value.text
    <3>1. ms[j].name \in {"rule", "from", "to"} /\ ms[j].value.kind \in {"null", "string"}
      <4>1. MemberDecodes(ms[j]) /\ ms[j].name \in FieldNames
        BY <2>2, <2>3, <2>5
      <4> QED
        BY <4>1, FoldAssumption DEF MemberDecodes
    <3>2. ASSUME ms[j].value.kind = "null" PROVE FALSE
      <4>1. \A f : ms[j].name = f =>
                \A k \in DOMAIN ms : ms[k].name = f => ms[k].value.kind # "string"
        BY <2>4, <3>2 DEF FieldList
      <4>2. CASE ms[j].name = "to"
        BY <2>8, <3>2, <4>2
      <4>3. CASE ms[j].name = "rule"
        <5>1. \A k \in DOMAIN ms : ms[k].name = "rule" => ms[k].value.kind # "string"
          BY <4>1, <4>3
        <5>2. Texts(ms, "rule", {"string"}) = {}
          BY <2>4, <5>1, NoText
        <5> QED
          BY <2>6, <2>7, <5>2, OneString
      <4>4. CASE ms[j].name = "from"
        <5>1. \A k \in DOMAIN ms : ms[k].name = "from" => ms[k].value.kind # "string"
          BY <4>1, <4>4
        <5>2. Texts(ms, "from", {"string"}) = {}
          BY <2>4, <5>1, NoText
        <5> QED
          BY <2>6, <2>7, <5>2, OneString
      <4> QED
        BY <3>1, <4>2, <4>3, <4>4
    <3>3. ms[j].value.kind = "string"
      BY <3>1, <3>2
    <3>4. /\ Texts(ms, ms[j].name, {"string"}) = {ms[j].value.text}
          /\ Texts(ms, ms[j].name, {"string", "null"}) = {ms[j].value.text}
      BY <2>4, <3>3, OneText
    <3>5. StringIn({ms[j].value.text}) = ms[j].value.text
      BY OneString
    <3>6. CASE ms[j].name = "to"
      BY <2>6, <3>3, <3>4, <3>6
    <3>7. CASE ms[j].name = "rule"
      BY <2>6, <3>3, <3>4, <3>5, <3>7
    <3>8. CASE ms[j].name = "from"
      BY <2>6, <3>3, <3>4, <3>5, <3>8
    <3> QED
      BY <3>1, <3>6, <3>7, <3>8
  <2>11. \A m \in Range(ms) : \E j \in DOMAIN ms : m = ms[j]
    BY DEF Range
  <2> QED
    BY <2>9, <2>10, <2>11 DEF ms
<1> QED
  BY <1>6, <1>7

-----------------------------------------------------------------------------
(* A document that Write wrote passes every pass.                           *)

WriteInv ==
    /\ \A list \in written :
           list \in Baselines /\ ValidEntries(list) /\ document = Written(Sorted[list])
    /\ \A list \in written :
           (\A e \in Range(list) : UTF8(e)) => pass \notin {"malformed", "refused"}

(* Sorting keeps the entries and so their validity.                         *)
LEMMA SortedIs ==
    ASSUME NEW list \in Baselines
    PROVE  /\ Sorted[list] \in Seq(Range(Sorted[list])) /\ Range(Sorted[list]) = Range(list)
           /\ \A e \in Range(Sorted[list]) : IsEntry(e)
           /\ ValidEntries(list) => ValidEntries(Sorted[list])
<1> DEFINE s == Sorted[list]
           D == DOMAIN list
<1>1. list \in Seq(Range(list)) /\ \A e \in Range(list) : IsEntry(e)
  BY BaselinesAssumption DEF IsEntry
<1>2. PICK p \in Bijection(D, D) : s = [i \in D |-> list[p[i]]]
  BY SortedAssumption
<1>3. D = 1..Len(list) /\ Len(list) \in Nat
  BY <1>1
<1>4. /\ p \in [D -> D] /\ \A i, j \in D : p[i] = p[j] => i = j
      /\ \A j \in D : \E i \in D : p[i] = j
  BY DEF Bijection, Injection, Surjection, IsInjective
<1>5. DOMAIN s = D /\ \A i \in D : s[i] = list[p[i]] /\ p[i] \in D
  BY <1>2, <1>4
<1> HIDE DEF s
<1>6. Range(s) = Range(list)
  BY <1>4, <1>5 DEF Range
<1>7. s \in Seq(Range(s))
  <2>1. \A i \in 1..Len(list) : s[i] \in Range(s)
    BY <1>3, <1>5 DEF Range
  <2>2. s = [i \in 1..Len(list) |-> s[i]]
    BY <1>2, <1>3, <1>5 DEF s
  <2> QED
    BY <1>3, <2>1, <2>2
<1>8. ASSUME ValidEntries(list) PROVE ValidEntries(s)
  <2>1. ASSUME NEW i \in D, NEW j \in D, i # j PROVE list[i] # list[j]
    <3>1. i \in 1..j - 1 \/ j \in 1..i - 1
      BY <1>3, <2>1
    <3> QED
      BY <1>8, <2>1, <3>1 DEF ValidEntries
  <2>2. \A i \in D : \A j \in 1..i - 1 : j \in D /\ i # j
    BY <1>3
  <2>3. ASSUME NEW i \in D, NEW j \in 1..i - 1 PROVE s[i] # s[j]
    <3>1. j \in D /\ i # j
      BY <2>2
    <3>2. p[i] \in D /\ p[j] \in D /\ p[i] # p[j]
      BY <1>4, <3>1
    <3> QED
      BY <1>5, <2>1, <3>1, <3>2
  <2>4. \A i \in D : s[i].rule # "" /\ s[i].from # "" /\ "" \notin s[i].to
    BY <1>5, <1>8 DEF ValidEntries
  <2> QED
    BY <1>5, <2>3, <2>4 DEF ValidEntries
<1> QED
  BY <1>1, <1>6, <1>7, <1>8 DEF s

LEMMA WrittenItems ==
    ASSUME NEW list, list \in Seq(Range(list)), document = Written(list)
    PROVE  /\ HasEntries /\ RootDecodes /\ ~Dropped
           /\ Len(Items) = Len(list) /\ DOMAIN Items = 1..Len(list) /\ Len(list) \in Nat
           /\ \A i \in 1..Len(list) : Items[i] = EntryText(list[i])
<1>1. Root = Written(list)[1]
  BY DEF Root
<1>2. /\ Root.kind = "object" /\ DOMAIN Root.members = {1}
      /\ Root.members[1] = Member("entries", List(list))
      /\ List(list).kind = "array"
      /\ DOMAIN List(list).items = 1..Len(list) /\ Len(List(list).items) = Len(list)
      /\ Len(list) \in Nat
      /\ \A i \in 1..Len(list) : List(list).items[i] = EntryText(list[i])
  BY <1>1, WrittenRoot
<1>3. Root.members[1].name = "entries" /\ Root.members[1].value = List(list)
  BY <1>2 DEF Member
<1>4. Named(Root, "entries") = {1}
  BY <1>2, <1>3 DEF Named
<1>5. Encodings = {List(list)}
  BY <1>3, <1>4 DEF Encodings
<1>6. Items = List(list).items
  BY <1>5 DEF Items
<1>7. HasEntries
  BY <1>2, <1>5 DEF HasEntries
<1>8. RootDecodes /\ ~Dropped
  <2>1. \A m \in Range(Root.members) : m.name = "entries"
    BY <1>2, <1>3 DEF Range
  <2> QED
    BY <1>2, <1>3, <2>1 DEF RootDecodes, OtherFields, Dropped
<1> QED
  BY <1>2, <1>6, <1>7, <1>8

LEMMA WrittenElement ==
    ASSUME NEW e
    PROVE  /\ EntryText(e).kind = "object" /\ ~NullTarget(EntryText(e))
           /\ \A m \in Range(EntryText(e).members) : MemberDecodes(m)
<1> DEFINE ms == EntryText(e).members
<1>1. /\ 1 \in DOMAIN ms /\ 2 \in DOMAIN ms
      /\ e.to # {} <=> 3 \in DOMAIN ms
      /\ \A i \in DOMAIN ms : i \in {1, 2, 3} /\ ms[i].value.kind = "string"
      /\ ms[1].name = "rule" /\ ms[2].name = "from"
      /\ e.to # {} => ms[3].name = "to"
  BY EntryFields
<1>2. EntryText(e).kind = "object"
  BY EntryMembers
<1>3. ~NullTarget(EntryText(e))
  BY <1>1 DEF NullTarget, Named
<1>4. \A m \in Range(ms) : \E i \in DOMAIN ms : m = ms[i]
  BY DEF Range
<1> HIDE DEF ms
<1>5. \A i \in DOMAIN ms : ms[i].name \in {"rule", "from", "to"} /\ ms[i].value.kind = "string"
  BY <1>1
<1>6. \A n \in {"rule", "from", "to"} : n \in DOMAIN Fold /\ Fold[n] = n
  BY FoldAssumption DEF FieldNames
<1>7. ASSUME NEW i \in DOMAIN ms PROVE MemberDecodes(ms[i])
  BY <1>5, <1>6 DEF MemberDecodes
<1> QED
  BY <1>2, <1>3, <1>4, <1>7 DEF ms

(* A list of entries whose strings are UTF-8 is what is loaded of it.       *)
LEMMA LoadedIsWritten ==
    ASSUME DecodeInv, pass \in {"validate", "accepted"}, NEW list,
           list \in Seq(Range(list)), document = Written(list),
           \A e \in Range(list) : IsEntry(e) /\ UTF8(e)
    PROVE  loaded = list
<1>1. list \in Seq(Range(list)) /\ \A e \in Range(list) : IsEntry(e)
  OBVIOUS
<1>2. /\ ~Dropped /\ Len(Items) = Len(list) /\ Len(list) \in Nat
      /\ \A i \in 1..Len(list) : Items[i] = EntryText(list[i])
  BY <1>1, WrittenItems
<1>3. ReadTo(Len(list))
  BY <1>2 DEF DecodeInv
<1>4. loaded \in Seq(Range(loaded)) /\ Len(loaded) = Len(list)
  BY <1>3 DEF ReadTo
<1>5. ASSUME NEW i \in 1..Len(list) PROVE loaded[i] = list[i]
  <2>1. list[i] \in Range(list)
    BY <1>1 DEF Range
  <2>2. loaded[i] = Decoded(EntryText(list[i]).members)
    BY <1>2, <1>3 DEF ReadTo
  <2> QED
    BY <1>1, <2>1, <2>2, EntryReadBack
<1>6. loaded = [i \in 1..Len(list) |-> loaded[i]] /\ list = [i \in 1..Len(list) |-> list[i]]
  BY <1>1, <1>4
<1> QED
  BY <1>5, <1>6

LEMMA WriteStep ==
    ASSUME TokensInv, DecodeInv, WriteInv, [LoadNext]_loadVars
    PROVE  WriteInv'
<1>1. document' = document /\ written' = written
  BY DEF LoadNext, RefuseToken, ReadValue, Close, ReadFields, RejectNullTargets, RefuseDecode,
         DecodeEntry, DecodeEnd, ValidateLoaded, Return, Stop, loadVars
<1>2. ASSUME NEW given \in written,
             \A e \in Range(given) : UTF8(e)
      PROVE  pass' \notin {"malformed", "refused"}
  <2> DEFINE list == Sorted[given]
  <2>1. /\ ValidEntries(list) /\ document = Written(list)
        /\ pass \notin {"malformed", "refused"}
    BY <1>2, SortedIs DEF WriteInv
  <2>2. list \in Seq(Range(list)) /\ \A e \in Range(list) : IsEntry(e) /\ UTF8(e)
    BY <1>2, SortedIs DEF WriteInv
  <2> HIDE DEF list
  <2>3. Sound
    <3>1. \A v \in Nodes(document) : v.kind # "torn" /\ DistinctNames(v)
      BY <2>1, <2>2, WrittenText
    <3>2. Len(document) = 1
      BY <2>1, <2>2, WrittenRoot
    <3> QED
      BY <3>1, <3>2 DEF Sound
  <2>4. pass' # "malformed"
    <3>1. Sound'
      BY <1>1, <2>3 DEF Sound
    <3> QED
      BY <3>1, TokensStep DEF TokensInv, DuplicatesRefused
  <2>5. /\ HasEntries /\ RootDecodes
        /\ DOMAIN Items = 1..Len(list)
        /\ \A i \in 1..Len(list) : Items[i] = EntryText(list[i])
    BY <2>1, <2>2, WrittenItems
  <2>6. ~RefuseDecode
    <3>1. \A i \in DOMAIN Items : \A m \in Range(Items[i].members) : MemberDecodes(m)
      BY <2>5, WrittenElement
    <3> QED
      BY <2>5, <3>1 DEF RefuseDecode, EntryDecodes
  <2>7. ReadFields => pass' = "targets"
    BY <2>5 DEF ReadFields, HasEntries
  <2>8. RejectNullTargets => pass' = "decode"
    <3>1. \A i \in DOMAIN Items : Items[i].kind \in {"object", "null"} /\ ~NullTarget(Items[i])
      BY <2>5, WrittenElement
    <3> QED
      BY <3>1 DEF RejectNullTargets
  <2>9. ValidateLoaded => pass' = "accepted"
    <3>1. pass = "validate" => loaded = list
      BY <2>1, <2>2, LoadedIsWritten
    <3> QED
      BY <2>1, <3>1 DEF ValidateLoaded
  <2>10. RefuseToken => pass' = "malformed"
    BY DEF RefuseToken, Stop
  <2>11. ReadValue \/ Close \/ DecodeEntry \/ DecodeEnd => pass' # "refused"
    BY <2>1 DEF ReadValue, Close, DecodeEntry, DecodeEnd, Reading
  <2>12. UNCHANGED loadVars => pass' = pass
    BY DEF loadVars
  <2> QED
    BY <2>1, <2>4, <2>6, <2>7, <2>8, <2>9, <2>10, <2>11, <2>12 DEF LoadNext, Return
<1>3. \A list \in written' :
          list \in Baselines /\ ValidEntries(list) /\ document' = Written(Sorted[list])
  BY <1>1 DEF WriteInv
<1> QED
  BY <1>1, <1>2, <1>3 DEF WriteInv

-----------------------------------------------------------------------------
LoadInv == TokensInv /\ DecodeInv /\ WriteInv

LEMMA LoadInvInit ==
    ASSUME LoadInit
    PROVE  LoadInv
<1>1. /\ pass = "tokens" /\ index = 1 /\ loaded = <<>>
      /\ stack = <<[object |-> FALSE, items |-> document, members |-> <<>>, seen |-> {}]>>
      /\ \/ document \in Documents /\ written = {}
         \/ \E list \in Baselines :
                ValidEntries(list) /\ document = Written(Sorted[list]) /\ written = {list}
  BY DEF LoadInit
<1>2. IsText(document)
  <2>1. CASE document \in Documents
    BY <2>1, DocumentsAssumption DEF IsText
  <2>2. ASSUME NEW list \in Baselines, document = Written(Sorted[list]) PROVE IsText(document)
    BY <2>2, WrittenText, SortedIs
  <2> QED
    BY <1>1, <2>1, <2>2
<1> DEFINE f == [object |-> FALSE, items |-> document, members |-> <<>>, seen |-> {}]
<1>3. /\ f.object = FALSE /\ f.items = document /\ f.members = <<>>
      /\ f = [object |-> f.object, items |-> f.items, members |-> f.members, seen |-> f.seen]
  OBVIOUS
<1> HIDE DEF f
<1>4. stack = <<f>>
  BY <1>1 DEF f
<1>5. Len(stack) = 1 /\ stack[1] = f /\ stack \in Seq(Range(stack)) /\ stack # <<>>
  <2>1. Len(<<f>>) = 1 /\ <<f>>[1] = f /\ <<f>> \in Seq(Range(<<f>>))
    BY OneElement
  <2>2. <<f>> # <<>>
    OBVIOUS
  <2> QED
    BY <1>4, <2>1, <2>2
<1>6. Children(f) = Range(document)
  BY <1>3 DEF Children, Range
<1>7. FrameOK(f, Nodes(document))
  <2>1. \A v \in Range(document) : Within(v, Nodes(document))
    BY <1>2, SoundIs
  <2>2. <<>> \in Seq(Range(<<>>))
    OBVIOUS
  <2> QED
    BY <1>2, <1>3, <1>6, <2>1, <2>2 DEF FrameOK, IsText
<1>8. FrameProper(f, Proper) <=> \A v \in Range(document) : Within(v, Proper)
  BY <1>3, <1>6 DEF FrameProper, DistinctNames
<1>9. BottomOK
  BY <1>3, <1>5 DEF BottomOK
<1>10. Stacked
  <2>1. \A i \in 1..Len(stack) : i = 1
    BY <1>5
  <2>2. 1 \in 1..Len(stack)
    BY <1>5
  <2> QED
    BY <1>5, <1>7, <1>8, <1>9, <2>1, <2>2 DEF Stacked
<1>11. TokensInv
  BY <1>1, <1>2, <1>10 DEF TokensInv, DuplicatesRefused, Passes
<1>12. DecodeInv
  BY <1>1 DEF DecodeInv
<1>13. WriteInv
  BY <1>1 DEF WriteInv
<1> QED
  BY <1>11, <1>12, <1>13 DEF LoadInv

LEMMA LoadInvStep ==
    ASSUME LoadInv, [LoadNext]_loadVars
    PROVE  LoadInv'
BY TokensStep, DecodeStep, WriteStep DEF LoadInv

(* The passes keep to what they have read: the open values are what is left *)
(* of the document, the loaded entries are the elements decoded so far, and *)
(* what Write wrote is refused by none of them.                             *)
THEOREM LoadInvariant == LoadSpec => []LoadInv
<1>1. LoadInit => LoadInv
  BY LoadInvInit
<1>2. LoadInv /\ [LoadNext]_loadVars => LoadInv'
  BY LoadInvStep
<1> QED
  BY <1>1, <1>2, PTL DEF LoadSpec

(* A document is refused as malformed exactly when it is not one JSON value *)
(* whose objects have distinct keys, and one that is accepted means what    *)
(* its fields say.                                                          *)
THEOREM LoadHasOneMeaning == LoadSpec => []OneMeaning
<1>1. LoadInv => OneMeaning
  BY FaithfulHolds DEF LoadInv, TokensInv, OneMeaning
<1> QED
  BY <1>1, LoadInvariant, PTL

(* Load accepts what Write wrote of valid entries in UTF-8, and returns     *)
(* those entries, sorted.                                                   *)
THEOREM LoadReadsBackWrite == LoadSpec => []LoadAfterWrite
<1>1. LoadInv => LoadAfterWrite
  <2> SUFFICES ASSUME LoadInv, NEW list \in written, \A e \in Range(list) : UTF8(e)
               PROVE  /\ pass \notin {"malformed", "refused"}
                      /\ pass = "accepted" => loaded = Sorted[list]
    BY DEF LoadAfterWrite, UTF8
  <2>1. /\ list \in Baselines /\ document = Written(Sorted[list])
        /\ pass \notin {"malformed", "refused"}
    BY DEF LoadInv, WriteInv
  <2>2. /\ Sorted[list] \in Seq(Range(Sorted[list]))
        /\ \A e \in Range(Sorted[list]) : IsEntry(e) /\ UTF8(e)
    BY <2>1, SortedIs
  <2> QED
    BY <2>1, <2>2, LoadedIsWritten DEF LoadInv
<1> QED
  BY <1>1, LoadInvariant, PTL
=============================================================================

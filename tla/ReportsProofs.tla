---------------------------- MODULE ReportsProofs ----------------------------
(* What is written of a report, for every report and format: its summary     *)
(* agrees with the exit code, and it tells every violation as often as it    *)
(* occurred. A table has one row for each item that is written and in it the *)
(* violations this item tells, so that sharing boxes and edges is counting   *)
(* cells: a new box adds an empty row, a label a cell at the end of a row.   *)
EXTENDS Reports, FiniteSetTheorems, TLAPS

-----------------------------------------------------------------------------
(* Tables *)

(* The cells of a table, a sequence of rows, that hold v. *)
Cells(table, v) ==
    UNION {{<<i, k>> : k \in {l \in DOMAIN table[i] : table[i][l] = v}} : i \in DOMAIN table}

LEMMA RowLengths ==
    ASSUME NEW S, NEW table \in Seq(Seq(S))
    PROVE  /\ Len(table) \in Nat /\ DOMAIN table = 1..Len(table)
           /\ \A i \in 1..Len(table) :
                /\ table[i] \in Seq(S) /\ Len(table[i]) \in Nat
                /\ DOMAIN table[i] = 1..Len(table[i])
<1>1. Len(table) \in Nat /\ DOMAIN table = 1..Len(table)
      /\ \A i \in 1..Len(table) : table[i] \in Seq(S)
  OBVIOUS
<1>2. ASSUME NEW row \in Seq(S) PROVE Len(row) \in Nat /\ DOMAIN row = 1..Len(row)
  OBVIOUS
<1> QED
  BY <1>1, <1>2

LEMMA CellsIn ==
    ASSUME NEW table, NEW v, NEW c
    PROVE  c \in Cells(table, v) <=>
               \E i \in DOMAIN table : \E k \in DOMAIN table[i] : c = <<i, k>> /\ table[i][k] = v
BY DEF Cells

(* The same over the lengths. *)
CellAt(table, v, c) ==
    \E i \in 1..Len(table) : \E k \in 1..Len(table[i]) : c = <<i, k>> /\ table[i][k] = v

LEMMA CellsOf ==
    ASSUME NEW table, NEW S, table \in Seq(Seq(S))
    PROVE  \A v, c : c \in Cells(table, v) <=> CellAt(table, v, c)
<1>1. DOMAIN table = 1..Len(table) /\ \A i \in 1..Len(table) : DOMAIN table[i] = 1..Len(table[i])
  BY RowLengths
<1>2. ASSUME NEW v, NEW c
      PROVE  c \in Cells(table, v) <=> CellAt(table, v, c)
  <2>1. c \in Cells(table, v) <=>
            \E i \in DOMAIN table : \E k \in DOMAIN table[i] : c = <<i, k>> /\ table[i][k] = v
    BY CellsIn
  <2> QED
    BY <1>1, <2>1 DEF CellAt
<1> QED
  BY <1>2, Zenon

(* Rows that hold nothing add no cells. *)
LEMMA EmptyRows ==
    ASSUME NEW S, NEW t \in Seq(Seq(S)), NEW u \in Seq(Seq(S)), NEW v,
           Len(t) <= Len(u), \A i \in 1..Len(t) : u[i] = t[i],
           \A i \in 1..Len(u) : i \in 1..Len(t) \/ u[i] = <<>>
    PROVE  Cells(u, v) = Cells(t, v)
<1>0. /\ \A c : c \in Cells(u, v) <=> CellAt(u, v, c)
      /\ \A c : c \in Cells(t, v) <=> CellAt(t, v, c)
  BY CellsOf, Zenon
<1>1. Len(t) \in Nat /\ Len(u) \in Nat
  BY RowLengths
<1>2. \A i \in 1..Len(u) : i \in 1..Len(t) \/ 1..Len(u[i]) = {}
  OBVIOUS
<1>3. ASSUME NEW c PROVE c \in Cells(u, v) <=> c \in Cells(t, v)
  <2>1. c \in Cells(u, v) <=>
            \E i \in 1..Len(u) : \E k \in 1..Len(u[i]) : c = <<i, k>> /\ u[i][k] = v
    BY <1>0 DEF CellAt
  <2>2. c \in Cells(t, v) <=>
            \E i \in 1..Len(t) : \E k \in 1..Len(t[i]) : c = <<i, k>> /\ t[i][k] = v
    BY <1>0 DEF CellAt
  <2>3. \A i \in 1..Len(t) : i \in 1..Len(u)
    BY <1>1
  <2> QED
    BY <1>2, <2>1, <2>2, <2>3
<1> QED
  BY <1>3

(* One more element at the end of a row adds one cell where it is v. *)
Lengthened(t, u, p, w) ==
    /\ p \in 1..Len(t) /\ Len(u) = Len(t) /\ u[p] = Append(t[p], w)
    /\ \A i \in 1..Len(t) : i # p => u[i] = t[i]

LEMMA LongerRow ==
    ASSUME NEW S, NEW t, t \in Seq(Seq(S)), NEW u, u \in Seq(Seq(S)), NEW v, NEW w \in S,
           NEW p, Lengthened(t, u, p, w), IsFiniteSet(Cells(t, v))
    PROVE  /\ IsFiniteSet(Cells(u, v))
           /\ Cardinality(Cells(u, v)) = Cardinality(Cells(t, v)) + (IF w = v THEN 1 ELSE 0)
<1> DEFINE new == <<p, Len(t[p]) + 1>>
<1>0. /\ \A c : c \in Cells(u, v) <=> CellAt(u, v, c)
      /\ \A c : c \in Cells(t, v) <=> CellAt(t, v, c)
  BY CellsOf, Zenon
<1>a. /\ p \in 1..Len(t) /\ Len(u) = Len(t) /\ u[p] = Append(t[p], w)
      /\ \A i \in 1..Len(t) : i # p => u[i] = t[i]
  BY DEF Lengthened
<1>1. /\ Len(t[p]) \in Nat /\ Len(u[p]) = Len(t[p]) + 1 /\ u[p][Len(t[p]) + 1] = w
      /\ \A k \in 1..Len(t[p]) : u[p][k] = t[p][k]
  <2>1. t[p] \in Seq(S)
    BY <1>a, RowLengths
  <2> QED
    BY <1>a, <2>1
<1>2. ASSUME NEW c
      PROVE  c \in Cells(u, v) <=> c \in Cells(t, v) \/ (w = v /\ c = new)
  <2>1. c \in Cells(u, v) <=>
            \E i \in 1..Len(u) : \E k \in 1..Len(u[i]) : c = <<i, k>> /\ u[i][k] = v
    BY <1>0 DEF CellAt
  <2>2. c \in Cells(t, v) <=>
            \E i \in 1..Len(t) : \E k \in 1..Len(t[i]) : c = <<i, k>> /\ t[i][k] = v
    BY <1>0 DEF CellAt
  <2>3. 1..Len(u[p]) = 1..Len(t[p]) \cup {Len(t[p]) + 1}
    <3>1. \A n \in Nat : 1..n + 1 = 1..n \cup {n + 1}
      OBVIOUS
    <3> QED
      BY <1>1, <3>1
  <2>4. (\E k \in 1..Len(u[p]) : c = <<p, k>> /\ u[p][k] = v)
            <=> \/ \E k \in 1..Len(t[p]) : c = <<p, k>> /\ t[p][k] = v
                \/ w = v /\ c = new
    BY <1>1, <2>3
  <2> HIDE DEF new
  <2> QED
    BY <1>a, <2>1, <2>2, <2>4
<1>3. new \notin Cells(t, v)
  <2>1. SUFFICES ASSUME NEW i \in 1..Len(t), NEW k \in 1..Len(t[i]), new = <<i, k>>
                 PROVE  FALSE
    BY <1>0 DEF CellAt
  <2> QED
    BY <1>1, <2>1
<1> HIDE DEF new
<1>4. Cells(u, v) = IF w = v THEN Cells(t, v) \cup {new} ELSE Cells(t, v)
  BY <1>2
<1>5. Cardinality(Cells(t, v)) \in Nat
  BY FS_CardinalityType
<1>6. /\ IsFiniteSet(Cells(t, v) \cup {new})
      /\ Cardinality(Cells(t, v) \cup {new}) = Cardinality(Cells(t, v)) + 1
  BY <1>3, FS_AddElement
<1> QED
  BY <1>4, <1>5, <1>6

(* The cells of two tables, the second one after rows that hold nothing. *)
Joined(t, s, u, m) ==
    /\ Len(t) <= m /\ Len(u) = m + Len(s)
    /\ \A i \in 1..Len(t) : u[i] = t[i]
    /\ \A i \in 1..m : i \in 1..Len(t) \/ u[i] = <<>>
    /\ \A j \in 1..Len(s) : u[m + j] = s[j]

LEMMA JoinedRows ==
    ASSUME NEW S, NEW t, t \in Seq(Seq(S)), NEW s, s \in Seq(Seq(S)), NEW u, u \in Seq(Seq(S)),
           NEW v, NEW m \in Nat, Joined(t, s, u, m),
           IsFiniteSet(Cells(t, v)), IsFiniteSet(Cells(s, v))
    PROVE  Cardinality(Cells(u, v)) = Cardinality(Cells(t, v)) + Cardinality(Cells(s, v))
<1> DEFINE Down(c) == <<m + c[1], c[2]>>
           f == [c \in Cells(s, v) |-> Down(c)]
           B == {Down(c) : c \in Cells(s, v)}
<1>0. /\ \A c : c \in Cells(u, v) <=> CellAt(u, v, c)
      /\ \A c : c \in Cells(t, v) <=> CellAt(t, v, c)
      /\ \A c : c \in Cells(s, v) <=> CellAt(s, v, c)
  BY CellsOf, Zenon
<1>a. /\ Len(t) <= m /\ Len(u) = m + Len(s)
      /\ \A i \in 1..Len(t) : u[i] = t[i]
      /\ \A i \in 1..m : i \in 1..Len(t) \/ u[i] = <<>>
      /\ \A j \in 1..Len(s) : u[m + j] = s[j]
  BY DEF Joined
<1>1. Len(t) \in Nat /\ Len(u) \in Nat /\ Len(s) \in Nat
  BY RowLengths
<1>2. \A i \in 1..m : i \in 1..Len(t) \/ 1..Len(u[i]) = {}
  BY <1>a
<1>3. \A c \in Cells(s, v) : \E i \in 1..Len(s) : \E k \in 1..Len(s[i]) : c = <<i, k>> /\ s[i][k] = v
  BY <1>0 DEF CellAt
<1>31. \A c \in Cells(t, v) : \E i \in 1..Len(t) : \E k \in 1..Len(t[i]) : c = <<i, k>> /\ t[i][k] = v
  BY <1>0 DEF CellAt
<1>4. ASSUME NEW c
      PROVE  c \in Cells(u, v) <=> c \in Cells(t, v) \/ c \in B
  <2>1. c \in Cells(u, v) <=>
            \E i \in 1..Len(u) : \E k \in 1..Len(u[i]) : c = <<i, k>> /\ u[i][k] = v
    BY <1>0 DEF CellAt
  <2>2. c \in Cells(t, v) <=>
            \E i \in 1..Len(t) : \E k \in 1..Len(t[i]) : c = <<i, k>> /\ t[i][k] = v
    BY <1>0 DEF CellAt
  <2>3. ASSUME c \in Cells(u, v) PROVE c \in Cells(t, v) \/ c \in B
    <3>1. PICK i \in 1..Len(u) : \E k \in 1..Len(u[i]) : c = <<i, k>> /\ u[i][k] = v
      BY <2>1, <2>3
    <3>2. PICK k \in 1..Len(u[i]) : c = <<i, k>> /\ u[i][k] = v
      BY <3>1
    <3>3. CASE i <= m
      <4>1. i \in 1..Len(t)
        BY <1>a, <1>1, <1>2, <3>2, <3>3
      <4> QED
        BY <1>a, <2>2, <3>2, <4>1
    <3>4. CASE i > m
      <4>1. PICK j \in 1..Len(s) : i = m + j
        BY <1>a, <1>1, <3>4
      <4>2. k \in 1..Len(s[j]) /\ s[j][k] = v
        BY <1>a, <3>2, <4>1
      <4>3. <<j, k>> \in Cells(s, v)
        BY <4>2, <1>0 DEF CellAt
      <4>4. c = Down(<<j, k>>)
        BY <1>a, <3>2, <4>1
      <4> QED
        BY <4>3, <4>4
    <3> QED
      BY <1>1, <3>3, <3>4
  <2>4. ASSUME c \in Cells(t, v) PROVE c \in Cells(u, v)
    <3>1. \A i \in 1..Len(t) : i \in 1..Len(u)
      BY <1>a, <1>1
    <3> QED
      BY <1>a, <2>1, <2>2, <2>4, <3>1
  <2>5. ASSUME NEW d \in Cells(s, v), c = Down(d) PROVE c \in Cells(u, v)
    <3>1. PICK j \in 1..Len(s) : \E k \in 1..Len(s[j]) : d = <<j, k>> /\ s[j][k] = v
      BY <1>3
    <3>2. PICK k \in 1..Len(s[j]) : d = <<j, k>> /\ s[j][k] = v
      BY <3>1
    <3>3. m + j \in 1..Len(u) /\ k \in 1..Len(u[m + j]) /\ u[m + j][k] = v
      BY <1>a, <1>1, <3>2
    <3>4. c = <<m + j, k>>
      BY <2>5, <3>2
    <3> QED
      BY <2>1, <3>3, <3>4
  <2> QED
    BY <2>3, <2>4, <2>5
<1>5. Cells(t, v) \cap B = {}
  <2>1. SUFFICES ASSUME NEW c \in Cells(t, v), NEW d \in Cells(s, v), c = Down(d) PROVE FALSE
    OBVIOUS
  <2>2. PICK i \in 1..Len(t) : \E k \in 1..Len(t[i]) : c = <<i, k>>
    BY <1>31, Zenon
  <2>3. PICK j \in 1..Len(s) : \E k \in 1..Len(s[j]) : d = <<j, k>>
    BY <1>3
  <2>4. i = m + j
    BY <2>1, <2>2, <2>3
  <2> QED
    BY <1>a, <1>1, <2>4
<1>6. f \in Bijection(Cells(s, v), B)
  <2>1. ASSUME NEW c \in Cells(s, v), NEW d \in Cells(s, v), Down(c) = Down(d) PROVE c = d
    <3>1. PICK i \in 1..Len(s) : \E k \in 1..Len(s[i]) : c = <<i, k>>
      BY <1>3
    <3>2. PICK j \in 1..Len(s) : \E k \in 1..Len(s[j]) : d = <<j, k>>
      BY <1>3
    <3>3. m + i = m + j /\ c[2] = d[2]
      BY <2>1, <3>1, <3>2
    <3>4. i = j
      BY <1>1, <3>3
    <3> QED
      BY <3>1, <3>2, <3>3, <3>4
  <2>2. f \in [Cells(s, v) -> B]
    OBVIOUS
  <2>3. \A b \in B : \E c \in Cells(s, v) : f[c] = b
    OBVIOUS
  <2>4. \A c, d \in Cells(s, v) : f[c] = f[d] => c = d
    BY <2>1
  <2> HIDE DEF B, f
  <2> QED
    BY <2>2, <2>3, <2>4 DEF Bijection, Injection, Surjection, IsInjective
<1> HIDE DEF f, B
<1>7. IsFiniteSet(B) /\ Cardinality(B) = Cardinality(Cells(s, v))
  BY <1>6, FS_Bijection DEF ExistsBijection
<1>8. Cells(u, v) = Cells(t, v) \cup B
  BY <1>4
<1>9. /\ Cardinality(Cells(t, v) \cup B)
           = Cardinality(Cells(t, v)) + Cardinality(B) - Cardinality(Cells(t, v) \cap B)
      /\ Cardinality(Cells(t, v) \cap B) = 0
  BY <1>5, <1>7, FS_Union, FS_EmptySet
<1>10. Cardinality(Cells(t, v)) \in Nat /\ Cardinality(B) \in Nat
  BY <1>7, FS_CardinalityType
<1> QED
  BY <1>7, <1>8, <1>9, <1>10

(* A list told row by row: as many cells hold v as elements are v. *)
OneEach(list, u, m) ==
    /\ m + Len(list) <= Len(u)
    /\ \A i \in 1..Len(list) : u[m + i] = <<list[i]>>
    /\ \A i \in 1..Len(u) : i \in m + 1..m + Len(list) \/ u[i] = <<>>

LEMMA ListedRows ==
    ASSUME NEW S, NEW list, list \in Seq(S), NEW u, u \in Seq(Seq(S)), NEW v,
           NEW m \in Nat, OneEach(list, u, m)
    PROVE  Cardinality(Cells(u, v)) = Cardinality({i \in DOMAIN list : list[i] = v})
<1> DEFINE A == {i \in DOMAIN list : list[i] = v}
           f == [i \in A |-> <<m + i, 1>>]
<1>0. /\ \A c : c \in Cells(u, v) <=> CellAt(u, v, c)
  BY CellsOf, Zenon
<1>a. /\ m + Len(list) <= Len(u)
      /\ \A i \in 1..Len(list) : u[m + i] = <<list[i]>>
      /\ \A i \in 1..Len(u) : i \in m + 1..m + Len(list) \/ u[i] = <<>>
  BY DEF OneEach
<1>1. Len(u) \in Nat /\ Len(list) \in Nat /\ DOMAIN list = 1..Len(list)
  BY RowLengths
<1>2. \A i \in 1..Len(u) : i \in m + 1..m + Len(list) \/ 1..Len(u[i]) = {}
  BY <1>a
<1>3. \A i \in 1..Len(list) : 1..Len(u[m + i]) = {1} /\ u[m + i][1] = list[i]
  <2>1. \A w : Len(<<w>>) = 1 /\ <<w>>[1] = w
    OBVIOUS
  <2>2. 1..1 = {1}
    OBVIOUS
  <2> QED
    BY <1>a, <2>1, <2>2
<1>4. \A i \in A : i \in 1..Len(list) /\ list[i] = v
  BY <1>1
<1>5. ASSUME NEW i \in A PROVE f[i] \in Cells(u, v)
  <2>1. i \in 1..Len(list) /\ list[i] = v
    BY <1>4
  <2>2. m + i \in 1..Len(u) /\ 1 \in 1..Len(u[m + i]) /\ u[m + i][1] = v
    BY <1>1, <1>3, <1>a, <2>1
  <2> QED
    BY <2>2, <1>0 DEF CellAt
<1>6. ASSUME NEW c \in Cells(u, v) PROVE \E i \in A : f[i] = c
  <2>1. PICK q \in 1..Len(u) : \E k \in 1..Len(u[q]) : c = <<q, k>> /\ u[q][k] = v
    BY <1>0 DEF CellAt
  <2>2. PICK k \in 1..Len(u[q]) : c = <<q, k>> /\ u[q][k] = v
    BY <2>1
  <2>3. q \in m + 1..m + Len(list)
    BY <1>2, <2>2
  <2>4. PICK i \in 1..Len(list) : q = m + i
    <3>1. q - m \in 1..Len(list) /\ q = m + (q - m)
      BY <1>1, <2>3
    <3> QED
      BY <3>1
  <2>5. k = 1 /\ list[i] = v
    BY <1>3, <2>2, <2>4
  <2>6. i \in A
    BY <1>1, <2>5
  <2> QED
    BY <2>2, <2>4, <2>5, <2>6
<1>7. ASSUME NEW i \in A, NEW j \in A, f[i] = f[j] PROVE i = j
  <2>1. m + i = m + j
    BY <1>7
  <2> QED
    BY <1>1, <1>4, <2>1
<1>8. IsFiniteSet(A)
  <2>1. IsFiniteSet(1..Len(list))
    BY <1>1, FS_Interval
  <2>2. A \in SUBSET (1..Len(list))
    BY <1>1
  <2> HIDE DEF A
  <2> QED
    BY <2>1, <2>2, FS_Subset
<1>9. f \in Bijection(A, Cells(u, v))
  <2>1. f \in [A -> Cells(u, v)]
    BY <1>5
  <2> HIDE DEF A, f
  <2> QED
    BY <1>6, <1>7, <2>1 DEF Bijection, Injection, Surjection, IsInjective
<1> HIDE DEF A, f
<1>10. Cardinality(Cells(u, v)) = Cardinality(A)
  BY <1>8, <1>9, FS_Bijection DEF ExistsBijection
<1> QED
  BY <1>10 DEF A

-----------------------------------------------------------------------------
(* Pictures: what buildViolationGraph has drawn *)

Violation == UNION {Range(r.violations) : r \in InputReports}

Key == {SourceKey(v) : v \in Violation} \cup {TargetKey(t) : t \in UNION {v.to : v \in Violation}}

Node == [key : Key, labels : Seq({SourceLabel(v) : v \in Violation})]

Edge == [from : Nat, to : Nat, line : {v.line : v \in Violation},
         labels : Seq({Label(v) : v \in Violation})]

(* A picture: its edges lead from box to box. *)
Picture(ns, es) ==
    /\ ns \in Seq(Node) /\ es \in Seq(Edge)
    /\ \A j \in 1..Len(es) : es[j].from \in 1..Len(ns) /\ es[j].to \in 1..Len(ns)

(* What the boxes tell, and what the edges tell, label by label. *)
NodeRow(n) == [k \in 1..Len(n.labels) |-> Alone(n, n.labels[k])]
NodeRows(ns) == [i \in 1..Len(ns) |-> NodeRow(ns[i])]

ArrowIn(ns, e, label) ==
    [rule |-> label.rule, severity |-> label.severity, from |-> ns[e.from].key.path,
     line |-> e.line, to |-> {[path |-> ns[e.to].key.path, type |-> ns[e.to].key.type]}]

EdgeRow(ns, e) == [k \in 1..Len(e.labels) |-> ArrowIn(ns, e, e.labels[k])]
EdgeRows(ns, es) == [j \in 1..Len(es) |-> EdgeRow(ns, es[j])]

(* The picture tells the first n violations of the list and no others. *)
Passed(list, n, v) == {i \in 1..n : list[i] = v}

Drawn(list, ns, es, n) ==
    /\ Picture(ns, es)
    /\ NodeRows(ns) \in Seq(Seq(Range(list))) /\ EdgeRows(ns, es) \in Seq(Seq(Range(list)))
    /\ \A v \in Range(list) :
         /\ IsFiniteSet(Cells(NodeRows(ns), v)) /\ IsFiniteSet(Cells(EdgeRows(ns, es), v))
         /\ Cardinality(Cells(NodeRows(ns), v)) + Cardinality(Cells(EdgeRows(ns, es), v))
              = Cardinality(Passed(list, n, v))

LEMMA PictureFacts ==
    ASSUME NEW ns, NEW es, Picture(ns, es)
    PROVE  /\ Len(ns) \in Nat /\ Len(es) \in Nat
           /\ DOMAIN ns = 1..Len(ns) /\ DOMAIN es = 1..Len(es)
           /\ \A i \in 1..Len(ns) :
                /\ ns[i] \in Node /\ ns[i].key \in Key
                /\ ns[i].labels \in Seq({SourceLabel(v) : v \in Violation})
                /\ Len(ns[i].labels) \in Nat
           /\ \A j \in 1..Len(es) :
                /\ es[j] \in Edge /\ es[j].from \in 1..Len(ns) /\ es[j].to \in 1..Len(ns)
                /\ es[j].labels \in Seq({Label(v) : v \in Violation})
                /\ Len(es[j].labels) \in Nat
<1>1. ns \in Seq(Node) /\ es \in Seq(Edge)
  BY DEF Picture
<1>2. /\ Len(ns) \in Nat /\ Len(es) \in Nat
      /\ DOMAIN ns = 1..Len(ns) /\ DOMAIN es = 1..Len(es)
      /\ \A i \in 1..Len(ns) : ns[i] \in Node
      /\ \A j \in 1..Len(es) : es[j] \in Edge
  BY <1>1
<1>3. ASSUME NEW n \in Node
      PROVE  /\ n.key \in Key /\ n.labels \in Seq({SourceLabel(v) : v \in Violation})
             /\ Len(n.labels) \in Nat
  BY DEF Node
<1>4. ASSUME NEW e \in Edge
      PROVE  e.labels \in Seq({Label(v) : v \in Violation}) /\ Len(e.labels) \in Nat
  BY DEF Edge
<1> QED
  BY <1>2, <1>3, <1>4 DEF Picture

(* ensureNode: a box for the key, nothing else touched. *)
LEMMA EnsureBox ==
    ASSUME NEW ns, ns \in Seq(Node), NEW key \in Key
    PROVE  LET ms == Ensure(ns, key)
           IN  /\ ms \in Seq(Node) /\ Len(ms) \in Nat /\ Len(ns) \in Nat /\ Len(ns) <= Len(ms)
               /\ \A i \in 1..Len(ns) : ms[i] = ns[i]
               /\ \A i \in 1..Len(ms) : i \in 1..Len(ns) \/ ms[i].labels = <<>>
               /\ NodeOf(ms, key) \in 1..Len(ms) /\ ms[NodeOf(ms, key)].key = key
<1> DEFINE ms == Ensure(ns, key)
<1>1. CASE key \in Keys(ns)
  <2>1. ms = ns
    BY <1>1 DEF Ensure
  <2>2. \E i \in DOMAIN ms : ms[i].key = key
    BY <1>1, <2>1 DEF Keys
  <2>3. NodeOf(ms, key) \in DOMAIN ms /\ ms[NodeOf(ms, key)].key = key
    BY <2>2 DEF NodeOf
  <2>4. ms \in Seq(Node) /\ DOMAIN ms = 1..Len(ms) /\ Len(ms) \in Nat
    BY <2>1
  <2> HIDE DEF ms
  <2> QED
    BY <2>1, <2>3, <2>4 DEF ms
<1>2. CASE key \notin Keys(ns)
  <2> DEFINE new == [key |-> key, labels |-> <<>>]
  <2>1. new \in Node
    BY DEF Node
  <2>2. ms = Append(ns, new)
    BY <1>2 DEF Ensure
  <2>3. new.key = key /\ new.labels = <<>>
    OBVIOUS
  <2> HIDE DEF ms, new
  <2>4. /\ ms \in Seq(Node) /\ Len(ms) = Len(ns) + 1 /\ Len(ns) \in Nat /\ DOMAIN ms = 1..Len(ms)
        /\ \A i \in 1..Len(ns) : ms[i] = ns[i]
        /\ ms[Len(ns) + 1] = new
    BY <2>1, <2>2
  <2>5. \E i \in DOMAIN ms : ms[i].key = key
    BY <2>3, <2>4
  <2>6. NodeOf(ms, key) \in DOMAIN ms /\ ms[NodeOf(ms, key)].key = key
    BY <2>5 DEF NodeOf
  <2> QED
    BY <2>3, <2>4, <2>6 DEF ms
<1> QED
  BY <1>1, <1>2

(* One violation more passed. *)
LEMMA OnePassed ==
    ASSUME NEW list, list \in Seq(Range(list)), NEW n \in Nat, n < Len(list), NEW v
    PROVE  /\ IsFiniteSet(Passed(list, n, v)) /\ Cardinality(Passed(list, n, v)) \in Nat
           /\ Cardinality(Passed(list, n + 1, v))
                = Cardinality(Passed(list, n, v)) + (IF list[n + 1] = v THEN 1 ELSE 0)
<1>1. 1 \in Int /\ n \in Int
  OBVIOUS
<1>2. IsFiniteSet(1..n)
  BY <1>1, FS_Interval
<1>3. IsFiniteSet(Passed(list, n, v))
  <2>1. Passed(list, n, v) \in SUBSET (1..n)
    BY DEF Passed
  <2> QED
    BY <1>2, <2>1, FS_Subset
<1>4. Cardinality(Passed(list, n, v)) \in Nat
  BY <1>3, FS_CardinalityType
<1>5. n + 1 \notin Passed(list, n, v)
  BY DEF Passed
<1>6. Passed(list, n + 1, v) = IF list[n + 1] = v THEN Passed(list, n, v) \cup {n + 1}
                               ELSE Passed(list, n, v)
  BY DEF Passed
<1>7. Cardinality(Passed(list, n, v) \cup {n + 1}) = Cardinality(Passed(list, n, v)) + 1
  BY <1>3, <1>5, FS_AddElement
<1> QED
  BY <1>3, <1>4, <1>6, <1>7

(* The rows are as long as the lists. *)
LEMMA RowsOfPicture ==
    ASSUME NEW ns, NEW es, Picture(ns, es)
    PROVE  /\ DOMAIN NodeRows(ns) = 1..Len(ns) /\ DOMAIN EdgeRows(ns, es) = 1..Len(es)
           /\ \A i \in 1..Len(ns) : NodeRows(ns)[i] = NodeRow(ns[i])
           /\ \A j \in 1..Len(es) : EdgeRows(ns, es)[j] = EdgeRow(ns, es[j])
           /\ \A T : NodeRows(ns) \in Seq(T) => Len(NodeRows(ns)) = Len(ns)
           /\ \A T : EdgeRows(ns, es) \in Seq(T) => Len(EdgeRows(ns, es)) = Len(es)
<1>1. Len(ns) \in Nat /\ Len(es) \in Nat
  BY PictureFacts
<1>2. ASSUME NEW f, NEW n \in Nat, DOMAIN f = 1..n, NEW T, f \in Seq(T) PROVE Len(f) = n
  BY <1>2
<1> QED
  BY <1>1, <1>2 DEF NodeRows, EdgeRows

(* A list of rows, each in Seq(S), is a table. *)
LEMMA TableOf ==
    ASSUME NEW S, NEW f, NEW n \in Nat, f = [i \in 1..n |-> f[i]], \A i \in 1..n : f[i] \in Seq(S)
    PROVE  f \in Seq(Seq(S)) /\ Len(f) = n
OBVIOUS

(* A new box tells nothing yet, and the others tell what they told. *)
LEMMA GrownPicture ==
    ASSUME NEW list, NEW ns, NEW es, NEW n, Drawn(list, ns, es, n), NEW key \in Key
    PROVE  Drawn(list, Ensure(ns, key), es, n)
<1> DEFINE ms == Ensure(ns, key)
           S == Range(list)
<1>0. Picture(ns, es)
  BY DEF Drawn
<1>1. /\ Len(ns) \in Nat /\ Len(es) \in Nat /\ ns \in Seq(Node) /\ es \in Seq(Edge)
      /\ \A j \in 1..Len(es) : es[j].from \in 1..Len(ns) /\ es[j].to \in 1..Len(ns)
  BY <1>0, PictureFacts DEF Picture
<1>2. /\ ms \in Seq(Node) /\ Len(ms) \in Nat /\ Len(ns) <= Len(ms)
      /\ \A i \in 1..Len(ns) : ms[i] = ns[i]
      /\ \A i \in 1..Len(ms) : i \in 1..Len(ns) \/ ms[i].labels = <<>>
  BY <1>1, EnsureBox
<1> HIDE DEF ms
<1>3. Picture(ms, es)
  BY <1>1, <1>2 DEF Picture
<1>4. EdgeRows(ms, es) = EdgeRows(ns, es)
  <2>1. ASSUME NEW j \in 1..Len(es) PROVE EdgeRow(ms, es[j]) = EdgeRow(ns, es[j])
    <3>1. ms[es[j].from] = ns[es[j].from] /\ ms[es[j].to] = ns[es[j].to]
      BY <1>1, <1>2
    <3> QED
      BY <3>1 DEF EdgeRow, ArrowIn
  <2> QED
    BY <2>1 DEF EdgeRows
<1>5. NodeRows(ns) \in Seq(Seq(S)) /\ Len(NodeRows(ns)) = Len(ns)
  BY <1>0, RowsOfPicture DEF Drawn
<1>6. \A i \in 1..Len(ns) : NodeRows(ms)[i] = NodeRows(ns)[i]
  BY <1>1, <1>2 DEF NodeRows
<1>7. \A i \in 1..Len(ms) : i \in 1..Len(ns) \/ NodeRows(ms)[i] = <<>>
  <2>1. ASSUME NEW i \in 1..Len(ms), ms[i].labels = <<>> PROVE NodeRow(ms[i]) = <<>>
    BY <2>1 DEF NodeRow
  <2> QED
    BY <1>2, <2>1 DEF NodeRows
<1>8. \A i \in 1..Len(ms) : NodeRows(ms)[i] \in Seq(S)
  <2>1. \A i \in 1..Len(ns) : NodeRows(ns)[i] \in Seq(S)
    BY <1>5
  <2>2. <<>> \in Seq(S)
    OBVIOUS
  <2> QED
    BY <1>6, <1>7, <2>1, <2>2
<1>9. NodeRows(ms) \in Seq(Seq(S)) /\ Len(NodeRows(ms)) = Len(ms)
  <2>1. NodeRows(ms) = [i \in 1..Len(ms) |-> NodeRows(ms)[i]]
    BY DEF NodeRows
  <2> HIDE DEF S
  <2> QED
    BY <1>2, <1>8, <2>1, TableOf
<1> HIDE DEF S
<1>10. \A v : Cells(NodeRows(ms), v) = Cells(NodeRows(ns), v)
  <2> DEFINE t == NodeRows(ns)
             u == NodeRows(ms)
  <2>1. /\ t \in Seq(Seq(S)) /\ u \in Seq(Seq(S)) /\ Len(t) <= Len(u)
        /\ \A i \in 1..Len(t) : u[i] = t[i]
        /\ \A i \in 1..Len(u) : i \in 1..Len(t) \/ u[i] = <<>>
    BY <1>2, <1>5, <1>6, <1>7, <1>9
  <2> HIDE DEF t, u
  <2>2. \A v : Cells(u, v) = Cells(t, v)
    BY <2>1, EmptyRows
  <2> QED
    BY <2>2 DEF t, u
<1> QED
  BY <1>3, <1>4, <1>9, <1>10 DEF Drawn, ms, S

(* A sequence told label by label grows with its labels. *)
LEMMA LongerTold ==
    ASSUME NEW A, NEW ls \in Seq(A), NEW new \in A, NEW f(_)
    PROVE  [k \in 1..Len(Append(ls, new)) |-> f(Append(ls, new)[k])]
               = Append([k \in 1..Len(ls) |-> f(ls[k])], f(new))
OBVIOUS

Labelled(n, label) == [n EXCEPT !.labels = Append(@, label)]

LEMMA LabelledBox ==
    ASSUME NEW key, NEW ls, NEW label
    PROVE  Labelled([key |-> key, labels |-> ls], label) = [key |-> key, labels |-> Append(ls, label)]
BY DEF Labelled

(* A violation without a target is told by its source's box. *)
LEMMA LabelNode ==
    ASSUME NEW list, list \in Seq(Range(list)), NEW ns, NEW es, NEW n \in Nat, n < Len(list),
           Drawn(list, ns, es, n), list[n + 1] \in Violation, IsViolation(list[n + 1]),
           list[n + 1].to = {}, NEW p \in 1..Len(ns), ns[p].key = SourceKey(list[n + 1])
    PROVE  Drawn(list, [ns EXCEPT ![p].labels = Append(@, SourceLabel(list[n + 1]))], es, n + 1)
<1> DEFINE S == Range(list)
           w == list[n + 1]
           L == SourceLabel(w)
           old == ns[p]
           new == Labelled(old, L)
           ms == [ns EXCEPT ![p].labels = Append(@, L)]
<1>0. Picture(ns, es)
  BY DEF Drawn
<1>1. /\ Len(ns) \in Nat /\ Len(es) \in Nat /\ ns \in Seq(Node) /\ es \in Seq(Edge)
      /\ DOMAIN ns = 1..Len(ns)
      /\ \A j \in 1..Len(es) : es[j].from \in 1..Len(ns) /\ es[j].to \in 1..Len(ns)
  BY <1>0, PictureFacts DEF Picture
<1>2. w \in S
  <2>1. n + 1 \in DOMAIN list
    OBVIOUS
  <2> QED
    BY <2>1 DEF Range
<1>3. L \in {SourceLabel(v) : v \in Violation}
  OBVIOUS
<1>4. /\ old \in Node /\ old.labels \in Seq({SourceLabel(v) : v \in Violation})
      /\ old.key \in Key /\ Len(old.labels) \in Nat
  BY <1>0, PictureFacts
<1>5. /\ new \in Node /\ new.key = old.key /\ new.labels = Append(old.labels, L)
  <2>1. old = [key |-> old.key, labels |-> old.labels]
    BY <1>4 DEF Node
  <2>2. Append(old.labels, L) \in Seq({SourceLabel(v) : v \in Violation})
    BY <1>3, <1>4
  <2>3. new = [key |-> old.key, labels |-> Append(old.labels, L)]
    <3> HIDE DEF old, L
    <3>1. Labelled([key |-> old.key, labels |-> old.labels], L)
              = [key |-> old.key, labels |-> Append(old.labels, L)]
      BY LabelledBox
    <3>2. Labelled(old, L) = Labelled([key |-> old.key, labels |-> old.labels], L)
      BY <2>1, Zenon
    <3> QED
      BY <3>1, <3>2
  <2> HIDE DEF new
  <2> QED
    BY <1>4, <2>2, <2>3 DEF Node
<1>6. ms = [ns EXCEPT ![p] = new]
  BY DEF Labelled
<1> HIDE DEF ms, new
<1>7. /\ ms \in Seq(Node) /\ Len(ms) = Len(ns) /\ ms[p] = new
      /\ \A i \in 1..Len(ns) : i # p => ms[i] = ns[i]
  BY <1>1, <1>5, <1>6
<1>8. \A i \in 1..Len(ns) : ms[i].key = ns[i].key
  BY <1>5, <1>7
<1>9. Picture(ms, es)
  BY <1>1, <1>7 DEF Picture
<1>10. EdgeRows(ms, es) = EdgeRows(ns, es)
  <2>1. ASSUME NEW j \in 1..Len(es) PROVE EdgeRow(ms, es[j]) = EdgeRow(ns, es[j])
    <3>1. ms[es[j].from].key = ns[es[j].from].key /\ ms[es[j].to].key = ns[es[j].to].key
      BY <1>1, <1>8
    <3> QED
      BY <3>1 DEF EdgeRow, ArrowIn
  <2> QED
    BY <2>1 DEF EdgeRows
<1>11. Alone(new, L) = w
  <2>1. /\ w = [rule |-> w.rule, severity |-> w.severity, from |-> w.from, line |-> w.line, to |-> {}]
        /\ L.rule = w.rule /\ L.severity = w.severity /\ L.line = w.line
        /\ new.key.path = w.from
    <3>1. w = [rule |-> w.rule, severity |-> w.severity, from |-> w.from, line |-> w.line, to |-> w.to]
      BY Zenon DEF IsViolation
    <3>2. w.to = {} /\ old.key = SourceKey(w)
      OBVIOUS
    <3>3. new.key.path = w.from
      <4> HIDE DEF w, old
      <4>1. SourceKey(w).path = w.from
        BY DEF SourceKey
      <4> QED
        BY <1>5, <3>2, <4>1, Zenon
    <3>4. L.rule = w.rule /\ L.severity = w.severity /\ L.line = w.line
      BY DEF SourceLabel
    <3> HIDE DEF w, L
    <3> QED
      BY <3>1, <3>2, <3>3, <3>4, Zenon
  <2> HIDE DEF w, L
  <2> QED
    BY <2>1 DEF Alone
<1>12. NodeRow(new) = Append(NodeRow(old), w)
  <2> DEFINE f(x) == Alone(new, x)
  <2>1. \A x : Alone(new, x) = Alone(old, x)
    BY <1>5 DEF Alone
  <2>2. NodeRow(old) = [k \in 1..Len(old.labels) |-> f(old.labels[k])]
    BY <2>1 DEF NodeRow
  <2>3. NodeRow(new) = [k \in 1..Len(Append(old.labels, L)) |-> f(Append(old.labels, L)[k])]
    BY <1>5 DEF NodeRow
  <2> DEFINE ls == old.labels
  <2>4. ls \in Seq({SourceLabel(v) : v \in Violation})
    BY <1>4
  <2> HIDE DEF f, L, ls
  <2>5. [k \in 1..Len(Append(ls, L)) |-> f(Append(ls, L)[k])]
            = Append([k \in 1..Len(ls) |-> f(ls[k])], f(L))
    BY <1>3, <2>4
  <2> QED
    BY <1>11, <2>2, <2>3, <2>5 DEF f, ls
<1>13. /\ NodeRows(ns) \in Seq(Seq(S)) /\ Len(NodeRows(ns)) = Len(ns)
       /\ EdgeRows(ns, es) \in Seq(Seq(S))
  BY <1>0, RowsOfPicture DEF Drawn
<1>14. /\ \A i \in 1..Len(ns) : i # p => NodeRows(ms)[i] = NodeRows(ns)[i]
       /\ NodeRows(ms)[p] = Append(NodeRows(ns)[p], w)
  BY <1>1, <1>7, <1>12 DEF NodeRows
<1> HIDE DEF S, w, L, old
<1>15. NodeRows(ms) \in Seq(Seq(S)) /\ Len(NodeRows(ms)) = Len(ms)
  <2>1. NodeRows(ms) = [i \in 1..Len(ms) |-> NodeRows(ms)[i]]
    BY DEF NodeRows
  <2>2. \A i \in 1..Len(ns) : NodeRows(ns)[i] \in Seq(S)
    BY <1>13
  <2>3. Append(NodeRows(ns)[p], w) \in Seq(S)
    BY <1>2, <2>2
  <2>4. \A i \in 1..Len(ms) : NodeRows(ms)[i] \in Seq(S)
    BY <1>7, <1>14, <2>2, <2>3
  <2> QED
    BY <1>1, <1>7, <2>1, <2>4, TableOf
<1>16. ASSUME NEW v \in S
       PROVE  /\ IsFiniteSet(Cells(NodeRows(ms), v))
              /\ IsFiniteSet(Cells(EdgeRows(ms, es), v))
              /\ Cardinality(Cells(NodeRows(ms), v)) + Cardinality(Cells(EdgeRows(ms, es), v))
                   = Cardinality(Passed(list, n + 1, v))
  <2> DEFINE t == NodeRows(ns)
             u == NodeRows(ms)
             e == Cells(EdgeRows(ns, es), v)
  <2>1. /\ IsFiniteSet(Cells(t, v)) /\ IsFiniteSet(e)
        /\ Cardinality(Cells(t, v)) + Cardinality(e) = Cardinality(Passed(list, n, v))
    BY DEF Drawn, S
  <2>2. /\ t \in Seq(Seq(S)) /\ u \in Seq(Seq(S)) /\ Len(u) = Len(t) /\ p \in 1..Len(t)
        /\ \A i \in 1..Len(t) : i # p => u[i] = t[i]
        /\ u[p] = Append(t[p], w)
    BY <1>7, <1>13, <1>14, <1>15
  <2> HIDE DEF t, u
  <2>3. /\ IsFiniteSet(Cells(u, v))
        /\ Cardinality(Cells(u, v)) = Cardinality(Cells(t, v)) + (IF w = v THEN 1 ELSE 0)
    <3>1. Lengthened(t, u, p, w)
      BY <2>2, Zenon DEF Lengthened
    <3> QED
      BY <1>2, <2>1, <2>2, <3>1, LongerRow, Zenon
  <2>4. Cardinality(Passed(list, n + 1, v)) = Cardinality(Passed(list, n, v)) + (IF w = v THEN 1 ELSE 0)
    BY OnePassed DEF w
  <2> HIDE DEF e
  <2>5. Cardinality(Cells(t, v)) \in Nat /\ Cardinality(e) \in Nat
    BY <2>1, FS_CardinalityType
  <2>6. Cardinality(Cells(u, v)) + Cardinality(e) = Cardinality(Passed(list, n + 1, v))
    BY <2>1, <2>3, <2>4, <2>5
  <2> QED
    BY <1>10, <2>1, <2>3, <2>6 DEF u, e
<1> QED
  BY <1>9, <1>10, <1>13, <1>15, <1>16 DEF Drawn, S, ms, L, w

(* An edge that leads from the source of w to its target, at its line. *)
Leads(ns, e, w) ==
    /\ e.line = w.line /\ ns[e.from].key = SourceKey(w)
    /\ \E t \in w.to : ns[e.to].key = TargetKey(t)

LEMMA ArrowTold ==
    ASSUME NEW ns, NEW e, NEW w, IsViolation(w), Leads(ns, e, w)
    PROVE  ArrowIn(ns, e, Label(w)) = w
<1>1. /\ w = [rule |-> w.rule, severity |-> w.severity, from |-> w.from, line |-> w.line, to |-> w.to]
      /\ w.to = {} \/ \E t \in w.to : w.to = {t} /\ IsTarget(t)
  BY Zenon DEF IsViolation
<1>2. PICK t \in w.to : ns[e.to].key = TargetKey(t)
  BY DEF Leads
<1>3. w.to = {t} /\ IsTarget(t)
  BY <1>1, <1>2
<1>4. t = [path |-> t.path, type |-> t.type]
  BY <1>3, Zenon DEF IsTarget
<1>5. /\ ns[e.to].key.path = t.path /\ ns[e.to].key.type = t.type
      /\ ns[e.from].key.path = w.from /\ e.line = w.line
      /\ Label(w).rule = w.rule /\ Label(w).severity = w.severity
  <2>1. /\ TargetKey(t).path = t.path /\ TargetKey(t).type = t.type
        /\ SourceKey(w).path = w.from
        /\ Label(w).rule = w.rule /\ Label(w).severity = w.severity
    BY DEF TargetKey, SourceKey, Label
  <2>2. ns[e.from].key = SourceKey(w) /\ e.line = w.line
    BY Zenon DEF Leads
  <2> QED
    BY <1>2, <2>1, <2>2, Zenon
<1>6. ArrowIn(ns, e, Label(w))
        = [rule |-> w.rule, severity |-> w.severity, from |-> w.from, line |-> w.line,
           to |-> {[path |-> t.path, type |-> t.type]}]
  BY <1>5, Zenon DEF ArrowIn
<1>7. {[path |-> t.path, type |-> t.type]} = w.to
  BY <1>3, <1>4, Zenon
<1> QED
  BY <1>1, <1>6, <1>7, Zenon

(* One label more on the edges tells one violation more. *)
LEMMA ArrowAdded ==
    ASSUME NEW list, list \in Seq(Range(list)), NEW ns, NEW es, NEW fs, NEW n \in Nat,
           n < Len(list), Drawn(list, ns, es, n), Picture(ns, fs),
           NEW mid, mid \in Seq(Seq(Range(list))), EdgeRows(ns, fs) \in Seq(Seq(Range(list))),
           \A v : Cells(mid, v) = Cells(EdgeRows(ns, es), v),
           NEW p, Lengthened(mid, EdgeRows(ns, fs), p, list[n + 1])
    PROVE  Drawn(list, ns, fs, n + 1)
<1> DEFINE S == Range(list)
           w == list[n + 1]
           u == EdgeRows(ns, fs)
<1>1. w \in S
  <2>1. n + 1 \in DOMAIN list
    OBVIOUS
  <2> QED
    BY <2>1 DEF Range
<1> HIDE DEF S, w, u
<1>2. ASSUME NEW v \in S
      PROVE  /\ IsFiniteSet(Cells(NodeRows(ns), v)) /\ IsFiniteSet(Cells(u, v))
             /\ Cardinality(Cells(NodeRows(ns), v)) + Cardinality(Cells(u, v))
                  = Cardinality(Passed(list, n + 1, v))
  <2> DEFINE b == Cells(NodeRows(ns), v)
             e == Cells(EdgeRows(ns, es), v)
  <2>1. /\ IsFiniteSet(b) /\ IsFiniteSet(e)
        /\ Cardinality(b) + Cardinality(e) = Cardinality(Passed(list, n, v))
    BY Zenon DEF Drawn, S
  <2>2. Cells(mid, v) = e
    OBVIOUS
  <2> HIDE DEF b, e
  <2>3. /\ IsFiniteSet(Cells(u, v))
        /\ Cardinality(Cells(u, v)) = Cardinality(e) + (IF w = v THEN 1 ELSE 0)
    <3>1. mid \in Seq(Seq(S)) /\ u \in Seq(Seq(S)) /\ Lengthened(mid, u, p, w)
      BY Zenon DEF S, u, w
    <3>2. IsFiniteSet(Cells(mid, v))
      BY <2>1, <2>2, Zenon
    <3>3. /\ IsFiniteSet(Cells(u, v))
          /\ Cardinality(Cells(u, v)) = Cardinality(Cells(mid, v)) + (IF w = v THEN 1 ELSE 0)
      BY <1>1, <3>1, <3>2, LongerRow, Zenon
    <3> QED
      BY <2>2, <3>3, Zenon
  <2>4. Cardinality(Passed(list, n + 1, v)) = Cardinality(Passed(list, n, v)) + (IF w = v THEN 1 ELSE 0)
    BY OnePassed DEF w
  <2>5. Cardinality(b) \in Nat /\ Cardinality(e) \in Nat
    BY <2>1, FS_CardinalityType
  <2>6. Cardinality(b) + Cardinality(Cells(u, v)) = Cardinality(Passed(list, n + 1, v))
    BY <2>1, <2>3, <2>4, <2>5
  <2> QED
    BY <2>1, <2>3, <2>6, Zenon DEF b
<1>3. NodeRows(ns) \in Seq(Seq(Range(list)))
  BY Zenon DEF Drawn
<1>4. \A v \in Range(list) :
        /\ IsFiniteSet(Cells(NodeRows(ns), v)) /\ IsFiniteSet(Cells(EdgeRows(ns, fs), v))
        /\ Cardinality(Cells(NodeRows(ns), v)) + Cardinality(Cells(EdgeRows(ns, fs), v))
             = Cardinality(Passed(list, n + 1, v))
  BY <1>2, Zenon DEF S, u
<1> QED
  BY <1>3, <1>4, Zenon DEF Drawn

LEMMA LabelledEdge ==
    ASSUME NEW from, NEW to, NEW line, NEW ls, NEW label
    PROVE  Labelled([from |-> from, to |-> to, line |-> line, labels |-> ls], label)
             = [from |-> from, to |-> to, line |-> line, labels |-> Append(ls, label)]
BY DEF Labelled

(* A violation told by an edge that is there. *)
LEMMA LabelEdge ==
    ASSUME NEW list, list \in Seq(Range(list)), NEW ns, NEW es, NEW n \in Nat, n < Len(list),
           Drawn(list, ns, es, n), list[n + 1] \in Violation, IsViolation(list[n + 1]),
           NEW p \in 1..Len(es), Leads(ns, es[p], list[n + 1])
    PROVE  Drawn(list, ns, [es EXCEPT ![p].labels = Append(@, Label(list[n + 1]))], n + 1)
<1> DEFINE S == Range(list)
           w == list[n + 1]
           L == Label(w)
           old == es[p]
           new == Labelled(old, L)
           fs == [es EXCEPT ![p].labels = Append(@, L)]
<1>0. Picture(ns, es)
  BY DEF Drawn
<1>1. /\ Len(ns) \in Nat /\ Len(es) \in Nat /\ ns \in Seq(Node) /\ es \in Seq(Edge)
      /\ DOMAIN es = 1..Len(es)
      /\ \A j \in 1..Len(es) : es[j].from \in 1..Len(ns) /\ es[j].to \in 1..Len(ns)
  BY <1>0, PictureFacts DEF Picture
<1>2. w \in S
  <2>1. n + 1 \in DOMAIN list
    OBVIOUS
  <2> QED
    BY <2>1 DEF Range
<1>3. L \in {Label(v) : v \in Violation}
  OBVIOUS
<1>4. old \in Edge /\ old.labels \in Seq({Label(v) : v \in Violation}) /\ Len(old.labels) \in Nat
  BY <1>0, PictureFacts
<1>5. /\ new \in Edge /\ new.from = old.from /\ new.to = old.to /\ new.line = old.line
      /\ new.labels = Append(old.labels, L)
  <2>1. old = [from |-> old.from, to |-> old.to, line |-> old.line, labels |-> old.labels]
    BY <1>4 DEF Edge
  <2>2. Append(old.labels, L) \in Seq({Label(v) : v \in Violation})
    BY <1>3, <1>4
  <2>3. new = [from |-> old.from, to |-> old.to, line |-> old.line, labels |-> Append(old.labels, L)]
    <3> HIDE DEF old, L
    <3>1. Labelled([from |-> old.from, to |-> old.to, line |-> old.line, labels |-> old.labels], L)
              = [from |-> old.from, to |-> old.to, line |-> old.line, labels |-> Append(old.labels, L)]
      BY LabelledEdge
    <3>2. Labelled(old, L)
            = Labelled([from |-> old.from, to |-> old.to, line |-> old.line, labels |-> old.labels], L)
      BY <2>1, Zenon
    <3> QED
      BY <3>1, <3>2
  <2>4. old.from \in Nat /\ old.to \in Nat /\ old.line \in {v.line : v \in Violation}
    BY <1>4 DEF Edge
  <2> HIDE DEF new, old, L
  <2> QED
    BY <2>2, <2>3, <2>4 DEF Edge
<1>6. fs = [es EXCEPT ![p] = new]
  BY DEF Labelled
<1> HIDE DEF fs, new
<1>7. /\ fs \in Seq(Edge) /\ Len(fs) = Len(es) /\ fs[p] = new
      /\ \A j \in 1..Len(es) : j # p => fs[j] = es[j]
  BY <1>1, <1>5, <1>6
<1>8. Picture(ns, fs)
  <2>1. \A j \in 1..Len(fs) : fs[j].from \in 1..Len(ns) /\ fs[j].to \in 1..Len(ns)
    BY <1>1, <1>5, <1>7
  <2> QED
    BY <1>1, <1>7, <2>1 DEF Picture
<1>9. ArrowIn(ns, old, L) = w
  BY ArrowTold
<1>10. EdgeRow(ns, new) = Append(EdgeRow(ns, old), w)
  <2> DEFINE f(x) == ArrowIn(ns, old, x)
             ls == old.labels
  <2>1. \A x : ArrowIn(ns, new, x) = ArrowIn(ns, old, x)
    BY <1>5 DEF ArrowIn
  <2>2. EdgeRow(ns, old) = [k \in 1..Len(ls) |-> f(ls[k])]
    BY DEF EdgeRow
  <2>3. EdgeRow(ns, new) = [k \in 1..Len(Append(ls, L)) |-> f(Append(ls, L)[k])]
    BY <1>5, <2>1 DEF EdgeRow
  <2>4. ls \in Seq({Label(v) : v \in Violation})
    BY <1>4
  <2>5. f(L) = w
    BY <1>9
  <2> HIDE DEF f, L, ls
  <2>6. [k \in 1..Len(Append(ls, L)) |-> f(Append(ls, L)[k])]
            = Append([k \in 1..Len(ls) |-> f(ls[k])], f(L))
    BY <1>3, <2>4, LongerTold
  <2> QED
    BY <2>2, <2>3, <2>5, <2>6
<1>11. EdgeRows(ns, es) \in Seq(Seq(S)) /\ Len(EdgeRows(ns, es)) = Len(es)
  BY <1>0, RowsOfPicture DEF Drawn
<1>12. /\ \A j \in 1..Len(es) : j # p => EdgeRows(ns, fs)[j] = EdgeRows(ns, es)[j]
       /\ EdgeRows(ns, fs)[p] = Append(EdgeRows(ns, es)[p], w)
  BY <1>1, <1>7, <1>10 DEF EdgeRows
<1> HIDE DEF S, w, L, old
<1>13. EdgeRows(ns, fs) \in Seq(Seq(S)) /\ Len(EdgeRows(ns, fs)) = Len(fs)
  <2>1. EdgeRows(ns, fs) = [j \in 1..Len(fs) |-> EdgeRows(ns, fs)[j]]
    BY DEF EdgeRows
  <2>2. \A j \in 1..Len(es) : EdgeRows(ns, es)[j] \in Seq(S)
    BY <1>11
  <2>3. Append(EdgeRows(ns, es)[p], w) \in Seq(S)
    BY <1>2, <2>2
  <2>4. \A j \in 1..Len(fs) : EdgeRows(ns, fs)[j] \in Seq(S)
    BY <1>7, <1>12, <2>2, <2>3
  <2> QED
    BY <1>1, <1>7, <2>1, <2>4, TableOf
<1>14. Lengthened(EdgeRows(ns, es), EdgeRows(ns, fs), p, w)
  BY <1>7, <1>11, <1>12, <1>13 DEF Lengthened
<1> QED
  BY <1>8, <1>11, <1>13, <1>14, ArrowAdded DEF S, fs, L, w

(* A violation told by an edge of its own. *)
LEMMA NewEdge ==
    ASSUME NEW list, list \in Seq(Range(list)), NEW ns, NEW es, NEW n \in Nat, n < Len(list),
           Drawn(list, ns, es, n), list[n + 1] \in Violation, IsViolation(list[n + 1]),
           NEW from \in 1..Len(ns), NEW to \in 1..Len(ns),
           ns[from].key = SourceKey(list[n + 1]),
           \E t \in list[n + 1].to : ns[to].key = TargetKey(t)
    PROVE  Drawn(list, ns, Append(es, [from |-> from, to |-> to, line |-> list[n + 1].line,
                                       labels |-> <<Label(list[n + 1])>>]), n + 1)
<1> DEFINE S == Range(list)
           w == list[n + 1]
           L == Label(w)
           new == [from |-> from, to |-> to, line |-> w.line, labels |-> <<L>>]
           fs == Append(es, new)
           mid == Append(EdgeRows(ns, es), <<>>)
<1>0. Picture(ns, es)
  BY DEF Drawn
<1>1. /\ Len(ns) \in Nat /\ Len(es) \in Nat /\ ns \in Seq(Node) /\ es \in Seq(Edge)
      /\ DOMAIN es = 1..Len(es)
      /\ \A j \in 1..Len(es) : es[j].from \in 1..Len(ns) /\ es[j].to \in 1..Len(ns)
  BY <1>0, PictureFacts DEF Picture
<1>2. w \in S
  <2>1. n + 1 \in DOMAIN list
    OBVIOUS
  <2> QED
    BY <2>1 DEF Range
<1>3. new \in Edge /\ new.from = from /\ new.to = to /\ new.line = w.line /\ new.labels = <<L>>
  <2>1. L \in {Label(v) : v \in Violation} /\ w.line \in {v.line : v \in Violation}
    OBVIOUS
  <2>2. from \in Nat /\ to \in Nat
    BY <1>1
  <2> HIDE DEF w, L
  <2>3. <<L>> \in Seq({Label(v) : v \in Violation})
    BY <2>1
  <2> QED
    BY <2>1, <2>2, <2>3 DEF Edge
<1>4. EdgeRow(ns, new) = <<w>>
  <2>1. Leads(ns, new, w)
    BY <1>3 DEF Leads
  <2>2. ArrowIn(ns, new, L) = w
    <3> HIDE DEF new
    <3> QED
      BY <2>1, ArrowTold
  <2> HIDE DEF w, L, new
  <2>3. Len(<<L>>) = 1 /\ <<L>>[1] = L /\ 1..1 = {1}
    OBVIOUS
  <2>4. EdgeRow(ns, new) = [k \in 1..1 |-> w]
    BY <1>3, <2>2, <2>3 DEF EdgeRow
  <2> QED
    BY <2>4
<1> HIDE DEF new
<1>5. /\ fs \in Seq(Edge) /\ Len(fs) = Len(es) + 1 /\ fs[Len(es) + 1] = new
      /\ \A j \in 1..Len(es) : fs[j] = es[j]
  BY <1>1, <1>3
<1>51. Len(fs) \in Nat /\ \A j \in 1..Len(fs) : j \in 1..Len(es) \/ j = Len(es) + 1
  BY <1>1, <1>5
<1> HIDE DEF fs
<1>6. Picture(ns, fs)
  <2>1. \A j \in 1..Len(fs) : fs[j].from \in 1..Len(ns) /\ fs[j].to \in 1..Len(ns)
    BY <1>1, <1>3, <1>5, <1>51
  <2> QED
    BY <1>1, <1>5, <2>1 DEF Picture
<1>7. EdgeRows(ns, es) \in Seq(Seq(S)) /\ Len(EdgeRows(ns, es)) = Len(es)
  BY <1>0, RowsOfPicture DEF Drawn
<1>8. /\ \A j \in 1..Len(es) : EdgeRows(ns, fs)[j] = EdgeRows(ns, es)[j]
      /\ EdgeRows(ns, fs)[Len(es) + 1] = <<w>>
  BY <1>1, <1>4, <1>5 DEF EdgeRows
<1> HIDE DEF S, w, L
<1>9. EdgeRows(ns, fs) \in Seq(Seq(S)) /\ Len(EdgeRows(ns, fs)) = Len(fs)
  <2>1. EdgeRows(ns, fs) = [j \in 1..Len(fs) |-> EdgeRows(ns, fs)[j]]
    BY DEF EdgeRows
  <2>2. \A j \in 1..Len(es) : EdgeRows(ns, es)[j] \in Seq(S)
    BY <1>7
  <2>3. <<w>> \in Seq(S)
    BY <1>2
  <2>4. \A j \in 1..Len(fs) : EdgeRows(ns, fs)[j] \in Seq(S)
    BY <1>51, <1>8, <2>2, <2>3
  <2> QED
    BY <1>51, <2>1, <2>4, TableOf
<1>10. /\ mid \in Seq(Seq(S)) /\ Len(mid) = Len(es) + 1 /\ mid[Len(es) + 1] = <<>>
       /\ \A j \in 1..Len(es) : mid[j] = EdgeRows(ns, es)[j]
  <2> DEFINE t == EdgeRows(ns, es)
  <2>1. <<>> \in Seq(S)
    OBVIOUS
  <2>2. t \in Seq(Seq(S)) /\ Len(t) = Len(es)
    BY <1>7
  <2> HIDE DEF t
  <2>3. /\ Append(t, <<>>) \in Seq(Seq(S)) /\ Len(Append(t, <<>>)) = Len(t) + 1
        /\ Append(t, <<>>)[Len(t) + 1] = <<>>
        /\ \A j \in 1..Len(t) : Append(t, <<>>)[j] = t[j]
    BY <2>1, <2>2
  <2> QED
    BY <2>2, <2>3 DEF t
<1> HIDE DEF mid
<1>11. \A v : Cells(mid, v) = Cells(EdgeRows(ns, es), v)
  <2> DEFINE t == EdgeRows(ns, es)
  <2>1. /\ t \in Seq(Seq(S)) /\ mid \in Seq(Seq(S)) /\ Len(t) <= Len(mid)
        /\ \A i \in 1..Len(t) : mid[i] = t[i]
        /\ \A i \in 1..Len(mid) : i \in 1..Len(t) \/ mid[i] = <<>>
    <3>1. t \in Seq(Seq(S)) /\ Len(t) = Len(es) /\ mid \in Seq(Seq(S)) /\ Len(t) <= Len(mid)
      BY <1>1, <1>7, <1>10
    <3>2. \A i \in 1..Len(mid) : i \in 1..Len(es) \/ i = Len(es) + 1
      BY <1>1, <1>10
    <3> QED
      BY <1>10, <3>1, <3>2
  <2> HIDE DEF t
  <2>2. \A v : Cells(mid, v) = Cells(t, v)
    BY <2>1, EmptyRows
  <2> QED
    BY <2>2 DEF t
<1>12. Lengthened(mid, EdgeRows(ns, fs), Len(es) + 1, w)
  <2>1. Append(<<>>, w) = <<w>>
    OBVIOUS
  <2> DEFINE u == EdgeRows(ns, fs)
             q == Len(es) + 1
  <2>2. Len(u) = q /\ Len(mid) = q /\ q \in 1..q /\ mid[q] = <<>> /\ u[q] = <<w>>
    BY <1>1, <1>5, <1>8, <1>9, <1>10
  <2>3. \A j \in 1..q : j # q => u[j] = mid[j]
    <3>1. \A j \in 1..q : j # q => j \in 1..Len(es)
      BY <1>1
    <3> QED
      BY <1>8, <1>10, <3>1
  <2> HIDE DEF u, q
  <2>4. Lengthened(mid, u, q, w)
    BY <2>1, <2>2, <2>3 DEF Lengthened
  <2> QED
    BY <2>4 DEF u, q
<1> QED
  BY <1>6, <1>9, <1>10, <1>11, <1>12, ArrowAdded DEF S, fs, new, L, w

-----------------------------------------------------------------------------
(* The counts *)

Total == Len(report.violations)

(* The indices of the errors among the first n violations. *)
ErrorsUpTo(n) == {i \in 1..n : report.violations[i].severity = "error"}

(* The type invariant, as far as the counts go. *)
TypeOK ==
    /\ report \in InputReports
    /\ phase \in {"build", "write", "written", "failed"}
    /\ at \in 1..Total + 1
    /\ summary \in [total : Nat, error : Nat, warn : Nat, info : Nat, ignore : Nat]

(* The counts are those of the violations passed so far, and no report is   *)
(* written before all of them have been.                                    *)
Counted ==
    /\ summary.total = Total + Len(report.stale)
    /\ summary.error = Len(report.stale) + Cardinality(ErrorsUpTo(at - 1))
    /\ summary.error + summary.warn + summary.info + summary.ignore = Len(report.stale) + at - 1
    /\ phase \in {"write", "written"} => at = Total + 1

Inv == TypeOK /\ Counted

LEMMA Shape ==
    ASSUME NEW r \in InputReports
    PROVE  /\ Len(r.violations) \in Nat /\ Len(r.stale) \in Nat
           /\ DOMAIN r.violations = 1..Len(r.violations)
           /\ \A i \in 1..Len(r.violations) : r.violations[i].severity \in Severities
<1>1. /\ r.violations \in Seq(Range(r.violations)) /\ r.stale \in Seq(Range(r.stale))
      /\ \A v \in Range(r.violations) : v.severity \in Severities
  BY ReportsAssumption DEF IsViolation
<1>2. /\ Len(r.violations) \in Nat /\ Len(r.stale) \in Nat
      /\ DOMAIN r.violations = 1..Len(r.violations)
  BY <1>1
<1> QED
  BY <1>1, <1>2 DEF Range

(* One more violation adds one to the errors when it is one. *)
LEMMA OneMore ==
    ASSUME NEW n \in 0..Total, report \in InputReports
    PROVE  /\ IsFiniteSet(ErrorsUpTo(n)) /\ Cardinality(ErrorsUpTo(n)) \in Nat
           /\ n = 0 => Cardinality(ErrorsUpTo(n)) = 0
           /\ n < Total =>
                Cardinality(ErrorsUpTo(n + 1)) =
                    IF report.violations[n + 1].severity = "error"
                    THEN Cardinality(ErrorsUpTo(n)) + 1 ELSE Cardinality(ErrorsUpTo(n))
<1>1. Total \in Nat /\ n \in Nat /\ 1 \in Int /\ n \in Int
  BY Shape DEF Total
<1>2. IsFiniteSet(1..n)
  BY <1>1, FS_Interval
<1>3. IsFiniteSet(ErrorsUpTo(n))
  BY <1>2, FS_Subset DEF ErrorsUpTo
<1>4. Cardinality(ErrorsUpTo(n)) \in Nat
  BY <1>3, FS_CardinalityType
<1>5. n = 0 => ErrorsUpTo(n) = {}
  BY DEF ErrorsUpTo
<1>6. n + 1 \notin ErrorsUpTo(n)
  BY <1>1 DEF ErrorsUpTo
<1>7. ErrorsUpTo(n + 1) = IF report.violations[n + 1].severity = "error"
                          THEN ErrorsUpTo(n) \cup {n + 1} ELSE ErrorsUpTo(n)
  BY <1>1 DEF ErrorsUpTo
<1>8. Cardinality(ErrorsUpTo(n) \cup {n + 1}) = Cardinality(ErrorsUpTo(n)) + 1
  BY <1>3, <1>6, FS_AddElement
<1>9. n = 0 => Cardinality(ErrorsUpTo(n)) = 0
  BY <1>5, FS_EmptySet
<1> QED
  BY <1>3, <1>4, <1>7, <1>8, <1>9

LEMMA InitInv == ASSUME Init PROVE Inv
<1>1. report \in InputReports /\ phase = "build" /\ at = 1 /\ summary = Totals(report)
  BY DEF Init
<1>2. Total \in Nat /\ Len(report.stale) \in Nat
  BY <1>1, Shape DEF Total
<1>3. /\ summary \in [total : Nat, error : Nat, warn : Nat, info : Nat, ignore : Nat]
      /\ summary.total = Total + Len(report.stale) /\ summary.error = Len(report.stale)
      /\ summary.warn = 0 /\ summary.info = 0 /\ summary.ignore = 0
  <2>1. summary = [total |-> Total + Len(report.stale), error |-> Len(report.stale),
                   warn |-> 0, info |-> 0, ignore |-> 0]
    BY <1>1 DEF Totals, Zero, Total
  <2>2. Total + Len(report.stale) \in Nat
    BY <1>2
  <2> QED
    BY <1>2, <2>1, <2>2
<1>4. Cardinality(ErrorsUpTo(0)) = 0
  BY <1>1, <1>2, OneMore
<1>5. TypeOK
  BY <1>1, <1>2, <1>3 DEF TypeOK
<1>6. Counted
  BY <1>1, <1>2, <1>3, <1>4 DEF Counted
<1> QED
  BY <1>5, <1>6 DEF Inv

LEMMA BuildInv == ASSUME Inv, Build PROVE Inv'
<1> DEFINE s == report.violations[at].severity
<1>1. /\ phase = "build" /\ at <= Total /\ at' = at + 1
      /\ summary' = [summary EXCEPT ![s] = @ + 1]
      /\ UNCHANGED <<report, phase>>
  BY DEF Build, Total
<1>2. report \in InputReports /\ at \in Nat /\ at - 1 \in 0..Total /\ at - 1 < Total /\ Total \in Nat
  BY <1>1, Shape DEF Inv, TypeOK, Total
<1>3. s \in Severities /\ Len(report.stale) \in Nat
  BY <1>1, <1>2, Shape DEF Total
<1>4. summary \in [total : Nat, error : Nat, warn : Nat, info : Nat, ignore : Nat]
  BY DEF Inv, TypeOK
<1>5. /\ Cardinality(ErrorsUpTo(at - 1)) \in Nat
      /\ Cardinality(ErrorsUpTo(at)) = IF s = "error" THEN Cardinality(ErrorsUpTo(at - 1)) + 1
                                       ELSE Cardinality(ErrorsUpTo(at - 1))
  <2>1. (at - 1) + 1 = at
    BY <1>2
  <2> QED
    BY <1>2, <2>1, OneMore
<1>6. Total' = Total /\ ErrorsUpTo(at - 1)' = ErrorsUpTo(at)
  BY <1>1, <1>2 DEF Total, ErrorsUpTo
<1> HIDE DEF s
<1>7. /\ summary' \in [total : Nat, error : Nat, warn : Nat, info : Nat, ignore : Nat]
      /\ summary'.total = summary.total
      /\ summary'.error = IF s = "error" THEN summary.error + 1 ELSE summary.error
      /\ summary'.error + summary'.warn + summary'.info + summary'.ignore
            = summary.error + summary.warn + summary.info + summary.ignore + 1
  <2>1. CASE s = "error"
    BY <1>1, <1>4, <2>1
  <2>2. CASE s = "warn"
    BY <1>1, <1>4, <2>2
  <2>3. CASE s = "info"
    BY <1>1, <1>4, <2>3
  <2>4. CASE s = "ignore"
    BY <1>1, <1>4, <2>4
  <2> QED
    BY <1>3, <2>1, <2>2, <2>3, <2>4 DEF Severities
<1>8. TypeOK'
  BY <1>1, <1>2, <1>6, <1>7 DEF Inv, TypeOK
<1>9. Counted'
  BY <1>1, <1>2, <1>3, <1>5, <1>6, <1>7 DEF Inv, Counted
<1> QED
  BY <1>8, <1>9 DEF Inv

(* The counts stand once the violations have been passed. *)
LEMMA RestInv ==
    ASSUME Inv, Built \/ WritePiece \/ WriteAll \/ EndPieces \/ WriterFails \/ UNCHANGED vars
    PROVE  Inv'
<1>1. UNCHANGED <<report, at, summary>>
  BY DEF Built, WritePiece, WriteAll, EndPieces, WriterFails, vars
<1>2. /\ phase' \in {"build", "write", "written", "failed"}
      /\ phase' \in {"write", "written"} => at = Total + 1
  <2>1. Total \in Nat /\ at \in 1..Total + 1
    BY Shape DEF Inv, TypeOK, Total
  <2> QED
    BY <2>1 DEF Inv, TypeOK, Counted, Built, WritePiece, WriteAll, EndPieces, WriterFails, vars, Total
<1>3. Total' = Total /\ ErrorsUpTo(at - 1)' = ErrorsUpTo(at - 1)
  BY <1>1 DEF Total, ErrorsUpTo
<1> QED
  BY <1>1, <1>2, <1>3 DEF Inv, TypeOK, Counted

LEMMA Invariance == Spec => []Inv
<1>1. ASSUME Inv, [Next]_vars PROVE Inv'
  BY <1>1, BuildInv, RestInv DEF Next, Return
<1> QED
  BY <1>1, InitInv, PTL DEF Spec

(* The counts of a report are numbers and the loop stays in its bounds. *)
THEOREM TypeCorrect == Spec => []TypeOK
<1>1. Inv => TypeOK
  BY DEF Inv
<1> QED
  BY <1>1, Invariance, PTL

(* A written report's summary counts what the exit code counts, and its     *)
(* severities add up to its total.                                          *)
THEOREM SummaryCorrect == Spec => []SummaryAgrees
<1>1. ASSUME Inv, phase = "written"
      PROVE  /\ summary.total = summary.error + summary.warn + summary.info + summary.ignore
             /\ summary.error = ErrorCount
  <2>1. report \in InputReports /\ Total \in Nat /\ Len(report.stale) \in Nat
        /\ DOMAIN report.violations = 1..Total
    BY <1>1, Shape DEF Inv, TypeOK, Total
  <2>2. at = Total + 1
    BY <1>1 DEF Inv, Counted
  <2>3. ErrorsUpTo(at - 1) = {i \in DOMAIN report.violations : report.violations[i].severity = "error"}
    BY <2>1, <2>2 DEF ErrorsUpTo
  <2>4. summary.error = ErrorCount
    BY <1>1, <2>3 DEF Inv, Counted, ErrorCount
  <2>5. summary.total = summary.error + summary.warn + summary.info + summary.ignore
    BY <1>1, <2>1, <2>2 DEF Inv, Counted
  <2> QED
    BY <2>4, <2>5
<1>2. Inv => SummaryAgrees
  BY <1>1 DEF SummaryAgrees
<1> QED
  BY <1>2, Invariance, PTL

-----------------------------------------------------------------------------
(* The invariant: drawing and writing *)

(* What is drawn tells the violations passed so far, and what is written is *)
(* what was drawn.                                                          *)
OutputInv ==
    /\ phase = "build" => output = <<>>
    /\ phase = "write" /\ InPieces =>
         /\ Len(output) \in 0..Len(Rendered)
         /\ output = [i \in 1..Len(output) |-> Rendered[i]]
    /\ phase = "written" => output = Rendered

PictureInv == Inv /\ Drawn(report.violations, nodes, edges, at - 1) /\ OutputInv

LEMMA ViolationFacts ==
    ASSUME NEW r \in InputReports, NEW i \in 1..Len(r.violations)
    PROVE  /\ r.violations \in Seq(Range(r.violations))
           /\ r.violations[i] \in Violation /\ IsViolation(r.violations[i])
<1>1. r.violations \in Seq(Range(r.violations))
  BY ReportsAssumption
<1>2. r.violations[i] \in Range(r.violations)
  BY <1>1 DEF Range
<1> QED
  BY <1>1, <1>2, ReportsAssumption DEF Violation

LEMMA FirstPicture == ASSUME NEW list, list \in Seq(Range(list)) PROVE Drawn(list, <<>>, <<>>, 0)
<1>1. NodeRows(<<>>) = <<>> /\ EdgeRows(<<>>, <<>>) = <<>>
  BY DEF NodeRows, EdgeRows
<1>2. \A v : Cells(<<>>, v) = {} /\ Passed(list, 0, v) = {}
  BY DEF Cells, Passed
<1>3. Picture(<<>>, <<>>)
  BY DEF Picture
<1>4. IsFiniteSet({}) /\ Cardinality({}) = 0
  BY FS_EmptySet
<1>5. <<>> \in Seq(Seq(Range(list)))
  OBVIOUS
<1>6. ASSUME NEW v
      PROVE  /\ IsFiniteSet(Cells(NodeRows(<<>>), v)) /\ IsFiniteSet(Cells(EdgeRows(<<>>, <<>>), v))
             /\ Cardinality(Cells(NodeRows(<<>>), v)) + Cardinality(Cells(EdgeRows(<<>>, <<>>), v))
                  = Cardinality(Passed(list, 0, v))
  <2>1. Cells(NodeRows(<<>>), v) = {} /\ Cells(EdgeRows(<<>>, <<>>), v) = {} /\ Passed(list, 0, v) = {}
    BY <1>1, <1>2
  <2>2. 0 + 0 = 0
    OBVIOUS
  <2> QED
    BY <1>4, <2>1, <2>2, Zenon
<1>7. NodeRows(<<>>) \in Seq(Seq(Range(list))) /\ EdgeRows(<<>>, <<>>) \in Seq(Seq(Range(list)))
  BY <1>1, <1>5
<1> QED
  BY <1>3, <1>6, <1>7, Zenon DEF Drawn

(* The box of a key is found once there is one. *)
LEMMA BoxFound ==
    ASSUME NEW ns, ns \in Seq(Node), NEW i \in 1..Len(ns)
    PROVE  NodeOf(ns, ns[i].key) \in 1..Len(ns) /\ ns[NodeOf(ns, ns[i].key)].key = ns[i].key
<1>1. DOMAIN ns = 1..Len(ns)
  OBVIOUS
<1>2. \E j \in DOMAIN ns : ns[j].key = ns[i].key
  BY <1>1
<1>3. NodeOf(ns, ns[i].key) \in DOMAIN ns /\ ns[NodeOf(ns, ns[i].key)].key = ns[i].key
  BY <1>2 DEF NodeOf
<1> QED
  BY <1>1, <1>3

LEMMA BuildPicture == ASSUME PictureInv, Build PROVE PictureInv'
<1> DEFINE vs == report.violations
           n == at - 1
           v == vs[n + 1]
           list == Ensure(nodes, SourceKey(v))
<1>0. /\ Inv /\ Inv' /\ report \in InputReports
  BY BuildInv DEF PictureInv, Inv, TypeOK
<1>1. /\ n \in Nat /\ n < Len(vs) /\ n + 1 = at /\ phase = "build" /\ output = <<>> /\ at' = at + 1
      /\ phase' = phase /\ report' = report /\ output' = output
  <2>1. /\ phase = "build" /\ at <= Len(vs) /\ at' = at + 1
        /\ phase' = phase /\ report' = report /\ output' = output
    BY DEF Build
  <2>2. at \in 1..Len(vs) + 1 /\ Len(vs) \in Nat
    BY <1>0, Shape DEF Inv, TypeOK, Total
  <2>3. output = <<>>
    BY <2>1 DEF PictureInv, OutputInv
  <2> QED
    BY <2>1, <2>2, <2>3
<1>2. vs \in Seq(Range(vs)) /\ v \in Violation /\ IsViolation(v)
  BY <1>0, <1>1, ViolationFacts
<1>3. AddSource(v, list) \/ AddEdge(v, list)
  BY <1>1 DEF Build
<1>4. Drawn(vs, nodes, edges, n)
  BY DEF PictureInv
<1>5. SourceKey(v) \in Key
  BY <1>2 DEF Key
<1>6. Drawn(vs, list, edges, n)
  BY <1>4, <1>5, GrownPicture
<1>7. /\ nodes \in Seq(Node) /\ list \in Seq(Node)
      /\ NodeOf(list, SourceKey(v)) \in 1..Len(list)
      /\ list[NodeOf(list, SourceKey(v))].key = SourceKey(v)
  BY <1>4, <1>5, EnsureBox DEF Drawn, Picture
<1> HIDE DEF list
<1>8. ASSUME AddSource(v, list) PROVE Drawn(vs, nodes', edges', n + 1)
  <2> DEFINE p == NodeOf(list, SourceKey(v))
  <2>1. /\ v.to = {} /\ edges' = edges
        /\ nodes' = [list EXCEPT ![p].labels = Append(@, SourceLabel(v))]
    BY <1>8 DEF AddSource
  <2>2. p \in 1..Len(list) /\ list[p].key = SourceKey(v)
    BY <1>7
  <2> HIDE DEF p, vs, n
  <2> QED
    BY <1>1, <1>2, <1>6, <2>1, <2>2, LabelNode
<1>9. ASSUME AddEdge(v, list) PROVE Drawn(vs, nodes', edges', n + 1)
  <2> DEFINE Known(from, to) == {i \in DOMAIN edges : SameEdge(edges[i], from, to, v.line)}
  <2>1. PICK t \in v.to :
          LET all   == Ensure(list, TargetKey(t))
              from  == NodeOf(all, SourceKey(v))
              to    == NodeOf(all, TargetKey(t))
          IN  /\ nodes' = all
              /\ edges' = IF Known(from, to) # {}
                          THEN [edges EXCEPT ![CHOOSE i \in Known(from, to) : TRUE].labels = Append(@, Label(v))]
                          ELSE Append(edges, [from |-> from, to |-> to, line |-> v.line,
                                              labels |-> <<Label(v)>>])
    BY <1>9 DEF AddEdge
  <2> DEFINE all  == Ensure(list, TargetKey(t))
             from == NodeOf(all, SourceKey(v))
             to   == NodeOf(all, TargetKey(t))
             p    == CHOOSE i \in Known(from, to) : TRUE
  <2>2. TargetKey(t) \in Key
    BY <1>2 DEF Key
  <2>3. Drawn(vs, all, edges, n)
    BY <1>6, <2>2, GrownPicture
  <2>4. /\ all \in Seq(Node) /\ to \in 1..Len(all) /\ all[to].key = TargetKey(t)
        /\ Len(list) <= Len(all) /\ Len(list) \in Nat /\ Len(all) \in Nat
        /\ \A i \in 1..Len(list) : all[i] = list[i]
    BY <1>7, <2>2, EnsureBox
  <2>5. \E i \in 1..Len(all) : all[i].key = SourceKey(v)
    BY <1>7, <2>4
  <2>6. from \in 1..Len(all) /\ all[from].key = SourceKey(v)
    <3>1. PICK i \in 1..Len(all) : all[i].key = SourceKey(v)
      BY <2>5
    <3>2. all \in Seq(Node)
      BY <2>4
    <3> DEFINE k == SourceKey(v)
    <3>3. all[i].key = k
      BY <3>1
    <3> HIDE DEF all, k, v
    <3>4. NodeOf(all, all[i].key) \in 1..Len(all) /\ all[NodeOf(all, all[i].key)].key = all[i].key
      BY <3>2, BoxFound
    <3>5. NodeOf(all, k) \in 1..Len(all) /\ all[NodeOf(all, k)].key = k
      BY <3>3, <3>4, Zenon
    <3> QED
      BY <3>5 DEF k
  <2>7. DOMAIN edges = 1..Len(edges)
    BY <1>4, PictureFacts DEF Drawn
  <2>8. nodes' = all
    BY <2>1
  <2>9. CASE Known(from, to) # {}
    <3>1. edges' = [edges EXCEPT ![p].labels = Append(@, Label(v))]
      BY <2>1, <2>9
    <3>2. p \in 1..Len(edges) /\ SameEdge(edges[p], from, to, v.line)
      BY <2>7, <2>9
    <3>3. Leads(all, edges[p], v)
      <4> HIDE DEF all, from, to, p, v
      <4> QED
        BY <2>4, <2>6, <3>2 DEF Leads, SameEdge
    <3> HIDE DEF p, vs, n, all
    <3>4. Drawn(vs, all, [edges EXCEPT ![p].labels = Append(@, Label(v))], n + 1)
      BY <1>1, <1>2, <2>3, <3>2, <3>3, LabelEdge
    <3> QED
      BY <2>8, <3>1, <3>4
  <2>10. CASE Known(from, to) = {}
    <3>1. edges' = Append(edges, [from |-> from, to |-> to, line |-> v.line, labels |-> <<Label(v)>>])
      BY <2>1, <2>10
    <3>2. \E q \in v.to : all[to].key = TargetKey(q)
      BY <2>4
    <3> HIDE DEF from, to, vs, n, all
    <3>3. Drawn(vs, all, Append(edges, [from |-> from, to |-> to, line |-> v.line,
                                        labels |-> <<Label(v)>>]), n + 1)
      BY <1>1, <1>2, <2>3, <2>4, <2>6, <3>2, NewEdge
    <3> QED
      BY <2>8, <3>1, <3>3
  <2> QED
    BY <2>9, <2>10
<1>10. Drawn(vs, nodes', edges', n + 1)
  BY <1>3, <1>8, <1>9
<1>11. Drawn(report.violations, nodes, edges, at - 1)'
  <2>1. n + 1 = at' - 1
    BY <1>1
  <2> QED
    BY <1>1, <1>10, <2>1
<1>12. OutputInv'
  BY <1>1 DEF OutputInv
<1> QED
  BY <1>0, <1>11, <1>12 DEF PictureInv

(* c is a and then b. *)
Follows(c, a, b) ==
    /\ Len(a) \in Nat /\ Len(b) \in Nat
    /\ Len(c) = Len(a) + Len(b) /\ DOMAIN c = 1..Len(a) + Len(b)
    /\ \A i \in 1..Len(a) : c[i] = a[i]
    /\ \A i \in 1..Len(b) : c[Len(a) + i] = b[i]
    /\ \A i \in 1..Len(a) + Len(b) : i \in 1..Len(a) \/ \E j \in 1..Len(b) : i = Len(a) + j

LEMMA Concatenated ==
    ASSUME NEW S, NEW a, a \in Seq(S), NEW b, b \in Seq(S)
    PROVE  a \o b \in Seq(S) /\ Follows(a \o b, a, b)
<1>1. /\ a \o b \in Seq(S) /\ Len(a) \in Nat /\ Len(b) \in Nat
      /\ Len(a \o b) = Len(a) + Len(b) /\ DOMAIN (a \o b) = 1..Len(a) + Len(b)
  OBVIOUS
<1>2. /\ \A i \in 1..Len(a) : (a \o b)[i] = a[i]
      /\ \A i \in 1..Len(b) : (a \o b)[Len(a) + i] = b[i]
  OBVIOUS
<1>3. ASSUME NEW i \in 1..Len(a) + Len(b), i \notin 1..Len(a)
      PROVE  \E j \in 1..Len(b) : i = Len(a) + j
  <2>1. i - Len(a) \in 1..Len(b) /\ i = Len(a) + (i - Len(a))
    BY <1>1, <1>3
  <2> QED
    BY <2>1
<1> QED
  BY <1>1, <1>2, <1>3, Zenon DEF Follows

(* The items of a list are of S, and items has them in order. *)
Within(kind, list, S) == \A i \in 1..Len(list) : [item |-> kind, value |-> list[i]] \in S

Lists(items, kind, list, S) ==
    /\ items \in Seq(S) /\ Len(items) = Len(list)
    /\ \A i \in 1..Len(list) : items[i] = [item |-> kind, value |-> list[i]]

LEMMA ItemsFacts ==
    ASSUME NEW kind, NEW T, NEW list, list \in Seq(T), NEW S, Within(kind, list, S)
    PROVE  Lists(Items(kind, list), kind, list, S)
<1>1. DOMAIN list = 1..Len(list) /\ Len(list) \in Nat
  OBVIOUS
<1>2. Items(kind, list) = [i \in 1..Len(list) |-> [item |-> kind, value |-> list[i]]]
  BY <1>1 DEF Items
<1> HIDE DEF Items
<1> QED
  BY <1>1, <1>2 DEF Lists, Within

(* The box of a node, as it is written. *)
Drawing(i) == [id |-> i, key |-> nodes[i].key, labels |-> nodes[i].labels]

(* Everything that may be written. *)
AnItem ==
    {[item |-> "node", value |-> Drawing(i)] : i \in 1..Len(nodes)}
    \cup {[item |-> "stale", value |-> report.stale[i]] : i \in 1..Len(report.stale)}
    \cup {[item |-> "edge", value |-> edges[i]] : i \in 1..Len(edges)}
    \cup {[item |-> "violation", value |-> report.violations[i]] : i \in 1..Total}
    \cup {[item |-> "summary", value |-> summary]}

Arrows == Items("edge", edges)

LEMMA PartsFacts ==
    ASSUME PictureInv
    PROVE  /\ Boxes \in Seq(AnItem) /\ Len(Boxes) = Len(nodes)
           /\ \A i \in 1..Len(nodes) : Boxes[i] = [item |-> "node", value |-> Drawing(i)]
           /\ Stale \in Seq(AnItem) /\ Len(Stale) = Len(report.stale)
           /\ \A i \in 1..Len(report.stale) : Stale[i] = [item |-> "stale", value |-> report.stale[i]]
           /\ Arrows \in Seq(AnItem) /\ Len(Arrows) = Len(edges)
           /\ \A i \in 1..Len(edges) : Arrows[i] = [item |-> "edge", value |-> edges[i]]
           /\ Violations \in Seq(AnItem) /\ Len(Violations) = Total
           /\ \A i \in 1..Total :
                Violations[i] = [item |-> "violation", value |-> report.violations[i]]
           /\ Summary \in Seq(AnItem) /\ Len(Summary) = 1
           /\ Summary[1] = [item |-> "summary", value |-> summary]
<1>1. /\ report \in InputReports /\ Picture(nodes, edges)
      /\ report.violations \in Seq(Range(report.violations)) /\ report.stale \in Seq(Range(report.stale))
  BY ReportsAssumption DEF PictureInv, Inv, TypeOK, Drawn
<1>2. nodes \in Seq(Node) /\ edges \in Seq(Edge)
  BY <1>1 DEF Picture
<1>3. Lists(Stale, "stale", report.stale, AnItem)
  <2>1. Within("stale", report.stale, AnItem)
    BY DEF AnItem, Within
  <2> QED
    BY <1>1, <2>1, ItemsFacts DEF Stale
<1>4. Lists(Violations, "violation", report.violations, AnItem)
  <2>1. Within("violation", report.violations, AnItem)
    BY DEF AnItem, Within, Total
  <2> QED
    BY <1>1, <2>1, ItemsFacts DEF Violations
<1>5. Lists(Arrows, "edge", edges, AnItem)
  <2>1. Within("edge", edges, AnItem)
    BY DEF AnItem, Within
  <2> QED
    BY <1>2, <2>1, ItemsFacts DEF Arrows
<1>6. /\ Summary \in Seq(AnItem) /\ Len(Summary) = 1
      /\ Summary[1] = [item |-> "summary", value |-> summary]
  <2> DEFINE one == <<summary>>
  <2>1. [item |-> "summary", value |-> summary] \in AnItem
    BY DEF AnItem
  <2>2. one \in Seq({summary}) /\ Len(one) = 1 /\ one[1] = summary /\ \A i \in 1..1 : i = 1
    OBVIOUS
  <2>3. Summary = Items("summary", one)
    BY DEF Summary
  <2> HIDE DEF one
  <2>4. Within("summary", one, AnItem)
    BY <2>1, <2>2 DEF Within
  <2>5. Lists(Summary, "summary", one, AnItem)
    BY <2>2, <2>3, <2>4, ItemsFacts
  <2>6. 1 \in 1..1
    OBVIOUS
  <2> QED
    BY <2>2, <2>5, <2>6 DEF Lists
<1>7. /\ Boxes \in Seq(AnItem) /\ Len(Boxes) = Len(nodes)
      /\ \A i \in 1..Len(nodes) : Boxes[i] = [item |-> "node", value |-> Drawing(i)]
  <2> DEFINE list == [i \in DOMAIN nodes |-> Drawing(i)]
             T == {Drawing(i) : i \in 1..Len(nodes)}
  <2>1. Len(nodes) \in Nat /\ DOMAIN nodes = 1..Len(nodes)
    BY <1>2
  <2>2. list = [i \in 1..Len(nodes) |-> Drawing(i)]
    BY <2>1
  <2>3. \A i \in 1..Len(nodes) : Drawing(i) \in T
    OBVIOUS
  <2>4. Boxes = Items("node", list)
    BY DEF Boxes, Drawing
  <2> HIDE DEF list, T
  <2>5. list \in Seq(T) /\ Len(list) = Len(nodes) /\ \A i \in 1..Len(nodes) : list[i] = Drawing(i)
    BY <2>1, <2>2, <2>3
  <2>6. Within("node", list, AnItem)
    BY <2>5 DEF AnItem, Within
  <2>7. Lists(Boxes, "node", list, AnItem)
    BY <2>4, <2>5, <2>6, ItemsFacts
  <2> QED
    BY <2>5, <2>7 DEF Lists
<1> QED
  BY <1>3, <1>4, <1>5, <1>6, <1>7, Zenon DEF Lists, Total

LEMMA RenderedFacts == ASSUME PictureInv PROVE Rendered \in Seq(AnItem) /\ Len(Rendered) \in Nat
<1>1. /\ Boxes \in Seq(AnItem) /\ Stale \in Seq(AnItem) /\ Arrows \in Seq(AnItem)
      /\ Violations \in Seq(AnItem) /\ Summary \in Seq(AnItem)
  BY PartsFacts
<1>2. Graph = (Boxes \o Stale) \o Arrows
  BY DEF Graph, Arrows
<1>3. \A a, b : a \in Seq(AnItem) /\ b \in Seq(AnItem) => a \o b \in Seq(AnItem)
  BY Concatenated
<1>4. Rendered \in Seq(AnItem)
  <2>1. /\ Violations \o Stale \in Seq(AnItem) /\ (Violations \o Stale) \o Summary \in Seq(AnItem)
        /\ (Summary \o Violations) \o Stale \in Seq(AnItem) /\ Graph \in Seq(AnItem)
    <3>1. /\ Violations \o Stale \in Seq(AnItem) /\ Summary \o Violations \in Seq(AnItem)
          /\ Boxes \o Stale \in Seq(AnItem)
      BY <1>1, <1>3
    <3> QED
      BY <1>1, <1>2, <1>3, <3>1
  <2> QED
    BY <2>1 DEF Rendered
<1> QED
  BY <1>4

(* One piece more of what is written. *)
LEMMA OnePiece ==
    ASSUME NEW S, NEW list, list \in Seq(S), NEW out, NEW n \in Nat, n < Len(list),
           out = [i \in 1..n |-> list[i]]
    PROVE  /\ Append(out, list[n + 1]) = [i \in 1..n + 1 |-> list[i]]
           /\ Len(Append(out, list[n + 1])) = n + 1
<1>1. \A i \in 1..n + 1 : list[i] \in S
  OBVIOUS
<1>2. out \in Seq(S) /\ Len(out) = n
  BY <1>1
<1> QED
  BY <1>1, <1>2

LEMMA RestPicture ==
    ASSUME PictureInv, Built \/ WritePiece \/ WriteAll \/ EndPieces \/ WriterFails \/ UNCHANGED vars
    PROVE  PictureInv'
<1>1. Inv'
  BY RestInv DEF PictureInv
<1>2. UNCHANGED <<report, format, at, nodes, edges, summary>>
  BY DEF Built, WritePiece, WriteAll, EndPieces, WriterFails, vars
<1>3. Drawn(report.violations, nodes, edges, at - 1)'
  BY <1>2 DEF PictureInv
<1>4. Rendered' = Rendered /\ InPieces' = InPieces
  BY <1>2 DEF Rendered, InPieces, Graph, Boxes, Items, Stale, Violations, Summary
<1>5. Rendered \in Seq(AnItem) /\ Len(Rendered) \in Nat
  BY RenderedFacts
<1>6. OutputInv
  BY DEF PictureInv
<1>7. OutputInv'
  <2>1. CASE Built
    <3>1. phase' \in {"write", "failed"} /\ output' = output /\ output = <<>>
      BY <1>6, <2>1 DEF Built, OutputInv
    <3>2. Len(<<>>) = 0 /\ <<>> = [i \in 1..0 |-> Rendered[i]]
      OBVIOUS
    <3> QED
      BY <1>4, <1>5, <3>1, <3>2 DEF OutputInv
  <2>2. CASE WritePiece
    <3> DEFINE n == Len(output)
    <3>1. /\ phase' = "write" /\ n < Len(Rendered) /\ output' = Append(output, Rendered[n + 1])
          /\ n \in 0..Len(Rendered) /\ output = [i \in 1..n |-> Rendered[i]]
      BY <1>6, <2>2 DEF WritePiece, OutputInv
    <3> HIDE DEF n
    <3>2. n \in Nat /\ n + 1 \in 0..Len(Rendered)
      BY <1>5, <3>1
    <3>3. output' = [i \in 1..n + 1 |-> Rendered[i]] /\ Len(output') = n + 1
      BY <1>5, <3>1, <3>2, OnePiece
    <3> QED
      BY <1>4, <3>1, <3>2, <3>3 DEF OutputInv
  <2>3. CASE WriteAll
    BY <1>4, <2>3 DEF WriteAll, OutputInv
  <2>4. CASE EndPieces
    <3>1. /\ phase' = "written" /\ output' = output
          /\ output = [i \in 1..Len(Rendered) |-> Rendered[i]]
      BY <1>6, <2>4 DEF EndPieces, OutputInv
    <3>2. output = Rendered
      BY <1>5, <3>1
    <3> QED
      BY <1>4, <3>1, <3>2 DEF OutputInv
  <2>5. CASE WriterFails
    BY <2>5 DEF WriterFails, OutputInv
  <2>6. CASE UNCHANGED vars
    BY <1>4, <1>6, <2>6 DEF vars, OutputInv
  <2> QED
    BY <2>1, <2>2, <2>3, <2>4, <2>5, <2>6
<1> QED
  BY <1>1, <1>3, <1>7 DEF PictureInv

LEMMA InitPicture == ASSUME Init PROVE PictureInv
<1>1. /\ Inv /\ report \in InputReports /\ nodes = <<>> /\ edges = <<>> /\ output = <<>>
      /\ phase = "build" /\ at = 1
  BY InitInv DEF Init
<1>2. Drawn(report.violations, <<>>, <<>>, 0)
  BY <1>1, ReportsAssumption, FirstPicture
<1>3. at - 1 = 0
  BY <1>1
<1> QED
  BY <1>1, <1>2, <1>3 DEF PictureInv, OutputInv

LEMMA PictureInvariance == Spec => []PictureInv
<1>1. ASSUME PictureInv, [Next]_vars PROVE PictureInv'
  BY <1>1, BuildPicture, RestPicture DEF Next, Return
<1> QED
  BY <1>1, InitPicture, PTL DEF Spec

-----------------------------------------------------------------------------
(* What the items of a written report tell *)

(* What the items of the output tell, item by item. *)
OutputRows == [i \in DOMAIN output |-> Tells(output[i])]

(* The output is a list of pieces, and one of them starts after item n. *)
PieceAt(kind, list, n) ==
    /\ n \in Nat /\ n + Len(list) <= Len(output)
    /\ \A i \in 1..Len(list) : output[n + i] = [item |-> kind, value |-> list[i]]
    /\ \A i \in 1..Len(output) : i \in n + 1..n + Len(list) \/ output[i].item # kind

LEMMA PlacesCounted ==
    ASSUME NEW v
    PROVE  Places(v) = Cells(OutputRows, v)
<1>1. \A i \in DOMAIN output : OutputRows[i] = Tells(output[i])
  BY DEF OutputRows
<1>2. DOMAIN OutputRows = DOMAIN output
  BY DEF OutputRows
<1> HIDE DEF OutputRows
<1>3. ASSUME NEW c PROVE c \in Places(v) <=> c \in Cells(OutputRows, v)
  <2>1. c \in Places(v) <=>
            \E i \in DOMAIN output : \E k \in DOMAIN Tells(output[i]) : c = <<i, k>> /\ Tells(output[i])[k] = v
    BY DEF Places
  <2>2. c \in Cells(OutputRows, v) <=>
            \E i \in DOMAIN OutputRows : \E k \in DOMAIN OutputRows[i] : c = <<i, k>> /\ OutputRows[i][k] = v
    BY CellsIn
  <2> QED
    BY <1>1, <1>2, <2>1, <2>2
<1> QED
  BY <1>3

LEMMA StaleInOrder ==
    ASSUME NEW n, PieceAt("stale", report.stale, n), Len(output) \in Nat, Len(report.stale) \in Nat,
           DOMAIN output = 1..Len(output)
    PROVE  \E m \in 0..Len(output) :
               /\ Written("stale") = m + 1..m + Len(report.stale)
               /\ \A k \in 1..Len(report.stale) : output[m + k].value = report.stale[k]
<1>1. /\ n \in Nat /\ n + Len(report.stale) <= Len(output)
      /\ \A i \in 1..Len(report.stale) : output[n + i] = [item |-> "stale", value |-> report.stale[i]]
      /\ \A i \in 1..Len(output) : i \in n + 1..n + Len(report.stale) \/ output[i].item # "stale"
  BY DEF PieceAt
<1>2. ASSUME NEW i \in 1..Len(report.stale)
      PROVE  output[n + i].item = "stale" /\ output[n + i].value = report.stale[i]
  <2>1. output[n + i] = [item |-> "stale", value |-> report.stale[i]]
    BY <1>1, Zenon
  <2> QED
    BY <2>1
<1>3. ASSUME NEW q \in n + 1..n + Len(report.stale) PROVE q \in 1..Len(output) /\ output[q].item = "stale"
  <2>1. q - n \in 1..Len(report.stale) /\ n + (q - n) = q
    BY <1>1
  <2>2. output[n + (q - n)].item = "stale"
    BY <1>2, <2>1
  <2> QED
    BY <1>1, <2>1, <2>2
<1>4. Written("stale") = n + 1..n + Len(report.stale)
  BY <1>1, <1>3 DEF Written
<1>5. n \in 0..Len(output)
  BY <1>1
<1> QED
  BY <1>2, <1>4, <1>5

(* A list format: every violation an item of its own. *)
LEMMA ListTold ==
    ASSUME report \in InputReports, NEW n, PieceAt("violation", report.violations, n),
           output \in Seq(AnItem),
           \A i \in 1..Len(output) : output[i].item \in {"violation", "stale", "summary"}
    PROVE  /\ OutputRows \in Seq(Seq(Range(report.violations)))
           /\ \A v : Cardinality(Places(v)) = Cardinality(Occurrences(v))
<1> DEFINE vs == report.violations
           S == Range(vs)
<1>1. /\ vs \in Seq(S) /\ Len(vs) \in Nat /\ DOMAIN vs = 1..Len(vs)
      /\ Len(output) \in Nat /\ DOMAIN output = 1..Len(output)
  <2>1. vs \in Seq(S)
    BY ReportsAssumption
  <2> HIDE DEF vs, S
  <2> QED
    BY <2>1
<1>2. /\ n \in Nat /\ n + Len(vs) <= Len(output)
      /\ \A i \in 1..Len(vs) : output[n + i] = [item |-> "violation", value |-> vs[i]]
      /\ \A i \in 1..Len(output) : i \in n + 1..n + Len(vs) \/ output[i].item # "violation"
  BY DEF PieceAt
<1>3. ASSUME NEW i \in 1..Len(vs) PROVE OutputRows[n + i] = <<vs[i]>>
  <2>1. n + i \in DOMAIN output
    BY <1>1, <1>2
  <2>2. output[n + i].item = "violation" /\ output[n + i].value = vs[i]
    <3>1. output[n + i] = [item |-> "violation", value |-> vs[i]]
      BY <1>2, Zenon
    <3> QED
      BY <3>1
  <2>3. Tells(output[n + i]) = <<vs[i]>>
    BY <2>2 DEF Tells
  <2> QED
    BY <2>1, <2>3 DEF OutputRows
<1>4. ASSUME NEW i \in 1..Len(output), i \notin n + 1..n + Len(vs) PROVE OutputRows[i] = <<>>
  <2>1. output[i].item \in {"stale", "summary"}
    BY <1>2, <1>4
  <2>2. Tells(output[i]) = <<>>
    BY <2>1 DEF Tells
  <2> QED
    BY <1>1, <2>2 DEF OutputRows
<1>5. DOMAIN OutputRows = 1..Len(output) /\ OutputRows = [i \in 1..Len(output) |-> OutputRows[i]]
  BY <1>1 DEF OutputRows
<1> DEFINE u == OutputRows
<1>6. \A i \in 1..Len(output) : u[i] \in Seq(S)
  <2>1. ASSUME NEW i \in 1..Len(output), i \in n + 1..n + Len(vs) PROVE u[i] \in Seq(S)
    <3>1. i - n \in 1..Len(vs) /\ n + (i - n) = i
      BY <1>1, <1>2, <2>1
    <3>2. u[i] = <<vs[i - n]>> /\ vs[i - n] \in S
      <4>1. u[n + (i - n)] = <<vs[i - n]>>
        BY <1>3, <3>1
      <4> HIDE DEF vs, S
      <4>2. vs[i - n] \in S
        BY <1>1, <3>1
      <4> QED
        BY <3>1, <4>1, <4>2
    <3> QED
      BY <3>2
  <2>2. <<>> \in Seq(S)
    OBVIOUS
  <2> QED
    BY <1>4, <2>1, <2>2
<1> HIDE DEF vs, S, u
<1>7. u \in Seq(Seq(S)) /\ Len(u) = Len(output)
  <2>1. u = [i \in 1..Len(output) |-> u[i]]
    BY <1>5 DEF u
  <2> QED
    BY <1>1, <1>6, <2>1, TableOf
<1>8. ASSUME NEW v PROVE Cardinality(Places(v)) = Cardinality(Occurrences(v))
  <2>1. OneEach(vs, u, n)
    BY <1>2, <1>3, <1>4, <1>7 DEF u, OneEach
  <2>2. Cardinality(Cells(u, v)) = Cardinality({i \in DOMAIN vs : vs[i] = v})
    BY <1>1, <1>2, <1>7, <2>1, ListedRows
  <2> QED
    BY <2>2, PlacesCounted DEF Occurrences, u, vs
<1> QED
  BY <1>7, <1>8 DEF u, S, vs

LEMMA GraphTold ==
    ASSUME PictureInv, output = Graph, at = Total + 1
    PROVE  /\ OutputRows \in Seq(Seq(Range(report.violations)))
           /\ \A v \in Range(report.violations) : Cardinality(Places(v)) = Cardinality(Occurrences(v))
           /\ PieceAt("stale", report.stale, Len(nodes))
<1> DEFINE N == Len(nodes)
           T == Len(report.stale)
           E == Len(edges)
           S == Range(report.violations)
<1>1. /\ report \in InputReports /\ Picture(nodes, edges) /\ Drawn(report.violations, nodes, edges, Total)
      /\ T \in Nat /\ Total \in Nat
  BY Shape DEF PictureInv, Inv, TypeOK, Drawn, Total
<1>2. /\ N \in Nat /\ E \in Nat
      /\ \A i \in 1..N : DOMAIN nodes[i].labels = 1..Len(nodes[i].labels)
      /\ \A j \in 1..E :
            /\ DOMAIN edges[j].labels = 1..Len(edges[j].labels)
            /\ edges[j].from \in 1..N /\ edges[j].to \in 1..N
  <2>1. \A X, q : q \in Seq(X) => DOMAIN q = 1..Len(q)
    OBVIOUS
  <2>2. /\ N \in Nat /\ E \in Nat
        /\ \A i \in 1..N : nodes[i].labels \in Seq({SourceLabel(v) : v \in Violation})
        /\ \A j \in 1..E :
              /\ edges[j].labels \in Seq({Label(v) : v \in Violation})
              /\ edges[j].from \in 1..N /\ edges[j].to \in 1..N
    BY <1>1, PictureFacts
  <2> HIDE DEF N, E
  <2> QED
    BY <2>1, <2>2
<1> HIDE DEF N, T, E, S
<1>3. /\ Len(output) = N + T + E /\ DOMAIN output = 1..N + T + E
      /\ \A i \in 1..N : output[i] = [item |-> "node", value |-> Drawing(i)]
      /\ \A i \in 1..T : output[N + i] = [item |-> "stale", value |-> report.stale[i]]
      /\ \A i \in 1..E : output[N + T + i] = [item |-> "edge", value |-> edges[i]]
      /\ \A i \in 1..N + T + E : i \in 1..N + T \/ \E j \in 1..E : i = N + T + j
      /\ \A i \in 1..N + T : i \in 1..N \/ \E j \in 1..T : i = N + j
  <2> DEFINE a == Boxes
             b == Stale
             c == Arrows
             ab == a \o b
  <2>1. /\ a \in Seq(AnItem) /\ Len(a) = N
        /\ \A i \in 1..N : a[i] = [item |-> "node", value |-> Drawing(i)]
        /\ b \in Seq(AnItem) /\ Len(b) = T
        /\ \A i \in 1..T : b[i] = [item |-> "stale", value |-> report.stale[i]]
        /\ c \in Seq(AnItem) /\ Len(c) = E
        /\ \A i \in 1..E : c[i] = [item |-> "edge", value |-> edges[i]]
    BY PartsFacts DEF N, T, E
  <2>2. output = ab \o c
    BY DEF Graph, Arrows
  <2> HIDE DEF a, b, c
  <2>3. /\ ab \in Seq(AnItem) /\ Len(ab) = N + T
        /\ \A i \in 1..N : ab[i] = a[i]
        /\ \A i \in 1..T : ab[N + i] = b[i]
        /\ \A i \in 1..N + T : i \in 1..N \/ \E j \in 1..T : i = N + j
    <3>1. ab \in Seq(AnItem) /\ Follows(ab, a, b)
      BY <2>1, Concatenated
    <3> HIDE DEF ab
    <3> QED
      BY <2>1, <3>1 DEF Follows
  <2> HIDE DEF ab
  <2>4. /\ Len(output) = N + T + E /\ DOMAIN output = 1..N + T + E
        /\ \A i \in 1..N + T : output[i] = ab[i]
        /\ \A i \in 1..E : output[N + T + i] = c[i]
        /\ \A i \in 1..N + T + E : i \in 1..N + T \/ \E j \in 1..E : i = N + T + j
    <3>1. Follows(output, ab, c)
      BY <2>1, <2>2, <2>3, Concatenated
    <3>2. Len(ab) = N + T /\ Len(c) = E
      BY <2>1, <2>3, Zenon
    <3>3. /\ Len(output) = Len(ab) + Len(c) /\ DOMAIN output = 1..Len(ab) + Len(c)
          /\ \A i \in 1..Len(ab) : output[i] = ab[i]
          /\ \A i \in 1..Len(c) : output[Len(ab) + i] = c[i]
          /\ \A i \in 1..Len(ab) + Len(c) : i \in 1..Len(ab) \/ \E j \in 1..Len(c) : i = Len(ab) + j
      BY <3>1, Zenon DEF Follows
    <3> QED
      BY <3>2, <3>3
  <2>5. /\ \A i \in 1..N : i \in 1..N + T
        /\ \A i \in 1..T : N + i \in 1..N + T
    BY <1>1, <1>2
  <2>6. ASSUME NEW i \in 1..N PROVE output[i] = [item |-> "node", value |-> Drawing(i)]
    <3>1. output[i] = ab[i]
      BY <2>4, <2>5, Zenon
    <3>2. ab[i] = a[i]
      BY <2>3, Zenon
    <3>3. a[i] = [item |-> "node", value |-> Drawing(i)]
      BY <2>1, Zenon
    <3> QED
      BY <3>1, <3>2, <3>3, Zenon
  <2>7. ASSUME NEW i \in 1..T PROVE output[N + i] = [item |-> "stale", value |-> report.stale[i]]
    <3>1. output[N + i] = ab[N + i]
      BY <2>4, <2>5, Zenon
    <3>2. ab[N + i] = b[i]
      BY <2>3, Zenon
    <3>3. b[i] = [item |-> "stale", value |-> report.stale[i]]
      BY <2>1, Zenon
    <3> QED
      BY <3>1, <3>2, <3>3, Zenon
  <2>8. \A i \in 1..E : output[N + T + i] = [item |-> "edge", value |-> edges[i]]
    BY <2>1, <2>4, Zenon
  <2> QED
    BY <2>3, <2>4, <2>6, <2>7, <2>8, Zenon
<1>4. ASSUME NEW i \in 1..N
      PROVE  /\ output[i].item = "node" /\ output[i].value = Drawing(i) /\ output[i].value.id = i
             /\ output[i].value.key = nodes[i].key /\ output[i].value.labels = nodes[i].labels
  <2>1. output[i] = [item |-> "node", value |-> Drawing(i)]
    BY <1>3, Zenon
  <2> QED
    BY <2>1 DEF Drawing
<1>5. ASSUME NEW i \in 1..T
      PROVE  output[N + i].item = "stale" /\ output[N + i].value = report.stale[i]
  <2>1. output[N + i] = [item |-> "stale", value |-> report.stale[i]]
    BY <1>3, Zenon
  <2> QED
    BY <2>1
<1>6. ASSUME NEW j \in 1..E
      PROVE  output[N + T + j].item = "edge" /\ output[N + T + j].value = edges[j]
  <2>1. output[N + T + j] = [item |-> "edge", value |-> edges[j]]
    BY <1>3, Zenon
  <2> QED
    BY <2>1
<1>7. ASSUME NEW id \in 1..N PROVE Box(id) = nodes[id].key
  <2>1. Written("node") = 1..N
    <3>1. ASSUME NEW i \in DOMAIN output PROVE i \in Written("node") <=> i \in 1..N
      <4>1. i \in 1..N \/ (\E j \in 1..T : i = N + j) \/ \E j \in 1..E : i = N + T + j
        BY <1>3
      <4>2. i \in 1..N => output[i].item = "node"
        BY <1>4
      <4>3. ASSUME NEW j \in 1..T, i = N + j PROVE output[i].item # "node" /\ i \notin 1..N
        <5>1. output[N + j].item = "stale"
          BY <1>5
        <5>2. N + j \notin 1..N
          BY <1>1, <1>2
        <5> QED
          BY <4>3, <5>1, <5>2
      <4>4. ASSUME NEW j \in 1..E, i = N + T + j PROVE output[i].item # "node" /\ i \notin 1..N
        <5>1. output[N + T + j].item = "edge"
          BY <1>6
        <5>2. N + T + j \notin 1..N
          BY <1>1, <1>2
        <5> QED
          BY <4>4, <5>1, <5>2
      <4> QED
        BY <4>1, <4>2, <4>3, <4>4 DEF Written
    <3>2. 1..N \subseteq DOMAIN output
      BY <1>1, <1>2, <1>3
    <3> QED
      BY <3>1, <3>2 DEF Written
  <2>2. (CHOOSE i \in Written("node") : output[i].value.id = id) = id
    <3>1. \A i \in Written("node") : output[i].value.id = id <=> i = id
      BY <1>4, <2>1
    <3>2. id \in Written("node")
      BY <2>1
    <3> QED
      BY <3>1, <3>2
  <2> QED
    BY <1>4, <2>2 DEF Box
<1>8. ASSUME NEW i \in 1..N PROVE Tells(output[i]) = NodeRow(nodes[i])
  <2> DEFINE it == output[i]
             ls == nodes[i].labels
  <2>1. it.item = "node" /\ it.value.key = nodes[i].key /\ it.value.labels = ls
    BY <1>4
  <2>2. DOMAIN ls = 1..Len(ls)
    BY <1>2
  <2>3. \A label : Alone(it.value, label) = Alone(nodes[i], label)
    BY <2>1 DEF Alone
  <2>4. NodeRow(nodes[i]) = [k \in DOMAIN ls |-> Alone(nodes[i], ls[k])]
    BY <2>2 DEF NodeRow
  <2> HIDE DEF it, ls
  <2>5. Tells(it) = [k \in DOMAIN ls |-> Alone(it.value, ls[k])]
    BY <2>1 DEF Tells
  <2> QED
    BY <2>3, <2>4, <2>5 DEF it
<1>9. ASSUME NEW j \in 1..E PROVE Tells(output[N + T + j]) = EdgeRow(nodes, edges[j])
  <2> DEFINE it == output[N + T + j]
             e == edges[j]
  <2>1. it.item = "edge" /\ it.value = e
    BY <1>6
  <2>2. DOMAIN e.labels = 1..Len(e.labels) /\ Box(e.from) = nodes[e.from].key /\ Box(e.to) = nodes[e.to].key
    BY <1>2, <1>7
  <2>3. \A label : Arrow(e, label) = ArrowIn(nodes, e, label)
    BY <2>2 DEF Arrow, ArrowIn
  <2>4. EdgeRow(nodes, e) = [k \in DOMAIN e.labels |-> ArrowIn(nodes, e, e.labels[k])]
    BY <2>2 DEF EdgeRow
  <2> HIDE DEF it, e
  <2>5. Tells(it) = [k \in DOMAIN e.labels |-> Arrow(e, e.labels[k])]
    BY <2>1 DEF Tells
  <2> QED
    BY <2>3, <2>4, <2>5 DEF it, e
<1>10. ASSUME NEW i \in 1..T PROVE Tells(output[N + i]) = <<>>
  BY <1>5 DEF Tells
<1> DEFINE t == NodeRows(nodes)
           s == EdgeRows(nodes, edges)
           u == OutputRows
<1>11. /\ t \in Seq(Seq(S)) /\ s \in Seq(Seq(S)) /\ Len(t) = N /\ Len(s) = E
       /\ \A i \in 1..N : t[i] = NodeRow(nodes[i])
       /\ \A j \in 1..E : s[j] = EdgeRow(nodes, edges[j])
  BY <1>1, RowsOfPicture DEF Drawn, S, N, E
<1>12. /\ u = [i \in 1..N + T + E |-> u[i]]
       /\ \A i \in 1..N + T + E : u[i] = Tells(output[i])
  BY <1>3 DEF OutputRows
<1> HIDE DEF t, s, u
<1>13. /\ \A i \in 1..N : u[i] = t[i]
       /\ \A i \in 1..T : u[N + i] = <<>>
       /\ \A j \in 1..E : u[N + T + j] = s[j]
  <2>1. /\ \A i \in 1..N : i \in 1..N + T + E
        /\ \A i \in 1..T : N + i \in 1..N + T + E
        /\ \A j \in 1..E : N + T + j \in 1..N + T + E
    BY <1>1, <1>2
  <2> QED
    BY <1>8, <1>9, <1>10, <1>11, <1>12, <2>1, Zenon
<1>14. u \in Seq(Seq(S)) /\ Len(u) = N + T + E
  <2>1. \A i \in 1..N : t[i] \in Seq(S)
    BY <1>11
  <2>2. \A j \in 1..E : s[j] \in Seq(S)
    BY <1>11
  <2>3. <<>> \in Seq(S)
    OBVIOUS
  <2>4. \A i \in 1..N + T + E : u[i] \in Seq(S)
    <3>1. ASSUME NEW i \in 1..N + T + E PROVE u[i] \in Seq(S)
      <4>1. i \in 1..N \/ (\E j \in 1..T : i = N + j) \/ \E j \in 1..E : i = N + T + j
        BY <1>3
      <4> QED
        BY <1>13, <2>1, <2>2, <2>3, <4>1, Zenon
    <3> QED
      BY <3>1
  <2>5. N + T + E \in Nat
    BY <1>1, <1>2
  <2> QED
    BY <1>12, <2>4, <2>5, TableOf
<1>15. Joined(t, s, u, N + T)
  <2>1. \A i \in 1..N + T : i \in 1..N \/ u[i] = <<>>
    BY <1>3, <1>13
  <2> QED
    BY <1>1, <1>2, <1>11, <1>13, <1>14, <2>1 DEF Joined
<1>16. ASSUME NEW v \in S PROVE Cardinality(Places(v)) = Cardinality(Occurrences(v))
  <2>1. /\ IsFiniteSet(Cells(t, v)) /\ IsFiniteSet(Cells(s, v))
        /\ Cardinality(Cells(t, v)) + Cardinality(Cells(s, v))
             = Cardinality(Passed(report.violations, Total, v))
    BY <1>1, Zenon DEF Drawn, S, t, s
  <2>2. N + T \in Nat
    BY <1>1, <1>2
  <2>3. Cardinality(Cells(u, v)) = Cardinality(Cells(t, v)) + Cardinality(Cells(s, v))
    BY <1>11, <1>14, <1>15, <2>1, <2>2, JoinedRows
  <2>4. Passed(report.violations, Total, v) = Occurrences(v)
    <3>1. DOMAIN report.violations = 1..Total
      BY <1>1, Shape DEF Total
    <3> QED
      BY <3>1 DEF Passed, Occurrences
  <2> QED
    BY <2>1, <2>3, <2>4, PlacesCounted DEF u
<1>17. PieceAt("stale", report.stale, N)
  <2>1. N \in Nat /\ N + T <= Len(output)
    BY <1>1, <1>2, <1>3
  <2>2. ASSUME NEW i \in 1..Len(output) PROVE i \in N + 1..N + T \/ output[i].item # "stale"
    <3>1. i \in 1..N \/ (\E j \in 1..T : i = N + j) \/ \E j \in 1..E : i = N + T + j
      BY <1>3
    <3>2. i \in 1..N => output[i].item = "node"
      BY <1>4
    <3>3. (\E j \in 1..T : i = N + j) => i \in N + 1..N + T
      BY <1>1, <1>2
    <3>4. (\E j \in 1..E : i = N + T + j) => output[i].item = "edge"
      BY <1>6
    <3> QED
      BY <3>1, <3>2, <3>3, <3>4
  <2>3. \A i \in 1..T : output[N + i] = [item |-> "stale", value |-> report.stale[i]]
    BY <1>3, Zenon
  <2> QED
    BY <2>1, <2>2, <2>3, Zenon DEF PieceAt, T
<1> QED
  BY <1>14, <1>16, <1>17 DEF u, S, N

(* p items first and q items last that are the summary. *)
ListShape(p, q) ==
    /\ Len(output) = p + Total + Len(report.stale) + q
    /\ \A i \in 1..p : output[i].item = "summary"
    /\ \A i \in 1..Total : output[p + i] = [item |-> "violation", value |-> report.violations[i]]
    /\ \A i \in 1..Len(report.stale) :
          output[p + Total + i] = [item |-> "stale", value |-> report.stale[i]]
    /\ \A i \in 1..q : output[p + Total + Len(report.stale) + i].item = "summary"

LEMMA ShapeTold ==
    ASSUME report \in InputReports, output \in Seq(AnItem), NEW p \in Nat, NEW q \in Nat, ListShape(p, q)
    PROVE  /\ PieceAt("violation", report.violations, p)
           /\ PieceAt("stale", report.stale, p + Total)
           /\ \A i \in 1..Len(output) : output[i].item \in {"violation", "stale", "summary"}
<1> DEFINE T == Len(report.stale)
<1>1. Total \in Nat /\ T \in Nat
  BY Shape DEF Total
<1>2. /\ Len(output) = p + Total + T + q
      /\ \A i \in 1..p : output[i].item = "summary"
      /\ \A i \in 1..Total : output[p + i] = [item |-> "violation", value |-> report.violations[i]]
      /\ \A i \in 1..T : output[p + Total + i] = [item |-> "stale", value |-> report.stale[i]]
      /\ \A i \in 1..q : output[p + Total + T + i].item = "summary"
  BY Zenon DEF ListShape
<1>3. Total = Len(report.violations)
  BY DEF Total
<1> HIDE DEF T
<1>4. ASSUME NEW i \in 1..Total PROVE output[p + i].item = "violation"
  <2>1. output[p + i] = [item |-> "violation", value |-> report.violations[i]]
    BY <1>2, Zenon
  <2> QED
    BY <2>1
<1>5. ASSUME NEW i \in 1..T PROVE output[p + Total + i].item = "stale"
  <2>1. output[p + Total + i] = [item |-> "stale", value |-> report.stale[i]]
    BY <1>2, Zenon
  <2> QED
    BY <2>1
<1>6. ASSUME NEW i \in 1..Len(output)
      PROVE  \/ output[i].item = "summary"
             \/ i \in p + 1..p + Total /\ output[i].item = "violation"
             \/ i \in p + Total + 1..p + Total + T /\ output[i].item = "stale"
  <2>1. CASE i \in 1..p
    BY <1>2, <2>1
  <2>2. CASE i \in p + 1..p + Total
    <3>1. i - p \in 1..Total /\ p + (i - p) = i
      BY <1>1, <2>2
    <3>2. output[p + (i - p)].item = "violation"
      BY <1>4, <3>1
    <3> QED
      BY <2>2, <3>1, <3>2
  <2>3. CASE i \in p + Total + 1..p + Total + T
    <3>1. i - p - Total \in 1..T /\ p + Total + (i - p - Total) = i
      BY <1>1, <2>3
    <3>2. output[p + Total + (i - p - Total)].item = "stale"
      BY <1>5, <3>1
    <3> QED
      BY <2>3, <3>1, <3>2
  <2>4. CASE i \in p + Total + T + 1..p + Total + T + q
    <3>1. i - p - Total - T \in 1..q /\ p + Total + T + (i - p - Total - T) = i
      BY <1>1, <2>4
    <3>2. output[p + Total + T + (i - p - Total - T)].item = "summary"
      BY <1>2, <3>1
    <3> QED
      BY <3>1, <3>2
  <2>5. i \in 1..p + Total + T + q
    BY <1>2
  <2> QED
    BY <1>1, <2>1, <2>2, <2>3, <2>4, <2>5
<1>7. PieceAt("violation", report.violations, p)
  <2>1. p + Total <= Len(output)
    BY <1>1, <1>2
  <2>2. \A i \in 1..Len(output) : i \in p + 1..p + Total \/ output[i].item # "violation"
    BY <1>6
  <2> QED
    BY <1>2, <1>3, <2>1, <2>2, Zenon DEF PieceAt
<1>8. PieceAt("stale", report.stale, p + Total)
  <2>1. p + Total + T <= Len(output) /\ p + Total \in Nat
    BY <1>1, <1>2
  <2>2. \A i \in 1..Len(output) : i \in p + Total + 1..p + Total + T \/ output[i].item # "stale"
    BY <1>6
  <2> QED
    BY <1>2, <2>1, <2>2, Zenon DEF PieceAt, T
<1>9. \A i \in 1..Len(output) : output[i].item \in {"violation", "stale", "summary"}
  BY <1>6
<1> QED
  BY <1>7, <1>8, <1>9

LEMMA ShapeOfList ==
    ASSUME PictureInv, output = Rendered, format \in {"err", "json", "html"}
    PROVE  \E p, q \in 0..1 : ListShape(p, q)
<1> DEFINE T == Len(report.stale)
           V(i) == [item |-> "violation", value |-> report.violations[i]]
           W(i) == [item |-> "stale", value |-> report.stale[i]]
           a == Violations
           b == Stale
           c == Summary
<1>1. Total \in Nat /\ T \in Nat
  BY Shape DEF Total, PictureInv, Inv, TypeOK
<1>2. /\ a \in Seq(AnItem) /\ Len(a) = Total /\ \A i \in 1..Total : a[i] = V(i)
      /\ b \in Seq(AnItem) /\ Len(b) = T /\ \A i \in 1..T : b[i] = W(i)
      /\ c \in Seq(AnItem) /\ Len(c) = 1 /\ c[1].item = "summary"
  <2>1. /\ a \in Seq(AnItem) /\ Len(a) = Total /\ \A i \in 1..Total : a[i] = V(i)
        /\ b \in Seq(AnItem) /\ Len(b) = T /\ \A i \in 1..T : b[i] = W(i)
        /\ c \in Seq(AnItem) /\ Len(c) = 1 /\ c[1] = [item |-> "summary", value |-> summary]
    BY PartsFacts
  <2>2. c[1].item = "summary"
    BY <2>1
  <2> QED
    BY <2>1, <2>2, Zenon
<1>3. Rendered = CASE format = "err" -> a \o b
                   [] format = "json" -> (a \o b) \o c
                   [] format = "html" -> (c \o a) \o b
                   [] OTHER -> Graph
  BY DEF Rendered
<1>4. \A p, q : ListShape(p, q) <=>
        /\ Len(output) = p + Total + T + q
        /\ \A i \in 1..p : output[i].item = "summary"
        /\ \A i \in 1..Total : output[p + i] = V(i)
        /\ \A i \in 1..T : output[p + Total + i] = W(i)
        /\ \A i \in 1..q : output[p + Total + T + i].item = "summary"
  BY Zenon DEF ListShape
<1> HIDE DEF T, V, W, a, b, c
<1>5. CASE format = "err"
  <2>1. output = a \o b
    BY <1>3, <1>5
  <2>2. Follows(output, a, b)
    BY <1>2, <2>1, Concatenated
  <2>3. /\ Len(output) = Total + T
        /\ \A i \in 1..Total : output[i] = V(i)
        /\ \A i \in 1..T : output[Total + i] = W(i)
    BY <1>2, <2>2 DEF Follows
  <2>4. ListShape(0, 0)
    BY <1>1, <1>4, <2>3
  <2> QED
    BY <2>4
<1>6. CASE format = "json"
  <2> DEFINE ab == a \o b
  <2>1. ab \in Seq(AnItem) /\ Follows(ab, a, b)
    BY <1>2, Concatenated
  <2>2. output = ab \o c
    BY <1>3, <1>6
  <2> HIDE DEF ab
  <2>3. Follows(output, ab, c)
    BY <1>2, <2>1, <2>2, Concatenated
  <2>4. /\ Len(ab) = Total + T
        /\ \A i \in 1..Total : ab[i] = V(i)
        /\ \A i \in 1..T : ab[Total + i] = W(i)
    BY <1>2, <2>1 DEF Follows
  <2>5. /\ Len(output) = Total + T + 1
        /\ \A i \in 1..Total + T : output[i] = ab[i]
        /\ \A i \in 1..1 : output[Total + T + i] = c[i]
    <3>1. /\ Len(output) = Len(ab) + Len(c)
          /\ \A i \in 1..Len(ab) : output[i] = ab[i]
          /\ \A i \in 1..Len(c) : output[Len(ab) + i] = c[i]
      BY <2>3, Zenon DEF Follows
    <3>2. Len(ab) = Total + T /\ Len(c) = 1
      BY <1>2, <2>4, Zenon
    <3> QED
      BY <3>1, <3>2
  <2>6. /\ \A i \in 1..Total : output[0 + i] = V(i)
        /\ \A i \in 1..T : output[0 + Total + i] = W(i)
        /\ \A i \in 1..1 : output[0 + Total + T + i].item = "summary"
    <3>1. \A i \in 1..Total : i \in 1..Total + T /\ 0 + i = i
      BY <1>1
    <3>2. \A i \in 1..T : Total + i \in 1..Total + T /\ 0 + Total = Total
      BY <1>1
    <3>3. ASSUME NEW i \in 1..Total PROVE output[0 + i] = V(i)
      BY <2>4, <2>5, <3>1
    <3>4. ASSUME NEW i \in 1..T PROVE output[0 + Total + i] = W(i)
      BY <2>4, <2>5, <3>2
    <3>5. ASSUME NEW i \in 1..1 PROVE output[0 + Total + T + i].item = "summary"
      <4>1. 0 + Total + T + i = Total + T + i /\ i = 1
        BY <1>1
      <4> QED
        BY <1>2, <2>5, <4>1
    <3> QED
      BY <3>3, <3>4, <3>5
  <2>7. ListShape(0, 1)
    <3>1. Len(output) = 0 + Total + T + 1 /\ \A i \in 1..0 : output[i].item = "summary"
      BY <1>1, <2>5
    <3> QED
      BY <1>4, <2>6, <3>1, Zenon
  <2> QED
    BY <2>7
<1>7. CASE format = "html"
  <2> DEFINE ca == c \o a
  <2>1. ca \in Seq(AnItem) /\ Follows(ca, c, a)
    BY <1>2, Concatenated
  <2>2. output = ca \o b
    BY <1>3, <1>7
  <2> HIDE DEF ca
  <2>3. Follows(output, ca, b)
    BY <1>2, <2>1, <2>2, Concatenated
  <2>4. /\ Len(ca) = 1 + Total
        /\ \A i \in 1..1 : ca[i] = c[i]
        /\ \A i \in 1..Total : ca[1 + i] = a[i]
    <3>1. /\ Len(ca) = Len(c) + Len(a)
          /\ \A i \in 1..Len(c) : ca[i] = c[i]
          /\ \A i \in 1..Len(a) : ca[Len(c) + i] = a[i]
      BY <2>1, Zenon DEF Follows
    <3>2. Len(c) = 1 /\ Len(a) = Total
      BY <1>2, Zenon
    <3> QED
      BY <3>1, <3>2
  <2>5. /\ Len(output) = 1 + Total + T
        /\ \A i \in 1..1 + Total : output[i] = ca[i]
        /\ \A i \in 1..T : output[1 + Total + i] = b[i]
    <3>1. /\ Len(output) = Len(ca) + Len(b)
          /\ \A i \in 1..Len(ca) : output[i] = ca[i]
          /\ \A i \in 1..Len(b) : output[Len(ca) + i] = b[i]
      BY <2>3, Zenon DEF Follows
    <3>2. Len(ca) = 1 + Total /\ Len(b) = T
      BY <1>2, <2>4, Zenon
    <3> QED
      BY <3>1, <3>2
  <2>6. /\ \A i \in 1..1 : output[i].item = "summary"
        /\ \A i \in 1..Total : output[1 + i] = V(i)
        /\ \A i \in 1..T : output[1 + Total + i] = W(i)
    <3>1. ASSUME NEW i \in 1..1 PROVE output[i].item = "summary"
      <4>1. i = 1 /\ i \in 1..1 + Total
        BY <1>1
      <4> QED
        BY <1>2, <2>4, <2>5, <4>1
    <3>2. ASSUME NEW i \in 1..Total PROVE output[1 + i] = V(i)
      <4>1. 1 + i \in 1..1 + Total
        BY <1>1
      <4> QED
        BY <1>2, <2>4, <2>5, <4>1
    <3>3. \A i \in 1..T : output[1 + Total + i] = W(i)
      BY <1>2, <2>5
    <3> QED
      BY <3>1, <3>2, <3>3
  <2>7. ListShape(1, 0)
    <3>1. Len(output) = 1 + Total + T + 0 /\ \A i \in 1..0 : output[1 + Total + T + i].item = "summary"
      BY <1>1, <2>5
    <3> QED
      BY <1>4, <2>6, <3>1, Zenon
  <2> QED
    BY <2>7
<1> QED
  BY <1>5, <1>6, <1>7

(* A report written without an error tells each of its violations as often  *)
(* as it occurred, nothing that is no violation of the report, and the      *)
(* stale entries in their order, whatever the format and the report:        *)
(* buildViolationGraph merges boxes and edges, and merges no two violations *)
(* that differ.                                                             *)
THEOREM EverythingTold == Spec => []EveryViolationTold
<1>1. ASSUME PictureInv, phase = "written"
      PROVE  /\ \A i \in DOMAIN output : Range(Tells(output[i])) \subseteq Range(report.violations)
             /\ \A v \in Range(report.violations) : Cardinality(Places(v)) = Cardinality(Occurrences(v))
             /\ \E n \in 0..Len(output) :
                    /\ Written("stale") = n + 1..n + Len(report.stale)
                    /\ \A k \in 1..Len(report.stale) : output[n + k].value = report.stale[k]
  <2> DEFINE S == Range(report.violations)
  <2>1. /\ report \in InputReports /\ output = Rendered /\ at = Total + 1
        /\ Total \in Nat /\ Len(report.stale) \in Nat
    BY <1>1, Shape DEF PictureInv, Inv, TypeOK, Counted, OutputInv, Total
  <2>2. output \in Seq(AnItem) /\ Len(output) \in Nat /\ DOMAIN output = 1..Len(output)
    BY <1>1, <2>1, RenderedFacts
  <2>3. /\ OutputRows \in Seq(Seq(S))
        /\ \A v \in S : Cardinality(Places(v)) = Cardinality(Occurrences(v))
        /\ \E n : PieceAt("stale", report.stale, n)
    <3>1. CASE format \in {"err", "json", "html"}
      <4>1. PICK p \in 0..1, q \in 0..1 : ListShape(p, q)
        BY <1>1, <2>1, <3>1, ShapeOfList
      <4>2. p \in Nat /\ q \in Nat
        OBVIOUS
      <4>3. /\ PieceAt("violation", report.violations, p)
            /\ PieceAt("stale", report.stale, p + Total)
            /\ \A i \in 1..Len(output) : output[i].item \in {"violation", "stale", "summary"}
        BY <2>1, <2>2, <4>1, <4>2, ShapeTold
      <4> QED
        BY <2>1, <2>2, <4>3, ListTold
    <3>2. CASE format \notin {"err", "json", "html"}
      <4>1. output = Graph
        BY <2>1, <3>2 DEF Rendered
      <4> QED
        BY <1>1, <2>1, <4>1, GraphTold
    <3> QED
      BY <3>1, <3>2
  <2> HIDE DEF S
  <2>4. ASSUME NEW i \in DOMAIN output PROVE Range(Tells(output[i])) \subseteq S
    <3>1. OutputRows[i] \in Seq(S)
      <4>1. i \in DOMAIN OutputRows
        BY DEF OutputRows
      <4> QED
        BY <2>3, <4>1
    <3>2. Tells(output[i]) \in Seq(S)
      BY <3>1 DEF OutputRows
    <3> QED
      BY <3>2 DEF Range
  <2>5. \E n \in 0..Len(output) :
            /\ Written("stale") = n + 1..n + Len(report.stale)
            /\ \A k \in 1..Len(report.stale) : output[n + k].value = report.stale[k]
    BY <2>1, <2>2, <2>3, StaleInOrder
  <2> QED
    BY <2>3, <2>4, <2>5 DEF S
<1>2. PictureInv => EveryViolationTold
  BY <1>1 DEF EveryViolationTold
<1> QED
  BY <1>2, PictureInvariance, PTL
=============================================================================

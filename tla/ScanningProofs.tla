--------------------------- MODULE ScanningProofs ---------------------------
(* The two scanners. The one of files goes by the declared module path,     *)
(* misses no file and names packages and imports alike, for every module    *)
(* file and every tree. The one of templates, rewriteCaptures, reads every  *)
(* template as the compiler of regular expressions does, and expands every  *)
(* one that has been accepted.                                              *)
EXTENDS Scanning, CaptureScanner, FiniteSetTheorems, SequenceTheorems, WellFoundedInduction,
        TLAPS

-----------------------------------------------------------------------------
(* Places and their texts. *)

LEMMA Sub ==
    ASSUME NEW S, NEW s \in Seq(S), NEW m \in 1..Len(s) + 1, NEW n \in 0..Len(s), m <= n + 1
    PROVE  /\ SubSeq(s, m, n) \in Seq(S)
           /\ Len(SubSeq(s, m, n)) = n - m + 1
           /\ \A i \in 1..n - m + 1 : SubSeq(s, m, n)[i] = s[m + i - 1]
<1>1. m \in Int /\ n \in Int /\ Len(s) \in Nat
  OBVIOUS
<1>2. \A i \in m..n : s[i] \in S
  <2>1. \A i \in m..n : i \in 1..Len(s)
    BY <1>1
  <2> QED
    BY <2>1, ElementOfSeq
<1>3. /\ SubSeq(s, m, n) \in Seq(S)
      /\ Len(SubSeq(s, m, n)) = IF m <= n THEN n - m + 1 ELSE 0
      /\ \A i \in 1..n - m + 1 : SubSeq(s, m, n)[i] = s[m + i - 1]
  BY <1>1, <1>2, SubSeqProperties
<1> QED
  BY <1>1, <1>3

(* A prefix, element by element. *)
LEMMA PrefixAt ==
    ASSUME NEW S, NEW s \in Seq(S), NEW t \in Seq(S)
    PROVE  IsPrefix(s, t) <=> Len(s) <= Len(t) /\ \A i \in 1..Len(s) : s[i] = t[i]
<1>1. SUFFICES ASSUME Len(s) <= Len(t)
               PROVE  SubSeq(s, 1, Len(s)) = SubSeq(t, 1, Len(s))
                        <=> \A i \in 1..Len(s) : s[i] = t[i]
  BY DEF IsPrefix
<1>2. Len(s) \in Nat /\ Len(t) \in Nat
  OBVIOUS
<1>3. SubSeq(s, 1, Len(s)) = s
  BY SubSeqFull
<1>4. /\ SubSeq(t, 1, Len(s)) \in Seq(S)
      /\ Len(SubSeq(t, 1, Len(s))) = Len(s)
      /\ \A i \in 1..Len(s) : SubSeq(t, 1, Len(s))[i] = t[i]
  <2> DEFINE n == Len(s)
  <2>1. n \in 0..Len(t) /\ 1 \in 1..Len(t) + 1 /\ 1 <= n + 1
    BY <1>1, <1>2
  <2>2. n - 1 + 1 = n /\ \A i \in 1..n : 1 + i - 1 = i
    BY <1>2
  <2> HIDE DEF n
  <2>3. /\ SubSeq(t, 1, n) \in Seq(S)
        /\ Len(SubSeq(t, 1, n)) = n - 1 + 1
        /\ \A i \in 1..n - 1 + 1 : SubSeq(t, 1, n)[i] = t[1 + i - 1]
    BY <2>1, Sub
  <2>4. /\ SubSeq(t, 1, n) \in Seq(S)
        /\ Len(SubSeq(t, 1, n)) = n
        /\ \A i \in 1..n : SubSeq(t, 1, n)[i] = t[i]
    BY <2>2, <2>3
  <2> QED
    BY <2>4 DEF n
<1>5. ASSUME \A i \in 1..Len(s) : s[i] = t[i] PROVE s = SubSeq(t, 1, Len(s))
  BY <1>4, <1>5, SeqEqual
<1> QED
  BY <1>3, <1>4, <1>5

(* What is left of a place below another one. *)
LEMMA RelativeAt ==
    ASSUME NEW r \in Seq(Name), NEW p \in Seq(Name), IsPrefix(r, p)
    PROVE  /\ Relative(r, p) \in Seq(Name)
           /\ Len(Relative(r, p)) = Len(p) - Len(r)
           /\ \A i \in 1..Len(p) - Len(r) : Relative(r, p)[i] = p[Len(r) + i]
<1>1. Len(r) \in Nat /\ Len(p) \in Nat /\ Len(r) <= Len(p)
  BY PrefixAt
<1> DEFINE m == Len(r) + 1
           n == Len(p)
<1>2. m \in 1..Len(p) + 1 /\ n \in 0..Len(p) /\ m <= n + 1
  BY <1>1
<1>3. n - m + 1 = Len(p) - Len(r) /\ \A i \in 1..n - m + 1 : m + i - 1 = Len(r) + i
  BY <1>1
<1> HIDE DEF m, n
<1>4. /\ SubSeq(p, m, n) \in Seq(Name)
      /\ Len(SubSeq(p, m, n)) = n - m + 1
      /\ \A i \in 1..n - m + 1 : SubSeq(p, m, n)[i] = p[m + i - 1]
  BY <1>2, Sub
<1>5. Relative(r, p) = SubSeq(p, m, n)
  BY DEF Relative, m, n
<1> QED
  BY <1>3, <1>4, <1>5

(* No two places below a root leave the same. *)
LEMMA RelativeTells ==
    ASSUME NEW r \in Seq(Name), NEW p \in Seq(Name), NEW q \in Seq(Name),
           IsPrefix(r, p), IsPrefix(r, q), Relative(r, p) = Relative(r, q)
    PROVE  p = q
<1>1. /\ Len(r) \in Nat /\ Len(p) \in Nat /\ Len(q) \in Nat
      /\ \A i \in 1..Len(r) : p[i] = q[i]
      /\ Len(r) <= Len(p) /\ Len(r) <= Len(q)
  BY PrefixAt
<1>2. Len(p) - Len(r) = Len(q) - Len(r)
  BY RelativeAt
<1>3. Len(p) = Len(q)
  BY <1>1, <1>2
<1>4. ASSUME NEW i \in 1..Len(p), i > Len(r) PROVE p[i] = q[i]
  <2>1. PICK k \in 1..Len(p) - Len(r) : i = Len(r) + k
    <3>1. i - Len(r) \in 1..Len(p) - Len(r) /\ i = Len(r) + (i - Len(r))
      BY <1>1, <1>4
    <3> QED
      BY <3>1
  <2>2. Relative(r, p)[k] = p[i] /\ Relative(r, q)[k] = q[i]
    BY <1>3, <2>1, RelativeAt
  <2> QED
    BY <2>2
<1>5. \A i \in 1..Len(p) : p[i] = q[i]
  BY <1>1, <1>4
<1> QED
  BY <1>3, <1>5, SeqEqual

(* The text of a place, character by character. *)
LEMMA TextAt ==
    ASSUME NEW p \in Seq(Name), p # <<>>
    PROVE  /\ Text(p) \in Seq(Character)
           /\ Len(Text(p)) = 2 * Len(p) - 1
           /\ \A k \in 1..Len(p) : Text(p)[2 * k - 1] = p[k]
<1>1. Len(p) \in Nat /\ Len(p) # 0
  BY EmptySeq
<1> DEFINE n == 2 * Len(p) - 1
           at(i) == IF i % 2 = 1 THEN p[(i + 1) \div 2] ELSE "/"
<1>2. n \in Nat
  BY <1>1
<1>3. \A i \in 1..n : at(i) \in Character
  <2> SUFFICES ASSUME NEW i \in 1..n PROVE at(i) \in Character
    OBVIOUS
  <2>1. CASE i % 2 = 1
    <3>1. (i + 1) \div 2 \in 1..Len(p)
      BY <1>1, <2>1
    <3>2. p[(i + 1) \div 2] \in Name
      BY <3>1, ElementOfSeq
    <3> QED
      BY <2>1, <3>2, ScanningAssumption
  <2>2. CASE i % 2 # 1
    BY <2>2, ScanningAssumption
  <2> QED
    BY <2>1, <2>2
<1>4. \A k \in 1..Len(p) :
        2 * k - 1 \in 1..n /\ (2 * k - 1) % 2 = 1 /\ ((2 * k - 1) + 1) \div 2 = k
  BY <1>1
<1>5. \A k \in 1..Len(p) : at(2 * k - 1) = p[k]
  BY <1>4
<1>6. Text(p) = [i \in 1..n |-> at(i)]
  BY DEF Text
<1> HIDE DEF at, n
<1>7. [i \in 1..n |-> at(i)] \in Seq(Character)
  BY <1>2, <1>3
<1>8. Len([i \in 1..n |-> at(i)]) = n
  BY <1>2, <1>7
<1>9. \A k \in 1..Len(p) : Text(p)[2 * k - 1] = p[k]
  BY <1>4, <1>5, <1>6
<1> QED
  BY <1>6, <1>7, <1>8, <1>9 DEF n

LEMMA EmptyText == Text(<<>>) = <<".">> /\ <<".">> \in Seq(Character) /\ Len(<<".">>) = 1
BY ScanningAssumption DEF Text

(* No two places have the same text. *)
LEMMA TextTells ==
    ASSUME NEW p \in Seq(Name), NEW q \in Seq(Name), Text(p) = Text(q)
    PROVE  p = q
<1>1. Len(p) \in Nat /\ Len(q) \in Nat
  OBVIOUS
<1>2. ASSUME NEW s \in Seq(Name), s # <<>>, Text(s) = Text(<<>>) PROVE FALSE
  <2>1. Len(s) \in Nat /\ Len(s) # 0 /\ 2 * Len(s) - 1 = 1
    BY <1>2, TextAt, EmptyText, EmptySeq
  <2>2. Text(s)[2 * 1 - 1] = s[1] /\ s[1] \in Name
    BY <1>2, <2>1, TextAt, ElementOfSeq
  <2>3. Text(s)[1] = s[1]
    BY <2>2
  <2>4. s[1] = "."
    BY <1>2, <2>3, EmptyText
  <2> QED
    BY <2>2, <2>4, ScanningAssumption
<1>3. CASE p = <<>> \/ q = <<>>
  BY <1>2, <1>3
<1>4. CASE p # <<>> /\ q # <<>>
  <2>1. 2 * Len(p) - 1 = 2 * Len(q) - 1
    BY <1>4, TextAt
  <2>2. Len(p) = Len(q)
    BY <1>1, <2>1
  <2>3. \A k \in 1..Len(p) : p[k] = q[k]
    BY <1>4, <2>2, TextAt
  <2> QED
    BY <2>2, <2>3, SeqEqual
<1> QED
  BY <1>3, <1>4

-----------------------------------------------------------------------------
(* One name space for packages and imports. *)

(* Where a place is in the module, by way of the scan root. *)
LEMMA Joins ==
    ASSUME NEW m \in Seq(Name), NEW s \in Seq(Name), NEW p \in Seq(Name),
           IsPrefix(m, s), IsPrefix(s, p)
    PROVE  IsPrefix(m, p) /\ Relative(m, s) \o Relative(s, p) = Relative(m, p)
<1>1. /\ Len(m) \in Nat /\ Len(s) \in Nat /\ Len(p) \in Nat
      /\ Len(m) <= Len(s) /\ Len(s) <= Len(p)
      /\ \A i \in 1..Len(m) : m[i] = s[i]
      /\ \A i \in 1..Len(s) : s[i] = p[i]
  BY PrefixAt
<1>2. IsPrefix(m, p)
  BY <1>1, PrefixAt
<1> DEFINE a == Relative(m, s)
           b == Relative(s, p)
           c == Relative(m, p)
<1>3. /\ a \in Seq(Name) /\ Len(a) = Len(s) - Len(m)
      /\ \A i \in 1..Len(s) - Len(m) : a[i] = s[Len(m) + i]
  BY RelativeAt
<1>4. /\ b \in Seq(Name) /\ Len(b) = Len(p) - Len(s)
      /\ \A i \in 1..Len(p) - Len(s) : b[i] = p[Len(s) + i]
  BY RelativeAt
<1>5. /\ c \in Seq(Name) /\ Len(c) = Len(p) - Len(m)
      /\ \A i \in 1..Len(p) - Len(m) : c[i] = p[Len(m) + i]
  BY <1>2, RelativeAt
<1> HIDE DEF a, b, c
<1>6. /\ a \o b \in Seq(Name)
      /\ Len(a \o b) = Len(a) + Len(b)
      /\ \A i \in 1..Len(a) + Len(b) :
            (a \o b)[i] = IF i <= Len(a) THEN a[i] ELSE b[i - Len(a)]
  BY <1>3, <1>4, ConcatProperties
<1>7. Len(a \o b) = Len(c)
  BY <1>1, <1>3, <1>4, <1>5, <1>6
<1>8. ASSUME NEW i \in 1..Len(c) PROVE (a \o b)[i] = c[i]
  <2>1. (a \o b)[i] = (IF i <= Len(a) THEN a[i] ELSE b[i - Len(a)]) /\ c[i] = p[Len(m) + i]
    BY <1>5, <1>6, <1>7, <1>8
  <2>2. CASE i <= Len(a)
    <3>1. a[i] = s[Len(m) + i] /\ Len(m) + i \in 1..Len(s)
      BY <1>1, <1>3, <1>8, <2>2
    <3> QED
      BY <1>1, <2>1, <2>2, <3>1
  <2>3. CASE ~(i <= Len(a))
    <3>1. i - Len(a) \in 1..Len(p) - Len(s) /\ Len(s) + (i - Len(a)) = Len(m) + i
      BY <1>1, <1>3, <1>5, <1>8, <2>3
    <3> QED
      BY <1>4, <2>1, <2>3, <3>1
  <2> QED
    BY <2>2, <2>3
<1>9. a \o b = c
  BY <1>5, <1>6, <1>7, <1>8, SeqEqual
<1> QED
  BY <1>2, <1>9 DEF a, b, c

(* The import path of the module is its root, and what follows the module   *)
(* path and a slash is a place in the module.                               *)
LEMMA ResolveInside ==
    ASSUME Module \in Seq(Character), Module # <<>>, Module # <<"C">>,
           NEW d \in Seq(Character), d # <<>>
    PROVE  /\ Resolve(Module) = [path |-> <<".">>, type |-> "local"]
           /\ Resolve(Module \o <<"/">> \o d) = [path |-> d, type |-> "local"]
<1>1. Resolve(Module) = [path |-> <<".">>, type |-> "local"]
  BY DEF Resolve
<1> DEFINE text == Prefix \o d
<1>2. <<"/">> \in Seq(Character) /\ Len(<<"/">>) = 1
  BY ScanningAssumption
<1>3. Prefix \in Seq(Character) /\ Len(Prefix) = Len(Module) + 1
  BY <1>2, ConcatProperties DEF Prefix
<1>4. Len(Module) \in Nat \ {0} /\ Len(d) \in Nat \ {0}
  BY EmptySeq
<1>5. /\ text \in Seq(Character) /\ Len(text) = Len(Prefix) + Len(d)
      /\ \A i \in 1..Len(Prefix) + Len(d) :
            text[i] = IF i <= Len(Prefix) THEN Prefix[i] ELSE d[i - Len(Prefix)]
  BY <1>3, ConcatProperties
<1> HIDE DEF text
<1>6. IsPrefix(Prefix, text)
  BY <1>3, <1>4, <1>5, PrefixAt
<1>7. text # <<>> /\ text # <<"C">> /\ text # Module
  BY <1>3, <1>4, <1>5
<1> DEFINE rest == SubSeq(text, Len(Prefix) + 1, Len(text))
<1>8. /\ rest \in Seq(Character) /\ Len(rest) = Len(text) - (Len(Prefix) + 1) + 1
      /\ \A i \in 1..Len(text) - (Len(Prefix) + 1) + 1 : rest[i] = text[(Len(Prefix) + 1) + i - 1]
  <2>1. Len(Prefix) + 1 \in 1..Len(text) + 1 /\ Len(text) \in 0..Len(text)
        /\ Len(Prefix) + 1 <= Len(text) + 1
    BY <1>3, <1>4, <1>5
  <2> QED
    BY <1>5, <2>1, Sub
<1> HIDE DEF rest
<1>9. Len(rest) = Len(d)
  BY <1>3, <1>4, <1>5, <1>8
<1>10. ASSUME NEW i \in 1..Len(d) PROVE rest[i] = d[i]
  <2>1. Len(Prefix) \in Nat /\ i \in 1..Len(text) - (Len(Prefix) + 1) + 1
        /\ (Len(Prefix) + 1) + i - 1 = Len(Prefix) + i
        /\ Len(Prefix) + i \in 1..Len(Prefix) + Len(d)
        /\ (Len(Prefix) + i) - Len(Prefix) = i
        /\ ~(Len(Prefix) + i <= Len(Prefix))
    BY <1>3, <1>4, <1>5, <1>10
  <2>2. rest[i] = text[Len(Prefix) + i]
    BY <1>8, <2>1
  <2> QED
    BY <1>5, <2>1, <2>2
<1>11. rest = d
  BY <1>8, <1>9, <1>10, SeqEqual
<1>12. Resolve(text) = [path |-> d, type |-> "local"]
  BY <1>6, <1>7, <1>11 DEF Resolve, rest
<1>13. Module \o <<"/">> \o d = text
  BY DEF text, Prefix
<1> QED
  BY <1>1, <1>12, <1>13

(* An import is local exactly when its segments begin with the module's. *)
LEMMA ResolveLocal ==
    ASSUME Module \in Seq(Character), NEW text \in Seq(Character),
           text # <<>>, text # <<"C">>
    PROVE  Resolve(text).type = "local" <=>
               IsPrefix(Module, text) /\ (text # Module => text[Len(Module) + 1] = "/")
<1>1. <<"/">> \in Seq(Character) /\ Len(<<"/">>) = 1 /\ <<"/">>[1] = "/"
  BY ScanningAssumption
<1>2. /\ Prefix \in Seq(Character) /\ Len(Prefix) = Len(Module) + 1
      /\ \A i \in 1..Len(Module) + 1 :
            Prefix[i] = IF i <= Len(Module) THEN Module[i] ELSE <<"/">>[i - Len(Module)]
  BY <1>1, ConcatProperties DEF Prefix
<1>3. Len(Module) \in Nat /\ Len(text) \in Nat
  OBVIOUS
<1>4. /\ \A i \in 1..Len(Module) : Prefix[i] = Module[i]
      /\ Prefix[Len(Module) + 1] = "/"
  <2>1. Len(Module) + 1 \in 1..Len(Module) + 1 /\ ~(Len(Module) + 1 <= Len(Module))
        /\ (Len(Module) + 1) - Len(Module) = 1
    BY <1>3
  <2> QED
    BY <1>1, <1>2, <1>3, <2>1
<1>5. IsPrefix(Prefix, text) <=>
        Len(Module) + 1 <= Len(text) /\ \A i \in 1..Len(Module) + 1 : Prefix[i] = text[i]
  BY <1>2, PrefixAt
<1>6. IsPrefix(Module, text) <=>
        Len(Module) <= Len(text) /\ \A i \in 1..Len(Module) : Module[i] = text[i]
  BY PrefixAt
<1>7. IsPrefix(Module, text) /\ Len(text) = Len(Module) => text = Module
  BY <1>6, SeqEqual
<1>8. IsPrefix(Prefix, text) <=>
        IsPrefix(Module, text) /\ Len(text) # Len(Module) /\ text[Len(Module) + 1] = "/"
  BY <1>3, <1>4, <1>5, <1>6
<1>9. IsPrefix(Module, Module)
  BY PrefixAt
<1>10. CASE text = Module
  BY <1>9, <1>10 DEF Resolve
<1>11. CASE text # Module
  <2>1. Resolve(text).type = "local" <=> IsPrefix(Prefix, text)
    BY <1>11 DEF Resolve
  <2> QED
    BY <1>7, <1>8, <1>11, <2>1
<1> QED
  BY <1>10, <1>11

-----------------------------------------------------------------------------
(* The inductive invariant. *)

(* The directives up to line n. *)
DirectivesTo(n) == {k \in 1..n : lines[k] # <<>> /\ lines[k][1] = "module"}

(* The input is one of the given ones. *)
Given ==
    \E i \in Inputs :
        lines = i.lines /\ tree = i.tree /\ moduleRoot = i.moduleRoot /\ scanRoot = i.scanRoot

Walking == phase \in {"walk", "scanned", "empty"}

Resolved == phase = "root" \/ Walking \/ phase = "failed"

(* The lines read so far hold at most one directive, with a path, which is  *)
(* the module path; the end of the file is reached with a proper one, and   *)
(* a file that is refused declares none.                                    *)
ModuleRead ==
    /\ phase \in {"gomod", "root", "walk", "scanned", "empty", "refused", "failed"}
    /\ line \in 1..Len(lines) + 1
    /\ phase # "refused" =>
        /\ \A k \in DirectivesTo(line - 1) : Len(lines[k]) > 1
        /\ \A j, k \in DirectivesTo(line - 1) : j = k
        /\ modulePath = {lines[k][2] : k \in DirectivesTo(line - 1)}
    /\ modulePath \subseteq Seq(Character)
    /\ \A x, y \in modulePath : x = y
    /\ Resolved => line = Len(lines) + 1 /\ modulePath # {} /\ ~(modulePath \subseteq Malformed)
    /\ phase = "refused" => ~\E i \in Directives : Declares(i)

Source(p) == p \in Visible /\ tree[p] \in {"go", "broken"}

(* What has been found is a source, and whatever source has not been found, *)
(* or directory cannot be listed, lies in a place still to be visited.      *)
Walked ==
    /\ phase \in {"gomod", "root"} => files = {} /\ pending = {}
    /\ Walking =>
        /\ IsPrefix(moduleRoot, scanRoot)
        /\ scanRoot \in DOMAIN tree /\ tree[scanRoot] \in {"dir", "closed"}
        /\ \A q \in pending : q = scanRoot \/ q \in Visible
        /\ \A f \in files : \E p \in Visible : tree[p] = "go" /\ f = File(p)
        /\ \A p \in Visible : Source(p) =>
               \/ tree[p] = "go" /\ File(p) \in files
               \/ \E q \in pending : IsPrefix(q, p)
        /\ \A p \in Visible \cup {scanRoot} : Unreadable(p) => \E q \in pending : IsPrefix(q, p)
    /\ phase \in {"scanned", "empty"} => pending = {}

Inv == Given /\ ModuleRead /\ Walked

LEMMA Shape ==
    ASSUME Given
    PROVE  /\ Len(lines) \in Nat /\ DOMAIN lines = 1..Len(lines)
           /\ \A k \in 1..Len(lines) :
                /\ Len(lines[k]) \in Nat
                /\ Len(lines[k]) > 1 /\ lines[k][1] = "module" => lines[k][2] \in Seq(Character)
           /\ Rooted(tree)
           /\ moduleRoot \in Seq(Name) /\ scanRoot \in Seq(Name)
<1>1. PICK i \in Inputs :
        lines = i.lines /\ tree = i.tree /\ moduleRoot = i.moduleRoot /\ scanRoot = i.scanRoot
  BY DEF Given
<1> QED
  BY <1>1, ScanningAssumption

LEMMA InitInv == ASSUME Init PROVE Inv
<1>1. Given /\ phase = "gomod" /\ line = 1 /\ modulePath = {} /\ pending = {} /\ files = {}
  BY DEF Init, Given
<1>2. Len(lines) \in Nat
  BY <1>1, Shape
<1>3. DirectivesTo(line - 1) = {}
  BY <1>1 DEF DirectivesTo
<1>4. ModuleRead
  BY <1>1, <1>2, <1>3 DEF ModuleRead, Resolved, Walking
<1>5. Walked
  BY <1>1 DEF Walked, Walking
<1> QED
  BY <1>1, <1>4, <1>5 DEF Inv

(* A step that leaves lines alone leaves the directives alone.              *)
LEMMA DirectivesSame ==
    ASSUME UNCHANGED lines
    PROVE  /\ \A n : DirectivesTo(n)' = DirectivesTo(n)
           /\ Directives' = Directives /\ \A i : Declares(i)' = Declares(i)
BY DEF DirectivesTo, Directives, Declares

LEMMA FailInv == ASSUME Inv, Fail, phase \in {"root", "walk"} PROVE Inv'
<1>1. UNCHANGED <<lines, tree, moduleRoot, scanRoot, line, modulePath, pending, files>>
      /\ phase' = "failed"
  BY DEF Fail, Stop, input
<1>2. ModuleRead'
  BY <1>1, DirectivesSame DEF Inv, ModuleRead, Resolved, Walking
<1> QED
  BY <1>1, <1>2 DEF Inv, Given, Walked, Walking

(* A module file is refused where it declares no path.                      *)
LEMMA RefuseInv == ASSUME Inv, Refuse, ~\E i \in Directives : Declares(i) PROVE Inv'
<1>1. UNCHANGED <<lines, tree, moduleRoot, scanRoot, line, modulePath, pending, files>>
      /\ phase' = "refused"
  BY DEF Refuse, Stop, input
<1>2. ModuleRead'
  BY <1>1, DirectivesSame DEF Inv, ModuleRead, Resolved, Walking
<1> QED
  BY <1>1, <1>2 DEF Inv, Given, Walked, Walking

(* A directive without a path or after another is not the one that declares. *)
LEMMA RefuseLineInv == ASSUME Inv, RefuseLine PROVE Inv'
<1>1. /\ phase = "gomod" /\ line \in 1..Len(lines) /\ Len(lines) \in Nat
      /\ DOMAIN lines = 1..Len(lines) /\ Len(lines[line]) \in Nat
      /\ Refuse /\ line \in Directives
  BY Shape DEF Inv, ModuleRead, RefuseLine, AtLine, Directive, Directives
<1>2. ASSUME NEW i \in Directives, Declares(i) PROVE FALSE
  <2>1. i = line /\ Len(lines[line]) > 1
    BY <1>1, <1>2 DEF Declares
  <2>2. modulePath # {}
    BY <1>1, <2>1 DEF RefuseLine, Repeated
  <2>3. PICK k \in DirectivesTo(line - 1) : TRUE
    BY <1>1, <2>2 DEF Inv, ModuleRead
  <2>4. k \in Directives /\ k # line
    BY <1>1, <2>3 DEF DirectivesTo, Directives
  <2> QED
    BY <1>1, <1>2, <2>1, <2>4 DEF Declares
<1> QED
  BY <1>1, <1>2, RefuseInv

(* The lines of the module file. *)
LEMMA LineInv == ASSUME Inv, SkipLine \/ ReadDirective PROVE Inv'
<1>1. /\ phase = "gomod" /\ line \in 1..Len(lines) /\ line' = line + 1
      /\ UNCHANGED <<lines, tree, moduleRoot, scanRoot, phase, pending, files>>
  BY Shape DEF Inv, ModuleRead, SkipLine, ReadDirective, AtLine, input
<1>2. /\ Len(lines) \in Nat /\ Len(lines[line]) \in Nat
      /\ Len(lines[line]) > 1 /\ lines[line][1] = "module" => lines[line][2] \in Seq(Character)
  BY <1>1, Shape DEF Inv
<1>3. Given'
  BY <1>1 DEF Inv, Given
<1>4. Walked'
  BY <1>1 DEF Inv, Walked, Walking
<1>5. /\ \A k \in DirectivesTo(line - 1) : Len(lines[k]) > 1
      /\ \A j, k \in DirectivesTo(line - 1) : j = k
      /\ modulePath = {lines[k][2] : k \in DirectivesTo(line - 1)}
  BY <1>1 DEF Inv, ModuleRead
<1>6. DirectivesTo(line) =
        IF Directive THEN DirectivesTo(line - 1) \cup {line} ELSE DirectivesTo(line - 1)
  BY <1>1 DEF DirectivesTo, Directive
<1>7. /\ \A k \in DirectivesTo(line) : Len(lines[k]) > 1
      /\ \A j, k \in DirectivesTo(line) : j = k
      /\ modulePath' = {lines[k][2] : k \in DirectivesTo(line)}
      /\ modulePath' \subseteq Seq(Character)
      /\ \A x, y \in modulePath' : x = y
  <2>1. CASE SkipLine
    <3>1. ~Directive /\ modulePath' = modulePath
      BY <2>1 DEF SkipLine
    <3> QED
      BY <1>5, <1>6, <3>1 DEF Inv, ModuleRead
  <2>2. CASE ReadDirective
    <3>1. /\ Directive /\ Len(lines[line]) > 1 /\ lines[line][1] = "module"
          /\ modulePath = {} /\ modulePath' = {lines[line][2]}
      BY <1>2, <2>2 DEF ReadDirective, Directive, Repeated
    <3>2. DirectivesTo(line - 1) = {}
      BY <1>5, <3>1
    <3>3. DirectivesTo(line) = {line}
      BY <1>6, <3>1, <3>2
    <3> QED
      BY <1>2, <3>1, <3>3
  <2> QED
    BY <2>1, <2>2
<1>8. (\A n : DirectivesTo(n)' = DirectivesTo(n)) /\ line' - 1 = line
  BY <1>1, DirectivesSame
<1>9. ModuleRead'
  BY <1>1, <1>2, <1>7, <1>8 DEF ModuleRead, Resolved, Walking
<1> QED
  BY <1>3, <1>4, <1>9 DEF Inv

LEMMA EndOfFileInv == ASSUME Inv, EndOfFile PROVE Inv'
<1>1. /\ phase = "gomod" /\ line = Len(lines) + 1 /\ Len(lines) \in Nat
      /\ DOMAIN lines = 1..Len(lines)
  BY Shape DEF EndOfFile, Inv, ModuleRead
<1>2. CASE modulePath = {} \/ modulePath \subseteq Malformed
  <2>1. DirectivesTo(line - 1) = Directives
    BY <1>1 DEF DirectivesTo, Directives
  <2>2. modulePath = {lines[k][2] : k \in Directives}
    BY <1>1, <2>1 DEF Inv, ModuleRead
  <2>3. ~\E i \in Directives : Declares(i)
    BY <1>2, <2>2 DEF Declares
  <2> QED
    BY <1>2, <2>3, RefuseInv DEF EndOfFile
<1>3. CASE ~(modulePath = {} \/ modulePath \subseteq Malformed)
  <2>1. /\ phase' = "root"
        /\ UNCHANGED <<lines, tree, moduleRoot, scanRoot, line, modulePath, pending, files>>
    BY <1>3 DEF EndOfFile, Stop, input
  <2>2. Given' /\ Walked'
    BY <1>1, <2>1 DEF Inv, Given, Walked, Walking
  <2>3. ModuleRead'
    BY <1>1, <1>3, <2>1, DirectivesSame DEF Inv, ModuleRead, Resolved, Walking
  <2> QED
    BY <2>2, <2>3 DEF Inv
<1> QED
  BY <1>2, <1>3

(* Steps of the walk leave the module path alone. *)
LEMMA SamePath ==
    ASSUME Inv, phase = "root" \/ Walking, phase' \in {"walk", "scanned", "empty"},
           UNCHANGED <<lines, tree, moduleRoot, scanRoot, line, modulePath>>
    PROVE  Given' /\ ModuleRead'
<1>1. Given'
  BY DEF Inv, Given
<1>2. ModuleRead'
  BY DirectivesSame DEF Inv, ModuleRead, Resolved, Walking
<1> QED
  BY <1>1, <1>2

LEMMA PlaceType == ASSUME Given, NEW p \in DOMAIN tree PROVE p \in Seq(Name)
BY Shape DEF Rooted

LEMMA OpenRootInv == ASSUME Inv, OpenRoot PROVE Inv'
<1>1. CASE Fail
  BY <1>1, FailInv DEF OpenRoot
<1>2. CASE ~Fail
  <2>1. /\ phase = "root" /\ phase' = "walk" /\ pending' = {scanRoot}
        /\ IsPrefix(moduleRoot, scanRoot) /\ scanRoot \in DOMAIN tree
        /\ tree[scanRoot] \in {"dir", "closed"}
        /\ UNCHANGED <<lines, tree, moduleRoot, scanRoot, line, modulePath, files>>
    BY <1>2 DEF OpenRoot, input
  <2>2. Given' /\ ModuleRead'
    BY <2>1, SamePath
  <2>3. files = {}
    BY <2>1 DEF Inv, Walked
  <2>4. Visible' = Visible /\ \A p \in Visible \cup {scanRoot} : IsPrefix(scanRoot, p)
    <3>1. scanRoot \in Seq(Name)
      BY Shape DEF Inv
    <3>2. IsPrefix(scanRoot, scanRoot)
      BY <3>1, PrefixAt
    <3> QED
      BY <2>1, <3>2 DEF Visible
  <2>5. Walked'
    BY <2>1, <2>3, <2>4 DEF Walked, Walking
  <2> QED
    BY <2>2, <2>5 DEF Inv
<1> QED
  BY <1>1, <1>2

(* What a visible place is, element by element. *)
LEMMA VisibleAt ==
    ASSUME Given, NEW p \in Visible
    PROVE  /\ p \in DOMAIN tree /\ p \in Seq(Name) /\ IsPrefix(scanRoot, p)
           /\ Len(scanRoot) \in Nat /\ Len(p) \in Nat /\ Len(scanRoot) < Len(p)
           /\ \A n \in Len(scanRoot) + 1..Len(p) - 1 : p[n] \notin Skipped
<1>1. /\ p \in DOMAIN tree /\ IsPrefix(scanRoot, p) /\ p # scanRoot
      /\ \A n \in Len(scanRoot) + 1..Len(p) - 1 : p[n] \notin Skipped
  BY DEF Visible
<1>2. p \in Seq(Name) /\ scanRoot \in Seq(Name)
  BY <1>1, PlaceType, Shape
<1>3. /\ Len(scanRoot) \in Nat /\ Len(p) \in Nat /\ Len(scanRoot) <= Len(p)
      /\ \A i \in 1..Len(scanRoot) : scanRoot[i] = p[i]
  BY <1>1, <1>2, PrefixAt
<1>4. Len(scanRoot) # Len(p)
  BY <1>1, <1>2, <1>3, SeqEqual
<1> QED
  BY <1>1, <1>2, <1>3, <1>4

(* What a directory that is not skipped holds is visible. *)
LEMMA ChildVisible ==
    ASSUME Given, NEW q, q = scanRoot \/ q \in Visible, q \in DOMAIN tree, ~Skips(q),
           NEW c \in Children(q)
    PROVE  c \in Visible
<1>1. c \in DOMAIN tree /\ Len(c) = Len(q) + 1 /\ IsPrefix(q, c)
  BY DEF Children
<1>2. /\ c \in Seq(Name) /\ q \in Seq(Name) /\ scanRoot \in Seq(Name)
      /\ Len(c) \in Nat /\ Len(q) \in Nat /\ Len(scanRoot) \in Nat
  BY <1>1, PlaceType, Shape
<1>3. IsPrefix(scanRoot, q) /\ Len(scanRoot) <= Len(q)
  BY <1>2, PrefixAt, VisibleAt
<1>4. IsPrefix(scanRoot, c)
  BY <1>1, <1>2, <1>3, Joins
<1>5. c # scanRoot
  BY <1>1, <1>2, <1>3
<1>6. \A i \in 1..Len(q) : q[i] = c[i]
  BY <1>1, <1>2, PrefixAt
<1>7. ASSUME NEW n \in Len(scanRoot) + 1..Len(c) - 1 PROVE c[n] \notin Skipped
  <2>1. n \in 1..Len(q) /\ n > Len(scanRoot) /\ c[n] = q[n]
    BY <1>1, <1>2, <1>6, <1>7
  <2>2. q # scanRoot /\ q \in Visible
    BY <2>1, <1>2
  <2>3. CASE n = Len(q)
    BY <2>1, <2>2, <2>3 DEF Skips, Last
  <2>4. CASE n # Len(q)
    <3>1. n \in Len(scanRoot) + 1..Len(q) - 1
      BY <1>2, <2>1, <2>4
    <3> QED
      BY <2>1, <2>2, <3>1, VisibleAt
  <2> QED
    BY <2>3, <2>4
<1> QED
  BY <1>1, <1>4, <1>5, <1>7 DEF Visible

(* A source below a place to visit, if it is not that place, is below one   *)
(* that the visit adds.                                                     *)
LEMMA Descends ==
    ASSUME Given, NEW p \in Visible, NEW q, q = scanRoot \/ q \in Visible, q \in DOMAIN tree,
           IsPrefix(q, p), q # p
    PROVE  /\ tree[q] = "dir" /\ ~Skips(q)
           /\ \E c \in Children(q) : IsPrefix(c, p)
<1>1. /\ p \in DOMAIN tree /\ p \in Seq(Name) /\ q \in Seq(Name) /\ scanRoot \in Seq(Name)
      /\ Len(p) \in Nat /\ Len(q) \in Nat /\ Len(scanRoot) \in Nat
      /\ \A n \in Len(scanRoot) + 1..Len(p) - 1 : p[n] \notin Skipped
  BY VisibleAt, PlaceType, Shape
<1>2. Len(q) <= Len(p) /\ \A i \in 1..Len(q) : q[i] = p[i]
  BY <1>1, PrefixAt
<1>3. Len(q) < Len(p)
  BY <1>1, <1>2, SeqEqual
<1>4. ASSUME NEW n \in 0..Len(p)
      PROVE  /\ SubSeq(p, 1, n) \in Seq(Name) /\ Len(SubSeq(p, 1, n)) = n
             /\ \A i \in 1..n : SubSeq(p, 1, n)[i] = p[i]
  <2>1. 1 \in 1..Len(p) + 1 /\ n \in 0..Len(p) /\ 1 <= n + 1 /\ n - 1 + 1 = n
        /\ \A i \in 1..n : 1 + i - 1 = i
    BY <1>1
  <2>2. /\ SubSeq(p, 1, n) \in Seq(Name) /\ Len(SubSeq(p, 1, n)) = n - 1 + 1
        /\ \A i \in 1..n - 1 + 1 : SubSeq(p, 1, n)[i] = p[1 + i - 1]
    BY <1>1, <2>1, Sub
  <2> QED
    BY <2>1, <2>2
<1>5. \A n \in 0..Len(p) - 1 : SubSeq(p, 1, n) \in DOMAIN tree /\ tree[SubSeq(p, 1, n)] = "dir"
  BY <1>1, Shape DEF Rooted
<1>6. tree[q] = "dir"
  <2>1. Len(q) \in 0..Len(p) /\ Len(q) \in 0..Len(p) - 1
    BY <1>1, <1>3
  <2>2. SubSeq(p, 1, Len(q)) = q
    BY <1>1, <1>2, <1>4, <2>1, SeqEqual
  <2> QED
    BY <1>5, <2>1, <2>2
<1>7. ~Skips(q)
  <2>1. SUFFICES ASSUME q # scanRoot PROVE Last(q) \notin Skipped
    BY DEF Skips
  <2>2. q \in Visible
    BY <2>1
  <2>3. Len(scanRoot) < Len(q)
    BY <2>2, VisibleAt
  <2>4. Len(q) \in Len(scanRoot) + 1..Len(p) - 1 /\ Len(q) \in 1..Len(q)
    BY <1>1, <1>3, <2>3
  <2> QED
    BY <1>1, <1>2, <2>4 DEF Last
<1>8. \E c \in Children(q) : IsPrefix(c, p)
  <2> DEFINE n == Len(q) + 1
             c == SubSeq(p, 1, n)
  <2>1. n \in 0..Len(p) /\ n \in Nat
    BY <1>1, <1>3
  <2>2. c \in Seq(Name) /\ Len(c) = n /\ \A i \in 1..n : c[i] = p[i]
    BY <1>4, <2>1
  <2>3. c \in DOMAIN tree
    <3>1. CASE n = Len(p)
      <4>1. c = p
        BY <1>1, <2>2, <3>1, SeqEqual
      <4> QED
        BY <1>1, <4>1
    <3>2. CASE n # Len(p)
      <4>1. n \in 0..Len(p) - 1
        BY <1>1, <2>1, <3>2
      <4> QED
        BY <1>5, <4>1
    <3> QED
      BY <3>1, <3>2
  <2> HIDE DEF c
  <2>4. IsPrefix(c, p)
    BY <1>1, <2>1, <2>2, PrefixAt
  <2>5. IsPrefix(q, c)
    BY <1>1, <1>2, <2>1, <2>2, PrefixAt
  <2> QED
    BY <2>2, <2>3, <2>4, <2>5 DEF Children
<1> QED
  BY <1>6, <1>7, <1>8

LEMMA VisitInv == ASSUME Inv, Visit PROVE Inv'
<1>1. /\ phase = "walk" /\ phase' = "walk"
      /\ UNCHANGED <<lines, tree, moduleRoot, scanRoot, line, modulePath>>
  BY DEF Visit, input
<1>2. PICK q \in pending :
        /\ ~Unreadable(q)
        /\ pending' = (pending \ {q}) \cup
                          IF tree[q] = "dir" /\ ~Skips(q) THEN Children(q) ELSE {}
        /\ files' = files \cup IF tree[q] = "go" THEN {File(q)} ELSE {}
  BY DEF Visit
<1>3. Given /\ Given' /\ ModuleRead'
  BY <1>1, SamePath DEF Inv, Walking
<1>4. /\ IsPrefix(moduleRoot, scanRoot) /\ scanRoot \in DOMAIN tree
      /\ tree[scanRoot] \in {"dir", "closed"}
      /\ \A r \in pending : r = scanRoot \/ r \in Visible
      /\ \A f \in files : \E p \in Visible : tree[p] = "go" /\ f = File(p)
      /\ \A p \in Visible : Source(p) =>
             \/ tree[p] = "go" /\ File(p) \in files
             \/ \E r \in pending : IsPrefix(r, p)
      /\ \A p \in Visible \cup {scanRoot} : Unreadable(p) => \E r \in pending : IsPrefix(r, p)
  BY <1>1 DEF Inv, Walked, Walking
<1>5. q \in DOMAIN tree /\ (q = scanRoot \/ q \in Visible)
  BY <1>4 DEF Visible
<1>6. Visible' = Visible /\ (\A p : File(p)' = File(p)) /\ (\A p : Source(p)' = Source(p))
      /\ (\A p : Unreadable(p)' = Unreadable(p))
  BY <1>1 DEF Visible, File, Relative, Text, PackagePath, ModuleRelativeRoot, Resolve, Module,
              Prefix, FirstSegment, Source, Unreadable, Skips
<1>7. \A r \in pending' : r = scanRoot \/ r \in Visible
  BY <1>2, <1>3, <1>4, <1>5, ChildVisible
<1>8. \A f \in files' : \E p \in Visible : tree[p] = "go" /\ f = File(p)
  <2>1. tree[q] = "go" => q \in Visible
    BY <1>4, <1>5
  <2> QED
    BY <1>2, <1>4, <2>1
<1>9. ASSUME NEW p \in Visible, Source(p)
      PROVE  \/ tree[p] = "go" /\ File(p) \in files'
             \/ \E r \in pending' : IsPrefix(r, p)
  <2>1. CASE tree[p] = "go" /\ File(p) \in files
    BY <1>2, <2>1
  <2>2. CASE \E r \in pending : IsPrefix(r, p) /\ r # q
    BY <1>2, <2>2
  <2>3. CASE IsPrefix(q, p)
    <3>1. CASE q = p
      BY <1>2, <1>9, <3>1 DEF Source, Unreadable
    <3>2. CASE q # p
      <4>1. tree[q] = "dir" /\ ~Skips(q) /\ \E c \in Children(q) : IsPrefix(c, p)
        BY <1>3, <1>5, <2>3, <3>2, Descends
      <4> QED
        BY <1>2, <4>1
    <3> QED
      BY <3>1, <3>2
  <2> QED
    BY <1>4, <1>9, <2>1, <2>2, <2>3
<1>10. ASSUME NEW p \in Visible \cup {scanRoot}, Unreadable(p)
       PROVE  \E r \in pending' : IsPrefix(r, p)
  <2>1. PICK r \in pending : IsPrefix(r, p)
    BY <1>4, <1>10
  <2>2. CASE r # q
    BY <1>2, <2>1, <2>2
  <2>3. CASE r = q
    <3>1. q # p
      BY <1>2, <1>10
    <3>2. p \in Visible
      <4> SUFFICES ASSUME p = scanRoot PROVE FALSE
        BY <1>10
      <4>1. q \in Visible
        BY <1>5, <3>1
      <4>2. Len(scanRoot) < Len(q) /\ q \in Seq(Name) /\ Len(scanRoot) \in Nat /\ Len(q) \in Nat
        BY <1>3, <4>1, VisibleAt
      <4>3. scanRoot \in Seq(Name)
        BY <1>3, Shape
      <4> QED
        BY <2>1, <2>3, <4>2, <4>3, PrefixAt
    <3>3. tree[q] = "dir" /\ ~Skips(q) /\ \E c \in Children(q) : IsPrefix(c, p)
      BY <1>3, <1>5, <2>1, <2>3, <3>1, <3>2, Descends
    <3> QED
      BY <1>2, <3>3
  <2> QED
    BY <2>2, <2>3
<1>11. Walked'
  BY <1>1, <1>4, <1>6, <1>7, <1>8, <1>9, <1>10 DEF Walked, Walking
<1> QED
  BY <1>3, <1>11 DEF Inv

LEMMA EndWalkInv == ASSUME Inv, EndWalk PROVE Inv'
<1>1. /\ phase = "walk" /\ pending = {} /\ phase' \in {"scanned", "empty"}
      /\ UNCHANGED <<lines, tree, moduleRoot, scanRoot, line, modulePath, pending, files>>
  BY DEF EndWalk, input
<1>2. Given' /\ ModuleRead'
  BY <1>1, SamePath DEF Walking
<1>3. Visible' = Visible /\ (\A p : File(p)' = File(p)) /\ (\A p : Source(p)' = Source(p))
      /\ (\A p : Unreadable(p)' = Unreadable(p))
  BY <1>1 DEF Visible, File, Relative, Text, PackagePath, ModuleRelativeRoot, Resolve, Module,
              Prefix, FirstSegment, Source, Unreadable, Skips
<1>4. Walked'
  BY <1>1, <1>3 DEF Inv, Walked, Walking
<1> QED
  BY <1>2, <1>4 DEF Inv

LEMMA StutterInv == ASSUME Inv, UNCHANGED vars PROVE Inv'
<1>1. UNCHANGED <<lines, tree, moduleRoot, scanRoot, phase, line, modulePath, pending, files>>
  BY DEF vars, input
<1>2. Visible' = Visible /\ (\A p : File(p)' = File(p)) /\ (\A p : Source(p)' = Source(p))
      /\ (\A p : Unreadable(p)' = Unreadable(p))
  BY <1>1 DEF Visible, File, Relative, Text, PackagePath, ModuleRelativeRoot, Resolve, Module,
              Prefix, FirstSegment, Source, Unreadable, Skips
<1>3. Given' /\ ModuleRead'
  BY <1>1, DirectivesSame DEF Inv, Given, ModuleRead, Resolved, Walking
<1>4. Walked'
  BY <1>1, <1>2 DEF Inv, Walked, Walking
<1> QED
  BY <1>3, <1>4 DEF Inv

-----------------------------------------------------------------------------
(* The theorems. *)

LEMMA Invariance == Spec => []Inv
<1>1. ASSUME Inv, [Next]_vars PROVE Inv'
  BY <1>1, FailInv, RefuseLineInv, LineInv, EndOfFileInv, OpenRootInv, VisitInv, EndWalkInv,
     StutterInv
  DEF Next, WalkFails, Return
<1> QED
  BY <1>1, InitInv, PTL DEF Spec

(* A module file is read exactly when one directive declares a path, which  *)
(* is the path the resolver goes by.                                        *)
THEOREM OnePath == Spec => []OneModulePath
<1>1. ASSUME Inv, phase \notin {"gomod", "refused"}
      PROVE  \E i \in Directives : Declares(i) /\ modulePath = {lines[i][2]}
  <2>1. DOMAIN lines = 1..Len(lines) /\ Len(lines) \in Nat
    BY <1>1, Shape DEF Inv
  <2>2. /\ line = Len(lines) + 1 /\ modulePath # {} /\ ~(modulePath \subseteq Malformed)
        /\ \A k \in DirectivesTo(line - 1) : Len(lines[k]) > 1
        /\ \A j, k \in DirectivesTo(line - 1) : j = k
        /\ modulePath = {lines[k][2] : k \in DirectivesTo(line - 1)}
    BY <1>1, <2>1 DEF Inv, ModuleRead, Resolved, Walking
  <2>3. DirectivesTo(line - 1) = Directives
    BY <2>1, <2>2 DEF DirectivesTo, Directives
  <2>4. PICK i \in Directives : lines[i][2] \notin Malformed
    BY <2>2, <2>3
  <2>5. Directives = {i}
    BY <2>2, <2>3, <2>4
  <2> QED
    BY <2>2, <2>3, <2>4, <2>5 DEF Declares
<1>2. Inv => OneModulePath
  BY <1>1 DEF OneModulePath, Inv, ModuleRead
<1> QED
  BY <1>2, Invariance, PTL

(* The package a scanned place is given, in terms of the module. *)
LEMMA Coordinates ==
    ASSUME Given, IsPrefix(moduleRoot, scanRoot), NEW p \in Visible
    PROVE  /\ Relative(moduleRoot, p) \in Seq(Name) /\ Len(Relative(moduleRoot, p)) # 0
           /\ PackagePath(p) = Text(Front(Relative(moduleRoot, p)))
<1>1. /\ p \in Seq(Name) /\ scanRoot \in Seq(Name) /\ moduleRoot \in Seq(Name)
      /\ IsPrefix(scanRoot, p) /\ Len(scanRoot) < Len(p)
      /\ Len(moduleRoot) \in Nat /\ Len(scanRoot) \in Nat /\ Len(p) \in Nat
  BY VisibleAt, Shape
<1>2. /\ IsPrefix(moduleRoot, p)
      /\ ModuleRelativeRoot \o Relative(scanRoot, p) = Relative(moduleRoot, p)
  BY <1>1, Joins DEF ModuleRelativeRoot
<1>3. Len(moduleRoot) <= Len(scanRoot)
  BY <1>1, PrefixAt
<1>4. /\ Relative(moduleRoot, p) \in Seq(Name)
      /\ Len(Relative(moduleRoot, p)) = Len(p) - Len(moduleRoot)
  BY <1>1, <1>2, RelativeAt
<1> QED
  BY <1>1, <1>2, <1>3, <1>4 DEF PackagePath

(* A file in the scan is told by its path. *)
LEMMA FileTells ==
    ASSUME Given, NEW p \in Visible, NEW q \in Visible,
           Text(Relative(scanRoot, p)) = Text(Relative(scanRoot, q))
    PROVE  p = q
<1>1. /\ p \in Seq(Name) /\ q \in Seq(Name) /\ scanRoot \in Seq(Name)
      /\ IsPrefix(scanRoot, p) /\ IsPrefix(scanRoot, q)
  BY VisibleAt, Shape
<1>2. Relative(scanRoot, p) \in Seq(Name) /\ Relative(scanRoot, q) \in Seq(Name)
  BY <1>1, RelativeAt
<1>3. Relative(scanRoot, p) = Relative(scanRoot, q)
  BY <1>2, TextTells
<1> QED
  BY <1>1, <1>3, RelativeTells

LEMMA ModuleType ==
    ASSUME Inv, Walking
    PROVE  Module \in Seq(Character) /\ Module # <<>>
<1>1. modulePath # {} /\ ~(modulePath \subseteq Malformed) /\ modulePath \subseteq Seq(Character)
      /\ \A x, y \in modulePath : x = y
  BY DEF Inv, ModuleRead, Resolved
<1>2. Module \in modulePath
  BY <1>1 DEF Module
<1>3. <<>> \in Malformed
  BY ScanningAssumption
<1> QED
  BY <1>1, <1>2, <1>3

(* Whatever part of a module is scanned, the package of a file is what the  *)
(* import path of its directory resolves to, and imports are local exactly  *)
(* when they lie in the module.                                             *)
THEOREM NameSpace == Spec => []OneNameSpace
<1>1. ASSUME Inv, phase = "scanned", Module # <<"C">>,
             NEW p \in Visible, tree[p] = "go",
             NEW f \in files, f.path = Text(Relative(scanRoot, p))
      PROVE  LET directory == Front(Relative(moduleRoot, p))
                 text == IF directory = <<>> THEN Module ELSE Module \o <<"/">> \o Text(directory)
             IN  Resolve(text) = [path |-> f.pkg, type |-> "local"]
  <2>1. Given /\ Walking /\ IsPrefix(moduleRoot, scanRoot)
    BY <1>1 DEF Inv, Walked, Walking
  <2>2. PICK q \in Visible : f = File(q)
    BY <1>1, <2>1 DEF Inv, Walked
  <2>3. f.path = Text(Relative(scanRoot, q)) /\ f.pkg = PackagePath(q)
    BY <2>2 DEF File
  <2>4. q = p
    BY <1>1, <2>1, <2>3, FileTells
  <2>5. /\ Relative(moduleRoot, p) \in Seq(Name) /\ Len(Relative(moduleRoot, p)) # 0
        /\ f.pkg = Text(Front(Relative(moduleRoot, p)))
    BY <2>1, <2>3, <2>4, Coordinates
  <2> DEFINE r == Relative(moduleRoot, p)
             d == Front(r)
  <2>6. d \in Seq(Name)
    <3>1. Len(r) \in Nat /\ 1 \in 1..Len(r) + 1 /\ Len(r) - 1 \in 0..Len(r)
          /\ 1 <= Len(r) - 1 + 1
      BY <2>5
    <3> QED
      BY <2>5, <3>1, Sub DEF Front
  <2> HIDE DEF r, d
  <2>7. f.pkg = Text(d)
    BY <2>5 DEF d, r
  <2>8. Module \in Seq(Character) /\ Module # <<>>
    BY <1>1, <2>1, ModuleType
  <2>9. CASE d = <<>>
    <3>1. <<"C">> # <<>> /\ <<".">> \in Seq(Character) /\ <<".">> # <<>>
      BY ScanningAssumption
    <3>2. Resolve(Module) = [path |-> <<".">>, type |-> "local"]
      BY <1>1, <2>8, <3>1, ResolveInside
    <3>3. f.pkg = <<".">>
      BY <2>7, <2>9, EmptyText
    <3> QED
      BY <2>9, <3>2, <3>3 DEF d, r
  <2>10. CASE d # <<>>
    <3>1. Len(d) \in Nat \ {0}
      BY <2>6, <2>10, EmptySeq
    <3>2. Text(d) \in Seq(Character) /\ Len(Text(d)) = 2 * Len(d) - 1
      BY <2>6, <2>10, TextAt
    <3>3. Text(d) # <<>>
      BY <3>1, <3>2
    <3>4. Resolve(Module \o <<"/">> \o Text(d)) = [path |-> Text(d), type |-> "local"]
      BY <1>1, <2>8, <3>2, <3>3, ResolveInside
    <3> QED
      BY <2>7, <2>10, <3>4 DEF d, r
  <2> QED
    BY <2>9, <2>10
<1>2. Inv => SameCoordinates
  BY <1>1 DEF SameCoordinates
<1>3. ASSUME Inv, phase = "scanned" PROVE LocalMeansInside
  <2>1. Module \in Seq(Character)
    BY <1>3, ModuleType DEF Walking
  <2>2. \A text \in Imports : text \in Seq(Character)
    BY ScanningAssumption
  <2> QED
    BY <2>1, <2>2, ResolveLocal DEF LocalMeansInside
<1>4. Inv => OneNameSpace
  BY <1>2, <1>3 DEF OneNameSpace, LocalMeansInside
<1> QED
  BY <1>4, Invariance, PTL

(* A finished walk holds every source below the root once and nothing else. *)
THEOREM NoFileMissed == Spec => []EveryFileOnce
<1>1. ASSUME Inv, phase \in {"scanned", "empty"}
      PROVE  LET sources == {p \in Visible : tree[p] \in {"go", "broken"}}
             IN  /\ {f.path : f \in files} = {Text(Relative(scanRoot, p)) : p \in sources}
                 /\ Cardinality(files) = Cardinality(sources)
                 /\ \A p \in sources : tree[p] = "go"
                 /\ \A p \in Visible \cup {scanRoot} :
                        tree[p] = "closed" => p # scanRoot /\ Last(p) \in Skipped
  <2> DEFINE sources == {p \in Visible : tree[p] \in {"go", "broken"}}
  <2>1. Given /\ Walking
    BY <1>1 DEF Inv, Walking
  <2>2. /\ pending = {}
        /\ \A f \in files : \E p \in Visible : tree[p] = "go" /\ f = File(p)
        /\ \A p \in Visible : Source(p) =>
               \/ tree[p] = "go" /\ File(p) \in files
               \/ \E q \in pending : IsPrefix(q, p)
        /\ \A p \in Visible \cup {scanRoot} : Unreadable(p) => \E q \in pending : IsPrefix(q, p)
    BY <1>1, <2>1 DEF Inv, Walked
  <2>3. \A p \in sources : tree[p] = "go" /\ File(p) \in files
    BY <2>2 DEF Source
  <2>4. \A f \in files : \E p \in sources : f = File(p)
    BY <2>2
  <2>5. \A p : File(p).path = Text(Relative(scanRoot, p))
    BY DEF File
  <2>6. \A p, q \in sources : File(p) = File(q) => p = q
    BY <2>1, <2>5, FileTells
  <2>7. IsFiniteSet(sources)
    <3>1. IsFiniteSet(DOMAIN tree)
      BY <2>1, Shape DEF Rooted
    <3>2. sources \subseteq DOMAIN tree
      BY DEF Visible
    <3> QED
      BY <3>1, <3>2, FS_Subset
  <2> HIDE DEF sources
  <2>8. [p \in sources |-> File(p)] \in Bijection(sources, files)
    BY <2>3, <2>4, <2>6 DEF Bijection, Injection, Surjection, IsInjective
  <2>9. Cardinality(files) = Cardinality(sources)
    BY <2>7, <2>8, FS_Bijection DEF ExistsBijection
  <2>10. {f.path : f \in files} = {Text(Relative(scanRoot, p)) : p \in sources}
    BY <2>3, <2>4, <2>5
  <2>11. \A p \in Visible \cup {scanRoot} :
            tree[p] = "closed" => p # scanRoot /\ Last(p) \in Skipped
    BY <2>2 DEF Unreadable, Skips
  <2> QED
    BY <2>3, <2>9, <2>10, <2>11 DEF sources
<1>2. Inv => EveryFileOnce
  BY <1>1 DEF EveryFileOnce
<1> QED
  BY <1>2, Invariance, PTL

-----------------------------------------------------------------------------
(* The scanner of templates. Sets of numbers first.                         *)

(* A set of numbers that is not empty has a least one.                      *)
LEMMA LeastOf ==
    ASSUME NEW S, S \subseteq Nat, S # {}
    PROVE  \E k \in S : \A m \in S : k <= m
<1> DEFINE R == OpToRel(<, Nat)
<1>1. IsWellFoundedOn(R, Nat)
  BY NatLessThanWellFounded
<1>2. \A x, y \in Nat : <<x, y>> \in R <=> x < y
  BY DEF OpToRel
<1> HIDE DEF R
<1>3. PICK k \in S : \A m \in S : ~(<<m, k>> \in R)
  BY <1>1, WFMin
<1>4. \A m \in S : k <= m
  <2> SUFFICES ASSUME NEW m \in S PROVE k <= m
    OBVIOUS
  <2>1. m \in Nat /\ k \in Nat /\ ~(m < k)
    BY <1>2, <1>3
  <2> QED
    BY <2>1
<1> QED
  BY <1>3, <1>4

(* A set that holds 0 and with every number the next one holds them all.    *)
LEMMA Induction ==
    ASSUME NEW S, 0 \in S, \A n \in Nat : n \in S => n + 1 \in S
    PROVE  Nat \subseteq S
<1> DEFINE Bad == Nat \ S
<1> SUFFICES ASSUME Bad # {} PROVE FALSE
  OBVIOUS
<1>1. PICK k \in Bad : \A m \in Bad : k <= m
  BY LeastOf
<1>2. k - 1 \in Nat /\ k - 1 \notin Bad
  BY <1>1
<1> QED
  BY <1>1, <1>2

-----------------------------------------------------------------------------
(* Texts as the compiler reads them: the recursive definitions satisfy      *)
(* their own equations, and every token and item ends behind its beginning. *)

IsText(text) == text \in Seq(Range(text))

LEMMA TextBasics ==
    ASSUME NEW text, IsText(text)
    PROVE  /\ Len(text) \in Nat /\ DOMAIN text = 1..Len(text)
           /\ \A i, c : At(text, i, c) <=> i \in 1..Len(text) /\ text[i] = c
<1>1. Len(text) \in Nat /\ DOMAIN text = 1..Len(text)
  BY DEF IsText
<1> QED
  BY <1>1 DEF At

(* Where the name of a POSIX class ends: the first ":]".                    *)
LEMMA NameEnd ==
    ASSUME NEW text, IsText(text), NEW i \in Nat, NameEnds(text, i) # {}
    PROVE  /\ Min(NameEnds(text, i)) \in NameEnds(text, i)
           /\ \A j \in NameEnds(text, i) : Min(NameEnds(text, i)) <= j
<1>1. NameEnds(text, i) \subseteq Nat
  BY TextBasics DEF NameEnds
<1>2. \E k \in NameEnds(text, i) : \A m \in NameEnds(text, i) : k <= m
  BY <1>1, LeastOf
<1> QED
  BY <1>2 DEF Min

(* A POSIX class that has one of the names, character by character.         *)
LEMMA NamedShape ==
    ASSUME NEW text, IsText(text), NEW i \in 1..Len(text), IsPosix(text, i),
           NamedClass(text, i) # 0
    PROVE  /\ At(text, i, "[") /\ At(text, i + 1, ":")
           /\ \/ /\ At(text, i + 2, "a") /\ At(text, i + 3, ":") /\ At(text, i + 4, "]")
                 /\ NamedClass(text, i) = i + 5
              \/ /\ At(text, i + 2, "^") /\ At(text, i + 3, "a")
                 /\ At(text, i + 4, ":") /\ At(text, i + 5, "]")
                 /\ NamedClass(text, i) = i + 6
<1> DEFINE e == Min(NameEnds(text, i))
           name == SubSeq(text, i + 2, e - 1)
<1>1. /\ At(text, i, "[") /\ At(text, i + 1, ":")
      /\ e \in NameEnds(text, i)
  BY NameEnd DEF IsPosix
<1>2. e \in i + 2..Len(text) /\ At(text, e, ":") /\ At(text, e + 1, "]")
  BY <1>1, TextBasics DEF NameEnds
<1>3. name \in Names /\ NamedClass(text, i) = e + 2
  <2>1. NamedClass(text, i) = IF name \in Names THEN e + 2 ELSE 0
    BY DEF NamedClass
  <2> HIDE DEF e, name
  <2> QED
    BY <2>1
<1> HIDE DEF e
<1>4. Len(text) \in Nat
  BY TextBasics
<1>5. Len(name) = e - i - 2 /\ \A k \in 1..Len(name) : name[k] = text[i + 1 + k]
  BY <1>2, <1>4 DEF IsText
<1> HIDE DEF name
<1>6. CASE name = <<"a">>
  <2>1. Len(name) = 1 /\ name[1] = "a"
    BY <1>6
  <2>2. e = i + 3 /\ i + 1 + 1 = i + 2 /\ name[1] = text[i + 1 + 1]
    <3>1. e \in Int /\ i \in Int
      BY <1>2, <1>4
    <3>2. Len(name) = e - i - 2
      BY <1>5
    <3>3. e = i + 2 + Len(name)
      BY <3>1, <3>2
    <3>4. \A k \in 1..Len(name) : name[k] = text[i + 1 + k]
      BY <1>5
    <3>5. name[1] = text[i + 1 + 1]
      BY <2>1, <3>4
    <3> QED
      BY <3>1, <3>3, <3>5, <2>1
  <2> QED
    BY <1>1, <1>2, <1>3, <1>4, <2>1, <2>2, TextBasics
<1>7. CASE name = <<"^", "a">>
  <2>1. Len(name) = 2 /\ name[1] = "^" /\ name[2] = "a"
    BY <1>7
  <2>2. /\ e = i + 4 /\ i + 1 + 1 = i + 2 /\ i + 1 + 2 = i + 3
        /\ name[1] = text[i + 1 + 1] /\ name[2] = text[i + 1 + 2]
    <3>1. e \in Int /\ i \in Int
      BY <1>2, <1>4
    <3>2. Len(name) = e - i - 2
      BY <1>5
    <3>3. e = i + 2 + Len(name)
      BY <3>1, <3>2
    <3>4. \A k \in 1..Len(name) : name[k] = text[i + 1 + k]
      BY <1>5
    <3>5. name[1] = text[i + 1 + 1] /\ name[2] = text[i + 1 + 2]
      BY <2>1, <3>4
    <3> QED
      BY <3>1, <3>3, <3>5, <2>1
  <2> QED
    BY <1>1, <1>2, <1>3, <1>4, <2>1, <2>2, TextBasics
<1> QED
  BY <1>3, <1>6, <1>7 DEF Names

(* And the other way round.                                                 *)
LEMMA ShapeNamed ==
    ASSUME NEW text, IsText(text), NEW i \in 1..Len(text),
           At(text, i, "["), At(text, i + 1, ":"),
           \/ At(text, i + 2, "a") /\ At(text, i + 3, ":") /\ At(text, i + 4, "]")
           \/ /\ At(text, i + 2, "^") /\ At(text, i + 3, "a")
              /\ At(text, i + 4, ":") /\ At(text, i + 5, "]")
    PROVE  /\ IsPosix(text, i)
           /\ NamedClass(text, i) = IF At(text, i + 2, "a") THEN i + 5 ELSE i + 6
<1> DEFINE n == IF At(text, i + 2, "a") THEN 1 ELSE 2
           e == Min(NameEnds(text, i))
<1>1. Len(text) \in Nat /\ \A k, c : At(text, k, c) <=> k \in 1..Len(text) /\ text[k] = c
  BY TextBasics
<1>2. i + n + 2 \in NameEnds(text, i)
  BY <1>1 DEF NameEnds
<1>3. \A j \in NameEnds(text, i) : j >= i + n + 2
  BY <1>1 DEF NameEnds
<1>4. e \in NameEnds(text, i) /\ e <= i + n + 2
  BY <1>2, NameEnd
<1>5. e = i + n + 2
  <2>1. e \in Nat
    BY <1>1, <1>4 DEF NameEnds
  <2> QED
    BY <1>3, <1>4, <2>1
<1> DEFINE name == SubSeq(text, i + 2, e - 1)
<1>6. /\ name \in Seq(Range(text))
      /\ Len(name) = n /\ \A k \in 1..n : name[k] = text[i + 1 + k]
  BY <1>1, <1>5 DEF IsText
<1>7. NamedClass(text, i) = IF name \in Names THEN e + 2 ELSE 0
  BY DEF NamedClass
<1>8. name \in Names
  <2> HIDE DEF name
  <2>1. CASE At(text, i + 2, "a")
    <3>1. Len(name) = 1 /\ name[1] = "a"
      BY <1>1, <1>6, <2>1
    <3>2. name = <<"a">>
      BY <1>6, <3>1
    <3> QED
      BY <3>2 DEF Names
  <2>2. CASE ~At(text, i + 2, "a")
    <3>1. Len(name) = 2 /\ name[1] = "^" /\ name[2] = "a"
      BY <1>1, <1>6, <2>2
    <3>2. name = <<"^", "a">>
      BY <1>6, <3>1
    <3> QED
      BY <3>2 DEF Names
  <2> QED
    BY <2>1, <2>2
<1>9. IsPosix(text, i)
  BY <1>2 DEF IsPosix
<1> HIDE DEF e, name
<1> QED
  BY <1>5, <1>7, <1>8, <1>9

(* An item of a class ends behind its beginning, if it is one.              *)
LEMMA ItemEnds ==
    ASSUME NEW text, IsText(text), NEW i \in 1..Len(text) + 1
    PROVE  /\ ClassItem(text, i) \in {0} \cup i + 1..Len(text) + 1
           /\ i = Len(text) + 1 => ClassItem(text, i) = 0
<1>1. Len(text) \in Nat
  BY TextBasics
<1>2. CASE i > Len(text)
  BY <1>1, <1>2 DEF ClassItem
<1>3. CASE i <= Len(text) /\ text[i] = "\\"
  BY <1>1, <1>3 DEF ClassItem, EscapeEnd
<1>4. CASE i <= Len(text) /\ text[i] # "\\" /\ IsPosix(text, i)
  <2>1. ClassItem(text, i) = NamedClass(text, i)
    BY <1>1, <1>4 DEF ClassItem
  <2>2. CASE NamedClass(text, i) # 0
    <3>1. i \in 1..Len(text)
      BY <1>1, <1>4
    <3>2. \/ At(text, i + 4, "]") /\ NamedClass(text, i) = i + 5
          \/ At(text, i + 5, "]") /\ NamedClass(text, i) = i + 6
      BY <1>4, <2>2, <3>1, NamedShape
    <3>3. NamedClass(text, i) \in i + 1..Len(text) + 1
      BY <1>1, <3>2, TextBasics
    <3> QED
      BY <1>1, <1>4, <2>1, <3>3
  <2> QED
    BY <1>1, <1>4, <2>1, <2>2
<1>5. CASE i <= Len(text) /\ text[i] # "\\" /\ ~IsPosix(text, i)
  BY <1>1, <1>5 DEF ClassItem
<1> QED
  BY <1>1, <1>2, <1>3, <1>4, <1>5

(* The equation of ClassFrom, and a function that satisfies it from k on.   *)
FromBody(text, f, j) ==
    IF j = 0 THEN 0 ELSE IF At(text, j, "]") THEN j + 1 ELSE f[ClassItem(text, j)]

FromAbove(text, f, k) ==
    /\ f = [j \in 0..Len(text) + 1 |-> f[j]]
    /\ \A j \in 0..Len(text) + 1 : j = 0 \/ j >= k => f[j] = FromBody(text, f, j)

LEMMA FromExists ==
    ASSUME NEW text, IsText(text)
    PROVE  \E f : FromAbove(text, f, 1)
<1>1. Len(text) \in Nat
  BY TextBasics
<1> DEFINE last == Len(text) + 1
           S == {n \in Nat : n < last => \E f : FromAbove(text, f, last - n)}
<1>2. 0 \in S
  <2> DEFINE f == [j \in 0..Len(text) + 1 |-> 0]
  <2>1. f = [j \in 0..Len(text) + 1 |-> f[j]]
    OBVIOUS
  <2>2. \A j \in 0..Len(text) + 1 : f[j] = 0
    OBVIOUS
  <2> HIDE DEF f
  <2>3. ClassItem(text, last) = 0
    BY <1>1, ItemEnds
  <2>4. ~At(text, last, "]")
    BY <1>1, TextBasics
  <2>5. FromBody(text, f, last) = 0 /\ FromBody(text, f, 0) = 0
    BY <1>1, <2>2, <2>3, <2>4 DEF FromBody
  <2>6. FromAbove(text, f, last)
    <3>1. \A j \in 0..Len(text) + 1 : j = 0 \/ j >= last => j = 0 \/ j = last
      BY <1>1
    <3> HIDE DEF last
    <3> QED
      BY <2>1, <2>2, <2>5, <3>1 DEF FromAbove
  <2>7. last - 0 = last
    BY <1>1
  <2> QED
    BY <2>6, <2>7
<1>3. ASSUME NEW n \in Nat, n \in S PROVE n + 1 \in S
  <2> SUFFICES ASSUME n + 1 < last PROVE \E f : FromAbove(text, f, last - (n + 1))
    OBVIOUS
  <2> DEFINE k == last - (n + 1)
  <2>1. k \in 1..Len(text) /\ last - n = k + 1
    BY <1>1
  <2>2. PICK f : FromAbove(text, f, k + 1)
    BY <1>1, <1>3, <2>1
  <2> HIDE DEF k
  <2> DEFINE g == [f EXCEPT ![k] = FromBody(text, f, k)]
  <2>3. /\ g = [j \in 0..Len(text) + 1 |-> g[j]]
        /\ g[k] = FromBody(text, f, k)
        /\ \A j \in 0..Len(text) + 1 : j # k => g[j] = f[j]
    BY <1>1, <2>1, <2>2 DEF FromAbove
  <2> HIDE DEF g
  <2>4. ASSUME NEW j \in 0..Len(text) + 1, j = 0 \/ j >= k
        PROVE  FromBody(text, g, j) = FromBody(text, f, j)
    <3>1. CASE j = 0
      BY <3>1 DEF FromBody
    <3>2. CASE j # 0
      <4>1. ClassItem(text, j) \in 0..Len(text) + 1 /\ ClassItem(text, j) # k
        <5>1. j \in 1..Len(text) + 1
          BY <1>1, <3>2
        <5> QED
          BY <1>1, <2>1, <2>4, <3>2, <5>1, ItemEnds
      <4> QED
        BY <2>3, <3>2, <4>1 DEF FromBody
    <3> QED
      BY <3>1, <3>2
  <2>5. FromAbove(text, g, k)
    <3>1. ASSUME NEW j \in 0..Len(text) + 1, j = 0 \/ j >= k
          PROVE  g[j] = FromBody(text, g, j)
      <4>1. CASE j = k
        BY <2>3, <2>4, <3>1, <4>1
      <4>2. CASE j # k
        <5>1. j = 0 \/ j >= k + 1
          BY <1>1, <2>1, <3>1, <4>2
        <5> QED
          BY <2>2, <2>3, <2>4, <3>1, <4>2, <5>1 DEF FromAbove
      <4> QED
        BY <4>1, <4>2
    <3> QED
      BY <2>3, <3>1 DEF FromAbove
  <2> QED
    BY <2>5 DEF k
<1> HIDE DEF S
<1>4. Nat \subseteq S
  BY <1>2, <1>3, Induction
<1>5. Len(text) \in S /\ last - Len(text) = 1 /\ Len(text) < last
  BY <1>1, <1>4
<1> QED
  BY <1>5 DEF S

LEMMA ClassFromDef ==
    ASSUME NEW text, IsText(text)
    PROVE  /\ ClassFrom(text, 0) = 0
           /\ \A j \in 1..Len(text) + 1 :
                  ClassFrom(text, j) =
                      IF At(text, j, "]") THEN j + 1 ELSE ClassFrom(text, ClassItem(text, j))
<1> DEFINE Is(f) == f = [j \in 0..Len(text) + 1 |->
                            IF j = 0 THEN 0
                            ELSE IF At(text, j, "]") THEN j + 1
                            ELSE f[ClassItem(text, j)]]
           L == CHOOSE f : Is(f)
<1>1. Len(text) \in Nat
  BY TextBasics
<1>2. \E f : Is(f)
  <2>1. PICK f : FromAbove(text, f, 1)
    BY FromExists
  <2>2. \A j \in 0..Len(text) + 1 : f[j] = FromBody(text, f, j)
    BY <1>1, <2>1 DEF FromAbove
  <2>3. Is(f)
    BY <2>1, <2>2 DEF FromAbove, FromBody
  <2> QED
    BY <2>3
<1>3. Is(L)
  BY <1>2
<1>4. \A j : ClassFrom(text, j) = L[j]
  BY DEF ClassFrom
<1> HIDE DEF L
<1>5. L[0] = 0
  BY <1>1, <1>3
<1>6. ASSUME NEW j \in 1..Len(text) + 1
      PROVE  L[j] = IF At(text, j, "]") THEN j + 1 ELSE L[ClassItem(text, j)]
  <2>1. j \in 0..Len(text) + 1 /\ j # 0
    BY <1>1
  <2> QED
    BY <1>3, <2>1
<1> QED
  BY <1>4, <1>5, <1>6

(* A class ends behind each of its items.                                   *)
LEMMA ClassEnds ==
    ASSUME NEW text, IsText(text)
    PROVE  \A j \in 1..Len(text) + 1 :
               ClassFrom(text, j) \in {0} \cup j + 1..Len(text) + 1
<1>1. Len(text) \in Nat
  BY TextBasics
<1> DEFINE last == Len(text) + 1
           Good(j) == ClassFrom(text, j) \in {0} \cup j + 1..Len(text) + 1
           S == {n \in Nat : \A j \in 1..last : j >= last - n => Good(j)}
<1>2. ASSUME NEW j \in 1..last, \A m \in 1..last : m > j => Good(m) PROVE Good(j)
  <2>1. ClassFrom(text, j) =
            IF At(text, j, "]") THEN j + 1 ELSE ClassFrom(text, ClassItem(text, j))
    BY ClassFromDef
  <2>2. CASE At(text, j, "]")
    <3>1. j \in 1..Len(text)
      BY <2>2, TextBasics
    <3> QED
      BY <1>1, <2>1, <2>2, <3>1
  <2>3. CASE ~At(text, j, "]") /\ ClassItem(text, j) = 0
    BY <2>1, <2>3, ClassFromDef
  <2>4. CASE ~At(text, j, "]") /\ ClassItem(text, j) # 0
    <3>1. ClassItem(text, j) \in j + 1..last
      BY <2>4, ItemEnds
    <3>2. Good(ClassItem(text, j))
      BY <1>1, <1>2, <3>1
    <3> QED
      BY <1>1, <2>1, <2>4, <3>1, <3>2
  <2> QED
    BY <2>2, <2>3, <2>4
<1>3. 0 \in S
  <2>1. ASSUME NEW j \in 1..last, j >= last - 0 PROVE Good(j)
    <3>1. \A m \in 1..last : ~(m > j)
      BY <1>1, <2>1
    <3> HIDE DEF Good
    <3> QED
      BY <1>2, <3>1
  <2> QED
    BY <2>1
<1>4. ASSUME NEW n \in Nat, n \in S PROVE n + 1 \in S
  <2>1. ASSUME NEW j \in 1..last, j >= last - (n + 1) PROVE Good(j)
    <3>1. \A m \in 1..last : m > j => m >= last - n
      BY <1>1, <2>1
    <3> HIDE DEF Good
    <3>2. \A m \in 1..last : m > j => Good(m)
      BY <1>4, <3>1
    <3> QED
      BY <1>2, <3>2
  <2> QED
    BY <2>1
<1> HIDE DEF S
<1>5. last \in S
  <2>1. Nat \subseteq S
    BY <1>3, <1>4, Induction
  <2> QED
    BY <1>1, <2>1
<1>6. \A j \in 1..last : j >= last - last
  BY <1>1
<1> QED
  BY <1>5, <1>6 DEF S

(* A class that ends has a first item, and ends behind it.                  *)
LEMMA ClassEndAfter ==
    ASSUME NEW text, IsText(text), NEW i \in 1..Len(text)
    PROVE  /\ FirstItem(text, i) \in i + 1..Len(text) + 1
           /\ ClassEnd(text, i) # 0 =>
                 /\ ClassItem(text, FirstItem(text, i)) # 0
                 /\ FirstItem(text, i) \in i + 1..Len(text)
                 /\ ClassEnd(text, i) \in FirstItem(text, i) + 2..Len(text) + 1
           /\ ClassEnd(text, i) \in 0..Len(text) + 1
<1> DEFINE f == FirstItem(text, i)
           n == ClassItem(text, f)
<1>1. Len(text) \in Nat
  BY TextBasics
<1>2. f \in i + 1..Len(text) + 1
  BY <1>1, TextBasics DEF FirstItem
<1>3. ClassEnd(text, i) = ClassFrom(text, n)
  BY DEF ClassEnd
<1>4. n \in {0} \cup f + 1..Len(text) + 1 /\ (f = Len(text) + 1 => n = 0)
  BY <1>1, <1>2, ItemEnds
<1> HIDE DEF n, f
<1>5. n # 0 => ClassFrom(text, n) \in {0} \cup n + 1..Len(text) + 1
  BY <1>1, <1>2, <1>4, ClassEnds
<1>6. n = 0 => ClassFrom(text, n) = 0
  BY ClassFromDef
<1> USE <1>1, <1>2, <1>3, <1>4, <1>5, <1>6
<1>7. ASSUME ClassEnd(text, i) # 0
      PROVE  n # 0 /\ f \in i + 1..Len(text) /\ ClassEnd(text, i) \in f + 2..Len(text) + 1
  BY <1>7
<1>8. ClassEnd(text, i) \in 0..Len(text) + 1
  OBVIOUS
<1> QED
  BY <1>7, <1>8 DEF n, f

(* Quoted text ends behind the first \E, or with the text.                  *)
Unquotes(text, j) == At(text, j, "\\") /\ At(text, j + 1, "E")

LEMMA QuoteEnds ==
    ASSUME NEW text, IsText(text), NEW i \in 1..Len(text)
    PROVE  \/ /\ QuoteEnd(text, i) = Len(text) + 1
              /\ \A j \in i + 2..Len(text) : ~Unquotes(text, j)
           \/ \E j \in i + 2..Len(text) :
                 /\ Unquotes(text, j) /\ j + 2 <= Len(text) + 1 /\ QuoteEnd(text, i) = j + 2
                 /\ \A m \in i + 2..j - 1 : ~Unquotes(text, m)
<1> DEFINE J == {k \in i + 2..Len(text) : text[k] = "\\" /\ At(text, k + 1, "E")}
           ends == {Len(text) + 1} \cup {j + 2 : j \in J}
<1>1. Len(text) \in Nat
  BY TextBasics
<1>2. QuoteEnd(text, i) = Min(ends)
  BY DEF QuoteEnd
<1>3. \A j : j \in J <=> j \in i + 2..Len(text) /\ Unquotes(text, j)
  BY <1>1, TextBasics DEF Unquotes
<1>4. J \subseteq Nat
  BY <1>1
<1> HIDE DEF J
<1>5. CASE J = {}
  <2>1. ends = {Len(text) + 1}
    BY <1>5
  <2>2. Min(ends) = Len(text) + 1
    BY <1>1, <2>1 DEF Min
  <2> QED
    BY <1>2, <1>3, <1>5, <2>2
<1>6. CASE J # {}
  <2>1. PICK j \in J : \A m \in J : j <= m
    BY <1>4, <1>6, LeastOf
  <2>2. j \in i + 2..Len(text) /\ Unquotes(text, j) /\ j + 2 <= Len(text) + 1
    BY <1>1, <1>3, <2>1, TextBasics DEF Unquotes
  <2>3. j + 2 \in ends /\ \A m \in ends : j + 2 <= m
    BY <1>1, <1>4, <2>1, <2>2
  <2>4. ends \subseteq Nat
    BY <1>1, <1>4
  <2>5. Min(ends) = j + 2
    <3> HIDE DEF ends
    <3>1. Min(ends) \in ends /\ \A m \in ends : Min(ends) <= m
      BY <2>3 DEF Min
    <3>2. Min(ends) <= j + 2 /\ j + 2 <= Min(ends)
      BY <2>3, <3>1
    <3>3. Min(ends) \in Nat /\ j + 2 \in Nat
      BY <2>3, <2>4, <3>1
    <3> QED
      BY <3>2, <3>3
  <2>6. \A m \in i + 2..j - 1 : ~Unquotes(text, m)
    <3>1. \A m \in i + 2..j - 1 : m \notin J /\ m \in i + 2..Len(text)
      BY <1>1, <1>4, <2>1, <2>2
    <3> QED
      BY <1>3, <3>1
  <2> QED
    BY <1>2, <2>2, <2>5, <2>6
<1> QED
  BY <1>5, <1>6

(* A token ends behind its beginning, if it is one.                         *)
LEMMA TokenEnds ==
    ASSUME NEW text, IsText(text), NEW i \in 1..Len(text)
    PROVE  TokenEnd(text, i) \in {0} \cup i + 1..Len(text) + 1
<1>1. Len(text) \in Nat
  BY TextBasics
<1>2. CASE text[i] = "["
  <2>1. TokenEnd(text, i) = ClassEnd(text, i)
    BY <1>2 DEF TokenEnd
  <2> QED
    BY <1>1, <2>1, ClassEndAfter
<1>3. CASE text[i] = "\\" /\ At(text, i + 1, "Q")
  <2>1. TokenEnd(text, i) = QuoteEnd(text, i)
    BY <1>3 DEF TokenEnd
  <2>2. Len(text) + 1 >= i + 2
    BY <1>1, <1>3, TextBasics
  <2> QED
    BY <1>1, <2>1, <2>2, QuoteEnds
<1>4. CASE text[i] = "\\" /\ ~At(text, i + 1, "Q")
  <2>1. TokenEnd(text, i) = EscapeEnd(text, i)
    BY <1>4 DEF TokenEnd
  <2> QED
    BY <1>1, <2>1 DEF EscapeEnd
<1>5. CASE text[i] # "[" /\ text[i] # "\\"
  <2>1. TokenEnd(text, i) = i + 1
    BY <1>5 DEF TokenEnd
  <2> QED
    BY <1>1, <2>1
<1> QED
  BY <1>2, <1>3, <1>4, <1>5

(* A token begins at 1 and where another one ends.                          *)
LEMMA TokensDef ==
    ASSUME NEW text, IsText(text)
    PROVE  /\ Tokens(text) \subseteq 1..Len(text) + 1
           /\ \A i \in 1..Len(text) + 1 :
                  i \in Tokens(text)
                      <=> i = 1 \/ \E j \in Tokens(text) : j < i /\ TokenEnd(text, j) = i
<1>1. Len(text) \in Nat
  BY TextBasics
<1> DEFINE D == 1..Len(text) + 1
           Closed(S) == /\ 1 \in S
                        /\ \A j \in S : j <= Len(text) /\ TokenEnd(text, j) # 0 =>
                                            TokenEnd(text, j) \in S
           W == {i \in D : \A S \in SUBSET D : Closed(S) => i \in S}
           Is(f) == f = [i \in D |-> i = 1 \/ \E j \in 1..i - 1 : TokenEnd(text, j) = i /\ f[j]]
           L == CHOOSE f : Is(f)
<1>2. 1 \in D
  BY <1>1
<1>3. ASSUME NEW j \in D, j <= Len(text), TokenEnd(text, j) # 0
      PROVE  TokenEnd(text, j) \in D /\ j < TokenEnd(text, j)
  <2>1. j \in 1..Len(text)
    BY <1>1, <1>3
  <2>2. TokenEnd(text, j) \in j + 1..Len(text) + 1
    BY <1>3, <2>1, TokenEnds
  <2> QED
    BY <1>1, <2>1, <2>2
<1>4. Closed(W)
  <2>1. 1 \in W
    BY <1>2
  <2>2. ASSUME NEW j \in W, j <= Len(text), TokenEnd(text, j) # 0 PROVE TokenEnd(text, j) \in W
    <3>1. ASSUME NEW S \in SUBSET D, Closed(S) PROVE TokenEnd(text, j) \in S
      BY <2>2, <3>1
    <3>2. TokenEnd(text, j) \in D
      BY <1>3, <2>2
    <3> HIDE DEF Closed
    <3> QED
      BY <3>1, <3>2
  <2> HIDE DEF W
  <2> QED
    BY <2>1, <2>2
<1>5. ASSUME NEW i \in W, i # 1
      PROVE  \E j \in W : j <= Len(text) /\ TokenEnd(text, j) # 0 /\ TokenEnd(text, j) = i
  <2> SUFFICES ASSUME \A j \in W : ~(/\ j <= Len(text)
                                      /\ TokenEnd(text, j) # 0 /\ TokenEnd(text, j) = i)
               PROVE  FALSE
    OBVIOUS
  <2> DEFINE S == W \ {i}
  <2>1. Closed(S) /\ S \in SUBSET D
    BY <1>4, <1>5
  <2> QED
    BY <2>1
<1>6. \A i \in D : i \in W <=> i = 1 \/ \E j \in 1..i - 1 : TokenEnd(text, j) = i /\ j \in W
  <2> SUFFICES ASSUME NEW i \in D
               PROVE  i \in W <=> i = 1 \/ \E j \in 1..i - 1 : TokenEnd(text, j) = i /\ j \in W
    OBVIOUS
  <2>1. W \subseteq D
    OBVIOUS
  <2> HIDE DEF W
  <2>2. CASE i \in W /\ i # 1
    <3>1. PICK j \in W : j <= Len(text) /\ TokenEnd(text, j) # 0 /\ TokenEnd(text, j) = i
      BY <1>5, <2>2
    <3>2. j \in D /\ j < i
      BY <1>3, <2>1, <3>1
    <3>3. j \in 1..i - 1
      BY <1>1, <3>2
    <3> QED
      BY <2>2, <3>1, <3>3
  <2>3. ASSUME NEW j \in 1..i - 1, TokenEnd(text, j) = i, j \in W PROVE i \in W
    <3>1. j <= Len(text) /\ i # 0
      BY <1>1
    <3> QED
      BY <1>4, <2>3, <3>1
  <2>4. 1 \in W
    BY <1>4
  <2> QED
    BY <2>2, <2>3, <2>4
<1> HIDE DEF W
<1>7. \E f : Is(f)
  <2> DEFINE f == [i \in D |-> i \in W]
             g == [i \in D |-> i = 1 \/ \E j \in 1..i - 1 : TokenEnd(text, j) = i /\ f[j]]
  <2>1. \A i \in D : \A j \in 1..i - 1 : j \in D
    BY <1>1
  <2>2. ASSUME NEW i \in D PROVE f[i] = g[i]
    <3>1. \A j \in 1..i - 1 : f[j] = (j \in W)
      BY <2>1
    <3>2. (\E j \in 1..i - 1 : TokenEnd(text, j) = i /\ f[j])
              <=> \E j \in 1..i - 1 : TokenEnd(text, j) = i /\ j \in W
      BY <3>1
    <3>3. (i \in W) <=> (i = 1 \/ \E j \in 1..i - 1 : TokenEnd(text, j) = i /\ f[j])
      BY <1>6, <3>2
    <3>4. g[i] = (i = 1 \/ \E j \in 1..i - 1 : TokenEnd(text, j) = i /\ f[j])
      OBVIOUS
    <3>5. f[i] = (i \in W)
      OBVIOUS
    <3> QED
      BY <3>3, <3>4, <3>5
  <2>3. f = g
    BY <2>2
  <2>4. Is(f)
    BY <2>3
  <2> QED
    BY <2>4
<1>8. Is(L)
  BY <1>7
<1>9. Tokens(text) = {i \in D : L[i]}
  BY DEF Tokens
<1> HIDE DEF L
<1>10. \A i \in D : i \in Tokens(text) <=> L[i]
  BY <1>9
<1>11. \A i \in D : L[i] <=> i = 1 \/ \E j \in 1..i - 1 : TokenEnd(text, j) = i /\ L[j]
  BY <1>8
<1>12. ASSUME NEW i \in D
       PROVE  i \in Tokens(text)
                  <=> i = 1 \/ \E j \in Tokens(text) : j < i /\ TokenEnd(text, j) = i
  <2>1. \A j : j \in 1..i - 1 => j \in D
    BY <1>1
  <2>2. \A j \in Tokens(text) : j < i => j \in 1..i - 1
    BY <1>1, <1>9
  <2>3. \A j \in 1..i - 1 : j < i
    BY <1>1
  <2>4. (\E j \in Tokens(text) : j < i /\ TokenEnd(text, j) = i)
            <=> \E j \in 1..i - 1 : TokenEnd(text, j) = i /\ L[j]
    BY <1>10, <2>1, <2>2, <2>3
  <2> QED
    BY <1>10, <1>11, <2>4
<1> QED
  BY <1>9, <1>12

(* Every token before the beginning of another one ends there or before.    *)
LEMMA TokensLive ==
    ASSUME NEW text, IsText(text)
    PROVE  \A i, k \in Tokens(text) :
               k < i => /\ TokenEnd(text, k) \in k + 1..i
                        /\ TokenEnd(text, k) \in Tokens(text)
<1>1. Len(text) \in Nat /\ Tokens(text) \subseteq 1..Len(text) + 1
  BY TextBasics, TokensDef
<1> DEFINE Good(i) == i \in Tokens(text) => \A k \in Tokens(text) :
                          k < i => TokenEnd(text, k) \in k + 1..i
           S == {n \in Nat : \A i \in 1..n : Good(i)}
<1>2. ASSUME NEW i \in 1..Len(text) + 1, \A m \in 1..i - 1 : Good(m) PROVE Good(i)
  <2> SUFFICES ASSUME i \in Tokens(text), NEW k \in Tokens(text), k < i
               PROVE  TokenEnd(text, k) \in k + 1..i
    OBVIOUS
  <2>1. k \in 1..i - 1
    BY <1>1
  <2>2. PICK j \in Tokens(text) : j < i /\ TokenEnd(text, j) = i
    <3>1. i # 1
      BY <2>1
    <3> QED
      BY <3>1, TokensDef
  <2>3. j \in 1..i - 1
    BY <1>1, <2>2
  <2>4. CASE j = k
    BY <2>1, <2>2, <2>4
  <2>5. CASE j < k
    <3>1. TokenEnd(text, j) \in j + 1..k
      BY <1>2, <2>1, <2>2, <2>5
    <3> QED
      BY <2>1, <2>2, <2>3, <3>1
  <2>6. CASE j > k
    <3>1. TokenEnd(text, k) \in k + 1..j
      BY <1>2, <2>1, <2>2, <2>3, <2>6
    <3> QED
      BY <2>1, <2>3, <3>1
  <2> QED
    BY <2>1, <2>3, <2>4, <2>5, <2>6
<1>3. 0 \in S
  OBVIOUS
<1>4. ASSUME NEW n \in Nat, n \in S PROVE n + 1 \in S
  <2> SUFFICES ASSUME NEW i \in 1..n + 1 PROVE Good(i)
    OBVIOUS
  <2>1. \A m \in 1..i - 1 : m \in 1..n
    OBVIOUS
  <2> HIDE DEF Good
  <2>2. \A m \in 1..i - 1 : Good(m)
    BY <1>4, <2>1
  <2>3. CASE i \in 1..Len(text) + 1
    BY <1>2, <2>2, <2>3
  <2>4. CASE i \notin 1..Len(text) + 1
    <3>1. i \notin Tokens(text)
      BY <1>1, <2>4
    <3> QED
      BY <3>1 DEF Good
  <2> QED
    BY <2>3, <2>4
<1> HIDE DEF S
<1>5. Nat \subseteq S
  BY <1>3, <1>4, Induction
<1>6. ASSUME NEW i \in Tokens(text), NEW k \in Tokens(text), k < i
      PROVE  TokenEnd(text, k) \in k + 1..i /\ TokenEnd(text, k) \in Tokens(text)
  <2>1. i \in Nat /\ k \in Nat /\ i \in 1..i /\ i <= Len(text) + 1
    BY <1>1
  <2>2. Good(i)
    BY <1>5, <2>1 DEF S
  <2>3. TokenEnd(text, k) \in k + 1..i
    BY <1>6, <2>2
  <2>4. TokenEnd(text, k) \in 1..Len(text) + 1 /\ k < TokenEnd(text, k)
    BY <2>1, <2>3
  <2> QED
    BY <2>3, <2>4, TokensDef
<1> QED
  BY <1>6

LEMMA NextToken ==
    ASSUME NEW text, IsText(text), NEW k \in Tokens(text), k <= Len(text), TokenEnd(text, k) # 0
    PROVE  TokenEnd(text, k) \in Tokens(text) /\ TokenEnd(text, k) \in k + 1..Len(text) + 1
<1>1. Len(text) \in Nat /\ k \in 1..Len(text)
  BY TextBasics, TokensDef
<1>2. TokenEnd(text, k) \in k + 1..Len(text) + 1
  BY <1>1, TokenEnds
<1> QED
  BY <1>1, <1>2, TokensDef

(* A class that is a token, and the places where it has an item or its end. *)
ClassToken(text, k) == k \in Tokens(text) /\ At(text, k, "[") /\ ClassEnd(text, k) # 0

Reads(text, k, q) ==
    /\ q \in k + 1..Len(text) /\ q < ClassEnd(text, k)
    /\ q = FirstItem(text, k) \/ ClassFrom(text, q) = ClassEnd(text, k)

LEMMA ClassTokenEnd ==
    ASSUME NEW text, IsText(text), NEW k, ClassToken(text, k)
    PROVE  /\ k \in 1..Len(text) /\ TokenEnd(text, k) = ClassEnd(text, k)
           /\ ClassEnd(text, k) \in Tokens(text)
           /\ FirstItem(text, k) \in k + 1..Len(text)
           /\ ClassEnd(text, k) \in FirstItem(text, k) + 2..Len(text) + 1
<1>1. Len(text) \in Nat /\ k \in 1..Len(text) /\ text[k] = "["
  BY TextBasics DEF ClassToken
<1>2. TokenEnd(text, k) = ClassEnd(text, k)
  BY <1>1 DEF TokenEnd
<1> QED
  BY <1>1, <1>2, NextToken, ClassEndAfter DEF ClassToken

LEMMA ReadItem ==
    ASSUME NEW text, IsText(text), NEW k, ClassToken(text, k), NEW q, Reads(text, k, q),
           q = FirstItem(text, k) \/ text[q] # "]"
    PROVE  /\ ClassItem(text, q) \in q + 1..Len(text)
           /\ ClassItem(text, q) < ClassEnd(text, k)
           /\ ClassFrom(text, ClassItem(text, q)) = ClassEnd(text, k)
           /\ Reads(text, k, ClassItem(text, q))
<1> DEFINE n == ClassItem(text, q)
<1>1. /\ Len(text) \in Nat /\ k \in 1..Len(text) /\ q \in k + 1..Len(text)
      /\ ClassEnd(text, k) \in 1..Len(text) + 1
  BY TextBasics, ClassTokenEnd DEF Reads
<1>2. ClassFrom(text, n) = ClassEnd(text, k)
  <2>1. CASE q = FirstItem(text, k)
    BY <2>1 DEF ClassEnd
  <2>2. CASE q # FirstItem(text, k)
    <3>1. ClassFrom(text, q) = ClassEnd(text, k) /\ ~At(text, q, "]")
      BY <2>2 DEF Reads, At
    <3>2. q \in 1..Len(text) + 1
      BY <1>1
    <3> QED
      BY <3>1, <3>2, ClassFromDef
  <2> QED
    BY <2>1, <2>2
<1>3. n # 0
  BY <1>1, <1>2, ClassFromDef
<1>4. n \in q + 1..Len(text) + 1
  BY <1>1, <1>3, ItemEnds
<1> HIDE DEF n
<1>5. ClassEnd(text, k) \in n + 1..Len(text) + 1
  BY <1>1, <1>2, <1>4, ClassEnds
<1>6. n \in q + 1..Len(text) /\ n < ClassEnd(text, k) /\ n \in k + 1..Len(text)
  BY <1>1, <1>4, <1>5
<1> QED
  BY <1>2, <1>6 DEF Reads, n

LEMMA ReadEnd ==
    ASSUME NEW text, IsText(text), NEW k, ClassToken(text, k), NEW q, Reads(text, k, q),
           q # FirstItem(text, k), text[q] = "]"
    PROVE  ClassEnd(text, k) = q + 1 /\ q + 1 \in Tokens(text)
<1>1. Len(text) \in Nat /\ k \in 1..Len(text) /\ q \in k + 1..Len(text)
  BY TextBasics, ClassTokenEnd DEF Reads
<1>2. q \in 1..Len(text) + 1 /\ At(text, q, "]")
  BY <1>1, TextBasics
<1>3. ClassFrom(text, q) = q + 1 /\ ClassFrom(text, q) = ClassEnd(text, k)
  BY <1>2, ClassFromDef DEF Reads
<1> QED
  BY <1>3, ClassTokenEnd

(* b is a place where the compiler does not read the second half of an      *)
(* escape: a token begins there, or it is inside a class, at its beginning, *)
(* at an item, or in the name of a POSIX class.                             *)
PlacedIn(text, k, b) ==
    /\ ClassToken(text, k) /\ b < ClassEnd(text, k)
    /\ \/ b = k + 1
       \/ Reads(text, k, b)
       \/ \E q : /\ Reads(text, k, q) /\ IsPosix(text, q)
                 /\ b \in q + 1..NamedClass(text, q) - 1

Placed(text, b) == b \in Tokens(text) \/ \E k : PlacedIn(text, k, b)

(* The item that is read at q, when a name is read there.                   *)
LEMMA NamedItem ==
    ASSUME NEW text, IsText(text), NEW k, ClassToken(text, k), NEW q, Reads(text, k, q),
           IsPosix(text, q)
    PROVE  /\ NamedClass(text, q) \in q + 5..Len(text)
           /\ Reads(text, k, NamedClass(text, q))
           /\ ClassFrom(text, NamedClass(text, q)) = ClassEnd(text, k)
           /\ NamedClass(text, q) < ClassEnd(text, k)
           /\ \A b \in q + 1..NamedClass(text, q) - 1 : text[b] # "\\"
<1>1. Len(text) \in Nat /\ k \in 1..Len(text) /\ q \in k + 1..Len(text)
  BY TextBasics, ClassTokenEnd DEF Reads
<1>2. text[q] = "["
  BY DEF IsPosix, At
<1>3. ClassItem(text, q) = NamedClass(text, q)
  BY <1>1, <1>2 DEF ClassItem
<1>4. /\ NamedClass(text, q) \in q + 1..Len(text)
      /\ NamedClass(text, q) < ClassEnd(text, k)
      /\ ClassFrom(text, NamedClass(text, q)) = ClassEnd(text, k)
      /\ Reads(text, k, NamedClass(text, q))
  BY <1>2, <1>3, ReadItem
<1>5. /\ At(text, q, "[") /\ At(text, q + 1, ":")
      /\ \/ /\ At(text, q + 2, "a") /\ At(text, q + 3, ":") /\ At(text, q + 4, "]")
            /\ NamedClass(text, q) = q + 5
         \/ /\ At(text, q + 2, "^") /\ At(text, q + 3, "a")
            /\ At(text, q + 4, ":") /\ At(text, q + 5, "]")
            /\ NamedClass(text, q) = q + 6
  BY <1>1, <1>4, NamedShape
<1>6. ASSUME NEW b \in q + 1..NamedClass(text, q) - 1 PROVE text[b] # "\\"
  <2>1. CASE NamedClass(text, q) = q + 5 /\ At(text, q + 2, "a")
    <3>1. text[q + 1] = ":" /\ text[q + 2] = "a" /\ text[q + 3] = ":" /\ text[q + 4] = "]"
      BY <1>1, <1>5, <2>1 DEF At
    <3>2. b \in {q + 1, q + 2, q + 3, q + 4}
      BY <1>1, <2>1
    <3> QED
      BY <3>1, <3>2
  <2>2. CASE NamedClass(text, q) = q + 6
    <3>1. /\ text[q + 1] = ":" /\ text[q + 2] = "^" /\ text[q + 3] = "a"
          /\ text[q + 4] = ":" /\ text[q + 5] = "]"
      <4>1. NamedClass(text, q) # q + 5
        BY <1>1, <2>2
      <4> QED
        BY <1>5, <4>1 DEF At
    <3>2. b \in {q + 1, q + 2, q + 3, q + 4, q + 5}
      BY <1>1, <2>2
    <3> QED
      BY <3>1, <3>2
  <2> QED
    BY <1>5, <2>1, <2>2
<1>7. NamedClass(text, q) \in q + 5..Len(text)
  BY <1>1, <1>4, <1>5
<1> QED
  BY <1>4, <1>6, <1>7

(* Past a character that is no backslash, a place remains one.              *)
LEMMA PlacedNext ==
    ASSUME NEW text, IsText(text), NEW b \in 1..Len(text), text[b] # "\\", Placed(text, b),
           NEW B \in Tokens(text), B > b
    PROVE  Placed(text, b + 1)
<1>1. Len(text) \in Nat
  BY TextBasics
<1>2. CASE b \in Tokens(text) /\ text[b] # "["
  <2>1. TokenEnd(text, b) = b + 1
    BY <1>2 DEF TokenEnd
  <2> QED
    BY <1>1, <1>2, <2>1, NextToken DEF Placed
<1>3. CASE b \in Tokens(text) /\ text[b] = "["
  <2>1. TokenEnd(text, b) = ClassEnd(text, b)
    BY <1>3 DEF TokenEnd
  <2>2. ClassEnd(text, b) \in b + 1..B
    BY <1>3, <2>1, TokensLive
  <2>3. ClassToken(text, b)
    BY <1>1, <1>3, <2>2, TextBasics DEF ClassToken
  <2>4. b + 1 < ClassEnd(text, b)
    BY <1>1, <2>3, ClassTokenEnd
  <2> QED
    BY <2>3, <2>4 DEF Placed, PlacedIn
<1>4. ASSUME NEW k, PlacedIn(text, k, b) PROVE Placed(text, b + 1)
  <2>1. ClassToken(text, k) /\ b < ClassEnd(text, k)
    BY <1>4 DEF PlacedIn
  <2>2. /\ k \in 1..Len(text) /\ FirstItem(text, k) \in k + 1..Len(text)
        /\ ClassEnd(text, k) \in FirstItem(text, k) + 2..Len(text) + 1
    BY <2>1, ClassTokenEnd
  <2>3. ASSUME Reads(text, k, b) PROVE Placed(text, b + 1)
    <3>1. CASE b # FirstItem(text, k) /\ text[b] = "]"
      BY <2>1, <2>3, <3>1, ReadEnd DEF Placed
    <3>2. CASE ~(b # FirstItem(text, k) /\ text[b] = "]") /\ IsPosix(text, b)
      <4>1. /\ NamedClass(text, b) \in b + 5..Len(text)
            /\ NamedClass(text, b) < ClassEnd(text, k)
        BY <2>1, <2>3, <3>2, NamedItem
      <4>2. b + 1 \in b + 1..NamedClass(text, b) - 1 /\ b + 1 < ClassEnd(text, k)
        BY <1>1, <2>2, <4>1
      <4> QED
        BY <2>1, <2>3, <3>2, <4>2 DEF Placed, PlacedIn
    <3>3. CASE ~(b # FirstItem(text, k) /\ text[b] = "]") /\ ~IsPosix(text, b)
      <4>1. ClassItem(text, b) = b + 1
        BY <1>1, <3>3 DEF ClassItem
      <4>2. Reads(text, k, b + 1) /\ b + 1 < ClassEnd(text, k)
        BY <2>1, <2>3, <3>3, <4>1, ReadItem
      <4> QED
        BY <2>1, <4>2 DEF Placed, PlacedIn
    <3> QED
      BY <3>1, <3>2, <3>3
  <2>4. CASE b = k + 1
    <3>1. CASE FirstItem(text, k) = k + 1
      <4>1. Reads(text, k, b)
        BY <1>1, <2>1, <2>2, <2>4, <3>1 DEF Reads
      <4> QED
        BY <2>3, <4>1
    <3>2. CASE FirstItem(text, k) # k + 1
      <4>1. FirstItem(text, k) = k + 2
        BY <3>2 DEF FirstItem
      <4>2. Reads(text, k, b + 1) /\ b + 1 < ClassEnd(text, k)
        BY <1>1, <2>2, <2>4, <4>1 DEF Reads
      <4> QED
        BY <2>1, <4>2 DEF Placed, PlacedIn
    <3> QED
      BY <3>1, <3>2
  <2>5. ASSUME NEW q, Reads(text, k, q), IsPosix(text, q), b \in q + 1..NamedClass(text, q) - 1
        PROVE  Placed(text, b + 1)
    <3>1. /\ NamedClass(text, q) \in q + 5..Len(text)
          /\ Reads(text, k, NamedClass(text, q))
          /\ NamedClass(text, q) < ClassEnd(text, k)
          /\ q \in k + 1..Len(text)
      BY <2>1, <2>5, NamedItem DEF Reads
    <3>2. CASE b + 1 = NamedClass(text, q)
      BY <2>1, <3>1, <3>2 DEF Placed, PlacedIn
    <3>3. CASE b + 1 # NamedClass(text, q)
      <4>1. b + 1 \in q + 1..NamedClass(text, q) - 1 /\ b + 1 < ClassEnd(text, k)
        BY <1>1, <2>2, <2>5, <3>1, <3>3
      <4> QED
        BY <2>1, <2>5, <4>1 DEF Placed, PlacedIn
    <3> QED
      BY <3>2, <3>3
  <2> QED
    BY <1>4, <2>3, <2>4, <2>5 DEF PlacedIn
<1> QED
  BY <1>2, <1>3, <1>4 DEF Placed

(* A backslash at such a place begins an escape of the compiler too, and    *)
(* nothing it escapes begins a token. \Q is read outside classes only.      *)
LEMMA PlacedEscape ==
    ASSUME NEW text, IsText(text), NEW b \in 1..Len(text), text[b] = "\\", Placed(text, b),
           NEW B \in Tokens(text), B > b
    PROVE  /\ b < Len(text) /\ B > b + 1
           /\ At(text, b + 1, "Q") => b \in Tokens(text)
           /\ ~At(text, b + 1, "Q") =>
                 /\ EscapeEnd(text, b) = b + 2
                 /\ Placed(text, b + 2)
<1>1. Len(text) \in Nat /\ Tokens(text) \subseteq 1..Len(text) + 1
  BY TextBasics, TokensDef
<1>2. EscapeEnd(text, b) # 0 =>
          b < Len(text) /\ ~At(text, b + 1, "Q") /\ EscapeEnd(text, b) = b + 2
  BY <1>1 DEF EscapeEnd, At
<1>3. CASE b \in Tokens(text)
  <2>1. TokenEnd(text, b) \in b + 1..B /\ TokenEnd(text, b) \in Tokens(text)
    BY <1>3, TokensLive
  <2>2. CASE At(text, b + 1, "Q")
    <3>1. TokenEnd(text, b) = QuoteEnd(text, b)
      BY <2>2 DEF TokenEnd
    <3>2. b < Len(text)
      BY <1>1, <2>2, TextBasics
    <3>3. QuoteEnd(text, b) >= b + 2
      BY <1>1, <3>2, QuoteEnds
    <3> QED
      BY <1>1, <1>3, <2>1, <2>2, <3>1, <3>2, <3>3
  <2>3. CASE ~At(text, b + 1, "Q")
    <3>1. TokenEnd(text, b) = EscapeEnd(text, b)
      BY <2>3 DEF TokenEnd
    <3>2. EscapeEnd(text, b) # 0
      BY <1>1, <2>1, <3>1
    <3> QED
      BY <1>1, <1>2, <2>1, <2>3, <3>1, <3>2 DEF Placed
  <2> QED
    BY <2>2, <2>3
<1>4. ASSUME NEW k, PlacedIn(text, k, b)
      PROVE  b < Len(text) /\ B > b + 1 /\ ~At(text, b + 1, "Q") /\ EscapeEnd(text, b) = b + 2
             /\ Placed(text, b + 2)
  <2>1. ClassToken(text, k) /\ b < ClassEnd(text, k)
    BY <1>4 DEF PlacedIn
  <2>2. /\ k \in 1..Len(text) /\ FirstItem(text, k) \in k + 1..Len(text)
        /\ ClassEnd(text, k) \in FirstItem(text, k) + 2..Len(text) + 1
    BY <2>1, ClassTokenEnd
  <2>3. Reads(text, k, b)
    <3>1. CASE b = k + 1
      <4>1. FirstItem(text, k) = k + 1
        BY <3>1 DEF FirstItem, At
      <4> QED
        BY <1>1, <2>1, <2>2, <3>1, <4>1 DEF Reads
    <3>2. ~\E q : /\ Reads(text, k, q) /\ IsPosix(text, q)
                  /\ b \in q + 1..NamedClass(text, q) - 1
      BY <2>1, NamedItem
    <3> QED
      BY <1>4, <3>1, <3>2 DEF PlacedIn
  <2>4. ClassItem(text, b) = EscapeEnd(text, b)
    BY <1>1 DEF ClassItem
  <2>5. /\ EscapeEnd(text, b) \in b + 1..Len(text)
        /\ EscapeEnd(text, b) < ClassEnd(text, k)
        /\ Reads(text, k, EscapeEnd(text, b))
    BY <2>1, <2>3, <2>4, ReadItem
  <2>6. b < Len(text) /\ ~At(text, b + 1, "Q") /\ EscapeEnd(text, b) = b + 2
    BY <1>1, <1>2, <2>5
  <2>7. ClassEnd(text, k) <= B
    <3>1. k \in Tokens(text) /\ k < b
      BY <1>1, <2>1, <2>3, <2>2 DEF ClassToken, Reads
    <3>2. k < B /\ TokenEnd(text, k) = ClassEnd(text, k)
      BY <1>1, <2>1, <2>2, <3>1, ClassTokenEnd
    <3> QED
      BY <1>1, <2>2, <3>1, <3>2, TokensLive
  <2>8. PlacedIn(text, k, b + 2)
    BY <2>1, <2>5, <2>6 DEF PlacedIn
  <2> QED
    BY <1>1, <2>2, <2>5, <2>6, <2>7, <2>8 DEF Placed
<1> QED
  BY <1>3, <1>4 DEF Placed

-----------------------------------------------------------------------------
(* References: where they end and what number they have.                    *)

LEMMA EndIs ==
    ASSUME NEW i \in 1..Len(pattern), pattern \in Seq(Range(pattern)),
           i < Len(pattern), pattern[i + 1] \in Digit
    PROVE  /\ End(i) \in i + 2..Len(pattern) + 1
           /\ \A j \in i + 1..End(i) - 1 : pattern[j] \in Digit
<1>1. Len(pattern) \in Nat /\ DOMAIN pattern = 1..Len(pattern)
  OBVIOUS
<1> DEFINE Ends(e) == e \in DOMAIN pattern => pattern[e] \notin Digit
           S == {e \in i + 2..Len(pattern) + 1 : Ends(e)}
           Is(e) == (\A j \in i + 1..e - 1 : pattern[j] \in Digit) /\ Ends(e)
<1>2. Len(pattern) + 1 \in S
  BY <1>1
<1>3. S \subseteq Nat
  BY <1>1
<1>4. PICK e \in S : \A m \in S : e <= m
  BY <1>2, <1>3, LeastOf
<1>5. \A j \in i + 1..e - 1 : pattern[j] \in Digit
  <2> SUFFICES ASSUME NEW j \in i + 1..e - 1 PROVE pattern[j] \in Digit
    OBVIOUS
  <2>1. CASE j = i + 1
    BY <2>1
  <2>2. CASE j # i + 1
    <3>1. e \in i + 2..Len(pattern) + 1
      BY <1>4
    <3>2. j \in i + 2..Len(pattern) /\ j < e
      BY <1>1, <2>2, <3>1
    <3>3. j \notin S
      BY <1>1, <1>4, <3>1, <3>2
    <3> QED
      BY <1>1, <3>2, <3>3
  <2> QED
    BY <2>1, <2>2
<1>6. e \in i + 2..Len(pattern) + 1 /\ Is(e)
  BY <1>4, <1>5
<1> HIDE DEF Is
<1>7. End(i) = CHOOSE n \in i + 2..Len(pattern) + 1 : Is(n)
  BY DEF End, Is
<1>8. End(i) \in i + 2..Len(pattern) + 1 /\ Is(End(i))
  BY <1>6, <1>7
<1> QED
  BY <1>8 DEF Is

(* The numbers of the first digits.                                         *)
Upto(digits, f, n) ==
    /\ f = [m \in 0..n |-> f[m]]
    /\ \A m \in 0..n : f[m] = IF m = 0 THEN 0 ELSE 10 * f[m - 1] + Value[digits[m]]

LEMMA UptoExists ==
    ASSUME NEW digits
    PROVE  \A n \in Nat : \E f : Upto(digits, f, n)
<1> DEFINE S == {n \in Nat : \E f : Upto(digits, f, n)}
<1>1. 0 \in S
  <2> DEFINE f == [m \in 0..0 |-> 0]
  <2>1. f = [m \in 0..0 |-> f[m]] /\ f[0] = 0 /\ \A m \in 0..0 : m = 0
    OBVIOUS
  <2> HIDE DEF f
  <2>2. Upto(digits, f, 0)
    BY <2>1 DEF Upto
  <2> QED
    BY <2>2
<1>2. ASSUME NEW n \in Nat, n \in S PROVE n + 1 \in S
  <2>1. PICK f : Upto(digits, f, n)
    BY <1>2
  <2> DEFINE g == [m \in 0..n + 1 |->
                      IF m = n + 1 THEN 10 * f[n] + Value[digits[n + 1]] ELSE f[m]]
  <2>2. ASSUME NEW m \in 0..n + 1
        PROVE  g[m] = IF m = 0 THEN 0 ELSE 10 * g[m - 1] + Value[digits[m]]
    <3>1. CASE m = n + 1
      <4>1. m - 1 = n /\ n \in 0..n + 1 /\ n # n + 1 /\ m # 0
        BY <3>1
      <4>2. g[n] = f[n]
        BY <4>1
      <4>3. g[m] = 10 * f[n] + Value[digits[m]]
        BY <3>1
      <4> QED
        BY <4>1, <4>2, <4>3
    <3>2. CASE m # n + 1
      <4>1. m \in 0..n /\ g[m] = f[m]
        BY <3>2
      <4>2. f[m] = IF m = 0 THEN 0 ELSE 10 * f[m - 1] + Value[digits[m]]
        BY <2>1, <4>1 DEF Upto
      <4>3. m # 0 => m - 1 \in 0..n + 1 /\ m - 1 # n + 1
        BY <4>1
      <4>4. m # 0 => g[m - 1] = f[m - 1]
        BY <4>3
      <4> HIDE DEF g
      <4> QED
        BY <4>1, <4>2, <4>4
    <3> QED
      BY <3>1, <3>2
  <2>3. g = [m \in 0..n + 1 |-> g[m]]
    OBVIOUS
  <2> HIDE DEF g
  <2>4. Upto(digits, g, n + 1)
    BY <2>2, <2>3 DEF Upto
  <2> QED
    BY <2>4
<1> HIDE DEF S
<1>3. Nat \subseteq S
  BY <1>1, <1>2, Induction
<1> QED
  BY <1>3 DEF S

(* A text of digits is a number, and not zero if its first digit is not.    *)
LEMMA NumberIs ==
    ASSUME NEW digits, digits \in Seq(Digit)
    PROVE  /\ Number(digits) \in Nat
           /\ Len(digits) > 0 /\ digits[1] # "0" => Number(digits) > 0
<1> DEFINE Is(f) == f = [n \in 0..Len(digits) |->
                            IF n = 0 THEN 0 ELSE 10 * f[n - 1] + Value[digits[n]]]
           L == CHOOSE f : Is(f)
<1>1. Len(digits) \in Nat
  OBVIOUS
<1>2. \E f : Is(f)
  <2>1. PICK f : Upto(digits, f, Len(digits))
    BY <1>1, UptoExists
  <2>2. Is(f)
    BY <2>1 DEF Upto
  <2> QED
    BY <2>2
<1>3. Is(L)
  BY <1>2
<1>4. Number(digits) = L[Len(digits)]
  BY DEF Number
<1> HIDE DEF L
<1>5. /\ L[0] = 0
      /\ \A n \in Nat : n + 1 <= Len(digits) => L[n + 1] = 10 * L[n] + Value[digits[n + 1]]
  <2>1. \A n \in Nat : n + 1 <= Len(digits) =>
            n + 1 \in 0..Len(digits) /\ n + 1 # 0 /\ (n + 1) - 1 = n
    BY <1>1
  <2>2. L[0] = 0
    BY <1>1, <1>3
  <2>3. ASSUME NEW n \in Nat, n + 1 <= Len(digits)
        PROVE  L[n + 1] = 10 * L[n] + Value[digits[n + 1]]
    <3>1. L[n + 1] = 10 * L[(n + 1) - 1] + Value[digits[n + 1]]
      BY <1>3, <2>1, <2>3
    <3> QED
      BY <2>1, <2>3, <3>1
  <2> QED
    BY <2>2, <2>3
<1>6. \A d \in Digit : Value[d] \in Nat /\ (d # "0" => Value[d] > 0)
  BY DEF Value, Digit
<1>7. \A n \in Nat : n + 1 <= Len(digits) => digits[n + 1] \in Digit
  BY <1>1
<1> DEFINE Good(n) == n <= Len(digits) =>
                         /\ L[n] \in Nat
                         /\ n > 0 /\ digits[1] # "0" => L[n] > 0
           S == {n \in Nat : Good(n)}
<1>8. 0 \in S
  BY <1>5
<1>9. ASSUME NEW n \in Nat, n \in S PROVE n + 1 \in S
  <2> SUFFICES ASSUME n + 1 <= Len(digits)
               PROVE  /\ L[n + 1] \in Nat
                      /\ digits[1] # "0" => L[n + 1] > 0
    OBVIOUS
  <2>1. L[n] \in Nat /\ (n > 0 /\ digits[1] # "0" => L[n] > 0)
    BY <1>1, <1>9
  <2>2. L[n + 1] = 10 * L[n] + Value[digits[n + 1]]
    BY <1>5
  <2>3. digits[n + 1] \in Digit
    BY <1>7
  <2>4. Value[digits[n + 1]] \in Nat
    BY <1>6, <2>3
  <2>5. n = 0 /\ digits[1] # "0" => Value[digits[n + 1]] > 0
    <3>1. n = 0 => digits[n + 1] = digits[1]
      OBVIOUS
    <3> QED
      BY <1>6, <2>3, <3>1
  <2> QED
    BY <2>1, <2>2, <2>4, <2>5
<1> HIDE DEF S
<1>10. Nat \subseteq S
  BY <1>8, <1>9, Induction
<1>11. Good(Len(digits))
  BY <1>1, <1>10 DEF S
<1> QED
  BY <1>1, <1>4, <1>11

LEMMA ReferenceIs ==
    ASSUME NEW i \in 1..Len(pattern), pattern \in Seq(Range(pattern)),
           i < Len(pattern), pattern[i + 1] \in Digit
    PROVE  /\ Reference(i) \in Nat
           /\ pattern[i + 1] # "0" => Reference(i) > 0
<1> DEFINE digits == SubSeq(pattern, i + 1, End(i) - 1)
<1>1. /\ End(i) \in i + 2..Len(pattern) + 1
      /\ \A j \in i + 1..End(i) - 1 : pattern[j] \in Digit
  BY EndIs
<1>2. Len(pattern) \in Nat
  OBVIOUS
<1>3. /\ digits \in Seq(Digit)
      /\ Len(digits) = End(i) - 1 - i
      /\ digits[1] = pattern[i + 1]
  <2>1. i + 1 \in Int /\ End(i) - 1 \in Int /\ i + 1 <= End(i) - 1
    BY <1>1, <1>2
  <2>2. /\ digits \in Seq(Digit)
        /\ Len(digits) = End(i) - 1 - (i + 1) + 1
        /\ \A j \in 1..End(i) - 1 - (i + 1) + 1 : digits[j] = pattern[i + 1 + j - 1]
    BY <1>1, <2>1, SubSeqProperties
  <2>3. 1 \in 1..End(i) - 1 - (i + 1) + 1 /\ i + 1 + 1 - 1 = i + 1
    BY <2>1
  <2> QED
    BY <1>1, <1>2, <2>2, <2>3
<1> HIDE DEF digits
<1>4. Number(digits) \in Nat /\ (digits[1] # "0" => Number(digits) > 0)
  <2>1. Len(digits) > 0
    BY <1>1, <1>2, <1>3
  <2> QED
    BY <1>3, <2>1, NumberIs
<1> QED
  BY <1>3, <1>4 DEF Reference, digits

-----------------------------------------------------------------------------
(* The invariant of the scanner. It speaks about every text that goes on    *)
(* from what has been written with what the scanner sees next: rest of the  *)
(* template, masked text or anything else.                                  *)

Flags == [quoted : BOOLEAN, class : BOOLEAN, first : BOOLEAN, negatable : BOOLEAN,
          posix : BOOLEAN]

TemplateTyped ==
    /\ pattern \in Patterns /\ captures \in Captures
    /\ stage \in {"check", "expand", "expanded"} \cup Refusals
    /\ index \in Nat \ {0} /\ highest \in Nat
    /\ result \in Seq(Range(pattern) \cup {Atom})
    /\ scan \in Flags /\ (scan.posix => scan.class)

(* Where the scanner stopped to refuse a reference.                         *)
Stopped ==
    /\ stage = "quoted" => index <= Len(pattern) /\ scan.quoted
    /\ stage = "class" => /\ index <= Len(pattern) /\ pattern[index] = "$"
                          /\ ~scan.quoted /\ scan.class

Shows(text, b, i) == text[b] = pattern[i] \/ (pattern[i] = "$" /\ text[b] = Atom)

Continues(text) ==
    /\ IsText(text)
    /\ Len(text) >= Len(result) /\ \A i \in 1..Len(result) : text[i] = result[i]
    /\ Len(text) > Len(result) =>
           index <= Len(pattern) /\ Shows(text, Len(result) + 1, index)

(* Quoted text that began at k is still open at b.                          *)
QuotedAt(text, k, b) ==
    /\ k \in Tokens(text) /\ At(text, k, "\\") /\ At(text, k + 1, "Q") /\ k + 2 <= b
    /\ \A j \in k + 2..b - 1 : ~Unquotes(text, j)

(* If the compiler reads as far, it reads quoted text where the scanner     *)
(* does and else is at one of its places. It has met no reference.          *)
Followed(text) ==
    /\ \A B \in Tokens(text) : B > Len(result) =>
           IF scan.quoted THEN \E k : QuotedAt(text, k, Len(result) + 1)
           ELSE Placed(text, Len(result) + 1)
    /\ \A i \in Tokens(text) : i <= Len(result) /\ text[i] = "$" =>
           ~(i + 1 <= Len(text) /\ text[i + 1] \in Digit)

AllFollowed == \A text : Continues(text) => Followed(text)

(* The scanner has copied the beginning of a POSIX class of the template,   *)
(* up to b.                                                                 *)
CopiesName(text, k, b) ==
    \E q, p \in Nat :
        /\ Reads(text, k, q) /\ q < b /\ index - p = b - q
        /\ p \in DOMAIN pattern /\ IsPosix(pattern, p) /\ NamedClass(pattern, p) # 0
        /\ index < NamedClass(pattern, p) - 1
        /\ scan.first => index = p + 1
        /\ \A d \in 0..index - p - 1 : text[q + d] = pattern[p + d]

(* The flags say where in the class that opens at k the place b is.         *)
InClassAt(text, k, b) ==
    /\ ClassToken(text, k) /\ k < b
    /\ IF scan.posix THEN CopiesName(text, k, b)
       ELSE /\ b < ClassEnd(text, k)
            /\ scan.first /\ scan.negatable => b = k + 1
            /\ scan.first /\ ~scan.negatable => b = k + 2 /\ b = FirstItem(text, k)
            /\ ~scan.first => ClassFrom(text, b) = ClassEnd(text, k)

FlagsRight(text, b) ==
    /\ scan.quoted => ~scan.class
    /\ ~scan.quoted /\ ~scan.class => b \in Tokens(text)
    /\ ~scan.quoted /\ scan.class => \E k : InClassAt(text, k, b)

(* In a template whose "[:" all open POSIX classes the flags are right, and *)
(* the replaced references are tokens.                                      *)
Aligned(text) ==
    \A B \in Tokens(text) : B > Len(result) =>
        /\ \A i \in 1..Len(result) : result[i] = Atom => i \in Tokens(text)
        /\ FlagsRight(text, Len(result) + 1)

AllAligned == PosixComplete => \A text : Continues(text) => Aligned(text)

(* What a template looks like, and how it differs from the atom.            *)
LEMMA TemplateBasics ==
    ASSUME TemplateTyped
    PROVE  /\ pattern \in Seq(Range(pattern)) /\ Len(pattern) \in Nat
           /\ DOMAIN pattern = 1..Len(pattern)
           /\ Len(result) \in Nat /\ DOMAIN result = 1..Len(result)
           /\ \A i \in 1..Len(pattern) : pattern[i] # Atom /\ pattern[i] \in Range(pattern)
           /\ Atom \notin Digit \cup Letter \cup {"\\", "[", "]", "^", ":", "$"}
           /\ captures \in Nat
<1>1. pattern \in Seq(Range(pattern)) /\ Atom \notin Range(pattern)
  BY TemplatesAssumption DEF TemplateTyped
<1>2. \A i \in DOMAIN pattern : pattern[i] \in Range(pattern)
  BY DEF Range
<1>3. captures \in Nat
  BY TemplatesAssumption DEF TemplateTyped
<1> QED
  BY <1>1, <1>2, <1>3, TemplatesAssumption DEF TemplateTyped

(* One character written, copied or an atom.                                *)
WritesOne(c) ==
    /\ result' = Append(result, c) /\ c \in Range(pattern) \cup {Atom}
    /\ UNCHANGED pattern

LEMMA TakesOne ==
    ASSUME TemplateTyped, index <= Len(pattern), NEW after, Take(1, after)
    PROVE  /\ WritesOne(pattern[index]) /\ index' = index + 1 /\ scan' = after
           /\ UNCHANGED <<pattern, captures, stage, highest>>
<1> USE TemplateBasics
<1>1. index \in 1..Len(pattern)
  BY DEF TemplateTyped
<1>2. index + 1 - 1 = index
  BY <1>1
<1>3. SubSeq(pattern, index, index) = <<pattern[index]>>
  <2> DEFINE s == SubSeq(pattern, index, index)
  <2>1. /\ s \in Seq(Range(pattern)) /\ Len(s) = index - index + 1
        /\ \A i \in 1..index - index + 1 : s[i] = pattern[index + i - 1]
    BY <1>1
  <2>2. Len(s) = 1 /\ s[1] = pattern[index]
    <3>1. index - index + 1 = 1 /\ index + 1 - 1 = index
      BY <1>1
    <3> QED
      BY <2>1, <3>1
  <2> HIDE DEF s
  <2> DEFINE t == <<pattern[index]>>
  <2>3. t \in Seq(Range(pattern)) /\ Len(t) = 1 /\ t[1] = pattern[index]
    BY <1>1
  <2>4. \A i \in 1..Len(s) : i = 1
    BY <2>2
  <2> HIDE DEF t
  <2>5. s = t
    BY <2>1, <2>2, <2>3, <2>4, SeqEqual
  <2> QED
    BY <2>5 DEF s, t
<1>4. result' = result \o <<pattern[index]>>
  BY <1>2, <1>3 DEF Take
<1>5. result \o <<pattern[index]>> = Append(result, pattern[index])
  BY <1>1 DEF TemplateTyped
<1> QED
  BY <1>1, <1>4, <1>5 DEF Take, WritesOne

LEMMA TakesTwo ==
    ASSUME TemplateTyped, index < Len(pattern), NEW after, Take(2, after)
    PROVE  /\ result' = Append(Append(result, pattern[index]), pattern[index + 1])
           /\ index' = index + 2 /\ scan' = after
           /\ UNCHANGED <<pattern, captures, stage, highest>>
           /\ index \in 1..Len(pattern) /\ index + 1 \in 1..Len(pattern)
<1> USE TemplateBasics
<1>1. index \in 1..Len(pattern) /\ index + 1 \in 1..Len(pattern)
  BY DEF TemplateTyped
<1>2. index + 2 - 1 = index + 1
  BY <1>1
<1>3. SubSeq(pattern, index, index + 1) = <<pattern[index], pattern[index + 1]>>
  <2> DEFINE s == SubSeq(pattern, index, index + 1)
  <2>1. /\ s \in Seq(Range(pattern)) /\ Len(s) = index + 1 - index + 1
        /\ \A i \in 1..index + 1 - index + 1 : s[i] = pattern[index + i - 1]
    BY <1>1
  <2>2. Len(s) = 2 /\ s[1] = pattern[index] /\ s[2] = pattern[index + 1]
    <3>1. /\ index + 1 - index + 1 = 2 /\ index + 1 - 1 = index
          /\ index + 2 - 1 = index + 1
      BY <1>1
    <3>2. \A i \in 1..2 : s[i] = pattern[index + i - 1]
      BY <2>1, <3>1
    <3> QED
      BY <2>1, <3>1, <3>2
  <2> HIDE DEF s
  <2> DEFINE t == <<pattern[index], pattern[index + 1]>>
  <2>3. /\ t \in Seq(Range(pattern)) /\ Len(t) = 2
        /\ t[1] = pattern[index] /\ t[2] = pattern[index + 1]
    BY <1>1
  <2>4. \A i \in 1..Len(s) : i \in {1, 2}
    BY <2>2
  <2> HIDE DEF t
  <2>5. s = t
    BY <2>1, <2>2, <2>3, <2>4, SeqEqual
  <2> QED
    BY <2>5 DEF s, t
<1>4. result' = result \o <<pattern[index], pattern[index + 1]>>
  BY <1>2, <1>3 DEF Take
<1>5. result \o <<pattern[index], pattern[index + 1]>>
          = Append(Append(result, pattern[index]), pattern[index + 1])
  BY <1>1 DEF TemplateTyped
<1> QED
  BY <1>1, <1>4, <1>5 DEF Take

(* A text that goes on after the step went on before it, with what the step *)
(* has written.                                                             *)
LEMMA WentOn ==
    ASSUME TemplateTyped, index <= Len(pattern), NEW c, WritesOne(c),
           c = pattern[index] \/ (pattern[index] = "$" /\ c = Atom),
           NEW text, Continues(text)'
    PROVE  /\ Continues(text)
           /\ Len(result)' = Len(result) + 1
           /\ Len(result) + 1 \in 1..Len(text) /\ text[Len(result) + 1] = c
           /\ Len(text) > Len(result) + 1 =>
                  index' <= Len(pattern) /\ Shows(text, Len(result) + 2, index')
           /\ IsText(text)
           /\ \A i \in 1..Len(result) + 1 : result'[i] = text[i]
<1> USE TemplateBasics
<1>1. result \in Seq(Range(pattern) \cup {Atom}) /\ c \in Range(pattern) \cup {Atom}
  BY DEF TemplateTyped, WritesOne
<1>2. /\ Len(result') = Len(result) + 1 /\ result'[Len(result) + 1] = c
      /\ \A i \in 1..Len(result) : result'[i] = result[i]
  BY <1>1 DEF WritesOne
<1>3. /\ IsText(text) /\ Len(text) >= Len(result')
      /\ \A i \in 1..Len(result') : text[i] = result'[i]
      /\ Len(text) > Len(result') =>
             index' <= Len(pattern) /\ Shows(text, Len(result') + 1, index')
  BY DEF Continues, WritesOne, Shows
<1>4. Len(text) \in Nat
  BY <1>3, TextBasics
<1>5. Len(result) + 1 \in 1..Len(text) /\ text[Len(result) + 1] = c
  BY <1>2, <1>3, <1>4
<1>6. \A i \in 1..Len(result) : text[i] = result[i]
  <2>1. \A i \in 1..Len(result) : i \in 1..Len(result')
    BY <1>2
  <2> QED
    BY <1>2, <1>3, <2>1
<1>7. Continues(text)
  BY <1>3, <1>4, <1>5, <1>6 DEF Continues, Shows
<1>8. Len(result') + 1 = Len(result) + 2
  BY <1>2
<1> QED
  BY <1>2, <1>3, <1>5, <1>7, <1>8

LEMMA WentOnTwo ==
    ASSUME TemplateTyped, index < Len(pattern), NEW after, Take(2, after),
           NEW text, Continues(text)'
    PROVE  /\ Continues(text)
           /\ Len(result)' = Len(result) + 2
           /\ Len(result) + 1 \in 1..Len(text) /\ text[Len(result) + 1] = pattern[index]
           /\ Len(result) + 2 \in 1..Len(text) /\ text[Len(result) + 2] = pattern[index + 1]
           /\ IsText(text)
           /\ \A i \in 1..Len(result) + 2 : result'[i] = text[i]
           /\ \A i \in 1..Len(result) : result'[i] = result[i]
<1> USE TemplateBasics
<1>1. /\ result' = Append(Append(result, pattern[index]), pattern[index + 1])
      /\ index \in 1..Len(pattern) /\ index + 1 \in 1..Len(pattern)
  BY TakesTwo
<1>2. result \in Seq(Range(pattern) \cup {Atom})
  BY DEF TemplateTyped
<1>3. /\ Len(result') = Len(result) + 2
      /\ result'[Len(result) + 1] = pattern[index]
      /\ result'[Len(result) + 2] = pattern[index + 1]
      /\ \A i \in 1..Len(result) : result'[i] = result[i]
  <2> DEFINE r == Append(result, pattern[index])
  <2>1. /\ r \in Seq(Range(pattern) \cup {Atom})
        /\ Len(r) = Len(result) + 1 /\ r[Len(result) + 1] = pattern[index]
        /\ \A i \in 1..Len(result) : r[i] = result[i]
    BY <1>1, <1>2
  <2>2. result' = Append(r, pattern[index + 1])
    BY <1>1
  <2> HIDE DEF r
  <2>3. /\ Len(result') = Len(r) + 1 /\ result'[Len(r) + 1] = pattern[index + 1]
        /\ \A i \in 1..Len(r) : result'[i] = r[i]
    BY <1>1, <2>1, <2>2
  <2>4. Len(result) + 1 \in 1..Len(r) /\ \A i \in 1..Len(result) : i \in 1..Len(r)
    BY <2>1
  <2>5. Len(r) + 1 = Len(result) + 2
    BY <2>1
  <2> QED
    BY <2>1, <2>3, <2>4, <2>5
<1>4. /\ IsText(text) /\ Len(text) >= Len(result')
      /\ \A i \in 1..Len(result') : text[i] = result'[i]
  BY DEF Continues
<1>5. Len(text) \in Nat
  BY <1>4, TextBasics
<1>6. Len(result) + 1 \in 1..Len(text) /\ Len(result) + 1 \in 1..Len(result')
  BY <1>3, <1>4, <1>5
<1>7. Len(result) + 2 \in 1..Len(text) /\ Len(result) + 2 \in 1..Len(result')
  BY <1>3, <1>4, <1>5
<1>8. \A i \in 1..Len(result) : text[i] = result[i]
  <2>1. \A i \in 1..Len(result) : i \in 1..Len(result')
    BY <1>3
  <2> QED
    BY <1>3, <1>4, <2>1
<1>9. text[Len(result) + 1] = pattern[index] /\ text[Len(result) + 2] = pattern[index + 1]
  BY <1>3, <1>4, <1>6, <1>7
<1>10. Continues(text)
  BY <1>1, <1>4, <1>5, <1>6, <1>8, <1>9 DEF Continues, Shows
<1>11. \A i \in 1..Len(result) + 2 : result'[i] = text[i]
  BY <1>3, <1>4
<1> QED
  BY <1>3, <1>4, <1>6, <1>7, <1>9, <1>10, <1>11

LEMMA EscapeLength ==
    ASSUME TemplateTyped, index <= Len(pattern)
    PROVE  Min({2, Len(pattern) + 1 - index}) = IF index < Len(pattern) THEN 2 ELSE 1
<1>1. Len(pattern) \in Nat /\ index \in Nat
  BY TemplateBasics DEF TemplateTyped
<1> DEFINE n == Len(pattern) + 1 - index
<1>2. n \in Nat /\ (index < Len(pattern) => n >= 2) /\ (~(index < Len(pattern)) => n = 1)
  BY <1>1
<1> HIDE DEF n
<1>3. Min({2, n}) = IF index < Len(pattern) THEN 2 ELSE 1
  BY <1>2 DEF Min
<1> QED
  BY <1>3 DEF n

(* What a step of the scanner does to what the invariant is about.          *)
Escapes == InText /\ Sees("\\")
AfterEscape == [scan EXCEPT !.quoted = FollowedBy({"Q"}), !.first = @ /\ ~scan.class]

LEMMA EscapeTakes ==
    ASSUME TemplateTyped, Escape
    PROVE  /\ Escapes
           /\ \/ index < Len(pattern) /\ Take(2, AfterEscape)
              \/ index = Len(pattern) /\ Take(1, AfterEscape)
<1>1. index <= Len(pattern) /\ Len(pattern) \in Nat /\ index \in Nat
  BY TemplateBasics DEF Escape, InText, Reading, TemplateTyped
<1> QED
  BY <1>1, EscapeLength DEF Escape, Escapes, AfterEscape

LEMMA TakeTyped ==
    ASSUME TemplateTyped, index <= Len(pattern), NEW n \in {1, 2}, n = 2 => index < Len(pattern),
           NEW after \in Flags, after.posix => after.class, Take(n, after), Stopped, Running
    PROVE  TemplateTyped' /\ Stopped'
<1> USE TemplateBasics
<1>1. index' \in Nat \ {0} /\ scan' = after /\ UNCHANGED <<pattern, captures, stage, highest>>
  BY DEF Take, TemplateTyped
<1>2. result' \in Seq(Range(pattern) \cup {Atom})
  <2>1. CASE n = 1
    <3>1. WritesOne(pattern[index])
      BY <2>1, TakesOne
    <3> QED
      BY <3>1 DEF WritesOne, TemplateTyped
  <2>2. CASE n = 2
    <3>1. /\ result' = Append(Append(result, pattern[index]), pattern[index + 1])
          /\ index \in 1..Len(pattern) /\ index + 1 \in 1..Len(pattern)
      BY <2>2, TakesTwo
    <3>2. Append(result, pattern[index]) \in Seq(Range(pattern) \cup {Atom})
      BY <3>1 DEF TemplateTyped
    <3> QED
      BY <3>1, <3>2
  <2> QED
    BY <2>1, <2>2
<1>3. TemplateTyped'
  BY <1>1, <1>2 DEF TemplateTyped
<1>4. Stopped'
  BY <1>1 DEF Stopped, Running
<1> QED
  BY <1>3, <1>4

LEMMA LeaveTyped ==
    ASSUME TemplateTyped, NEW why \in {"expanded"} \cup Refusals, Leave(why),
           why = "quoted" => index <= Len(pattern) /\ scan.quoted,
           why = "class" => /\ index <= Len(pattern) /\ pattern[index] = "$"
                            /\ ~scan.quoted /\ scan.class
    PROVE  TemplateTyped' /\ Stopped'
BY DEF TemplateTyped, Leave, Stopped

LEMMA TypedStep ==
    ASSUME TemplateTyped, Stopped, [TemplateNext]_templateVars
    PROVE  TemplateTyped' /\ Stopped'
<1> USE DEF Flags
<1>1. CASE Unquote
  <2>1. [scan EXCEPT !.quoted = FALSE] \in Flags
    BY DEF TemplateTyped
  <2> QED
    BY <1>1, <2>1, TakeTyped DEF Unquote, Reading, EndsQuote, FollowedBy, TemplateTyped
<1>2. CASE CopyQuoted
  BY <1>2, TakeTyped DEF CopyQuoted, Reading, TemplateTyped
<1>3. CASE Escape
  <2>1. AfterEscape \in Flags /\ (AfterEscape.posix => AfterEscape.class)
    BY DEF TemplateTyped, AfterEscape, FollowedBy
  <2>2. Running /\ index <= Len(pattern)
    BY <1>3 DEF Escape, InText, Reading
  <2>3. /\ Escapes
        /\ \/ index < Len(pattern) /\ Take(2, AfterEscape)
           \/ index = Len(pattern) /\ Take(1, AfterEscape)
    BY <1>3, EscapeTakes
  <2> HIDE DEF Flags
  <2> QED
    BY <2>1, <2>2, <2>3, TakeTyped
<1>4. CASE Negate
  <2> DEFINE after == [scan EXCEPT !.negatable = FALSE]
  <2>1. after \in Flags /\ (after.posix => after.class)
    BY <1>4 DEF TemplateTyped
  <2>2. Take(1, after) /\ index <= Len(pattern) /\ Running
    BY <1>4 DEF Negate, InText, Reading
  <2> HIDE DEF after, Flags
  <2> QED
    BY <2>1, <2>2, TakeTyped
<1>5. CASE OpenPosix
  <2> DEFINE after == [scan EXCEPT !.posix = TRUE]
  <2>1. after \in Flags /\ (after.posix => after.class)
    BY <1>5 DEF TemplateTyped, OpenPosix, OpensPosix
  <2>2. Take(1, after) /\ index <= Len(pattern) /\ Running
    BY <1>5 DEF OpenPosix, InText, Reading
  <2> HIDE DEF after, Flags
  <2> QED
    BY <2>1, <2>2, TakeTyped
<1>6. CASE ClosePosix
  BY <1>6, TakeTyped DEF ClosePosix, ClosesPosix, FollowedBy, InText, Reading, TemplateTyped
<1>7. CASE OpenClass
  <2> DEFINE after == [scan EXCEPT !.class = TRUE, !.first = TRUE, !.negatable = TRUE]
  <2>1. after \in Flags /\ (after.posix => after.class)
    BY <1>7 DEF TemplateTyped
  <2>2. Take(1, after) /\ index <= Len(pattern) /\ Running
    BY <1>7 DEF OpenClass, InText, Reading
  <2> HIDE DEF after, Flags
  <2> QED
    BY <2>1, <2>2, TakeTyped
<1>8. CASE CloseClass
  <2> DEFINE after == [scan EXCEPT !.class = FALSE, !.first = FALSE, !.negatable = FALSE]
  <2>1. after \in Flags /\ (after.posix => after.class)
    BY <1>8 DEF TemplateTyped, CloseClass, ClosesClass
  <2>2. Take(1, after) /\ index <= Len(pattern) /\ Running
    BY <1>8 DEF CloseClass, InText, Reading
  <2> HIDE DEF after, Flags
  <2> QED
    BY <2>1, <2>2, TakeTyped
<1>9. CASE Copy
  BY <1>9, TakeTyped DEF Copy, InText, Reading, TemplateTyped
<1>10. CASE RefuseQuoted \/ RefuseSyntax \/ RefuseInClass \/ RefuseNumber
  BY <1>10, LeaveTyped DEF RefuseQuoted, RefuseSyntax, RefuseInClass, RefuseNumber, AtReference,
                           InText, Reading, Refusals, Sees
<1>11. CASE Replace
  <2>1. CASE Leave("unavailable")
    BY <2>1, LeaveTyped DEF Refusals
  <2>2. CASE ~Leave("unavailable")
    <3>1. /\ result' = Append(result, Atom) /\ highest' = Highest(Reference(index))
          /\ index' = End(index) /\ UNCHANGED <<pattern, captures, stage, scan>>
          /\ index \in 1..Len(pattern) /\ index < Len(pattern) /\ pattern[index + 1] \in Digit
          /\ Running
      BY <1>11, <2>2, TemplateBasics
         DEF Replace, AtReference, InText, Reading, FollowedBy, TemplateTyped
    <3>2. Reference(index) \in Nat /\ End(index) \in index + 2..Len(pattern) + 1
      BY <3>1, TemplateBasics, ReferenceIs, EndIs
    <3>3. highest' \in Nat /\ index' \in Nat \ {0}
      BY <3>1, <3>2, TemplateBasics DEF Highest, TemplateTyped
    <3>4. result' \in Seq(Range(pattern) \cup {Atom})
      BY <3>1 DEF TemplateTyped
    <3>5. Stopped'
      BY <3>1 DEF Stopped, Running
    <3> QED
      BY <3>1, <3>3, <3>4, <3>5 DEF TemplateTyped
  <2> QED
    BY <2>1, <2>2
<1>12. CASE RefuseTemplate \/ Expanded
  BY <1>12, LeaveTyped DEF RefuseTemplate, Expanded, Refusals
<1>13. CASE Accept
  <2>1. Outside \in Flags /\ ~Outside.posix
    BY DEF Outside
  <2>2. <<>> \in Seq(Range(pattern) \cup {Atom})
    OBVIOUS
  <2> HIDE DEF Flags
  <2> QED
    BY <1>13, <2>1, <2>2 DEF Accept, TemplateTyped, Stopped
<1>14. CASE Done \/ UNCHANGED templateVars
  BY <1>14 DEF Done, templateVars, TemplateTyped, Stopped
<1> QED
  BY <1>1, <1>2, <1>3, <1>4, <1>5, <1>6, <1>7, <1>8, <1>9, <1>10, <1>11, <1>12, <1>13, <1>14
     DEF TemplateNext

-----------------------------------------------------------------------------
(* What the compiler has read when the scanner goes on.                *)

(* A copied "$" is followed by no digit.                                    *)
LEMMA NoDigitBehind ==
    ASSUME TemplateTyped, AllFollowed, index <= Len(pattern),
           NEW c, WritesOne(c), c = pattern[index] \/ (pattern[index] = "$" /\ c = Atom),
           c = "$" => index' = index + 1 /\ ~FollowedBy(Digit),
           NEW text, Continues(text)',
           NEW i \in Tokens(text), i <= Len(result) + 1, text[i] = "$"
    PROVE  ~(i + 1 <= Len(text) /\ text[i + 1] \in Digit)
<1> DEFINE b == Len(result) + 1
<1>1. /\ Continues(text) /\ IsText(text) /\ b \in 1..Len(text) /\ text[b] = c
      /\ Len(text) > b => index' <= Len(pattern) /\ Shows(text, Len(result) + 2, index')
  BY WentOn
<1>2. Followed(text)
  BY <1>1 DEF AllFollowed
<1>3. Len(text) \in Nat /\ Len(result) \in Nat /\ Tokens(text) \subseteq 1..Len(text) + 1
  BY <1>1, TextBasics, TokensDef, TemplateBasics
<1>4. CASE i <= Len(result)
  BY <1>2, <1>4 DEF Followed
<1>5. CASE ~(i <= Len(result))
  <2>1. i = b /\ b + 1 = Len(result) + 2
    BY <1>3, <1>5
  <2> SUFFICES ASSUME b + 1 <= Len(text) PROVE text[b + 1] \notin Digit
    BY <2>1
  <2>2. index + 1 <= Len(pattern) /\ Shows(text, b + 1, index + 1) /\ ~FollowedBy(Digit)
    BY <1>1, <1>3, <2>1
  <2>3. pattern[index + 1] \notin Digit
    BY <2>2, TemplateBasics DEF FollowedBy, TemplateTyped
  <2> QED
    BY <2>2, <2>3, TemplateBasics DEF Shows
<1> QED
  BY <1>4, <1>5

LEMMA PlainFollowed ==
    ASSUME TemplateTyped, AllFollowed, index <= Len(pattern), ~scan.quoted, ~scan'.quoted,
           NEW c, WritesOne(c), c = pattern[index] \/ (pattern[index] = "$" /\ c = Atom),
           c # "\\", c = "$" => index' = index + 1 /\ ~FollowedBy(Digit)
    PROVE  AllFollowed'
<1> SUFFICES ASSUME NEW text, Continues(text)' PROVE Followed(text)'
  BY DEF AllFollowed
<1> DEFINE b == Len(result) + 1
<1>1. /\ Continues(text) /\ IsText(text) /\ Len(result)' = b
      /\ b \in 1..Len(text) /\ text[b] = c
  BY WentOn
<1>2. Followed(text)
  BY <1>1 DEF AllFollowed
<1>3. Len(text) \in Nat /\ Len(result) \in Nat /\ Tokens(text) \subseteq 1..Len(text) + 1
  BY <1>1, TextBasics, TokensDef, TemplateBasics
<1>4. ASSUME NEW B \in Tokens(text), B > b PROVE Placed(text, b + 1)
  <2>1. B > Len(result)
    BY <1>3, <1>4
  <2>2. Placed(text, b)
    BY <1>2, <2>1 DEF Followed
  <2> HIDE DEF b
  <2> QED
    BY <1>1, <1>4, <2>2, PlacedNext
<1>5. \A i \in Tokens(text) : i <= b /\ text[i] = "$" =>
          ~(i + 1 <= Len(text) /\ text[i + 1] \in Digit)
  BY NoDigitBehind
<1>6. Len(result') = b /\ Len(result') + 1 = b + 1
  BY <1>1
<1> HIDE DEF b
<1> QED
  BY <1>4, <1>5, <1>6 DEF Followed

LEMMA ClosePosixFollowed ==
    ASSUME TemplateTyped, AllFollowed, ClosePosix
    PROVE  AllFollowed'
<1> SUFFICES ASSUME NEW text, Continues(text)' PROVE Followed(text)'
  BY DEF AllFollowed
<1> DEFINE b == Len(result) + 1
           after == [scan EXCEPT !.posix = FALSE, !.first = FALSE]
<1>1. /\ index < Len(pattern) /\ Take(2, after) /\ ~scan.quoted /\ ~scan'.quoted
      /\ pattern[index] = ":" /\ pattern[index + 1] = "]"
  <2>1. Take(2, after) /\ ~scan.quoted /\ scan \in Flags
    BY DEF ClosePosix, InText, TemplateTyped
  <2>2. scan' = after
    BY <2>1 DEF Take
  <2>3. ~after.quoted
    BY <2>1 DEF Flags
  <2> QED
    BY <2>1, <2>2, <2>3 DEF ClosePosix, ClosesPosix, FollowedBy, Sees
<1> HIDE DEF after
<1>2. /\ Continues(text) /\ IsText(text) /\ Len(result)' = Len(result) + 2
      /\ b \in 1..Len(text) /\ text[b] = ":"
      /\ Len(result) + 2 \in 1..Len(text) /\ text[Len(result) + 2] = "]"
  BY <1>1, WentOnTwo
<1>3. Followed(text)
  BY <1>2 DEF AllFollowed
<1>4. /\ Len(text) \in Nat /\ Len(result) \in Nat /\ Tokens(text) \subseteq 1..Len(text) + 1
      /\ b + 1 = Len(result) + 2
  BY <1>2, TextBasics, TokensDef, TemplateBasics
<1>5. ASSUME NEW B \in Tokens(text), B > b + 1 PROVE Placed(text, b + 2)
  <2>1. B > Len(result) /\ B > b
    BY <1>4, <1>5
  <2>2. Placed(text, b)
    BY <1>1, <1>3, <2>1 DEF Followed
  <2>3. b + 1 + 1 = b + 2 /\ b + 1 \in 1..Len(text) /\ text[b + 1] = "]"
    BY <1>2, <1>4
  <2> HIDE DEF b
  <2>4. Placed(text, b + 1)
    BY <1>2, <2>1, <2>2, PlacedNext
  <2>5. Placed(text, b + 1 + 1)
    BY <1>2, <1>5, <2>3, <2>4, PlacedNext
  <2> QED
    BY <2>3, <2>5
<1>6. ASSUME NEW i \in Tokens(text), i <= b + 1, text[i] = "$"
      PROVE  ~(i + 1 <= Len(text) /\ text[i + 1] \in Digit)
  <2>1. i <= Len(result) \/ i = b \/ i = b + 1
    BY <1>4, <1>6
  <2> QED
    BY <1>2, <1>3, <1>4, <1>6, <2>1 DEF Followed
<1>7. Len(result') = b + 1 /\ Len(result') + 1 = b + 2
  BY <1>2, <1>4
<1>8. ~scan'.quoted
  BY <1>1
<1> HIDE DEF b
<1> QED
  BY <1>5, <1>6, <1>7, <1>8 DEF Followed

LEMMA EscapeFollowed ==
    ASSUME TemplateTyped, AllFollowed, Escape
    PROVE  AllFollowed'
<1> SUFFICES ASSUME NEW text, Continues(text)' PROVE Followed(text)'
  BY DEF AllFollowed
<1> DEFINE b == Len(result) + 1
<1>1. /\ ~scan.quoted /\ pattern[index] = "\\" /\ index <= Len(pattern)
      /\ \/ index < Len(pattern) /\ Take(2, AfterEscape)
         \/ index = Len(pattern) /\ Take(1, AfterEscape)
  BY EscapeTakes DEF Escapes, InText, Reading, Sees
<1>2. scan' = AfterEscape /\ (AfterEscape.quoted <=> FollowedBy({"Q"}))
  <2>1. AfterEscape.quoted = FollowedBy({"Q"})
    BY DEF AfterEscape, TemplateTyped, Flags
  <2> QED
    BY <1>1, <2>1 DEF Take
<1>3. CASE index = Len(pattern)
  <2>1. Take(1, AfterEscape)
    BY <1>1, <1>3, TemplateBasics
  <2>2. WritesOne(pattern[index]) /\ index' = index + 1
    BY <1>1, <2>1, TakesOne
  <2>3. /\ Continues(text) /\ IsText(text) /\ Len(result)' = b
        /\ b \in 1..Len(text) /\ text[b] = "\\"
        /\ Len(text) > b => index' <= Len(pattern)
    BY <1>1, <2>2, WentOn
  <2>4. Followed(text)
    BY <2>3 DEF AllFollowed
  <2>5. Len(text) \in Nat /\ Len(result) \in Nat /\ Tokens(text) \subseteq 1..Len(text) + 1
    BY <2>3, TextBasics, TokensDef, TemplateBasics
  <2>6. Len(text) = b
    BY <1>3, <2>2, <2>3, <2>5, TemplateBasics
  <2>7. ASSUME NEW B \in Tokens(text), B > b PROVE FALSE
    <3>1. B > Len(result)
      BY <2>5, <2>7
    <3>2. Placed(text, b)
      BY <1>1, <2>4, <3>1 DEF Followed
    <3>3. b < Len(text)
      <4> HIDE DEF b
      <4> QED
        BY <2>3, <2>7, <3>2, PlacedEscape
    <3> QED
      BY <2>5, <2>6, <3>3
  <2>8. ASSUME NEW i \in Tokens(text), i <= b, text[i] = "$"
        PROVE  ~(i + 1 <= Len(text) /\ text[i + 1] \in Digit)
    <3>1. i <= Len(result) \/ i = b
      BY <2>5, <2>8
    <3> QED
      BY <2>3, <2>4, <2>8, <3>1 DEF Followed
  <2>9. Len(result') = b
    BY <2>3
  <2> HIDE DEF b
  <2> QED
    BY <2>7, <2>8, <2>9 DEF Followed
<1>4. CASE index < Len(pattern)
  <2>1. Take(2, AfterEscape)
    BY <1>1, <1>4, TemplateBasics DEF TemplateTyped
  <2>2. /\ Continues(text) /\ IsText(text) /\ Len(result)' = Len(result) + 2
        /\ b \in 1..Len(text) /\ text[b] = "\\"
        /\ Len(result) + 2 \in 1..Len(text) /\ text[Len(result) + 2] = pattern[index + 1]
    BY <1>1, <1>4, <2>1, WentOnTwo
  <2>3. Followed(text)
    BY <2>2 DEF AllFollowed
  <2>4. /\ Len(text) \in Nat /\ Len(result) \in Nat /\ Tokens(text) \subseteq 1..Len(text) + 1
        /\ b + 1 = Len(result) + 2
    BY <2>2, TextBasics, TokensDef, TemplateBasics
  <2>5. At(text, b + 1, "Q") <=> scan'.quoted
    BY <1>2, <1>4, <2>2, <2>4, TextBasics DEF FollowedBy
  <2>6. ASSUME NEW B \in Tokens(text), B > b
        PROVE  /\ B > b + 1
               /\ scan'.quoted => b \in Tokens(text)
               /\ ~scan'.quoted => Placed(text, b + 2)
    <3>1. B > Len(result)
      BY <2>4, <2>6
    <3>2. Placed(text, b)
      BY <1>1, <2>3, <3>1 DEF Followed
    <3> HIDE DEF b
    <3> QED
      BY <2>2, <2>5, <2>6, <3>2, PlacedEscape
  <2>7. ASSUME NEW B \in Tokens(text), B > b + 1
        PROVE  IF scan'.quoted THEN \E k : QuotedAt(text, k, b + 2) ELSE Placed(text, b + 2)
    <3>1. B > b
      BY <2>4, <2>7
    <3>2. CASE scan'.quoted
      <4>1. b \in Tokens(text) /\ At(text, b, "\\") /\ At(text, b + 1, "Q")
        BY <2>2, <2>4, <2>5, <2>6, <3>1, <3>2, TextBasics
      <4>2. \A j \in b + 2..(b + 2) - 1 : FALSE
        BY <2>4
      <4>3. QuotedAt(text, b, b + 2)
        BY <2>4, <4>1, <4>2 DEF QuotedAt
      <4> QED
        BY <3>2, <4>3
    <3>3. CASE ~scan'.quoted
      BY <2>6, <3>1, <3>3
    <3> QED
      BY <3>2, <3>3
  <2>8. ASSUME NEW i \in Tokens(text), i <= b + 1, text[i] = "$"
        PROVE  ~(i + 1 <= Len(text) /\ text[i + 1] \in Digit)
    <3>1. i <= Len(result) \/ i = b \/ i = b + 1
      BY <2>4, <2>8
    <3>2. i # b + 1
      <4>1. b + 1 > b /\ ~(b + 1 > b + 1)
        BY <2>4
      <4> QED
        BY <2>6, <2>8, <4>1
    <3> QED
      BY <2>2, <2>3, <2>8, <3>1, <3>2 DEF Followed
  <2>9. Len(result') = b + 1 /\ Len(result') + 1 = b + 2
    BY <2>2, <2>4
  <2> HIDE DEF b
  <2> QED
    BY <2>7, <2>8, <2>9 DEF Followed
<1> QED
  BY <1>1, <1>3, <1>4

LEMMA CopyQuotedFollowed ==
    ASSUME TemplateTyped, AllFollowed, CopyQuoted
    PROVE  AllFollowed'
<1> SUFFICES ASSUME NEW text, Continues(text)' PROVE Followed(text)'
  BY DEF AllFollowed
<1> DEFINE b == Len(result) + 1
           c == pattern[index]
<1>1. /\ index <= Len(pattern) /\ scan.quoted /\ ~EndsQuote /\ ~ReferenceLike /\ Take(1, scan)
  BY DEF CopyQuoted, Reading
<1>2. WritesOne(c) /\ index' = index + 1 /\ scan' = scan
  BY <1>1, TakesOne
<1>3. c = "$" => ~FollowedBy(Digit)
  BY <1>1 DEF ReferenceLike, Sees, FollowedBy
<1>4. /\ Continues(text) /\ IsText(text) /\ Len(result)' = b
      /\ b \in 1..Len(text) /\ text[b] = c
      /\ Len(text) > b => index' <= Len(pattern) /\ Shows(text, Len(result) + 2, index')
  BY <1>1, <1>2, WentOn
<1>5. Followed(text)
  BY <1>4 DEF AllFollowed
<1>6. /\ Len(text) \in Nat /\ Len(result) \in Nat /\ Tokens(text) \subseteq 1..Len(text) + 1
      /\ b + 1 = Len(result) + 2
  BY <1>4, TextBasics, TokensDef, TemplateBasics
<1>7. ~Unquotes(text, b)
  <2> SUFFICES ASSUME Unquotes(text, b) PROVE FALSE
    OBVIOUS
  <2>1. c = "\\" /\ b + 1 \in 1..Len(text) /\ text[b + 1] = "E"
    BY <1>4, <1>6, TextBasics DEF Unquotes
  <2>2. index + 1 <= Len(pattern) /\ Shows(text, b + 1, index + 1)
    BY <1>2, <1>4, <1>6, <2>1
  <2>3. pattern[index + 1] = "E"
    BY <2>1, <2>2, TemplateBasics DEF Shows, Letter
  <2>4. EndsQuote
    BY <2>1, <2>2, <2>3, TemplateBasics DEF EndsQuote, Sees, FollowedBy, TemplateTyped
  <2> QED
    BY <1>1, <2>4
<1>8. ASSUME NEW B \in Tokens(text), B > b PROVE \E k : QuotedAt(text, k, b + 1)
  <2>1. B > Len(result)
    BY <1>6, <1>8
  <2>2. PICK k : QuotedAt(text, k, b)
    BY <1>1, <1>5, <2>1 DEF Followed
  <2>3. k \in Nat /\ k + 2 <= b + 1
    BY <1>6, <2>2 DEF QuotedAt
  <2>4. \A j \in k + 2..(b + 1) - 1 : j = b \/ j \in k + 2..b - 1
    BY <1>6, <2>3
  <2> HIDE DEF b
  <2>5. \A j \in k + 2..(b + 1) - 1 : ~Unquotes(text, j)
    BY <1>7, <2>2, <2>4 DEF QuotedAt
  <2>6. QuotedAt(text, k, b + 1)
    BY <2>2, <2>3, <2>5 DEF QuotedAt
  <2> QED
    BY <2>6
<1>9. \A i \in Tokens(text) : i <= b /\ text[i] = "$" =>
          ~(i + 1 <= Len(text) /\ text[i + 1] \in Digit)
  BY <1>1, <1>2, <1>3, NoDigitBehind
<1>10. Len(result') = b /\ Len(result') + 1 = b + 1 /\ scan'.quoted
  BY <1>1, <1>2, <1>4
<1> HIDE DEF b
<1> QED
  BY <1>8, <1>9, <1>10 DEF Followed

(* Where the scanner sees \E the quoted text of the compiler ends.          *)
LEMMA QuoteEndsHere ==
    ASSUME NEW text, IsText(text), NEW k, NEW b \in 1..Len(text), QuotedAt(text, k, b),
           Unquotes(text, b)
    PROVE  b + 2 \in Tokens(text)
<1>1. Len(text) \in Nat /\ k \in 1..Len(text) /\ text[k] = "\\" /\ b \in k + 2..Len(text)
  BY TextBasics, TokensDef DEF QuotedAt
<1>2. QuoteEnd(text, k) = b + 2
  <2>1. PICK j \in k + 2..Len(text) :
            /\ Unquotes(text, j) /\ QuoteEnd(text, k) = j + 2
            /\ \A m \in k + 2..j - 1 : ~Unquotes(text, m)
    BY <1>1, QuoteEnds
  <2>2. ~(j < b)
    <3>1. j < b => j \in k + 2..b - 1
      BY <1>1, <2>1
    <3> QED
      BY <2>1, <3>1 DEF QuotedAt
  <2>3. ~(b < j)
    <3>1. b < j => b \in k + 2..j - 1
      BY <1>1, <2>1
    <3> QED
      BY <2>1, <3>1
  <2>4. j = b
    BY <1>1, <2>1, <2>2, <2>3
  <2> QED
    BY <2>1, <2>4
<1>3. TokenEnd(text, k) = QuoteEnd(text, k)
  BY <1>1 DEF TokenEnd, QuotedAt
<1>4. k \in Tokens(text) /\ k <= Len(text) /\ TokenEnd(text, k) # 0
  BY <1>1, <1>2, <1>3 DEF QuotedAt
<1> QED
  BY <1>2, <1>3, <1>4, NextToken

LEMMA UnquoteTakes ==
    ASSUME TemplateTyped, AllFollowed, Unquote, NEW text, Continues(text)'
    PROVE  /\ Continues(text) /\ IsText(text) /\ Len(result)' = Len(result) + 2
           /\ Len(result) + 1 \in 1..Len(text) /\ text[Len(result) + 1] = "\\"
           /\ Len(result) + 2 \in 1..Len(text) /\ text[Len(result) + 2] = "E"
           /\ scan' = [scan EXCEPT !.quoted = FALSE] /\ ~scan'.quoted
           /\ \A i \in 1..Len(result) : result'[i] = result[i]
           /\ result'[Len(result) + 1] = "\\" /\ result'[Len(result) + 2] = "E"
           /\ \A B \in Tokens(text) : B > Len(result) => Len(result) + 3 \in Tokens(text)
<1> DEFINE b == Len(result) + 1
           after == [scan EXCEPT !.quoted = FALSE]
<1>1. /\ index < Len(pattern) /\ Take(2, after) /\ scan.quoted /\ scan' = after
      /\ pattern[index] = "\\" /\ pattern[index + 1] = "E"
  BY DEF Unquote, Reading, EndsQuote, Sees, FollowedBy, Take
<1>2. ~after.quoted
  BY DEF TemplateTyped, Flags
<1> HIDE DEF after
<1>3. /\ Continues(text) /\ IsText(text) /\ Len(result)' = Len(result) + 2
      /\ b \in 1..Len(text) /\ text[b] = "\\"
      /\ Len(result) + 2 \in 1..Len(text) /\ text[Len(result) + 2] = "E"
      /\ \A i \in 1..Len(result) : result'[i] = result[i]
      /\ \A i \in 1..Len(result) + 2 : result'[i] = text[i]
  BY <1>1, WentOnTwo
<1>4. Followed(text)
  BY <1>3 DEF AllFollowed
<1>5. b + 1 = Len(result) + 2 /\ b + 2 = Len(result) + 3 /\ Len(result) \in Nat
  BY TemplateBasics
<1>6. Unquotes(text, b)
  BY <1>3, <1>5, TextBasics DEF Unquotes
<1>7. ASSUME NEW B \in Tokens(text), B > Len(result) PROVE b + 2 \in Tokens(text)
  <2>1. PICK k : QuotedAt(text, k, b)
    BY <1>1, <1>4, <1>7 DEF Followed
  <2> HIDE DEF b
  <2> QED
    BY <1>3, <1>6, <2>1, QuoteEndsHere
<1>8. Len(result) + 1 \in 1..Len(result) + 2 /\ Len(result) + 2 \in 1..Len(result) + 2
  BY <1>5
<1> QED
  BY <1>1, <1>2, <1>3, <1>5, <1>7, <1>8 DEF after

LEMMA UnquoteFollowed ==
    ASSUME TemplateTyped, AllFollowed, Unquote
    PROVE  AllFollowed'
<1> SUFFICES ASSUME NEW text, Continues(text)' PROVE Followed(text)'
  BY DEF AllFollowed
<1> DEFINE n == Len(result)
<1>1. /\ Continues(text) /\ IsText(text) /\ Len(result)' = n + 2
      /\ n + 1 \in 1..Len(text) /\ text[n + 1] = "\\"
      /\ n + 2 \in 1..Len(text) /\ text[n + 2] = "E"
      /\ ~scan'.quoted
      /\ \A B \in Tokens(text) : B > n => n + 3 \in Tokens(text)
  BY UnquoteTakes
<1>2. Followed(text)
  BY <1>1 DEF AllFollowed
<1>3. /\ Len(text) \in Nat /\ n \in Nat /\ Tokens(text) \subseteq 1..Len(text) + 1
      /\ n + 2 + 1 = n + 3
  BY <1>1, TextBasics, TokensDef, TemplateBasics
<1>4. ASSUME NEW B \in Tokens(text), B > n + 2 PROVE Placed(text, n + 3)
  <2>1. B > n
    BY <1>3, <1>4
  <2> QED
    BY <1>1, <2>1 DEF Placed
<1>5. ASSUME NEW i \in Tokens(text), i <= n + 2, text[i] = "$"
      PROVE  ~(i + 1 <= Len(text) /\ text[i + 1] \in Digit)
  <2>1. i <= n \/ i = n + 1 \/ i = n + 2
    BY <1>3, <1>5
  <2> QED
    BY <1>1, <1>2, <1>5, <2>1 DEF Followed
<1>6. Len(result') = n + 2 /\ Len(result') + 1 = n + 3
  BY <1>1, <1>3
<1> HIDE DEF n
<1> QED
  BY <1>1, <1>4, <1>5, <1>6 DEF Followed

(* Nothing has been read yet.                                               *)
LEMMA FreshText ==
    ASSUME NEW text, IsText(text)
    PROVE  Placed(text, 1) /\ 1 \in Tokens(text) /\ \A i \in Tokens(text) : ~(i <= 0)
<1>1. Len(text) \in Nat /\ 1 \in 1..Len(text) + 1
  BY TextBasics
<1> QED
  BY <1>1, TokensDef DEF Placed

LEMMA FollowedStep ==
    ASSUME TemplateTyped, AllFollowed, [TemplateNext]_templateVars
    PROVE  AllFollowed'
<1>1. ASSUME InText, NEW after, Take(1, after), after.quoted = scan.quoted,
             ~Sees("\\"), Sees("$") => ~FollowedBy(Digit)
      PROVE  AllFollowed'
  <2>1. index <= Len(pattern) /\ ~scan.quoted /\ pattern[index] # "\\"
        /\ (pattern[index] = "$" => ~FollowedBy(Digit))
    BY <1>1 DEF InText, Reading, Sees
  <2>2. WritesOne(pattern[index]) /\ index' = index + 1 /\ scan' = after
    BY <1>1, <2>1, TakesOne
  <2> QED
    BY <1>1, <2>1, <2>2, PlainFollowed
<1>2. CASE Negate
  BY <1>1, <1>2 DEF Negate, Negates, Sees, TemplateTyped, Flags
<1>3. CASE OpenPosix
  BY <1>1, <1>3 DEF OpenPosix, OpensPosix, Sees, TemplateTyped, Flags
<1>4. CASE OpenClass
  BY <1>1, <1>4 DEF OpenClass, OpensClass, Sees, TemplateTyped, Flags
<1>5. CASE CloseClass
  BY <1>1, <1>5 DEF CloseClass, ClosesClass, Sees, TemplateTyped, Flags
<1>6. CASE Copy
  <2>1. Sees("$") => ~FollowedBy(Digit)
    BY <1>6 DEF Copy, Ordinary, ReferenceLike, FollowedBy
  <2> QED
    BY <1>1, <1>6, <2>1 DEF Copy, Ordinary, TemplateTyped, Flags
<1>7. CASE Replace /\ result' # result
  <2>1. /\ result' = Append(result, Atom) /\ UNCHANGED <<pattern, scan>>
        /\ index <= Len(pattern) /\ ~scan.quoted /\ pattern[index] = "$"
    BY <1>7 DEF Replace, AtReference, InText, Reading, Sees, Leave
  <2>2. WritesOne(Atom) /\ Atom # "\\" /\ Atom # "$"
    BY <2>1, TemplateBasics DEF WritesOne
  <2> QED
    BY <2>1, <2>2, PlainFollowed
<1>8. CASE \/ UNCHANGED <<pattern, index, result, scan>>
  BY <1>8 DEF AllFollowed, Followed, Continues, Shows
<1>9. CASE Accept
  <2>1. result' = <<>> /\ scan' = Outside
    BY <1>9 DEF Accept
  <2>2. Len(result') = 0 /\ ~scan'.quoted
    BY <2>1 DEF Outside
  <2> SUFFICES ASSUME NEW text, Continues(text)' PROVE Followed(text)'
    BY DEF AllFollowed
  <2>3. IsText(text)
    BY DEF Continues
  <2>4. Placed(text, 0 + 1) /\ \A i \in Tokens(text) : ~(i <= 0)
    BY <2>3, FreshText
  <2> QED
    BY <2>2, <2>4 DEF Followed
<1>10. CASE RefuseQuoted \/ RefuseSyntax \/ RefuseInClass \/ RefuseNumber \/ RefuseTemplate
            \/ Expanded \/ Done \/ UNCHANGED templateVars \/ (Replace /\ result' = result)
  <2>1. Replace /\ result' = result => UNCHANGED <<pattern, index, result, scan>>
    <3> SUFFICES ASSUME Replace, result' = result, result' = Append(result, Atom) PROVE FALSE
      BY DEF Replace, Leave
    <3>1. Len(result') = Len(result) + 1 /\ Len(result) \in Nat
      BY TemplateBasics DEF TemplateTyped
    <3> QED
      BY <3>1
  <2> QED
    BY <1>8, <1>10, <2>1 DEF RefuseQuoted, RefuseSyntax, RefuseInClass, RefuseNumber,
       RefuseTemplate, Expanded, Done, Leave, templateVars
<1> QED
  BY <1>2, <1>3, <1>4, <1>5, <1>6, <1>7, <1>9, <1>10, ClosePosixFollowed, EscapeFollowed,
     CopyQuotedFollowed, UnquoteFollowed DEF TemplateNext

-----------------------------------------------------------------------------
(* Where in a class of the compiler the scanner is.                    *)

(* The next character is the first of an item of the class, or its end.     *)
LEMMA AtItem ==
    ASSUME TemplateTyped, NEW text, IsText(text), NEW k, NEW b \in 1..Len(text),
           InClassAt(text, k, b), ~scan.posix,
           ~(scan.first /\ scan.negatable /\ text[b] = "^")
    PROVE  /\ ClassToken(text, k) /\ Reads(text, k, b) /\ b < ClassEnd(text, k)
           /\ scan.first => b = FirstItem(text, k)
           /\ ~scan.first => ClassFrom(text, b) = ClassEnd(text, k)
<1>1. /\ ClassToken(text, k) /\ k < b /\ b < ClassEnd(text, k)
      /\ scan.first /\ scan.negatable => b = k + 1
      /\ scan.first /\ ~scan.negatable => b = k + 2 /\ b = FirstItem(text, k)
      /\ ~scan.first => ClassFrom(text, b) = ClassEnd(text, k)
  BY DEF InClassAt
<1>2. Len(text) \in Nat /\ k \in 1..Len(text)
  BY <1>1, TextBasics, ClassTokenEnd
<1>3. b \in k + 1..Len(text)
  BY <1>1, <1>2
<1>4. CASE scan.first /\ scan.negatable
  <2>1. b = k + 1 /\ text[b] # "^"
    BY <1>1, <1>4
  <2>2. FirstItem(text, k) = b
    BY <1>2, <2>1, TextBasics DEF FirstItem
  <2> QED
    BY <1>1, <1>3, <1>4, <2>2 DEF Reads
<1>5. CASE ~(scan.first /\ scan.negatable)
  BY <1>1, <1>3, <1>5 DEF Reads
<1> QED
  BY <1>4, <1>5

(* Inside the name of a POSIX class the scanner sees its characters only.   *)
LEMMA InName ==
    ASSUME TemplateTyped, NEW p \in DOMAIN pattern, IsPosix(pattern, p),
           NamedClass(pattern, p) # 0, p < index, index < NamedClass(pattern, p) - 1,
           scan.first => index = p + 1
    PROVE  /\ index < Len(pattern) /\ pattern[index] \in {":", "a", "^"}
           /\ scan.first => pattern[index] = ":"
           /\ index < NamedClass(pattern, p) - 2 =>
                 ~(pattern[index] = ":" /\ pattern[index + 1] = "]")
           /\ index = NamedClass(pattern, p) - 2 =>
                 pattern[index] = ":" /\ pattern[index + 1] = "]"
<1>1. /\ IsText(pattern) /\ p \in 1..Len(pattern) /\ Len(pattern) \in Nat /\ index \in Nat
      /\ \A i, c : At(pattern, i, c) <=> i \in 1..Len(pattern) /\ pattern[i] = c
  <2>1. IsText(pattern) /\ index \in Nat
    BY TemplateBasics DEF IsText, TemplateTyped
  <2> QED
    BY <2>1, TextBasics, TemplateBasics
<1>2. /\ At(pattern, p + 1, ":")
      /\ \/ /\ At(pattern, p + 2, "a") /\ At(pattern, p + 3, ":") /\ At(pattern, p + 4, "]")
            /\ NamedClass(pattern, p) = p + 5
         \/ /\ At(pattern, p + 2, "^") /\ At(pattern, p + 3, "a")
            /\ At(pattern, p + 4, ":") /\ At(pattern, p + 5, "]")
            /\ NamedClass(pattern, p) = p + 6
  BY <1>1, NamedShape
<1>3. CASE /\ At(pattern, p + 2, "a") /\ At(pattern, p + 3, ":") /\ At(pattern, p + 4, "]")
           /\ NamedClass(pattern, p) = p + 5
  <2>1. /\ p + 4 \in 1..Len(pattern)
        /\ pattern[p + 1] = ":" /\ pattern[p + 2] = "a" /\ pattern[p + 3] = ":"
        /\ pattern[p + 4] = "]"
    BY <1>1, <1>2, <1>3
  <2>2. \/ index = p + 1 /\ index + 1 = p + 2
        \/ index = p + 2 /\ index + 1 = p + 3
        \/ index = p + 3 /\ index + 1 = p + 4
    BY <1>1, <1>3
  <2>3. index < Len(pattern) /\ p + 5 - 2 = p + 3
    BY <1>1, <2>1, <2>2
  <2> QED
    BY <1>1, <1>3, <2>1, <2>2, <2>3
<1>4. CASE /\ At(pattern, p + 2, "^") /\ At(pattern, p + 3, "a")
           /\ At(pattern, p + 4, ":") /\ At(pattern, p + 5, "]")
           /\ NamedClass(pattern, p) = p + 6
  <2>1. /\ p + 5 \in 1..Len(pattern)
        /\ pattern[p + 1] = ":" /\ pattern[p + 2] = "^" /\ pattern[p + 3] = "a"
        /\ pattern[p + 4] = ":" /\ pattern[p + 5] = "]"
    BY <1>1, <1>2, <1>4
  <2>2. \/ index = p + 1 /\ index + 1 = p + 2
        \/ index = p + 2 /\ index + 1 = p + 3
        \/ index = p + 3 /\ index + 1 = p + 4
        \/ index = p + 4 /\ index + 1 = p + 5
    <3>1. p \in Nat /\ index \in Nat /\ p < index /\ index < p + 5
      BY <1>1, <1>4
    <3> QED
      BY <3>1
  <2>3. index < Len(pattern) /\ NamedClass(pattern, p) - 2 = p + 4 /\ p \in Nat
    <3>1. p \in Nat /\ p + 5 <= Len(pattern) /\ Len(pattern) \in Nat
          /\ NamedClass(pattern, p) = p + 6
      BY <1>1, <1>4, <2>1
    <3>2. p + 6 - 2 = p + 4
      BY <3>1
    <3>3. index < Len(pattern)
      BY <2>2, <3>1
    <3> QED
      BY <3>1, <3>2, <3>3
  <2>4. CASE index # p + 4
    <3>1. pattern[index] \in {":", "^", "a"} /\ ~(pattern[index] = ":" /\ pattern[index + 1] = "]")
      BY <2>1, <2>2, <2>4
    <3> QED
      BY <1>2, <2>1, <2>3, <2>4, <3>1
  <2>5. CASE index = p + 4
    <3>1. pattern[index] = ":" /\ pattern[index + 1] = "]"
      BY <2>1, <2>2, <2>3, <2>5
    <3> QED
      BY <2>3, <2>5, <3>1
  <2> QED
    BY <2>4, <2>5
<1> QED
  BY <1>2, <1>3, <1>4

(* In the name the scanner only copies it, or closes it.                    *)
LEMMA NameOnly ==
    ASSUME TemplateTyped, NEW text, NEW k, NEW b \in Nat, InClassAt(text, k, b), scan.posix
    PROVE  /\ index < Len(pattern) /\ pattern[index] \in {":", "a", "^"}
           /\ scan.first => pattern[index] = ":"
<1>1. CopiesName(text, k, b)
  BY DEF InClassAt
<1>2. PICK q, p \in Nat :
        /\ q < b /\ index - p = b - q
        /\ p \in DOMAIN pattern /\ IsPosix(pattern, p) /\ NamedClass(pattern, p) # 0
        /\ index < NamedClass(pattern, p) - 1
        /\ scan.first => index = p + 1
  BY <1>1 DEF CopiesName
<1>3. p < index
  BY <1>2 DEF TemplateTyped
<1> QED
  BY <1>2, <1>3, InName

(* What each step does to the flags, and to the place in the class.         *)
LEMMA NegateFlags ==
    ASSUME TemplateTyped, Negate, NEW text, IsText(text), NEW b \in 1..Len(text),
           text[b] = pattern[index], FlagsRight(text, b)
    PROVE  FlagsRight(text, b + 1)'
<1>1. /\ ~scan.quoted /\ scan.class /\ scan.first /\ scan.negatable /\ pattern[index] = "^"
      /\ Take(1, [scan EXCEPT !.negatable = FALSE])
  BY DEF Negate, InText, Negates, Sees
<1>2. /\ ~scan'.quoted /\ scan'.class /\ scan'.first /\ ~scan'.negatable
      /\ scan'.posix = scan.posix
  BY <1>1 DEF Take, TemplateTyped, Flags
<1>3. PICK k : InClassAt(text, k, b)
  BY <1>1 DEF FlagsRight
<1>4. ~scan.posix
  <2>1. b \in Nat
    BY TextBasics
  <2> QED
    BY <1>1, <1>3, <2>1, NameOnly
<1>5. ClassToken(text, k) /\ b = k + 1
  BY <1>1, <1>3, <1>4 DEF InClassAt
<1>6. /\ k \in 1..Len(text) /\ Len(text) \in Nat /\ FirstItem(text, k) \in k + 1..Len(text)
      /\ ClassEnd(text, k) \in FirstItem(text, k) + 2..Len(text) + 1
  BY <1>5, ClassTokenEnd, TextBasics
<1>7. FirstItem(text, k) = k + 2
  BY <1>1, <1>5, TextBasics DEF FirstItem
<1>8. b + 1 = k + 2 /\ k < b + 1 /\ b + 1 < ClassEnd(text, k)
  BY <1>5, <1>6, <1>7
<1>9. InClassAt(text, k, b + 1)'
  BY <1>2, <1>4, <1>5, <1>7, <1>8 DEF InClassAt
<1> QED
  BY <1>2, <1>9 DEF FlagsRight

LEMMA OpenPosixFlags ==
    ASSUME TemplateTyped, PosixComplete, OpenPosix,
           NEW text, IsText(text), NEW b \in 1..Len(text), text[b] = pattern[index],
           FlagsRight(text, b)
    PROVE  FlagsRight(text, b + 1)'
<1>1. /\ ~scan.quoted /\ scan.class /\ ~scan.posix /\ pattern[index] = "["
      /\ index \in Nat /\ index < Len(pattern) /\ pattern[index + 1] = ":"
      /\ Take(1, [scan EXCEPT !.posix = TRUE])
  BY DEF OpenPosix, InText, OpensPosix, Sees, FollowedBy, TemplateTyped
<1>2. /\ ~scan'.quoted /\ scan'.class /\ scan'.posix /\ index' = index + 1
      /\ UNCHANGED pattern
  BY <1>1 DEF Take, TemplateTyped, Flags
<1>3. PICK k : InClassAt(text, k, b)
  BY <1>1 DEF FlagsRight
<1>4. ClassToken(text, k) /\ Reads(text, k, b)
  BY <1>1, <1>3, AtItem
<1>5. PICK p \in Nat : p = index
  BY <1>1
<1>6. p \in DOMAIN pattern /\ IsPosix(pattern, p) /\ NamedClass(pattern, p) # 0
  <2>1. p \in DOMAIN pattern /\ p + 1 \in DOMAIN pattern
    BY <1>1, <1>5, TemplateBasics DEF TemplateTyped
  <2> QED
    BY <1>1, <1>5, <2>1 DEF PosixComplete, At
<1>7. p + 1 < NamedClass(pattern, p) - 1
  <2>1. IsText(pattern) /\ p \in 1..Len(pattern)
    BY <1>6, TemplateBasics DEF IsText
  <2>2. NamedClass(pattern, p) = p + 5 \/ NamedClass(pattern, p) = p + 6
    BY <1>6, <2>1, NamedShape
  <2> QED
    BY <2>2
<1>8. CopiesName(text, k, b + 1)'
  <2>1. b \in Nat /\ b < b + 1 /\ (p + 1) - p = (b + 1) - b
    BY TextBasics
  <2>2. \A d \in 0..(p + 1) - p - 1 : text[b + d] = pattern[p + d]
    <3>1. \A d \in 0..(p + 1) - p - 1 : d = 0
      OBVIOUS
    <3>2. b + 0 = b /\ p + 0 = p
      BY <2>1
    <3> QED
      BY <1>5, <3>1, <3>2
  <2>3. index' = p + 1
    BY <1>2, <1>5
  <2>4. pattern' = pattern
    BY <1>2
  <2> QED
    BY <1>4, <1>6, <1>7, <2>1, <2>2, <2>3, <2>4 DEF CopiesName
<1>9. k < b + 1
  <2>1. k \in 1..Len(text) /\ b \in k + 1..Len(text) /\ Len(text) \in Nat
    BY <1>4, ClassTokenEnd, TextBasics DEF Reads
  <2> QED
    BY <2>1
<1>10. InClassAt(text, k, b + 1)'
  BY <1>2, <1>4, <1>8, <1>9 DEF InClassAt
<1> QED
  BY <1>2, <1>10 DEF FlagsRight

LEMMA ClosePosixFlags ==
    ASSUME TemplateTyped, ClosePosix, NEW text, IsText(text), NEW b \in 1..Len(text),
           text[b] = pattern[index], b + 1 \in 1..Len(text), text[b + 1] = pattern[index + 1],
           FlagsRight(text, b)
    PROVE  FlagsRight(text, b + 2)'
<1>1. /\ ~scan.quoted /\ scan.posix /\ scan.class
      /\ pattern[index] = ":" /\ pattern[index + 1] = "]" /\ index \in Nat
      /\ Take(2, [scan EXCEPT !.posix = FALSE, !.first = FALSE])
  BY DEF ClosePosix, InText, ClosesPosix, Sees, FollowedBy, TemplateTyped
<1>2. ~scan'.quoted /\ scan'.class /\ ~scan'.posix /\ ~scan'.first
  BY <1>1 DEF Take, TemplateTyped, Flags
<1>3. PICK k : InClassAt(text, k, b)
  BY <1>1 DEF FlagsRight
<1>4. ClassToken(text, k) /\ CopiesName(text, k, b) /\ k < b
  BY <1>1, <1>3 DEF InClassAt
<1>5. PICK q, p \in Nat :
        /\ Reads(text, k, q) /\ q < b /\ index - p = b - q
        /\ p \in DOMAIN pattern /\ IsPosix(pattern, p) /\ NamedClass(pattern, p) # 0
        /\ index < NamedClass(pattern, p) - 1
        /\ scan.first => index = p + 1
        /\ \A d \in 0..index - p - 1 : text[q + d] = pattern[p + d]
  BY <1>4 DEF CopiesName
<1>6. /\ IsText(pattern) /\ p \in 1..Len(pattern) /\ Len(pattern) \in Nat
      /\ Len(text) \in Nat /\ b \in Nat /\ q \in 1..Len(text) /\ k \in 1..Len(text)
      /\ p < index
  <2>1. k \in 1..Len(text) /\ q \in k + 1..Len(text) /\ Len(text) \in Nat
    BY <1>4, <1>5, ClassTokenEnd, TextBasics DEF Reads
  <2> QED
    BY <1>1, <1>5, <2>1, TemplateBasics DEF IsText
<1>7. /\ At(pattern, p, "[") /\ At(pattern, p + 1, ":")
      /\ \/ /\ At(pattern, p + 2, "a") /\ At(pattern, p + 3, ":") /\ At(pattern, p + 4, "]")
            /\ NamedClass(pattern, p) = p + 5
         \/ /\ At(pattern, p + 2, "^") /\ At(pattern, p + 3, "a")
            /\ At(pattern, p + 4, ":") /\ At(pattern, p + 5, "]")
            /\ NamedClass(pattern, p) = p + 6
  BY <1>5, <1>6, NamedShape
<1>8. index = NamedClass(pattern, p) - 2
  <2>1. ~(index < NamedClass(pattern, p) - 2)
    BY <1>1, <1>5, <1>6, InName
  <2>2. NamedClass(pattern, p) \in Int
    BY <1>6, <1>7
  <2>3. index \in Nat /\ index < NamedClass(pattern, p) - 1
    BY <1>1, <1>5
  <2> QED
    BY <2>1, <2>2, <2>3
<1>9. /\ NamedClass(pattern, p) = p + 5 => q + 3 = b /\ q + 4 = b + 1 /\ index = p + 3
      /\ NamedClass(pattern, p) = p + 6 => q + 4 = b /\ q + 5 = b + 1 /\ index = p + 4
  <2>1. index - p = b - q /\ index \in Nat /\ p \in Nat /\ q \in Nat /\ b \in Nat
    BY <1>1, <1>5, <1>6
  <2>2. ASSUME NamedClass(pattern, p) = p + 5 PROVE q + 3 = b /\ q + 4 = b + 1 /\ index = p + 3
    <3>1. index = p + 3
      BY <1>8, <2>1, <2>2
    <3> QED
      BY <2>1, <3>1
  <2>3. ASSUME NamedClass(pattern, p) = p + 6 PROVE q + 4 = b /\ q + 5 = b + 1 /\ index = p + 4
    <3>1. index = p + 4
      BY <1>8, <2>1, <2>3
    <3> QED
      BY <2>1, <3>1
  <2> QED
    BY <2>2, <2>3
<1>10. /\ IsPosix(text, q)
       /\ NamedClass(text, q) = b + 2
  <2>1. \A i, c : At(pattern, i, c) => pattern[i] = c
    BY DEF At
  <2>2. \A i \in 1..Len(text) : At(text, i, text[i])
    BY <1>6, TextBasics
  <2>3. CASE /\ At(pattern, p + 2, "a") /\ NamedClass(pattern, p) = p + 5
    <3>1. q + 3 = b /\ q + 4 = b + 1 /\ index - p - 1 = 2
      BY <1>6, <1>9, <2>3
    <3>2. text[q + 0] = "[" /\ text[q + 1] = ":" /\ text[q + 2] = "a"
      <4>1. 0 \in 0..index - p - 1 /\ 1 \in 0..index - p - 1 /\ 2 \in 0..index - p - 1
        BY <3>1
      <4>2. p + 0 = p
        BY <1>6
      <4> QED
        BY <1>5, <1>7, <2>1, <2>3, <4>1, <4>2
    <3>3. q + 0 = q /\ q + 1 \in 1..Len(text) /\ q + 2 \in 1..Len(text)
      BY <1>6, <3>1
    <3>4. /\ At(text, q, "[") /\ At(text, q + 1, ":") /\ At(text, q + 2, "a")
          /\ At(text, q + 3, ":") /\ At(text, q + 4, "]")
      BY <1>1, <1>6, <2>2, <3>1, <3>2, <3>3
    <3>5. IsPosix(text, q) /\ NamedClass(text, q) = q + 5
      BY <1>6, <3>4, ShapeNamed
    <3>6. q + 5 = b + 2
      BY <1>6, <3>1
    <3> QED
      BY <3>5, <3>6
  <2>4. CASE /\ At(pattern, p + 2, "^") /\ At(pattern, p + 3, "a")
             /\ NamedClass(pattern, p) = p + 6
    <3>1. q + 4 = b /\ q + 5 = b + 1 /\ index - p - 1 = 3
      BY <1>6, <1>9, <2>4
    <3>2. text[q + 0] = "[" /\ text[q + 1] = ":" /\ text[q + 2] = "^" /\ text[q + 3] = "a"
      <4>1. /\ 0 \in 0..index - p - 1 /\ 1 \in 0..index - p - 1 /\ 2 \in 0..index - p - 1
            /\ 3 \in 0..index - p - 1
        BY <3>1
      <4>2. p + 0 = p
        BY <1>6
      <4> QED
        BY <1>5, <1>7, <2>1, <2>4, <4>1, <4>2
    <3>3. /\ q + 0 = q /\ q + 1 \in 1..Len(text) /\ q + 2 \in 1..Len(text)
          /\ q + 3 \in 1..Len(text)
      BY <1>6, <3>1
    <3>4. /\ At(text, q, "[") /\ At(text, q + 1, ":") /\ At(text, q + 2, "^")
          /\ At(text, q + 3, "a") /\ At(text, q + 4, ":") /\ At(text, q + 5, "]")
      BY <1>1, <1>6, <2>2, <3>1, <3>2, <3>3
    <3>5. ~At(text, q + 2, "a")
      BY <3>4 DEF At
    <3>6. IsPosix(text, q) /\ NamedClass(text, q) = q + 6
      BY <1>6, <3>4, <3>5, ShapeNamed
    <3>7. q + 6 = b + 2
      BY <1>6, <3>1
    <3> QED
      BY <3>6, <3>7
  <2> QED
    BY <1>7, <2>3, <2>4
<1>11. ClassFrom(text, b + 2) = ClassEnd(text, k) /\ b + 2 < ClassEnd(text, k)
  BY <1>4, <1>5, <1>10, NamedItem
<1>12. k < b + 2
  BY <1>4, <1>6
<1>13. InClassAt(text, k, b + 2)'
  BY <1>2, <1>4, <1>11, <1>12 DEF InClassAt
<1> QED
  BY <1>2, <1>13 DEF FlagsRight

(* Copying goes on with the name.                                           *)
LEMMA CopyNameFlags ==
    ASSUME TemplateTyped, Copy, scan.posix, NEW text, IsText(text), NEW b \in 1..Len(text),
           text[b] = pattern[index], FlagsRight(text, b)
    PROVE  FlagsRight(text, b + 1)'
<1>1. /\ ~scan.quoted /\ scan.posix /\ scan.class /\ index \in Nat /\ ~ClosesPosix
      /\ index <= Len(pattern)
      /\ Take(1, [scan EXCEPT !.first = @ /\ ~scan.class])
  BY DEF Copy, Ordinary, InText, Reading, TemplateTyped
<1>2. /\ ~scan'.quoted /\ scan'.class /\ scan'.posix /\ ~scan'.first
      /\ index' = index + 1 /\ pattern' = pattern
  BY <1>1 DEF Take, TemplateTyped, Flags
<1>3. PICK k : InClassAt(text, k, b)
  BY <1>1 DEF FlagsRight
<1>4. ClassToken(text, k) /\ CopiesName(text, k, b) /\ k < b
  BY <1>1, <1>3 DEF InClassAt
<1>5. PICK q, p \in Nat :
        /\ Reads(text, k, q) /\ q < b /\ index - p = b - q
        /\ p \in DOMAIN pattern /\ IsPosix(pattern, p) /\ NamedClass(pattern, p) # 0
        /\ index < NamedClass(pattern, p) - 1
        /\ scan.first => index = p + 1
        /\ \A d \in 0..index - p - 1 : text[q + d] = pattern[p + d]
  BY <1>4 DEF CopiesName
<1>6. PICK j \in Nat : j = index
  BY <1>1
<1>7. /\ b \in Nat /\ k \in Nat /\ p < j /\ j - p = b - q
      /\ NamedClass(pattern, p) \in Int
  <2>1. b \in Nat /\ k \in Nat /\ p < j
    BY <1>4, <1>5, <1>6, ClassTokenEnd, TextBasics
  <2>2. IsText(pattern) /\ p \in 1..Len(pattern)
    BY <1>5, TemplateBasics DEF IsText
  <2>3. NamedClass(pattern, p) = p + 5 \/ NamedClass(pattern, p) = p + 6
    BY <1>5, <2>2, NamedShape
  <2> QED
    BY <1>5, <1>6, <2>1, <2>3
<1>8. j + 1 < NamedClass(pattern, p) - 1
  <2>1. ~(pattern[index] = ":" /\ pattern[index + 1] = "]")
    <3>1. index < Len(pattern)
      BY <1>5, <1>6, <1>7, InName
    <3> QED
      BY <1>1, <3>1 DEF ClosesPosix, Sees, FollowedBy
  <2>2. index # NamedClass(pattern, p) - 2
    BY <1>5, <1>6, <1>7, <2>1, InName
  <2> QED
    BY <1>5, <1>6, <1>7, <2>2
<1>9. CopiesName(text, k, b + 1)'
  <2>1. q < b + 1 /\ (j + 1) - p = (b + 1) - q
    BY <1>5, <1>7
  <2>2. ASSUME NEW d \in 0..(j + 1) - p - 1 PROVE text[q + d] = pattern[p + d]
    <3>1. CASE d \in 0..j - p - 1
      BY <1>5, <1>6, <3>1
    <3>2. CASE d \notin 0..j - p - 1
      <4>1. d = j - p
        BY <1>7, <3>2
      <4>2. q + d = b /\ p + d = j
        BY <1>7, <4>1
      <4> QED
        BY <1>6, <4>2
    <3> QED
      BY <3>1, <3>2
  <2>3. index' = j + 1
    BY <1>2, <1>6
  <2> QED
    BY <1>2, <1>5, <1>8, <2>1, <2>2, <2>3 DEF CopiesName
<1>10. k < b + 1
  BY <1>4, <1>7
<1>11. InClassAt(text, k, b + 1)'
  BY <1>2, <1>4, <1>9, <1>10 DEF InClassAt
<1> QED
  BY <1>2, <1>11 DEF FlagsRight

LEMMA OpenClassFlags ==
    ASSUME TemplateTyped, OpenClass, NEW text, IsText(text), NEW b \in 1..Len(text),
           text[b] = pattern[index], FlagsRight(text, b), NEW B \in Tokens(text), B > b
    PROVE  FlagsRight(text, b + 1)'
<1>1. /\ ~scan.quoted /\ ~scan.class /\ ~scan.posix /\ pattern[index] = "["
      /\ Take(1, [scan EXCEPT !.class = TRUE, !.first = TRUE, !.negatable = TRUE])
  BY DEF OpenClass, InText, OpensClass, Sees, TemplateTyped
<1>2. ~scan'.quoted /\ scan'.class /\ ~scan'.posix /\ scan'.first /\ scan'.negatable
  BY <1>1 DEF Take, TemplateTyped, Flags
<1>3. b \in Tokens(text)
  BY <1>1 DEF FlagsRight
<1>4. TokenEnd(text, b) = ClassEnd(text, b)
  BY <1>1 DEF TokenEnd
<1>5. ClassEnd(text, b) \in b + 1..B /\ Len(text) \in Nat /\ b \in Nat
  <2>1. Len(text) \in Nat /\ b \in Nat /\ B \in Nat /\ b < B
    BY TextBasics, TokensDef
  <2>2. TokenEnd(text, b) \in b + 1..B
    BY <1>3, <2>1, TokensLive
  <2> QED
    BY <1>4, <2>1, <2>2
<1>6. ClassToken(text, b)
  BY <1>1, <1>3, <1>5, TextBasics DEF ClassToken
<1>7. b < b + 1 /\ b + 1 < ClassEnd(text, b)
  BY <1>5, <1>6, ClassTokenEnd
<1>8. InClassAt(text, b, b + 1)'
  BY <1>2, <1>6, <1>7 DEF InClassAt
<1> QED
  BY <1>2, <1>8 DEF FlagsRight

LEMMA CloseClassFlags ==
    ASSUME TemplateTyped, CloseClass, NEW text, IsText(text), NEW b \in 1..Len(text),
           text[b] = pattern[index], FlagsRight(text, b)
    PROVE  FlagsRight(text, b + 1)'
<1>1. /\ ~scan.quoted /\ scan.class /\ ~scan.posix /\ ~scan.first /\ pattern[index] = "]"
      /\ Take(1, [scan EXCEPT !.class = FALSE, !.first = FALSE, !.negatable = FALSE])
  BY DEF CloseClass, InText, ClosesClass, Sees
<1>2. ~scan'.quoted /\ ~scan'.class
  BY <1>1 DEF Take, TemplateTyped, Flags
<1>3. PICK k : InClassAt(text, k, b)
  BY <1>1 DEF FlagsRight
<1>4. ClassToken(text, k) /\ ClassFrom(text, b) = ClassEnd(text, k)
  BY <1>1, <1>3 DEF InClassAt
<1>5. b \in 1..Len(text) + 1 /\ At(text, b, "]")
  BY <1>1, TextBasics
<1>6. ClassFrom(text, b) = b + 1
  BY <1>5, ClassFromDef
<1>7. b + 1 \in Tokens(text)
  BY <1>4, <1>6, ClassTokenEnd
<1> QED
  BY <1>2, <1>7 DEF FlagsRight

(* Outside classes a character is a token, inside it is an item, or "[" and *)
(* "]" are what the scanner takes them for.                                 *)
LEMMA CopyFlags ==
    ASSUME TemplateTyped, Copy, ~scan.posix, NEW text, IsText(text), NEW b \in 1..Len(text),
           text[b] = pattern[index], FlagsRight(text, b),
           Len(text) > b => index + 1 <= Len(pattern) /\ Shows(text, b + 1, index + 1)
    PROVE  FlagsRight(text, b + 1)'
<1> DEFINE c == pattern[index]
<1>1. /\ ~scan.quoted /\ index \in Nat /\ index <= Len(pattern) /\ c # "\\"
      /\ ~Negates /\ ~OpensPosix /\ ~OpensClass /\ ~ClosesClass
      /\ Take(1, [scan EXCEPT !.first = @ /\ ~scan.class])
  BY DEF Copy, Ordinary, InText, Reading, Sees, TemplateTyped
<1>2. /\ ~scan'.quoted /\ scan'.class = scan.class /\ ~scan'.posix
      /\ scan.class => ~scan'.first
  BY <1>1 DEF Take, TemplateTyped, Flags
<1>3. Len(text) \in Nat
  BY TextBasics
<1>4. CASE ~scan.class
  <2>1. b \in Tokens(text)
    BY <1>1, <1>4 DEF FlagsRight
  <2>2. c # "["
    BY <1>1, <1>4 DEF OpensClass, Sees
  <2>3. TokenEnd(text, b) = b + 1
    BY <1>1, <2>2 DEF TokenEnd
  <2>4. b + 1 \in Tokens(text)
    BY <1>3, <2>1, <2>3, NextToken
  <2> QED
    BY <1>2, <1>4, <2>4 DEF FlagsRight
<1>5. CASE scan.class
  <2>1. PICK k : InClassAt(text, k, b)
    BY <1>1, <1>5 DEF FlagsRight
  <2>2. ~(scan.first /\ scan.negatable /\ c = "^")
    BY <1>1, <1>5 DEF Negates, Sees
  <2>3. /\ ClassToken(text, k) /\ Reads(text, k, b) /\ b < ClassEnd(text, k)
        /\ scan.first => b = FirstItem(text, k)
    BY <2>1, <2>2, AtItem
  <2>4. c = "]" => scan.first
    BY <1>1, <1>5 DEF ClosesClass, Sees
  <2>5. ~IsPosix(text, b)
    <3> SUFFICES ASSUME c = "[", At(text, b + 1, ":") PROVE FALSE
      BY DEF IsPosix, At
    <3>1. b + 1 \in 1..Len(text) /\ text[b + 1] = ":"
      BY TextBasics
    <3>2. index + 1 <= Len(pattern) /\ Shows(text, b + 1, index + 1)
      BY <1>3, <3>1
    <3>3. pattern[index + 1] = ":"
      BY <3>1, <3>2, TemplateBasics DEF Shows
    <3>4. OpensPosix
      BY <1>1, <1>5, <3>2, <3>3, TemplateBasics DEF OpensPosix, Sees, FollowedBy
    <3> QED
      BY <1>1, <3>4
  <2>6. ClassItem(text, b) = b + 1
    BY <1>1, <1>3, <2>5 DEF ClassItem
  <2>7. /\ b + 1 < ClassEnd(text, k) /\ ClassFrom(text, b + 1) = ClassEnd(text, k)
        /\ b + 1 \in b + 1..Len(text)
    BY <2>3, <2>4, <2>6, ReadItem
  <2>8. k < b + 1
    <3>1. k < b /\ k \in 1..Len(text)
      BY <2>1, <2>3, ClassTokenEnd DEF InClassAt
    <3> QED
      BY <1>3, <3>1
  <2>9. InClassAt(text, k, b + 1)'
    BY <1>2, <1>5, <2>3, <2>7, <2>8 DEF InClassAt
  <2> QED
    BY <1>2, <1>5, <2>9 DEF FlagsRight
<1> QED
  BY <1>4, <1>5

LEMMA EscapeFlags ==
    ASSUME TemplateTyped, Escapes, index < Len(pattern), Take(2, AfterEscape),
           NEW text, IsText(text), NEW b \in 1..Len(text),
           text[b] = "\\", b + 1 \in 1..Len(text), text[b + 1] = pattern[index + 1],
           FlagsRight(text, b), Placed(text, b), NEW B \in Tokens(text), B > b
    PROVE  FlagsRight(text, b + 2)'
<1>1. /\ ~scan.quoted /\ pattern[index] = "\\"
      /\ (scan'.quoted <=> pattern[index + 1] = "Q")
      /\ scan'.class = scan.class /\ scan'.posix = scan.posix
      /\ scan.class => ~scan'.first
  <2>1. (AfterEscape.quoted <=> FollowedBy({"Q"})) /\ AfterEscape.class = scan.class
        /\ AfterEscape.posix = scan.posix /\ (scan.class => ~AfterEscape.first)
    BY DEF AfterEscape, TemplateTyped, Flags
  <2>2. scan' = AfterEscape
    BY DEF Take
  <2> QED
    BY <2>1, <2>2 DEF Escapes, InText, Sees, FollowedBy
<1>2. Len(text) \in Nat /\ b \in Nat /\ B \in Nat /\ b < B
  BY TextBasics, TokensDef
<1>3. At(text, b + 1, "Q") <=> scan'.quoted
  BY <1>1, TextBasics
<1>4. /\ scan'.quoted => b \in Tokens(text)
      /\ ~scan'.quoted => EscapeEnd(text, b) = b + 2
  BY <1>3, PlacedEscape
<1>5. CASE ~scan.class
  <2>1. b \in Tokens(text)
    BY <1>1, <1>5 DEF FlagsRight
  <2>2. ASSUME ~scan'.quoted PROVE b + 2 \in Tokens(text)
    <3>1. TokenEnd(text, b) = b + 2
      BY <1>3, <1>4, <2>2 DEF TokenEnd
    <3> QED
      BY <1>2, <2>1, <3>1, NextToken
  <2> QED
    BY <1>1, <1>5, <2>2 DEF FlagsRight
<1>6. CASE scan.class
  <2>1. PICK k : InClassAt(text, k, b)
    BY <1>1, <1>6 DEF FlagsRight
  <2>2. ~scan.posix
    BY <1>1, <1>2, <2>1, NameOnly
  <2>3. ClassToken(text, k) /\ Reads(text, k, b) /\ b < ClassEnd(text, k) /\ k < b
    <3>1. ClassToken(text, k) /\ Reads(text, k, b) /\ b < ClassEnd(text, k)
      BY <2>1, <2>2, AtItem
    <3> QED
      BY <2>1, <3>1 DEF InClassAt
  <2>4. ~scan'.quoted
    <3> SUFFICES ASSUME b \in Tokens(text) PROVE FALSE
      BY <1>4
    <3>1. k \in Tokens(text) /\ TokenEnd(text, k) = ClassEnd(text, k) /\ k \in 1..Len(text)
      BY <2>3, ClassTokenEnd DEF ClassToken
    <3>2. ClassEnd(text, k) \in k + 1..b
      BY <2>3, <3>1, TokensLive
    <3> QED
      BY <1>2, <2>3, <3>1, <3>2
  <2>5. ClassItem(text, b) = b + 2
    BY <1>2, <1>4, <2>4 DEF ClassItem
  <2>6. b + 2 < ClassEnd(text, k) /\ ClassFrom(text, b + 2) = ClassEnd(text, k)
    BY <2>3, <2>5, ReadItem
  <2>7. k < b + 2
    BY <1>2, <2>3, ClassTokenEnd
  <2>8. InClassAt(text, k, b + 2)'
    BY <1>1, <1>6, <2>2, <2>3, <2>6, <2>7 DEF InClassAt
  <2> QED
    BY <1>1, <1>6, <2>4, <2>8 DEF FlagsRight
<1> QED
  BY <1>5, <1>6

-----------------------------------------------------------------------------
(* Every step keeps the flags right.                                   *)

(* The flags are right behind c, when they were right before it.            *)
KeepsFlags(c) ==
    \A text : IsText(text) => \A b \in 1..Len(text) :
        /\ text[b] = c /\ FlagsRight(text, b)
        /\ Len(text) > b => index' <= Len(pattern) /\ Shows(text, b + 1, index')
        /\ \E B \in Tokens(text) : B > b
        => FlagsRight(text, b + 1)'

LEMMA OneAligned ==
    ASSUME TemplateTyped, AllAligned, index <= Len(pattern), NEW c, WritesOne(c),
           c = pattern[index] \/ (pattern[index] = "$" /\ c = Atom),
           c = Atom => ~scan.quoted /\ ~scan.class,
           PosixComplete => KeepsFlags(c)
    PROVE  AllAligned'
<1> SUFFICES ASSUME PosixComplete', NEW text, Continues(text)' PROVE Aligned(text)'
  BY DEF AllAligned
<1>1. PosixComplete
  BY DEF PosixComplete, WritesOne
<1>2. PICK b : b = Len(result) + 1
  OBVIOUS
<1>3. /\ Continues(text) /\ IsText(text) /\ Len(result') = b
      /\ b \in 1..Len(text) /\ text[b] = c
      /\ Len(text) > b => index' <= Len(pattern) /\ Shows(text, Len(result) + 2, index')
      /\ \A i \in 1..b : result'[i] = text[i]
  BY <1>2, WentOn
<1>4. Aligned(text)
  BY <1>1, <1>3 DEF AllAligned
<1>5. /\ Len(result) \in Nat /\ Len(result) + 2 = b + 1
      /\ Len(text) \in Nat /\ Tokens(text) \subseteq 1..Len(text) + 1
  BY <1>2, <1>3, TemplateBasics, TextBasics, TokensDef
<1>6. ASSUME NEW B \in Tokens(text), B > b
      PROVE  /\ \A i \in 1..b : result'[i] = Atom => i \in Tokens(text)
             /\ FlagsRight(text, b + 1)'
  <2>1. B > Len(result)
    BY <1>2, <1>5, <1>6
  <2>2. /\ \A i \in 1..Len(result) : result[i] = Atom => i \in Tokens(text)
        /\ FlagsRight(text, b)
    BY <1>2, <1>4, <2>1 DEF Aligned
  <2>3. FlagsRight(text, b + 1)'
    BY <1>1, <1>3, <1>5, <1>6, <2>2 DEF KeepsFlags
  <2>4. ASSUME NEW i \in 1..b, result'[i] = Atom PROVE i \in Tokens(text)
    <3>1. CASE i = b
      <4>1. ~scan.quoted /\ ~scan.class
        BY <1>3, <2>4, <3>1
      <4> QED
        BY <2>2, <3>1, <4>1 DEF FlagsRight
    <3>2. CASE i # b
      <4>1. i \in 1..Len(result)
        BY <1>2, <1>5, <3>2
      <4>2. text[i] = Atom /\ text[i] = result[i]
        BY <1>3, <2>4, <4>1 DEF Continues
      <4> QED
        BY <2>2, <4>1, <4>2
    <3> QED
      BY <3>1, <3>2
  <2> QED
    BY <2>3, <2>4
<1> QED
  BY <1>3, <1>6 DEF Aligned

(* Two characters, none of which is an atom.                                *)
LEMMA TwoAligned ==
    ASSUME TemplateTyped, AllAligned, index < Len(pattern), NEW after, Take(2, after),
           PosixComplete => \A text : IsText(text) => \A b \in 1..Len(text) :
               /\ text[b] = pattern[index] /\ b + 1 \in 1..Len(text)
               /\ text[b + 1] = pattern[index + 1] /\ FlagsRight(text, b)
               /\ b = Len(result) + 1 /\ Continues(text)
               /\ \E B \in Tokens(text) : B > b + 1
               => FlagsRight(text, b + 2)'
    PROVE  AllAligned'
<1> SUFFICES ASSUME PosixComplete', NEW text, Continues(text)' PROVE Aligned(text)'
  BY DEF AllAligned
<1>1. PosixComplete
  BY DEF PosixComplete, Take
<1>2. PICK b : b = Len(result) + 1
  OBVIOUS
<1>3. /\ Continues(text) /\ IsText(text) /\ Len(result') = Len(result) + 2
      /\ b \in 1..Len(text) /\ text[b] = pattern[index]
      /\ Len(result) + 2 \in 1..Len(text) /\ text[Len(result) + 2] = pattern[index + 1]
      /\ \A i \in 1..Len(result) + 2 : result'[i] = text[i]
  BY <1>2, WentOnTwo
<1>4. Aligned(text)
  BY <1>1, <1>3 DEF AllAligned
<1>5. /\ Len(result) \in Nat /\ Len(result) + 2 = b + 1 /\ b + 1 + 1 = b + 2
      /\ Len(text) \in Nat /\ Tokens(text) \subseteq 1..Len(text) + 1
  BY <1>2, <1>3, TemplateBasics, TextBasics, TokensDef
<1>6. ASSUME NEW B \in Tokens(text), B > b + 1
      PROVE  /\ \A i \in 1..b + 1 : result'[i] = Atom => i \in Tokens(text)
             /\ FlagsRight(text, b + 2)'
  <2>1. B > Len(result)
    BY <1>2, <1>5, <1>6
  <2>2. /\ \A i \in 1..Len(result) : result[i] = Atom => i \in Tokens(text)
        /\ FlagsRight(text, b)
    BY <1>2, <1>4, <2>1 DEF Aligned
  <2>3. FlagsRight(text, b + 2)'
    BY <1>1, <1>2, <1>3, <1>5, <1>6, <2>2
  <2>4. ASSUME NEW i \in 1..b + 1, result'[i] = Atom PROVE i \in Tokens(text)
    <3>1. i \in 1..Len(result) \/ i = b \/ i = b + 1
      BY <1>2, <1>5
    <3>2. text[i] = Atom
      BY <1>3, <1>5, <2>4
    <3>3. i # b /\ i # b + 1
      <4>1. pattern[index] # Atom /\ pattern[index + 1] # Atom
        BY TakesTwo, TemplateBasics
      <4> QED
        BY <1>3, <1>5, <3>2, <4>1
    <3>4. i \in 1..Len(result) /\ text[i] = result[i]
      BY <1>3, <3>1, <3>3 DEF Continues
    <3> QED
      BY <2>2, <3>2, <3>4
  <2> QED
    BY <2>3, <2>4
<1> QED
  <2>1. Len(result') = b + 1 /\ Len(result') + 1 = b + 2
    BY <1>3, <1>5
  <2> QED
    BY <1>6, <2>1 DEF Aligned

LEMMA EscapeAligned ==
    ASSUME TemplateTyped, AllFollowed, AllAligned, Escape
    PROVE  AllAligned'
<1>1. /\ Escapes /\ ~scan.quoted /\ pattern[index] = "\\" /\ index <= Len(pattern)
      /\ \/ index < Len(pattern) /\ Take(2, AfterEscape)
         \/ index = Len(pattern) /\ Take(1, AfterEscape)
  BY EscapeTakes DEF Escapes, InText, Reading, Sees
<1>2. CASE index = Len(pattern)
  <2>1. WritesOne(pattern[index]) /\ index' = index + 1
    BY <1>1, <1>2, TakesOne, TemplateBasics
  <2> SUFFICES ASSUME NEW text, Continues(text)' PROVE Aligned(text)'
    BY DEF AllAligned
  <2>2. PICK b : b = Len(result) + 1
    OBVIOUS
  <2>3. /\ Continues(text) /\ IsText(text) /\ Len(result') = b
        /\ b \in 1..Len(text) /\ text[b] = "\\"
        /\ Len(text) > b => index' <= Len(pattern)
    BY <1>1, <2>1, <2>2, WentOn
  <2>4. Followed(text)
    BY <2>3 DEF AllFollowed
  <2>5. Len(text) \in Nat /\ Len(result) \in Nat /\ Tokens(text) \subseteq 1..Len(text) + 1
    BY <2>3, TextBasics, TokensDef, TemplateBasics
  <2>6. Len(text) = b
    BY <1>2, <2>1, <2>3, <2>5, TemplateBasics
  <2>7. ASSUME NEW B \in Tokens(text), B > b PROVE FALSE
    <3>1. B > Len(result)
      BY <2>2, <2>5, <2>7
    <3>2. Placed(text, b)
      BY <1>1, <2>2, <2>4, <3>1 DEF Followed
    <3>3. b < Len(text)
      BY <2>3, <2>7, <3>2, PlacedEscape
    <3> QED
      BY <2>5, <2>6, <3>3
  <2> QED
    BY <2>3, <2>7 DEF Aligned
<1>3. CASE index < Len(pattern)
  <2>1. Take(2, AfterEscape)
    BY <1>1, <1>3, TemplateBasics DEF TemplateTyped
  <2>2. ASSUME NEW text, IsText(text), NEW b \in 1..Len(text), text[b] = pattern[index],
               b + 1 \in 1..Len(text), text[b + 1] = pattern[index + 1], FlagsRight(text, b),
               b = Len(result) + 1, Continues(text), NEW B \in Tokens(text), B > b + 1
        PROVE  FlagsRight(text, b + 2)'
    <3>1. Followed(text)
      BY <2>2 DEF AllFollowed
    <3>2. B > b /\ B > Len(result)
      <4>1. Len(result) \in Nat /\ Tokens(text) \subseteq 1..Len(text) + 1 /\ Len(text) \in Nat
        BY <2>2, TextBasics, TokensDef, TemplateBasics
      <4> QED
        BY <2>2, <4>1
    <3>3. Placed(text, b)
      BY <1>1, <2>2, <3>1, <3>2 DEF Followed
    <3> QED
      BY <1>1, <1>3, <2>1, <2>2, <3>2, <3>3, EscapeFlags
  <2> QED
    BY <1>3, <2>1, <2>2, TwoAligned
<1> QED
  BY <1>1, <1>2, <1>3

LEMMA ClosePosixAligned ==
    ASSUME TemplateTyped, AllAligned, ClosePosix
    PROVE  AllAligned'
<1> DEFINE after == [scan EXCEPT !.posix = FALSE, !.first = FALSE]
<1>1. Take(2, after) /\ index < Len(pattern)
  BY DEF ClosePosix, ClosesPosix, FollowedBy
<1>2. ASSUME NEW text, IsText(text), NEW b \in 1..Len(text), text[b] = pattern[index],
             b + 1 \in 1..Len(text), text[b + 1] = pattern[index + 1], FlagsRight(text, b)
      PROVE  FlagsRight(text, b + 2)'
  BY <1>2, ClosePosixFlags
<1> HIDE DEF after
<1> QED
  BY <1>1, <1>2, TwoAligned

LEMMA UnquoteAligned ==
    ASSUME TemplateTyped, AllFollowed, AllAligned, Unquote
    PROVE  AllAligned'
<1> SUFFICES ASSUME PosixComplete', NEW text, Continues(text)' PROVE Aligned(text)'
  BY DEF AllAligned
<1>1. PosixComplete
  BY DEF PosixComplete, Unquote, Take
<1>2. PICK n : n = Len(result)
  OBVIOUS
<1>3. /\ Continues(text) /\ IsText(text) /\ Len(result') = n + 2
      /\ scan' = [scan EXCEPT !.quoted = FALSE]
      /\ \A i \in 1..n : result'[i] = result[i]
      /\ result'[n + 1] = "\\" /\ result'[n + 2] = "E"
      /\ \A B \in Tokens(text) : B > n => n + 3 \in Tokens(text)
  BY <1>2, UnquoteTakes
<1>4. Aligned(text)
  BY <1>1, <1>3 DEF AllAligned
<1>5. /\ Len(text) \in Nat /\ n \in Nat /\ Tokens(text) \subseteq 1..Len(text) + 1
      /\ n + 2 + 1 = n + 3
  BY <1>2, <1>3, TextBasics, TokensDef, TemplateBasics
<1>6. ASSUME NEW B \in Tokens(text), B > n + 2
      PROVE  /\ \A i \in 1..n + 2 : result'[i] = Atom => i \in Tokens(text)
             /\ FlagsRight(text, n + 3)'
  <2>1. B > n
    BY <1>5, <1>6
  <2>2. /\ \A i \in 1..n : result[i] = Atom => i \in Tokens(text)
        /\ scan.quoted => ~scan.class
    BY <1>2, <1>4, <2>1 DEF Aligned, FlagsRight
  <2>3. ~scan'.quoted /\ ~scan'.class
    <3>1. scan.quoted
      BY DEF Unquote
    <3> QED
      BY <1>3, <2>2, <3>1 DEF TemplateTyped, Flags
  <2>4. FlagsRight(text, n + 3)'
    BY <1>3, <2>1, <2>3 DEF FlagsRight
  <2>5. ASSUME NEW i \in 1..n + 2, result'[i] = Atom PROVE i \in Tokens(text)
    <3>1. i \in 1..n \/ i = n + 1 \/ i = n + 2
      BY <1>5
    <3>2. Atom # "\\" /\ Atom # "E"
      BY TemplatesAssumption DEF Letter
    <3> QED
      BY <1>3, <2>2, <2>5, <3>1, <3>2
  <2> QED
    BY <2>4, <2>5
<1>7. Len(result') = n + 2 /\ Len(result') + 1 = n + 3
  BY <1>3, <1>5
<1> QED
  BY <1>6, <1>7 DEF Aligned

LEMMA ReplaceAligned ==
    ASSUME TemplateTyped, AllAligned, Replace, result' = Append(result, Atom),
           UNCHANGED <<pattern, scan>>
    PROVE  AllAligned'
<1>1. index <= Len(pattern) /\ ~scan.quoted /\ ~scan.class /\ pattern[index] = "$"
  BY DEF Replace, AtReference, InText, Reading, Sees
<1>2. WritesOne(Atom) /\ Atom # "\\" /\ Atom # "["
  BY TemplateBasics DEF WritesOne
<1>3. ASSUME NEW text, IsText(text), NEW b \in 1..Len(text), text[b] = Atom, FlagsRight(text, b)
      PROVE  FlagsRight(text, b + 1)'
  <2>1. b \in Tokens(text) /\ b <= Len(text) /\ b \in Nat
    BY <1>1, <1>3, TextBasics DEF FlagsRight
  <2>2. TokenEnd(text, b) = b + 1
    BY <1>2, <1>3 DEF TokenEnd
  <2>3. b + 1 \in Tokens(text)
    BY <1>3, <2>1, <2>2, NextToken
  <2> QED
    BY <1>1, <2>3 DEF FlagsRight
<1> QED
  BY <1>1, <1>2, <1>3, OneAligned DEF KeepsFlags

LEMMA AlignedStep ==
    ASSUME TemplateTyped, AllFollowed, AllAligned, [TemplateNext]_templateVars
    PROVE  AllAligned'
<1>1. ASSUME index <= Len(pattern), NEW after, Take(1, after),
             PosixComplete => KeepsFlags(pattern[index])
      PROVE  AllAligned'
  <2>1. WritesOne(pattern[index])
    BY <1>1, TakesOne
  <2>2. pattern[index] # Atom
    BY <1>1, TemplateBasics DEF TemplateTyped
  <2> QED
    BY <1>1, <2>1, <2>2, OneAligned
<1>2. CASE Negate
  <2>1. KeepsFlags(pattern[index])
    BY <1>2, NegateFlags DEF KeepsFlags
  <2> QED
    BY <1>1, <1>2, <2>1 DEF Negate, InText, Reading
<1>3. CASE OpenPosix
  <2>1. PosixComplete => KeepsFlags(pattern[index])
    BY <1>3, OpenPosixFlags DEF KeepsFlags
  <2> QED
    BY <1>1, <1>3, <2>1 DEF OpenPosix, InText, Reading
<1>4. CASE OpenClass
  <2>1. KeepsFlags(pattern[index])
    BY <1>4, OpenClassFlags DEF KeepsFlags
  <2> QED
    BY <1>1, <1>4, <2>1 DEF OpenClass, InText, Reading
<1>5. CASE CloseClass
  <2>1. KeepsFlags(pattern[index])
    BY <1>5, CloseClassFlags DEF KeepsFlags
  <2> QED
    BY <1>1, <1>5, <2>1 DEF CloseClass, InText, Reading
<1>6. CASE Copy
  <2>1. KeepsFlags(pattern[index])
    <3>1. CASE scan.posix
      BY <1>6, <3>1, CopyNameFlags DEF KeepsFlags
    <3>2. CASE ~scan.posix
      <4>1. index' = index + 1
        BY <1>6 DEF Copy, Take
      <4> QED
        BY <1>6, <3>2, <4>1, CopyFlags DEF KeepsFlags
    <3> QED
      BY <3>1, <3>2
  <2> QED
    BY <1>1, <1>6, <2>1 DEF Copy, InText, Reading
<1>7. CASE CopyQuoted
  <2>1. scan.quoted /\ index <= Len(pattern) /\ Take(1, scan) /\ scan' = scan
    BY <1>7 DEF CopyQuoted, Reading, Take
  <2>2. KeepsFlags(pattern[index])
    BY <2>1 DEF KeepsFlags, FlagsRight
  <2> QED
    BY <1>1, <2>1, <2>2
<1>8. CASE UNCHANGED <<pattern, index, result, scan>>
  <2>1. \A text, k, b : InClassAt(text, k, b)' <=> InClassAt(text, k, b)
    BY <1>8 DEF InClassAt, CopiesName
  <2>2. \A text, b : FlagsRight(text, b)' <=> FlagsRight(text, b)
    BY <1>8, <2>1 DEF FlagsRight
  <2>3. \A text : Aligned(text)' <=> Aligned(text)
    BY <1>8, <2>2 DEF Aligned
  <2>4. \A text : Continues(text)' <=> Continues(text)
    BY <1>8 DEF Continues, Shows
  <2>5. PosixComplete' <=> PosixComplete
    BY <1>8 DEF PosixComplete
  <2> QED
    BY <2>3, <2>4, <2>5 DEF AllAligned
<1>9. CASE Accept
  <2>1. result' = <<>> /\ scan' = Outside
    BY <1>9 DEF Accept
  <2>2. Len(result') = 0 /\ ~scan'.quoted /\ ~scan'.class
    BY <2>1 DEF Outside
  <2> SUFFICES ASSUME NEW text, Continues(text)' PROVE Aligned(text)'
    BY DEF AllAligned
  <2>3. IsText(text)
    BY DEF Continues
  <2>4. 0 + 1 \in Tokens(text)
    BY <2>3, FreshText
  <2>5. \A i \in 1..0 : FALSE
    OBVIOUS
  <2> QED
    BY <2>2, <2>4, <2>5 DEF Aligned, FlagsRight
<1>10. CASE Replace
  <2>1. CASE result' = Append(result, Atom) /\ UNCHANGED <<pattern, scan>>
    BY <1>10, <2>1, ReplaceAligned
  <2>2. CASE Leave("unavailable")
    BY <1>8, <2>2 DEF Leave
  <2> QED
    BY <1>10, <2>1, <2>2 DEF Replace
<1>11. CASE RefuseQuoted \/ RefuseSyntax \/ RefuseInClass \/ RefuseNumber \/ RefuseTemplate
            \/ Expanded \/ Done \/ UNCHANGED templateVars
  BY <1>8, <1>11 DEF RefuseQuoted, RefuseSyntax, RefuseInClass, RefuseNumber,
     RefuseTemplate, Expanded, Done, Leave, templateVars
<1> QED
  BY <1>2, <1>3, <1>4, <1>5, <1>6, <1>7, <1>9, <1>10, <1>11, ClosePosixAligned, EscapeAligned,
     UnquoteAligned DEF TemplateNext

-----------------------------------------------------------------------------
(* What is refused is no token; what is left is no reference.          *)

LEMMA QuotedIsNoToken ==
    ASSUME NEW text, IsText(text), NEW k, NEW b \in 1..Len(text), QuotedAt(text, k, b)
    PROVE  b \notin Tokens(text)
<1> SUFFICES ASSUME b \in Tokens(text) PROVE FALSE
  OBVIOUS
<1>1. /\ Len(text) \in Nat /\ k \in 1..Len(text) /\ k \in Tokens(text) /\ text[k] = "\\"
      /\ At(text, k + 1, "Q") /\ k + 2 <= b
      /\ \A j \in k + 2..b - 1 : ~Unquotes(text, j)
  BY TextBasics, TokensDef DEF QuotedAt
<1>2. TokenEnd(text, k) = QuoteEnd(text, k)
  BY <1>1 DEF TokenEnd
<1>3. QuoteEnd(text, k) \in k + 1..b
  <2>1. k < b
    BY <1>1
  <2> QED
    BY <1>1, <1>2, <2>1, TokensLive
<1>4. PICK j \in k + 2..Len(text) : Unquotes(text, j) /\ QuoteEnd(text, k) = j + 2
  <2>1. QuoteEnd(text, k) # Len(text) + 1
    BY <1>1, <1>3
  <2> QED
    BY <1>1, <2>1, QuoteEnds
<1>5. j \in k + 2..b - 1
  BY <1>1, <1>3, <1>4
<1> QED
  BY <1>1, <1>4, <1>5

LEMMA ClassIsNoToken ==
    ASSUME NEW text, IsText(text), NEW k, ClassToken(text, k), NEW b \in Nat,
           k < b, b < ClassEnd(text, k)
    PROVE  b \notin Tokens(text)
<1> SUFFICES ASSUME b \in Tokens(text) PROVE FALSE
  OBVIOUS
<1>1. k \in Tokens(text) /\ k \in 1..Len(text) /\ TokenEnd(text, k) = ClassEnd(text, k)
  BY ClassTokenEnd DEF ClassToken
<1>2. ClassEnd(text, k) \in k + 1..b
  BY <1>1, TokensLive
<1>3. Len(text) \in Nat
  BY TextBasics
<1> QED
  BY <1>1, <1>2, <1>3

LEMMA Refused ==
    ASSUME TemplateTyped, Stopped, AllFollowed, AllAligned
    PROVE  RefusedForCause
<1> SUFFICES ASSUME stage \in {"quoted", "class"}, PosixComplete,
                    Len(result) + 1 \in Tokens(result \o SubSeq(pattern, index, Len(pattern)))
             PROVE  FALSE
  BY DEF RefusedForCause
<1> DEFINE rest == SubSeq(pattern, index, Len(pattern))
           text == result \o rest
           b == Len(result) + 1
<1>1. index \in 1..Len(pattern) /\ Len(pattern) \in Nat /\ Len(result) \in Nat
  BY TemplateBasics DEF Stopped, TemplateTyped
<1>2. /\ rest \in Seq(Range(pattern)) /\ Len(rest) = Len(pattern) - index + 1
      /\ rest[1] = pattern[index]
  <2>1. pattern \in Seq(Range(pattern))
    BY TemplateBasics
  <2>2. /\ rest \in Seq(Range(pattern)) /\ Len(rest) = Len(pattern) - index + 1
        /\ \A i \in 1..Len(pattern) - index + 1 : rest[i] = pattern[index + i - 1]
    BY <1>1, <2>1
  <2>3. 1 \in 1..Len(pattern) - index + 1 /\ index + 1 - 1 = index
    BY <1>1
  <2> HIDE DEF rest
  <2> QED
    BY <2>2, <2>3
<1> HIDE DEF rest
<1>3. /\ Len(text) = Len(result) + Len(rest)
      /\ \A i \in 1..Len(result) : text[i] = result[i]
      /\ text[b] = pattern[index]
      /\ IsText(text) /\ b \in 1..Len(text)
  <2>1. result \in Seq(Range(pattern) \cup {Atom}) /\ rest \in Seq(Range(pattern) \cup {Atom})
    <3>1. \A i \in 1..Len(rest) : rest[i] \in Range(pattern)
      BY <1>2
    <3> QED
      BY <1>2, <3>1 DEF TemplateTyped
  <2>2. /\ Len(text) = Len(result) + Len(rest)
        /\ text \in Seq(Range(pattern) \cup {Atom})
        /\ \A i \in 1..Len(result) : text[i] = result[i]
    BY <2>1
  <2>3. b - Len(result) = 1 /\ b \in 1..Len(text)
    BY <1>1, <1>2, <2>2
  <2>4. text[b] = pattern[index]
    BY <1>1, <1>2, <2>1, <2>2, <2>3
  <2> HIDE DEF text
  <2>5. IsText(text)
    <3>1. DOMAIN text = 1..Len(text) /\ \A i \in DOMAIN text : text[i] \in Range(text)
      BY <2>2 DEF Range
    <3>2. text = [i \in 1..Len(text) |-> text[i]] /\ Len(text) \in Nat
      BY <2>2
    <3> QED
      BY <3>1, <3>2, SeqDef DEF IsText
  <2> QED
    BY <2>2, <2>3, <2>4, <2>5
<1> HIDE DEF text
<1>4. Continues(text)
  <2>1. Len(text) >= Len(result)
    BY <1>1, <1>2, <1>3
  <2> QED
    BY <1>1, <1>3, <2>1 DEF Continues, Shows
<1>5. Followed(text) /\ Aligned(text)
  BY <1>4 DEF AllFollowed, AllAligned
<1>6. b \in Tokens(text) /\ b > Len(result) /\ b \in Nat
  BY <1>1 DEF text, rest
<1>7. CASE stage = "quoted"
  <2>1. scan.quoted
    BY <1>7 DEF Stopped
  <2>2. PICK k : QuotedAt(text, k, b)
    BY <1>5, <1>6, <2>1 DEF Followed
  <2> HIDE DEF b
  <2> QED
    BY <1>3, <1>6, <2>2, QuotedIsNoToken
<1>8. CASE stage = "class"
  <2>1. pattern[index] = "$" /\ ~scan.quoted /\ scan.class
    BY <1>8 DEF Stopped
  <2>2. PICK k : InClassAt(text, k, b)
    BY <1>5, <1>6, <2>1 DEF Aligned, FlagsRight
  <2> HIDE DEF b
  <2>3. ~scan.posix
    BY <1>6, <2>1, <2>2, NameOnly
  <2>4. ClassToken(text, k) /\ k < b /\ b < ClassEnd(text, k)
    BY <2>2, <2>3 DEF InClassAt
  <2> QED
    BY <1>3, <1>6, <2>4, ClassIsNoToken
<1> QED
  BY <1>7, <1>8

(* What has been written is a text that goes on from itself.                *)
LEMMA ResultContinues ==
    ASSUME TemplateTyped
    PROVE  IsText(result) /\ Continues(result)
<1>1. Len(result) \in Nat /\ DOMAIN result = 1..Len(result)
  BY TemplateBasics
<1>2. result \in Seq(Range(result))
  <2>1. \A i \in 1..Len(result) : result[i] \in Range(result)
    BY <1>1 DEF Range
  <2>2. result = [i \in 1..Len(result) |-> result[i]]
    BY DEF TemplateTyped
  <2> QED
    BY <1>1, <2>1, <2>2, SeqDef
<1> QED
  BY <1>1, <1>2 DEF IsText, Continues

LEMMA NothingLeft ==
    ASSUME TemplateTyped, AllFollowed
    PROVE  NoReferenceLeft
<1>1. IsText(result) /\ Followed(result)
  BY ResultContinues DEF AllFollowed
<1>2. /\ Len(result) \in Nat
      /\ \A i, c : At(result, i, c) <=> i \in 1..Len(result) /\ result[i] = c
  BY <1>1, TextBasics
<1>3. ASSUME NEW i \in Tokens(result), At(result, i, "$"), NEW d \in Digit, At(result, i + 1, d)
      PROVE  FALSE
  <2>1. i <= Len(result) /\ result[i] = "$"
    BY <1>2, <1>3
  <2>2. i + 1 <= Len(result) /\ result[i + 1] \in Digit
    BY <1>2, <1>3
  <2> QED
    BY <1>1, <2>1, <2>2 DEF Followed
<1> QED
  BY <1>3 DEF NoReferenceLeft

-----------------------------------------------------------------------------
(* What the compiler has read is what it reads of the beginning.       *)

PrefixOf(R, T) == Len(R) <= Len(T) /\ \A i \in 1..Len(R) : R[i] = T[i]

LEMMA SameAt ==
    ASSUME NEW R, NEW T, IsText(R), IsText(T), PrefixOf(R, T)
    PROVE  /\ Len(R) \in Nat /\ Len(T) \in Nat /\ Len(R) <= Len(T)
           /\ \A i, c : i <= Len(R) => (At(R, i, c) <=> At(T, i, c))
           /\ \A i, c : At(R, i, c) => At(T, i, c)
           /\ \A i, c : At(T, i, c) <=> i \in 1..Len(T) /\ T[i] = c
           /\ \A i, c : At(R, i, c) <=> i \in 1..Len(R) /\ R[i] = c
<1>1. Len(R) \in Nat /\ Len(T) \in Nat
  BY TextBasics
<1> QED
  BY <1>1, TextBasics DEF PrefixOf

LEMMA SameItem ==
    ASSUME NEW R, NEW T, IsText(R), IsText(T), PrefixOf(R, T), NEW m \in 1..Len(R),
           ClassItem(T, m) # 0, ClassItem(T, m) <= Len(R)
    PROVE  ClassItem(R, m) = ClassItem(T, m)
<1>1. /\ Len(R) \in Nat /\ Len(T) \in Nat /\ Len(R) <= Len(T)
      /\ \A i, c : i <= Len(R) => (At(R, i, c) <=> At(T, i, c))
      /\ \A i, c : At(R, i, c) => At(T, i, c)
      /\ \A i, c : At(T, i, c) <=> i \in 1..Len(T) /\ T[i] = c
      /\ \A i, c : At(R, i, c) <=> i \in 1..Len(R) /\ R[i] = c
  BY SameAt
<1>2. m \in 1..Len(T) /\ R[m] = T[m] /\ ~(m > Len(T)) /\ ~(m > Len(R))
  BY <1>1 DEF PrefixOf
<1>3. CASE T[m] = "\\"
  <2>1. ClassItem(T, m) = EscapeEnd(T, m) /\ ClassItem(R, m) = EscapeEnd(R, m)
    BY <1>2, <1>3 DEF ClassItem
  <2>2. ~(m = Len(T) \/ T[m + 1] \in {"Q", "E"} \cup Digit) /\ EscapeEnd(T, m) = m + 2
    BY <2>1 DEF EscapeEnd
  <2>3. m + 2 <= Len(R)
    BY <2>1, <2>2
  <2>4. m + 1 \in 1..Len(R) /\ m # Len(R)
    BY <1>1, <2>3
  <2>5. R[m + 1] = T[m + 1]
    BY <2>4 DEF PrefixOf
  <2>6. EscapeEnd(R, m) = m + 2
    BY <2>2, <2>4, <2>5 DEF EscapeEnd
  <2> QED
    BY <2>1, <2>2, <2>6
<1>4. CASE T[m] # "\\" /\ IsPosix(T, m)
  <2>1. ClassItem(T, m) = NamedClass(T, m)
    BY <1>2, <1>4 DEF ClassItem
  <2>2. /\ At(T, m, "[") /\ At(T, m + 1, ":")
        /\ \/ /\ At(T, m + 2, "a") /\ At(T, m + 3, ":") /\ At(T, m + 4, "]")
              /\ NamedClass(T, m) = m + 5
           \/ /\ At(T, m + 2, "^") /\ At(T, m + 3, "a")
              /\ At(T, m + 4, ":") /\ At(T, m + 5, "]")
              /\ NamedClass(T, m) = m + 6
    BY <1>2, <1>4, <2>1, NamedShape
  <2>3. /\ m + 1 <= Len(R) /\ m + 2 <= Len(R) /\ m + 3 <= Len(R) /\ m + 4 <= Len(R) /\ m <= Len(R)
        /\ NamedClass(T, m) = m + 6 => m + 5 <= Len(R)
    BY <1>1, <2>1, <2>2
  <2>4. /\ At(R, m, "[") /\ At(R, m + 1, ":")
        /\ \/ /\ At(R, m + 2, "a") /\ At(R, m + 3, ":") /\ At(R, m + 4, "]")
              /\ NamedClass(T, m) = m + 5
           \/ /\ At(R, m + 2, "^") /\ At(R, m + 3, "a") /\ ~At(R, m + 2, "a")
              /\ At(R, m + 4, ":") /\ At(R, m + 5, "]")
              /\ NamedClass(T, m) = m + 6
    <3>1. At(R, m + 2, "^") => ~At(R, m + 2, "a")
      BY DEF At
    <3> QED
      BY <1>1, <2>2, <2>3, <3>1
  <2>5. IsPosix(R, m) /\ NamedClass(R, m) = NamedClass(T, m)
    BY <2>4, ShapeNamed
  <2>6. ClassItem(R, m) = NamedClass(R, m)
    BY <1>2, <1>4, <2>5 DEF ClassItem
  <2> QED
    BY <2>1, <2>5, <2>6
<1>5. CASE T[m] # "\\" /\ ~IsPosix(T, m)
  <2>1. ~IsPosix(R, m)
    <3> SUFFICES ASSUME At(R, m, "["), At(R, m + 1, ":"), NEW x \in NameEnds(R, m) PROVE FALSE
      BY DEF IsPosix
    <3>1. x \in m + 2..Len(R) /\ R[x] = ":" /\ At(R, x + 1, "]")
      BY DEF NameEnds
    <3>2. x \in m + 2..Len(T) /\ T[x] = ":" /\ At(T, x + 1, "]")
      BY <1>1, <3>1 DEF PrefixOf
    <3>3. x \in NameEnds(T, m)
      BY <3>2 DEF NameEnds
    <3> QED
      BY <1>1, <1>5, <3>3 DEF IsPosix
  <2> QED
    BY <1>2, <1>5, <2>1 DEF ClassItem
<1> QED
  BY <1>3, <1>4, <1>5

LEMMA SameFrom ==
    ASSUME NEW R, NEW T, IsText(R), IsText(T), PrefixOf(R, T)
    PROVE  \A m \in 1..Len(R) : ClassFrom(T, m) \in 1..Len(R) => ClassFrom(R, m) = ClassFrom(T, m)
<1>1. /\ Len(R) \in Nat /\ Len(T) \in Nat /\ Len(R) <= Len(T)
      /\ \A i, c : i <= Len(R) => (At(R, i, c) <=> At(T, i, c))
  BY SameAt
<1> DEFINE Good(m) == m \in 1..Len(R) /\ ClassFrom(T, m) \in 1..Len(R) =>
                          ClassFrom(R, m) = ClassFrom(T, m)
           S == {n \in Nat : \A m \in 1..Len(R) : m >= Len(R) + 1 - n => Good(m)}
<1>2. ASSUME NEW m \in 1..Len(R), \A x \in 1..Len(R) : x > m => Good(x) PROVE Good(m)
  <2> SUFFICES ASSUME ClassFrom(T, m) \in 1..Len(R) PROVE ClassFrom(R, m) = ClassFrom(T, m)
    OBVIOUS
  <2>1. m \in 1..Len(R) + 1 /\ m \in 1..Len(T) + 1 /\ m <= Len(R) /\ m \in 1..Len(T)
    BY <1>1
  <2>2. /\ ClassFrom(R, m) = IF At(R, m, "]") THEN m + 1 ELSE ClassFrom(R, ClassItem(R, m))
        /\ ClassFrom(T, m) = IF At(T, m, "]") THEN m + 1 ELSE ClassFrom(T, ClassItem(T, m))
    BY <2>1, ClassFromDef
  <2>3. CASE At(T, m, "]")
    BY <1>1, <2>1, <2>2, <2>3
  <2>4. CASE ~At(T, m, "]")
    <3>1. ClassFrom(T, ClassItem(T, m)) \in 1..Len(R)
      BY <2>2, <2>4
    <3>2. ClassItem(T, m) # 0
      BY <3>1, ClassFromDef
    <3>3. ClassItem(T, m) \in m + 1..Len(T) + 1
      BY <2>1, <3>2, ItemEnds
    <3>4. ClassItem(T, m) \in 1..Len(T) + 1
      BY <1>1, <3>3
    <3>5. ClassFrom(T, ClassItem(T, m)) \in ClassItem(T, m) + 1..Len(T) + 1
      BY <3>1, <3>4, ClassEnds
    <3>6. ClassItem(T, m) \in 1..Len(R) /\ ClassItem(T, m) > m
      BY <1>1, <3>1, <3>3, <3>5
    <3>7. ClassItem(R, m) = ClassItem(T, m)
      BY <3>2, <3>6, SameItem
    <3>8. Good(ClassItem(T, m))
      BY <1>2, <3>6
    <3> QED
      BY <1>1, <2>1, <2>2, <2>4, <3>1, <3>6, <3>7, <3>8
  <2> QED
    BY <2>3, <2>4
<1>3. 0 \in S
  <2>1. \A m \in 1..Len(R) : ~(m >= Len(R) + 1 - 0)
    BY <1>1
  <2> QED
    BY <2>1
<1>4. ASSUME NEW n \in Nat, n \in S PROVE n + 1 \in S
  <2>1. ASSUME NEW m \in 1..Len(R), m >= Len(R) + 1 - (n + 1) PROVE Good(m)
    <3>1. \A x \in 1..Len(R) : x > m => x >= Len(R) + 1 - n
      BY <1>1, <2>1
    <3> HIDE DEF Good
    <3>2. \A x \in 1..Len(R) : x > m => Good(x)
      BY <1>4, <3>1
    <3> QED
      BY <1>2, <3>2
  <2> QED
    BY <2>1
<1> HIDE DEF S
<1>5. Len(R) + 1 \in S
  <2>1. Nat \subseteq S
    BY <1>3, <1>4, Induction
  <2> QED
    BY <1>1, <2>1
<1>6. \A m \in 1..Len(R) : m >= Len(R) + 1 - (Len(R) + 1)
  BY <1>1
<1> QED
  BY <1>5, <1>6 DEF S

LEMMA SameQuote ==
    ASSUME NEW R, NEW T, IsText(R), IsText(T), PrefixOf(R, T), NEW j \in 1..Len(R),
           QuoteEnd(T, j) <= Len(R)
    PROVE  QuoteEnd(R, j) = QuoteEnd(T, j)
<1>1. /\ Len(R) \in Nat /\ Len(T) \in Nat /\ Len(R) <= Len(T) /\ j \in 1..Len(T)
      /\ \A i, c : i <= Len(R) => (At(R, i, c) <=> At(T, i, c))
      /\ \A i, c : At(R, i, c) => At(T, i, c)
  BY SameAt
<1>2. PICK x \in j + 2..Len(T) :
          /\ Unquotes(T, x) /\ QuoteEnd(T, j) = x + 2
          /\ \A m \in j + 2..x - 1 : ~Unquotes(T, m)
  <2>1. QuoteEnd(T, j) # Len(T) + 1
    BY <1>1
  <2> QED
    BY <1>1, <2>1, QuoteEnds
<1>3. x \in j + 2..Len(R) /\ x <= Len(R) /\ x + 1 <= Len(R)
  BY <1>1, <1>2
<1>4. Unquotes(R, x)
  BY <1>1, <1>2, <1>3 DEF Unquotes
<1>5. PICK y \in j + 2..Len(R) :
          /\ Unquotes(R, y) /\ QuoteEnd(R, j) = y + 2
          /\ \A m \in j + 2..y - 1 : ~Unquotes(R, m)
  BY <1>3, <1>4, QuoteEnds
<1>6. Unquotes(T, y)
  BY <1>1, <1>5 DEF Unquotes
<1>7. ~(x < y)
  <2>1. x < y => x \in j + 2..y - 1
    BY <1>1, <1>3, <1>5
  <2> QED
    BY <1>4, <1>5, <2>1
<1>8. ~(y < x)
  <2>1. y < x => y \in j + 2..x - 1
    BY <1>1, <1>3, <1>5
  <2> QED
    BY <1>2, <1>6, <2>1
<1>9. x = y
  BY <1>1, <1>3, <1>5, <1>7, <1>8
<1> QED
  BY <1>2, <1>5, <1>9

LEMMA SameTokens ==
    ASSUME NEW R, NEW T, IsText(R), IsText(T), PrefixOf(R, T)
    PROVE  \A i \in Tokens(T) : i <= Len(R) => i \in Tokens(R)
<1>1. /\ Len(R) \in Nat /\ Len(T) \in Nat /\ Len(R) <= Len(T)
      /\ \A i, c : i <= Len(R) => (At(R, i, c) <=> At(T, i, c))
      /\ Tokens(T) \subseteq 1..Len(T) + 1
  BY SameAt, TokensDef
<1>2. ASSUME NEW j \in 1..Len(R), TokenEnd(T, j) \in j + 1..Len(R)
      PROVE  TokenEnd(R, j) = TokenEnd(T, j)
  <2>1. R[j] = T[j] /\ j \in 1..Len(T) /\ j + 1 <= Len(R)
    BY <1>1, <1>2 DEF PrefixOf
  <2>2. At(R, j + 1, "Q") <=> At(T, j + 1, "Q")
    BY <1>1, <2>1
  <2>3. CASE T[j] = "["
    <3> DEFINE f == FirstItem(T, j)
               n == ClassItem(T, f)
    <3>1. TokenEnd(T, j) = ClassEnd(T, j) /\ TokenEnd(R, j) = ClassEnd(R, j)
      BY <2>1, <2>3 DEF TokenEnd
    <3>2. /\ f \in j + 1..Len(T) /\ n # 0 /\ ClassEnd(T, j) \in f + 2..Len(T) + 1
          /\ ClassEnd(T, j) \in 1..Len(R)
      <4>1. ClassEnd(T, j) # 0 /\ ClassEnd(T, j) \in 1..Len(R)
        BY <1>2, <3>1
      <4> QED
        BY <2>1, <4>1, ClassEndAfter
    <3>3. FirstItem(R, j) = f
      BY <2>1, <1>1 DEF FirstItem
    <3>4. ClassEnd(T, j) = ClassFrom(T, n) /\ ClassEnd(R, j) = ClassFrom(R, ClassItem(R, f))
      BY <3>3 DEF ClassEnd
    <3>5. f \in 1..Len(R) /\ f \in 1..Len(T) + 1
      BY <1>1, <3>2
    <3> HIDE DEF f
    <3>6. n \in f + 1..Len(T) + 1
      BY <3>2, <3>5, ItemEnds
    <3>7. ClassFrom(T, n) \in n + 1..Len(T) + 1
      <4>1. n \in 1..Len(T) + 1
        BY <3>5, <3>6
      <4> HIDE DEF n
      <4> QED
        BY <3>2, <3>4, <4>1, ClassEnds
    <3>8. n \in 1..Len(R) /\ n <= Len(R)
      <4> HIDE DEF n
      <4> QED
        BY <1>1, <3>2, <3>4, <3>5, <3>6, <3>7
    <3>9. ClassItem(R, f) = n
      BY <3>2, <3>5, <3>8, SameItem
    <3> HIDE DEF n
    <3>10. ClassFrom(R, n) = ClassFrom(T, n)
      BY <3>2, <3>4, <3>8, SameFrom
    <3> QED
      BY <3>1, <3>4, <3>9, <3>10
  <2>4. CASE T[j] = "\\" /\ At(T, j + 1, "Q")
    <3>1. TokenEnd(T, j) = QuoteEnd(T, j) /\ TokenEnd(R, j) = QuoteEnd(R, j)
      BY <2>1, <2>2, <2>4 DEF TokenEnd
    <3>2. QuoteEnd(T, j) <= Len(R)
      BY <1>2, <3>1
    <3> QED
      BY <3>1, <3>2, SameQuote
  <2>5. CASE T[j] = "\\" /\ ~At(T, j + 1, "Q")
    <3>1. TokenEnd(T, j) = EscapeEnd(T, j) /\ TokenEnd(R, j) = EscapeEnd(R, j)
      BY <2>1, <2>2, <2>5 DEF TokenEnd
    <3>2. EscapeEnd(T, j) # 0
      BY <1>2, <3>1
    <3>3. ~(j = Len(T) \/ T[j + 1] \in {"Q", "E"} \cup Digit) /\ EscapeEnd(T, j) = j + 2
      BY <3>2 DEF EscapeEnd
    <3>4. j + 1 \in 1..Len(R) /\ j # Len(R)
      BY <1>1, <1>2, <3>1, <3>3
    <3>5. R[j + 1] = T[j + 1]
      BY <3>4 DEF PrefixOf
    <3>6. EscapeEnd(R, j) = j + 2
      BY <3>3, <3>4, <3>5 DEF EscapeEnd
    <3> QED
      BY <3>1, <3>3, <3>6
  <2>6. CASE T[j] # "[" /\ T[j] # "\\"
    BY <2>1, <2>6 DEF TokenEnd
  <2> QED
    BY <2>3, <2>4, <2>5, <2>6
<1> DEFINE Bad == {i \in Tokens(T) : i <= Len(R) /\ i \notin Tokens(R)}
<1> SUFFICES ASSUME Bad # {} PROVE FALSE
  OBVIOUS
<1>3. PICK i \in Bad : \A m \in Bad : i <= m
  <2>1. Bad \subseteq Nat
    BY <1>1
  <2> HIDE DEF Bad
  <2> QED
    BY <2>1, LeastOf
<1>4. i \in 1..Len(R) /\ i \in 1..Len(R) + 1 /\ i \in 1..Len(T) + 1
  BY <1>1
<1>5. i # 1
  BY <1>4, TokensDef
<1>6. PICK j \in Tokens(T) : j < i /\ TokenEnd(T, j) = i
  BY <1>4, <1>5, TokensDef
<1>7. j \in 1..Len(R) /\ i \in j + 1..Len(R)
  BY <1>1, <1>4, <1>6
<1>8. j \in Tokens(R)
  <2>1. j \notin Bad
    BY <1>3, <1>4, <1>6, <1>7
  <2> QED
    BY <1>7, <2>1
<1>9. TokenEnd(R, j) = i
  BY <1>2, <1>6, <1>7
<1> QED
  BY <1>4, <1>6, <1>8, <1>9, TokensDef

-----------------------------------------------------------------------------
(* The pass that expands repeats the pass that checks: the next state of    *)
(* the scanner depends on the template and on its own state only.           *)

State == [index |-> index, result |-> result, highest |-> highest, scan |-> scan]

Start == [index |-> 1, result |-> <<>>, highest |-> 0, scan |-> Outside]

SeesAt(s, c) == pattern[s.index] = c
FollowedAt(s, chars) == s.index < Len(pattern) /\ pattern[s.index + 1] \in chars

Taken(s, length, after) ==
    [index |-> s.index + length,
     result |-> s.result \o SubSeq(pattern, s.index, s.index + length - 1),
     highest |-> s.highest, scan |-> after]

(* Where the check refuses the template.                                    *)
Refuses(s) ==
    \/ s.scan.quoted /\ SeesAt(s, "$") /\ FollowedAt(s, Digit \cup Letter \cup {"{"})
    \/ ~s.scan.quoted /\ SeesAt(s, "$") /\ FollowedAt(s, Letter \cup {"{"})
    \/ /\ ~s.scan.quoted /\ SeesAt(s, "$") /\ FollowedAt(s, Digit)
       /\ s.scan.class \/ ~IsNumber(s.index)

Higher(s) == IF Reference(s.index) > s.highest THEN Reference(s.index) ELSE s.highest

(* Where it goes else.                                                      *)
Moved(s) ==
    IF s.scan.quoted THEN
        IF SeesAt(s, "\\") /\ FollowedAt(s, {"E"})
        THEN Taken(s, 2, [s.scan EXCEPT !.quoted = FALSE])
        ELSE Taken(s, 1, s.scan)
    ELSE IF SeesAt(s, "\\") THEN
        Taken(s, Min({2, Len(pattern) + 1 - s.index}),
              [s.scan EXCEPT !.quoted = FollowedAt(s, {"Q"}), !.first = @ /\ ~s.scan.class])
    ELSE IF s.scan.class /\ s.scan.first /\ s.scan.negatable /\ SeesAt(s, "^") THEN
        Taken(s, 1, [s.scan EXCEPT !.negatable = FALSE])
    ELSE IF s.scan.class /\ ~s.scan.posix /\ SeesAt(s, "[") /\ FollowedAt(s, {":"}) THEN
        Taken(s, 1, [s.scan EXCEPT !.posix = TRUE])
    ELSE IF s.scan.posix /\ SeesAt(s, ":") /\ FollowedAt(s, {"]"}) THEN
        Taken(s, 2, [s.scan EXCEPT !.posix = FALSE, !.first = FALSE])
    ELSE IF ~s.scan.class /\ SeesAt(s, "[") THEN
        Taken(s, 1, [s.scan EXCEPT !.class = TRUE, !.first = TRUE, !.negatable = TRUE])
    ELSE IF s.scan.class /\ ~s.scan.posix /\ ~s.scan.first /\ SeesAt(s, "]") THEN
        Taken(s, 1, [s.scan EXCEPT !.class = FALSE, !.first = FALSE, !.negatable = FALSE])
    ELSE IF SeesAt(s, "$") /\ FollowedAt(s, Digit) THEN
        [index |-> End(s.index), result |-> Append(s.result, Atom),
         highest |-> Higher(s), scan |-> s.scan]
    ELSE Taken(s, 1, [s.scan EXCEPT !.first = @ /\ ~s.scan.class])

(* The same of the variables.                                               *)
LEMMA StateIs ==
    /\ State.index = index /\ State.result = result /\ State.highest = highest
    /\ State.scan = scan
    /\ \A c : SeesAt(State, c) <=> Sees(c)
    /\ \A chars : FollowedAt(State, chars) <=> FollowedBy(chars)
    /\ Higher(State) = Highest(Reference(index))
BY DEF State, SeesAt, Sees, FollowedAt, FollowedBy, Higher, Highest

LEMMA TakenIs ==
    ASSUME NEW length, NEW after, Take(length, after)
    PROVE  State' = Taken(State, length, after)
BY DEF Take, Taken, State

(* A step of the scanner that does not refuse.                              *)
Moves ==
    \/ Unquote \/ CopyQuoted \/ Escape \/ Negate \/ OpenPosix \/ ClosePosix
    \/ OpenClass \/ CloseClass \/ Copy
    \/ Replace /\ UNCHANGED stage

LEMMA MovesIs ==
    ASSUME TemplateTyped, Moves
    PROVE  /\ State' = Moved(State) /\ ~Refuses(State) /\ Reading
           /\ UNCHANGED <<pattern, captures, stage>>
<1>1. /\ State.index = index /\ State.scan = scan
      /\ \A c : SeesAt(State, c) <=> Sees(c)
      /\ \A chars : FollowedAt(State, chars) <=> FollowedBy(chars)
      /\ Higher(State) = Highest(Reference(index))
      /\ State.result = result /\ State.highest = highest
  BY StateIs
<1>2. \A length, after : Take(length, after) => /\ State' = Taken(State, length, after)
                                                /\ UNCHANGED <<pattern, captures, stage>>
  BY TakenIs DEF Take
<1>3. \A c, d : Sees(c) /\ Sees(d) => c = d
  BY DEF Sees
<1>4. CASE Unquote
  <2>1. /\ State.scan.quoted
        /\ SeesAt(State, "\\") /\ FollowedAt(State, {"E"})
        /\ ~SeesAt(State, "$")
    BY <1>1, <1>3, <1>4 DEF Unquote, EndsQuote
  <2>2. Moved(State) = Taken(State, 2, [State.scan EXCEPT !.quoted = FALSE])
    BY <2>1, Zenon DEF Moved
  <2>3. Taken(State, 2, [State.scan EXCEPT !.quoted = FALSE])
            = Taken(State, 2, [scan EXCEPT !.quoted = FALSE])
    BY <1>1
  <2>4. Take(2, [scan EXCEPT !.quoted = FALSE]) /\ Reading
    BY <1>4 DEF Unquote
  <2> QED
    BY <1>2, <2>1, <2>2, <2>3, <2>4 DEF Refuses
<1>5. CASE CopyQuoted
  <2>1. /\ State.scan.quoted
        /\ ~(SeesAt(State, "\\") /\ FollowedAt(State, {"E"}))
        /\ ~(SeesAt(State, "$") /\ FollowedAt(State, Digit \cup Letter \cup {"{"}))
    BY <1>1, <1>3, <1>5 DEF CopyQuoted, EndsQuote, ReferenceLike
  <2>2. Moved(State) = Taken(State, 1, State.scan)
    BY <2>1, Zenon DEF Moved
  <2>3. Taken(State, 1, State.scan)
            = Taken(State, 1, scan)
    BY <1>1
  <2>4. Take(1, scan) /\ Reading
    BY <1>5 DEF CopyQuoted
  <2> QED
    BY <1>2, <2>1, <2>2, <2>3, <2>4 DEF Refuses
<1>6. CASE Escape
  <2> DEFINE n == Min({2, Len(pattern) + 1 - index})
             m == Min({2, Len(pattern) + 1 - State.index})
             after == [State.scan EXCEPT !.quoted = FollowedAt(State, {"Q"}),
                                         !.first = @ /\ ~State.scan.class]
  <2>1. ~State.scan.quoted /\ SeesAt(State, "\\") /\ ~SeesAt(State, "$")
    BY <1>1, <1>3, <1>6 DEF Escape, InText
  <2>2. Moved(State) = Taken(State, m, after)
    BY <2>1, Zenon DEF Moved
  <2>3. m = n /\ after = AfterEscape
    <3>1. FollowedAt(State, {"Q"}) = FollowedBy({"Q"})
      BY <1>1 DEF FollowedAt, FollowedBy
    <3> QED
      BY <1>1, <3>1, Zenon DEF AfterEscape
  <2>4. Take(n, AfterEscape) /\ Reading
    BY <1>6 DEF Escape, InText, AfterEscape
  <2> HIDE DEF n, m, after
  <2> QED
    BY <1>2, <2>1, <2>2, <2>3, <2>4 DEF Refuses
<1>7. CASE Negate
  <2>1. /\ ~State.scan.quoted
        /\ ~SeesAt(State, "\\")
        /\ State.scan.class /\ State.scan.first /\ State.scan.negatable /\ SeesAt(State, "^")
        /\ ~SeesAt(State, "$")
    BY <1>1, <1>3, <1>7 DEF Negate, Negates, InText
  <2>2. Moved(State) = Taken(State, 1, [State.scan EXCEPT !.negatable = FALSE])
    BY <2>1, Zenon DEF Moved
  <2>3. Taken(State, 1, [State.scan EXCEPT !.negatable = FALSE])
            = Taken(State, 1, [scan EXCEPT !.negatable = FALSE])
    BY <1>1
  <2>4. Take(1, [scan EXCEPT !.negatable = FALSE]) /\ Reading
    BY <1>7 DEF Negate, InText
  <2> QED
    BY <1>2, <2>1, <2>2, <2>3, <2>4 DEF Refuses
<1>8. CASE OpenPosix
  <2>1. /\ ~State.scan.quoted
        /\ ~SeesAt(State, "\\")
        /\ ~SeesAt(State, "^")
        /\ State.scan.class /\ ~State.scan.posix /\ SeesAt(State, "[") /\ FollowedAt(State, {":"})
        /\ ~SeesAt(State, "$")
    BY <1>1, <1>3, <1>8 DEF OpenPosix, OpensPosix, InText
  <2>2. Moved(State) = Taken(State, 1, [State.scan EXCEPT !.posix = TRUE])
    BY <2>1, Zenon DEF Moved
  <2>3. Taken(State, 1, [State.scan EXCEPT !.posix = TRUE])
            = Taken(State, 1, [scan EXCEPT !.posix = TRUE])
    BY <1>1
  <2>4. Take(1, [scan EXCEPT !.posix = TRUE]) /\ Reading
    BY <1>8 DEF OpenPosix, InText
  <2> QED
    BY <1>2, <2>1, <2>2, <2>3, <2>4 DEF Refuses
<1>9. CASE ClosePosix
  <2>1. /\ ~State.scan.quoted
        /\ ~SeesAt(State, "\\")
        /\ ~SeesAt(State, "^")
        /\ ~SeesAt(State, "[")
        /\ State.scan.posix /\ SeesAt(State, ":") /\ FollowedAt(State, {"]"})
        /\ ~SeesAt(State, "$")
    BY <1>1, <1>3, <1>9 DEF ClosePosix, ClosesPosix, InText
  <2>2. Moved(State) = Taken(State, 2, [State.scan EXCEPT !.posix = FALSE, !.first = FALSE])
    BY <2>1, Zenon DEF Moved
  <2>3. Taken(State, 2, [State.scan EXCEPT !.posix = FALSE, !.first = FALSE])
            = Taken(State, 2, [scan EXCEPT !.posix = FALSE, !.first = FALSE])
    BY <1>1
  <2>4. Take(2, [scan EXCEPT !.posix = FALSE, !.first = FALSE]) /\ Reading
    BY <1>9 DEF ClosePosix, InText
  <2> QED
    BY <1>2, <2>1, <2>2, <2>3, <2>4 DEF Refuses
<1>10. CASE OpenClass
  <2>1. /\ ~State.scan.quoted
        /\ ~SeesAt(State, "\\")
        /\ ~SeesAt(State, "^")
        /\ ~SeesAt(State, ":")
        /\ ~State.scan.class /\ SeesAt(State, "[")
        /\ ~SeesAt(State, "$")
    BY <1>1, <1>3, <1>10 DEF OpenClass, OpensClass, InText
  <2>2. Moved(State)
            = Taken(State, 1, [State.scan EXCEPT !.class = TRUE, !.first = TRUE, !.negatable = TRUE])
    BY <2>1, Zenon DEF Moved
  <2>3. Taken(State, 1, [State.scan EXCEPT !.class = TRUE, !.first = TRUE, !.negatable = TRUE])
            = Taken(State, 1, [scan EXCEPT !.class = TRUE, !.first = TRUE, !.negatable = TRUE])
    BY <1>1
  <2>4. Take(1, [scan EXCEPT !.class = TRUE, !.first = TRUE, !.negatable = TRUE]) /\ Reading
    BY <1>10 DEF OpenClass, InText
  <2> QED
    BY <1>2, <2>1, <2>2, <2>3, <2>4 DEF Refuses
<1>11. CASE CloseClass
  <2>1. /\ ~State.scan.quoted
        /\ ~SeesAt(State, "\\")
        /\ ~SeesAt(State, "^")
        /\ ~SeesAt(State, ":")
        /\ ~SeesAt(State, "[")
        /\ State.scan.class /\ ~State.scan.posix /\ ~State.scan.first /\ SeesAt(State, "]")
        /\ ~SeesAt(State, "$")
    BY <1>1, <1>3, <1>11 DEF CloseClass, ClosesClass, InText
  <2>2. Moved(State)
            = Taken(State, 1, [State.scan EXCEPT !.class = FALSE, !.first = FALSE, !.negatable = FALSE])
    BY <2>1, Zenon DEF Moved
  <2>3. Taken(State, 1, [State.scan EXCEPT !.class = FALSE, !.first = FALSE, !.negatable = FALSE])
            = Taken(State, 1, [scan EXCEPT !.class = FALSE, !.first = FALSE, !.negatable = FALSE])
    BY <1>1
  <2>4. Take(1, [scan EXCEPT !.class = FALSE, !.first = FALSE, !.negatable = FALSE]) /\ Reading
    BY <1>11 DEF CloseClass, InText
  <2> QED
    BY <1>2, <2>1, <2>2, <2>3, <2>4 DEF Refuses
<1>12. CASE Copy
  <2>1. /\ ~FollowedBy(Digit) \/ ~Sees("$")
        /\ ~FollowedBy(Letter \cup {"{"}) \/ ~Sees("$")
    BY <1>12 DEF Copy, Ordinary, ReferenceLike, FollowedBy
  <2>2. /\ ~State.scan.quoted /\ ~SeesAt(State, "\\")
        /\ ~(State.scan.class /\ State.scan.first /\ State.scan.negatable /\ SeesAt(State, "^"))
        /\ ~(/\ State.scan.class /\ ~State.scan.posix
              /\ SeesAt(State, "[") /\ FollowedAt(State, {":"}))
        /\ ~(State.scan.posix /\ SeesAt(State, ":") /\ FollowedAt(State, {"]"}))
        /\ ~(~State.scan.class /\ SeesAt(State, "["))
        /\ ~(State.scan.class /\ ~State.scan.posix /\ ~State.scan.first /\ SeesAt(State, "]"))
        /\ ~(SeesAt(State, "$") /\ FollowedAt(State, Digit))
        /\ ~(SeesAt(State, "$") /\ FollowedAt(State, Letter \cup {"{"}))
    BY <1>1, <1>12, <2>1
       DEF Copy, Ordinary, Negates, OpensPosix, ClosesPosix, OpensClass, ClosesClass, InText
  <2>3. Moved(State) = Taken(State, 1, [State.scan EXCEPT !.first = @ /\ ~State.scan.class])
    BY <2>2, Zenon DEF Moved
  <2>4. Taken(State, 1, [State.scan EXCEPT !.first = @ /\ ~State.scan.class])
            = Taken(State, 1, [scan EXCEPT !.first = @ /\ ~scan.class])
    BY <1>1
  <2>5. Take(1, [scan EXCEPT !.first = @ /\ ~scan.class]) /\ Reading
    BY <1>12 DEF Copy, InText
  <2> QED
    BY <1>2, <2>2, <2>3, <2>4, <2>5 DEF Refuses
<1>13. CASE Replace /\ UNCHANGED stage
  <2>1. /\ AtReference /\ ~scan.class /\ IsNumber(index)
        /\ result' = Append(result, Atom) /\ highest' = Highest(Reference(index))
        /\ index' = End(index) /\ UNCHANGED <<pattern, captures, stage, scan>>
    BY <1>13 DEF Replace, Leave, AtReference, InText, Reading, Running
  <2>2. Reading /\ ~scan.quoted /\ Sees("$") /\ FollowedBy(Digit) /\ ~FollowedBy(Letter \cup {"{"})
    <3>1. pattern[index + 1] \in Digit => pattern[index + 1] \notin Letter \cup {"{"}
      BY DEF Digit, Letter
    <3> QED
      BY <2>1, <3>1 DEF AtReference, InText, FollowedBy
  <2>3. /\ ~State.scan.quoted /\ ~SeesAt(State, "\\") /\ ~SeesAt(State, "^") /\ ~SeesAt(State, "[")
        /\ ~SeesAt(State, ":") /\ ~SeesAt(State, "]")
        /\ SeesAt(State, "$") /\ FollowedAt(State, Digit)
        /\ ~State.scan.class /\ IsNumber(State.index) /\ ~FollowedAt(State, Letter \cup {"{"})
    BY <1>1, <1>3, <2>1, <2>2
  <2>4. Moved(State) = [index |-> End(State.index), result |-> Append(State.result, Atom),
                    highest |-> Higher(State), scan |-> State.scan]
    BY <2>3, Zenon DEF Moved
  <2>5. State' = [index |-> End(index), result |-> Append(result, Atom),
                  highest |-> Highest(Reference(index)), scan |-> scan]
    BY <2>1 DEF State
  <2>6. State' = Moved(State)
    BY <1>1, <2>4, <2>5
  <2> QED
    BY <2>1, <2>2, <2>3, <2>6 DEF Refuses
<1> QED
  BY <1>4, <1>5, <1>6, <1>7, <1>8, <1>9, <1>10, <1>11, <1>12, <1>13 DEF Moves

(* The check refuses where Refuses says so.                                 *)
LEMMA RefusesIs ==
    ASSUME RefuseQuoted \/ RefuseSyntax \/ RefuseInClass \/ RefuseNumber
    PROVE  Refuses(State)
BY StateIs DEF RefuseQuoted, RefuseSyntax, RefuseInClass, RefuseNumber, AtReference, InText,
               ReferenceLike, Refuses

(* The states of a pass that begins at Start and gets to fin: each but the  *)
(* last has its next state among them, and what it has written is a         *)
(* beginning of what the last has.                                          *)
Visited(S, fin) ==
    /\ Start \in S /\ fin \in S
    /\ \A s \in S :
           /\ s.highest \in Nat /\ s.highest <= fin.highest
           /\ s.result \in Seq(Range(pattern) \cup {Atom}) /\ PrefixOf(s.result, fin.result)
           /\ s = fin \/ (s.index <= Len(pattern) /\ ~Refuses(s) /\ Moved(s) \in S)

(* The pass that checks visits such states; the pass that expands visits    *)
(* the same, to whose end the template was accepted.                        *)
Accepted(fin) ==
    /\ fin.index > Len(pattern)
    /\ fin.highest = 0 \/ fin.highest < captures
    /\ PosixComplete =>
           \A i \in 1..Len(fin.result) : fin.result[i] = Atom => i \in Tokens(fin.result)

Replays ==
    /\ stage = "check" => \E S : Visited(S, State)
    /\ stage \in {"expand", "expanded"} =>
           \E S, fin : Visited(S, fin) /\ Accepted(fin) /\ State \in S

LEMMA VisitedSame ==
    ASSUME UNCHANGED <<pattern, captures>>
    PROVE  /\ \A S, fin : Visited(S, fin)' <=> Visited(S, fin)
           /\ \A fin : Accepted(fin)' <=> Accepted(fin)
<1>1. /\ \A s : Refuses(s)' <=> Refuses(s)
      /\ \A s : Moved(s)' = Moved(s)
  <2>1. \A s, c : SeesAt(s, c)' <=> SeesAt(s, c)
    BY DEF SeesAt
  <2>2. \A s, chars : FollowedAt(s, chars)' <=> FollowedAt(s, chars)
    BY DEF FollowedAt
  <2>3. \A i : End(i)' = End(i)
    BY DEF End
  <2>4. \A i : Reference(i)' = Reference(i)
    BY <2>3 DEF Reference
  <2>5. \A i : IsNumber(i)' <=> IsNumber(i)
    BY <2>4 DEF IsNumber
  <2>6. \A s : Higher(s)' = Higher(s)
    BY <2>4 DEF Higher
  <2>7. \A s, n, after : Taken(s, n, after)' = Taken(s, n, after)
    BY DEF Taken
  <2>8. ASSUME NEW s PROVE Refuses(s)' <=> Refuses(s)
    BY <2>1, <2>2, <2>5, Zenon DEF Refuses
  <2>9. ASSUME NEW s PROVE Moved(s)' = Moved(s)
    <3>1. \A c : SeesAt(s, c)' = SeesAt(s, c)
      BY DEF SeesAt
    <3>2. \A chars : FollowedAt(s, chars)' = FollowedAt(s, chars)
      BY DEF FollowedAt
    <3>3. /\ \A n, after : Taken(s, n, after)' = Taken(s, n, after)
          /\ End(s.index)' = End(s.index) /\ Higher(s)' = Higher(s) /\ Len(pattern)' = Len(pattern)
      BY <2>3, <2>6, <2>7
    <3> QED
      BY <3>1, <3>2, <3>3, Zenon DEF Moved
  <2> QED
    BY <2>8, <2>9
<1>2. PosixComplete' <=> PosixComplete
  BY DEF PosixComplete
<1> QED
  BY <1>1, <1>2 DEF Visited, Accepted

(* A step writes behind what has been written, and the highest reference    *)
(* does not fall.                                                           *)
LEMMA MovesOn ==
    ASSUME TemplateTyped, Moves
    PROVE  PrefixOf(result, result') /\ highest <= highest' /\ highest' \in Nat
<1> USE TemplateBasics
<1>1. ASSUME NEW n, NEW after, Take(n, after), index <= Len(pattern), n \in {1, 2},
             n = 2 => index < Len(pattern)
      PROVE  PrefixOf(result, result') /\ highest' = highest
  <2>1. result \in Seq(Range(pattern) \cup {Atom})
    BY DEF TemplateTyped
  <2>2. CASE n = 1
    <3>1. result' = Append(result, pattern[index]) /\ pattern[index] \in Range(pattern) \cup {Atom}
          /\ highest' = highest
      BY <1>1, <2>2, TakesOne DEF WritesOne
    <3> QED
      BY <2>1, <3>1 DEF PrefixOf
  <2>3. CASE n = 2
    <3>1. /\ Take(2, after) /\ index < Len(pattern)
      BY <1>1, <2>3
    <3>2. /\ result' = Append(Append(result, pattern[index]), pattern[index + 1])
          /\ index \in 1..Len(pattern) /\ index + 1 \in 1..Len(pattern)
          /\ highest' = highest
      BY <3>1, TakesTwo
    <3> DEFINE r == Append(result, pattern[index])
    <3>3. /\ r \in Seq(Range(pattern) \cup {Atom})
          /\ Len(r) = Len(result) + 1
          /\ \A i \in 1..Len(result) : r[i] = result[i]
      BY <2>1, <3>2
    <3>4. result' = Append(r, pattern[index + 1])
      BY <3>2
    <3> HIDE DEF r
    <3>5. Len(result') = Len(r) + 1 /\ \A i \in 1..Len(r) : result'[i] = r[i]
      BY <3>2, <3>3, <3>4
    <3> QED
      BY <3>2, <3>3, <3>5 DEF PrefixOf
  <2> QED
    BY <1>1, <2>2, <2>3
<1>2. highest \in Nat
  BY DEF TemplateTyped
<1>3. CASE Escape
  <2>1. /\ Escapes
        /\ \/ index < Len(pattern) /\ Take(2, AfterEscape)
           \/ index = Len(pattern) /\ Take(1, AfterEscape)
    BY <1>3, EscapeTakes
  <2> QED
    BY <1>1, <1>2, <2>1 DEF Escapes, InText, Reading
<1>4. CASE Replace /\ UNCHANGED stage
  <2>1. /\ result' = Append(result, Atom) /\ highest' = Highest(Reference(index))
        /\ index \in 1..Len(pattern) /\ index < Len(pattern) /\ pattern[index + 1] \in Digit
    BY <1>4 DEF Replace, AtReference, InText, Reading, Running, FollowedBy, Leave, TemplateTyped
  <2>2. Reference(index) \in Nat
    BY <2>1, ReferenceIs
  <2>3. highest <= highest' /\ highest' \in Nat
    BY <1>2, <2>1, <2>2 DEF Highest
  <2>4. PrefixOf(result, result')
    BY <2>1 DEF PrefixOf, TemplateTyped
  <2> QED
    BY <2>3, <2>4
<1>5. CASE Unquote
  BY <1>1, <1>2, <1>5 DEF Unquote, Reading, EndsQuote, FollowedBy
<1>6. CASE ClosePosix
  BY <1>1, <1>2, <1>6 DEF ClosePosix, InText, Reading, ClosesPosix, FollowedBy
<1>7. CASE CopyQuoted
  BY <1>1, <1>2, <1>7 DEF CopyQuoted, Reading
<1>8. CASE Negate
  BY <1>1, <1>2, <1>8 DEF Negate, InText, Reading
<1>9. CASE OpenPosix
  BY <1>1, <1>2, <1>9 DEF OpenPosix, InText, Reading
<1>10. CASE OpenClass
  BY <1>1, <1>2, <1>10 DEF OpenClass, InText, Reading
<1>11. CASE CloseClass
  BY <1>1, <1>2, <1>11 DEF CloseClass, InText, Reading
<1>12. CASE Copy
  BY <1>1, <1>2, <1>12 DEF Copy, InText, Reading
<1> QED
  BY <1>3, <1>4, <1>5, <1>6, <1>7, <1>8, <1>9, <1>10, <1>11, <1>12 DEF Moves

LEMMA ReplayBegins ==
    ASSUME TemplateInit
    PROVE  Replays
<1>1. State = Start /\ stage = "check"
  BY DEF TemplateInit, State, Start
<1>2. /\ Start.highest = 0 /\ Start.result = <<>>
      /\ <<>> \in Seq(Range(pattern) \cup {Atom}) /\ Len(<<>>) = 0
  BY DEF Start
<1>3. PrefixOf(<<>>, <<>>)
  BY DEF PrefixOf
<1>4. Visited({Start}, Start)
  <2>1. ASSUME NEW s \in {Start}
        PROVE  /\ s.highest \in Nat /\ s.highest <= Start.highest /\ s = Start
               /\ s.result \in Seq(Range(pattern) \cup {Atom}) /\ PrefixOf(s.result, Start.result)
    <3>1. s = Start
      OBVIOUS
    <3>2. Start.highest \in Nat /\ Start.highest <= Start.highest
      BY <1>2
    <3> QED
      BY <1>2, <1>3, <3>1, <3>2
  <2> QED
    BY <2>1 DEF Visited
<1> QED
  BY <1>1, <1>4 DEF Replays

LEMMA PrefixTransitive ==
    ASSUME NEW Q, NEW R, NEW T, Len(Q) \in Nat, Len(R) \in Nat, Len(T) \in Nat,
           PrefixOf(Q, R), PrefixOf(R, T)
    PROVE  PrefixOf(Q, T)
BY DEF PrefixOf

LEMMA ReplayMoves ==
    ASSUME TemplateTyped, TemplateTyped', Replays, Moves
    PROVE  Replays'
<1>1. /\ State' = Moved(State) /\ ~Refuses(State) /\ Reading
      /\ UNCHANGED <<pattern, captures, stage>>
      /\ PrefixOf(result, result') /\ highest <= highest' /\ highest' \in Nat
      /\ highest \in Nat
  BY MovesIs, MovesOn DEF TemplateTyped
<1>2. index <= Len(pattern) /\ stage \in {"check", "expand"} /\ index \in Nat
  BY <1>1 DEF Reading, Running, TemplateTyped
<1>3. State.index = index /\ State.result = result /\ State.highest = highest
  BY DEF State
<1>4. PICK next : next = State'
  OBVIOUS
<1>5. next.result = result' /\ next.highest = highest'
  BY <1>4 DEF State
<1>6. CASE stage = "check"
  <2>1. PICK S : Visited(S, State)
    BY <1>6 DEF Replays
  <2>2. Visited(S \cup {next}, next)
    <3>1. Start \in S \cup {next} /\ next \in S \cup {next}
      BY <2>1 DEF Visited
    <3>2. /\ result' \in Seq(Range(pattern) \cup {Atom}) /\ Len(result') \in Nat
          /\ Len(result) \in Nat /\ pattern' = pattern
      <4>1. pattern' = pattern /\ result' \in Seq(Range(pattern') \cup {Atom})
        BY <1>1 DEF TemplateTyped
      <4> QED
        BY <4>1, TemplateBasics
    <3>3. ASSUME NEW s \in S
          PROVE  /\ s.highest \in Nat /\ s.highest <= next.highest
                 /\ s.result \in Seq(Range(pattern) \cup {Atom})
                 /\ PrefixOf(s.result, next.result)
                 /\ s.index <= Len(pattern) /\ ~Refuses(s) /\ Moved(s) \in S \cup {next}
      <4>1. /\ s.highest \in Nat /\ s.highest <= highest
            /\ s.result \in Seq(Range(pattern) \cup {Atom}) /\ PrefixOf(s.result, result)
            /\ s = State \/ (s.index <= Len(pattern) /\ ~Refuses(s) /\ Moved(s) \in S)
        BY <1>3, <2>1 DEF Visited
      <4>2. s.highest <= next.highest
        BY <1>1, <1>5, <4>1
      <4>3. PrefixOf(s.result, next.result)
        <5>1. Len(s.result) \in Nat
          BY <4>1
        <5> QED
          BY <1>1, <1>5, <3>2, <4>1, <5>1, PrefixTransitive
      <4>4. s.index <= Len(pattern) /\ ~Refuses(s) /\ Moved(s) \in S \cup {next}
        BY <1>1, <1>2, <1>3, <1>4, <4>1
      <4> QED
        BY <4>1, <4>2, <4>3, <4>4
    <3>4. /\ next.highest \in Nat /\ next.highest <= next.highest
          /\ next.result \in Seq(Range(pattern) \cup {Atom})
          /\ PrefixOf(next.result, next.result)
      BY <1>1, <1>5, <3>2 DEF PrefixOf
    <3> QED
      BY <3>1, <3>3, <3>4 DEF Visited
  <2>3. Visited(S \cup {next}, next)'
    BY <1>1, <2>2, VisitedSame
  <2>4. stage' = "check"
    BY <1>1, <1>6
  <2> QED
    BY <1>4, <2>3, <2>4 DEF Replays
<1>7. CASE stage = "expand"
  <2>1. PICK S, fin : Visited(S, fin) /\ Accepted(fin) /\ State \in S
    BY <1>7 DEF Replays
  <2>2. State # fin
    <3>1. Len(pattern) \in Nat
      BY TemplateBasics
    <3>2. fin.index > Len(pattern)
      BY <2>1 DEF Accepted
    <3> QED
      BY <1>2, <1>3, <3>1, <3>2
  <2>3. Moved(State) \in S
    BY <2>1, <2>2 DEF Visited
  <2>4. Visited(S, fin)' /\ Accepted(fin)'
    BY <1>1, <2>1, VisitedSame
  <2>5. State' \in S /\ stage' = "expand"
    BY <1>1, <1>7, <2>3
  <2> QED
    BY <2>4, <2>5 DEF Replays
<1> QED
  BY <1>2, <1>6, <1>7

LEMMA ReplayAccept ==
    ASSUME TemplateTyped, AllAligned, Replays, Accept
    PROVE  Replays'
<1>1. /\ stage = "check" /\ index > Len(pattern) /\ Compiles(result) /\ Served
      /\ stage' = "expand" /\ State' = Start /\ UNCHANGED <<pattern, captures>>
  BY DEF Accept, Checked, State, Start
<1>2. PICK S : Visited(S, State)
  BY <1>1 DEF Replays
<1>3. PICK fin : fin = State
  OBVIOUS
<1>4. fin.index = index /\ fin.result = result /\ fin.highest = highest
  BY <1>3 DEF State
<1>5. Accepted(fin)
  <2>1. ASSUME PosixComplete, NEW i \in 1..Len(result), result[i] = Atom
        PROVE  i \in Tokens(result)
    <3>1. Aligned(result)
      BY <2>1, ResultContinues DEF AllAligned
    <3>2. Len(result) + 1 \in Tokens(result) /\ Len(result) + 1 > Len(result)
      BY <1>1, TemplateBasics DEF Compiles
    <3> QED
      BY <2>1, <3>1, <3>2 DEF Aligned
  <2> QED
    BY <1>1, <1>4, <2>1 DEF Accepted, Served
<1>6. Visited(S, fin)' /\ Accepted(fin)'
  BY <1>1, <1>2, <1>3, <1>5, VisitedSame
<1>7. State' \in S
  BY <1>1, <1>2 DEF Visited
<1> QED
  BY <1>1, <1>6, <1>7 DEF Replays

LEMMA ReplayStays ==
    ASSUME Replays, UNCHANGED <<pattern, captures, index, result, highest, scan>>,
           stage' = stage \/ (stage = "expand" /\ stage' = "expanded") \/ stage' \in Refusals
    PROVE  Replays'
<1>1. State' = State
  BY DEF State
<1>2. /\ \A S, fin : Visited(S, fin)' <=> Visited(S, fin)
      /\ \A fin : Accepted(fin)' <=> Accepted(fin)
  BY VisitedSame
<1>3. ASSUME stage' = "check" PROVE (\E S : Visited(S, State))'
  <2>1. stage = "check"
    BY <1>3 DEF Refusals
  <2>2. PICK S : Visited(S, State)
    BY <2>1 DEF Replays
  <2>3. PICK fin : fin = State
    OBVIOUS
  <2>4. Visited(S, fin)'
    BY <1>2, <2>2, <2>3
  <2> QED
    BY <1>1, <2>3, <2>4
<1>4. ASSUME stage' \in {"expand", "expanded"}
      PROVE  (\E S, fin : Visited(S, fin) /\ Accepted(fin) /\ State \in S)'
  <2>1. stage \in {"expand", "expanded"}
    BY <1>4 DEF Refusals
  <2>2. PICK S, fin : Visited(S, fin) /\ Accepted(fin) /\ State \in S
    BY <2>1 DEF Replays
  <2> QED
    BY <1>1, <1>2, <2>2
<1> QED
  BY <1>3, <1>4 DEF Replays

LEMMA NextKinds ==
    ASSUME [TemplateNext]_templateVars
    PROVE  \/ Moves \/ Accept \/ Expanded
           \/ RefuseQuoted \/ RefuseSyntax \/ RefuseInClass \/ RefuseNumber
           \/ RefuseTemplate
           \/ /\ Replace /\ stage = "expand" /\ Reference(index) >= captures
              /\ Leave("unavailable")
           \/ UNCHANGED templateVars
<1>1. Replace => \/ UNCHANGED stage
                 \/ stage = "expand" /\ Reference(index) >= captures /\ Leave("unavailable")
  BY DEF Replace
<1> QED
  BY <1>1 DEF TemplateNext, Moves, Done

LEMMA ReplayStep ==
    ASSUME TemplateTyped, TemplateTyped', AllAligned, Replays, [TemplateNext]_templateVars
    PROVE  Replays'
<1>1. CASE Expanded \/ UNCHANGED templateVars
  BY <1>1, ReplayStays DEF Expanded, Leave, templateVars
<1>2. CASE RefuseQuoted \/ RefuseSyntax \/ RefuseInClass \/ RefuseNumber \/ RefuseTemplate
           \/ Leave("unavailable")
  BY <1>2, ReplayStays DEF RefuseQuoted, RefuseSyntax, RefuseInClass, RefuseNumber,
     RefuseTemplate, Leave, Refusals
<1> QED
  BY <1>1, <1>2, ReplayMoves, ReplayAccept, NextKinds

-----------------------------------------------------------------------------
(* What the invariant gives.                                           *)

(* The expansion meets no reason to stop that the check had not met.        *)
LEMMA ServedStep ==
    ASSUME TemplateTyped, Replays, [TemplateNext]_templateVars, stage = "expand"
    PROVE  stage' \in {"expand", "expanded"}
<1>1. PICK S, fin : Visited(S, fin) /\ Accepted(fin) /\ State \in S
  BY DEF Replays
<1>2. /\ State.index = index
      /\ index \in Nat /\ Len(pattern) \in Nat
  BY TemplateBasics DEF State, TemplateTyped
<1>3. ASSUME index <= Len(pattern) PROVE ~Refuses(State) /\ Moved(State) \in S
  <2>1. State # fin
    BY <1>1, <1>2, <1>3 DEF Accepted
  <2> QED
    BY <1>1, <2>1 DEF Visited
<1>4. CASE RefuseQuoted \/ RefuseSyntax \/ RefuseInClass \/ RefuseNumber
  <2>1. index <= Len(pattern)
    BY <1>4 DEF RefuseQuoted, RefuseSyntax, RefuseInClass, RefuseNumber, AtReference, InText,
                Reading
  <2> QED
    BY <1>3, <1>4, <2>1, RefusesIs
<1>5. CASE Replace /\ Reference(index) >= captures
  <2>1. /\ index <= Len(pattern) /\ ~scan.quoted /\ ~scan.class /\ Sees("$") /\ FollowedBy(Digit)
        /\ IsNumber(index)
    BY <1>5 DEF Replace, AtReference, InText, Reading
  <2>2. index \in 1..Len(pattern) /\ index < Len(pattern) /\ pattern[index + 1] \in Digit
    BY <1>2, <2>1 DEF FollowedBy, TemplateTyped
  <2>3. Reference(index) \in Nat /\ Reference(index) > 0
    BY <2>1, <2>2, TemplateBasics, ReferenceIs DEF IsNumber
  <2>4. Moved(State).highest = Highest(Reference(index))
    <3>1. /\ State.scan = scan
          /\ \A c : SeesAt(State, c) <=> Sees(c)
          /\ \A chars : FollowedAt(State, chars) <=> FollowedBy(chars)
          /\ Higher(State) = Highest(Reference(index))
      BY StateIs
    <3>2. scan.posix => scan.class
      BY DEF TemplateTyped
    <3>3. \A c, d : Sees(c) /\ Sees(d) => c = d
      BY DEF Sees
    <3>4. /\ ~State.scan.quoted /\ ~SeesAt(State, "\\") /\ ~SeesAt(State, "^")
          /\ ~SeesAt(State, "[") /\ ~SeesAt(State, ":") /\ ~SeesAt(State, "]")
          /\ SeesAt(State, "$") /\ FollowedAt(State, Digit)
      BY <2>1, <3>1, <3>3
    <3>5. Moved(State) = [index |-> End(State.index), result |-> Append(State.result, Atom),
                          highest |-> Higher(State), scan |-> State.scan]
      BY <3>4, Zenon DEF Moved
    <3> QED
      BY <3>1, <3>5
  <2>5. Moved(State).highest >= Reference(index) /\ Moved(State).highest \in Nat
    BY <2>3, <2>4 DEF Highest, TemplateTyped
  <2>6. Moved(State).highest <= fin.highest /\ fin.highest \in Nat
    BY <1>1, <1>3, <2>1 DEF Visited
  <2>7. fin.highest = 0 \/ fin.highest < captures
    BY <1>1 DEF Accepted
  <2>8. captures \in Nat
    BY TemplateBasics
  <2> QED
    BY <1>5, <2>3, <2>5, <2>6, <2>7, <2>8
<1>6. CASE RefuseTemplate \/ Accept
  BY <1>6 DEF RefuseTemplate, Accept, Checked
<1>7. CASE Expanded
  BY <1>7 DEF Expanded, Leave
<1>8. CASE UNCHANGED templateVars
  BY <1>8 DEF templateVars
<1>9. CASE Moves
  BY <1>9, MovesIs
<1> QED
  BY <1>4, <1>5, <1>6, <1>7, <1>8, <1>9, NextKinds

(* A replaced reference of the expansion is one of the checked text, where  *)
(* it was a token; so it is one of its beginning.                           *)
LEMMA AtomsAreTokens ==
    ASSUME TemplateTyped, Replays
    PROVE  AtomsOnly
<1> SUFFICES ASSUME stage \in {"expand", "expanded"}, PosixComplete, NEW i \in Atoms
             PROVE  i \in Tokens(result)
  BY DEF AtomsOnly
<1>1. PICK S, fin : Visited(S, fin) /\ Accepted(fin) /\ State \in S
  BY DEF Replays
<1>2. State.result = result
  BY DEF State
<1>3. fin.result \in Seq(Range(pattern) \cup {Atom}) /\ PrefixOf(result, fin.result)
  BY <1>1, <1>2 DEF Visited
<1>4. IsText(fin.result)
  <2> DEFINE T == fin.result
  <2>1. DOMAIN T = 1..Len(T) /\ Len(T) \in Nat /\ T = [n \in 1..Len(T) |-> T[n]]
    BY <1>3
  <2>2. \A n \in 1..Len(T) : T[n] \in Range(T)
    BY <2>1 DEF Range
  <2> HIDE DEF T
  <2>3. IsText(T)
    BY <2>1, <2>2, SeqDef DEF IsText
  <2> QED
    BY <2>3 DEF T
<1>5. i \in 1..Len(result) /\ result[i] = Atom
  BY TemplateBasics DEF Atoms
<1>6. i \in 1..Len(fin.result) /\ fin.result[i] = Atom
  <2>1. Len(result) \in Nat /\ Len(fin.result) \in Nat
    BY <1>3, TemplateBasics
  <2> QED
    BY <1>3, <1>5, <2>1 DEF PrefixOf
<1>7. i \in Tokens(fin.result) /\ i <= Len(result)
  BY <1>1, <1>5, <1>6 DEF Accepted
<1> QED
  BY <1>3, <1>4, <1>7, ResultContinues, SameTokens

TemplateInv == TemplateTyped /\ Stopped /\ AllFollowed /\ AllAligned /\ Replays

LEMMA TemplateInvInit ==
    ASSUME TemplateInit
    PROVE  TemplateInv
<1>1. /\ pattern \in Patterns /\ captures \in Captures /\ stage = "check" /\ index = 1
      /\ result = <<>> /\ highest = 0 /\ scan = Outside
  BY DEF TemplateInit
<1>2. Outside \in Flags /\ ~Outside.posix /\ ~Outside.quoted /\ ~Outside.class
  BY DEF Outside, Flags
<1>3. Len(result) = 0 /\ result \in Seq(Range(pattern) \cup {Atom})
  BY <1>1
<1>4. TemplateTyped /\ Stopped
  BY <1>1, <1>2, <1>3 DEF TemplateTyped, Stopped
<1>5. ASSUME NEW text, Continues(text) PROVE Followed(text) /\ Aligned(text)
  <2>1. Placed(text, 0 + 1) /\ 0 + 1 \in Tokens(text) /\ \A i \in Tokens(text) : ~(i <= 0)
    BY <1>5, FreshText DEF Continues
  <2>2. ~scan.quoted /\ ~scan.class /\ \A i \in 1..0 : FALSE
    BY <1>1, <1>2
  <2> QED
    BY <1>3, <2>1, <2>2 DEF Followed, Aligned, FlagsRight
<1> QED
  BY <1>4, <1>5, ReplayBegins DEF TemplateInv, AllFollowed, AllAligned

(* The scanner is at one of the compiler's places in every text that goes   *)
(* on from what it has written, its flags say which, and the expansion      *)
(* visits the states that the check visited.                                *)
THEOREM TemplateInvariant == TemplateSpec => []TemplateInv
<1>1. TemplateInit => TemplateInv
  BY TemplateInvInit
<1>2. TemplateInv /\ [TemplateNext]_templateVars => TemplateInv'
  <2> SUFFICES ASSUME TemplateInv, [TemplateNext]_templateVars PROVE TemplateInv'
    OBVIOUS
  <2>1. TemplateTyped /\ Stopped /\ AllFollowed /\ AllAligned /\ Replays
    BY DEF TemplateInv
  <2>2. TemplateTyped' /\ Stopped'
    BY <2>1, TypedStep
  <2>3. AllFollowed'
    BY <2>1, FollowedStep
  <2>4. AllAligned'
    BY <2>1, AlignedStep
  <2>5. Replays'
    BY <2>1, <2>2, ReplayStep
  <2> QED
    BY <2>2, <2>3, <2>4, <2>5 DEF TemplateInv
<1> QED
  BY <1>1, <1>2, PTL DEF TemplateSpec

(* rewriteCaptures and the compiler read a template alike: what is replaced *)
(* is a token of its own, what is left is no reference, and what is refused *)
(* as quoted or in a class is no token.                                     *)
THEOREM ReadersAlwaysAgree == TemplateSpec => []ReadersAgree
<1>1. TemplateInv => ReadersAgree
  BY AtomsAreTokens, NothingLeft, Refused DEF TemplateInv, ReadersAgree
<1> QED
  BY <1>1, TemplateInvariant, PTL

(* No file makes a template fail that the validation has accepted.          *)
THEOREM AcceptedIsExpanded == TemplateSpec => ExpansionServed
<1>1. TemplateInv /\ [TemplateNext]_templateVars =>
          [stage = "expand" => stage' \in {"expand", "expanded"}]_templateVars
  BY ServedStep DEF TemplateInv
<1> QED
  BY <1>1, TemplateInvariant, PTL DEF TemplateSpec, ExpansionServed
=============================================================================

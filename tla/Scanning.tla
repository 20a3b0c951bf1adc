------------------------------ MODULE Scanning ------------------------------
(***************************************************************************)
(* internal/scanner: reading the module path from go.mod, then scanning a  *)
(* tree and classifying the imports of its files.                          *)
(*                                                                         *)
(* A place in the file system is a sequence of names; a name is one        *)
(* character, so that the text of a path (its names with "/" between) and  *)
(* of an import is a sequence of characters, and prefixes are those of     *)
(* strings. A line of go.mod is its fields, a block is read as the line it *)
(* begins with: the path of "module (" is "(".                             *)
(***************************************************************************)
EXTENDS Integers, SequencesExt

CONSTANTS
    Name,       \* names of files and directories
    Character,  \* what texts are made of
    Inputs,     \* records [lines, tree, moduleRoot, scanRoot]: the lines of go.mod, what is
                \* at each place ("dir", "closed" for a directory that cannot be listed,
                \* "go" or "broken" for a .go file, "other"), two places
    Imports,    \* the texts each file imports
    Skipped,    \* names of directories left out: testdata, vendor, .x, _x
    Malformed,  \* paths of a module directive NewResolver or Unquote refuses
    Dotted      \* characters that make a first segment a domain

(* The places of a tree are finitely many, and whatever holds something is *)
(* a directory.                                                            *)
Rooted(t) ==
    /\ IsFiniteSet(DOMAIN t)
    /\ \A p \in DOMAIN t :
        /\ p \in Seq(Name)
        /\ \A n \in 0..Len(p) - 1 :
               SubSeq(p, 1, n) \in DOMAIN t /\ t[SubSeq(p, 1, n)] = "dir"

(* A name is neither of the two texts that mean something in a path, and   *)
(* no module has an empty path.                                            *)
ASSUME ScanningAssumption ==
    /\ "/" \in Character /\ "." \in Character
    /\ Name \subseteq Character \ {"/", "."}
    /\ <<>> \in Malformed
    /\ Imports \subseteq Seq(Character)
    /\ \A i \in Inputs :
        /\ Len(i.lines) \in Nat /\ DOMAIN i.lines = 1..Len(i.lines)
        /\ \A k \in DOMAIN i.lines :
               /\ Len(i.lines[k]) \in Nat
               /\ Len(i.lines[k]) > 1 /\ i.lines[k][1] = "module" =>
                       i.lines[k][2] \in Seq(Character)
        /\ Rooted(i.tree)
        /\ i.moduleRoot \in Seq(Name) /\ i.scanRoot \in Seq(Name)

VARIABLES
    lines, tree, moduleRoot, scanRoot,
    phase,      \* "gomod", "root", "walk", "scanned", "empty" (ErrNoGoFiles); "refused"
                \* (no resolver for this go.mod), "failed" (the scan)
    line,       \* index into lines
    modulePath, \* at most one text
    pending,    \* places the walk has still to visit
    files       \* records [path, pkg, imports]

input == <<lines, tree, moduleRoot, scanRoot>>
vars == <<input, phase, line, modulePath, pending, files>>

Init ==
    /\ \E i \in Inputs :
        /\ lines = i.lines /\ tree = i.tree
        /\ moduleRoot = i.moduleRoot /\ scanRoot = i.scanRoot
    /\ phase = "gomod" /\ line = 1 /\ modulePath = {} /\ pending = {} /\ files = {}

Stop(why) == phase' = why /\ UNCHANGED <<input, line, modulePath, pending, files>>

Refuse == Stop("refused")
Fail == Stop("failed")

-----------------------------------------------------------------------------
(* readModulePath and NewResolver *)

AtLine == phase = "gomod" /\ line <= Len(lines)
Directive == lines[line] # <<>> /\ lines[line][1] = "module"

SkipLine ==
    /\ AtLine /\ ~Directive
    /\ line' = line + 1
    /\ UNCHANGED <<input, phase, modulePath, pending, files>>

(* Mutated form of Repeated: the last directive wins. *)
RepeatedAllowed == FALSE

Repeated == modulePath # {}

RefuseLine == AtLine /\ Directive /\ (Len(lines[line]) < 2 \/ Repeated) /\ Refuse

ReadDirective ==
    /\ AtLine /\ Directive /\ Len(lines[line]) >= 2 /\ ~Repeated
    /\ modulePath' = {lines[line][2]}
    /\ line' = line + 1
    /\ UNCHANGED <<input, phase, pending, files>>

(* NewResolver and unquoteModulePath refuse a path before or after the end *)
(* of the file: no file is scanned either way.                             *)
EndOfFile ==
    /\ phase = "gomod" /\ line > Len(lines)
    /\ IF modulePath = {} \/ modulePath \subseteq Malformed THEN Refuse ELSE Stop("root")

-----------------------------------------------------------------------------
(* Resolve *)

Module == CHOOSE p \in modulePath : TRUE

Prefix == Module \o <<"/">>

FirstSegment(text) ==
    {i \in DOMAIN text : \A j \in 1..i : text[j] # "/"}

Resolve(text) ==
    IF text = <<>> \/ text = <<"C">> THEN [path |-> <<>>, type |-> "unresolved"]
    ELSE IF text = Module THEN [path |-> <<".">>, type |-> "local"]
    ELSE IF IsPrefix(Prefix, text)
         THEN [path |-> SubSeq(text, Len(Prefix) + 1, Len(text)), type |-> "local"]
    ELSE [path |-> text,
          type |-> IF \E i \in FirstSegment(text) : text[i] \in Dotted THEN "module" ELSE "stdlib"]

-----------------------------------------------------------------------------
(* Scan *)

(* Where place is, seen from root. *)
Relative(root, place) == SubSeq(place, Len(root) + 1, Len(place))

Text(place) ==
    IF place = <<>> THEN <<".">>
    ELSE [i \in 1..2 * Len(place) - 1 |-> IF i % 2 = 1 THEN place[(i + 1) \div 2] ELSE "/"]

(* moduleRelativeScanRoot *)
ModuleRelativeRoot == Relative(moduleRoot, scanRoot)

OpenRoot ==
    /\ phase = "root"
    /\ IF ~IsPrefix(moduleRoot, scanRoot) \/ scanRoot \notin DOMAIN tree
            \/ (scanRoot \in DOMAIN tree /\ tree[scanRoot] \notin {"dir", "closed"})
       THEN Fail
       ELSE /\ phase' = "walk"
            /\ pending' = {scanRoot}
            /\ UNCHANGED <<input, line, modulePath, files>>

Children(p) == {q \in DOMAIN tree : Len(q) = Len(p) + 1 /\ IsPrefix(p, q)}

(* Mutated form of Skips: the root itself may be skipped. *)
SkipsRoot(p) == p # <<>> /\ Last(p) \in Skipped

Skips(p) == p # scanRoot /\ Last(p) \in Skipped

(* Mutated form of PackagePath: relative to the scan root, as the path is. *)
PackagePathOfRoot(p) == Text(Front(Relative(scanRoot, p)))

PackagePath(p) == Text(Front(ModuleRelativeRoot \o Relative(scanRoot, p)))

File(p) ==
    [path |-> Text(Relative(scanRoot, p)), pkg |-> PackagePath(p),
     imports |-> {Resolve(text) : text \in Imports}]

(* Nothing is read of a directory that is skipped. *)
Unreadable(p) == tree[p] = "broken" \/ (tree[p] = "closed" /\ ~Skips(p))

Visit ==
    /\ phase = "walk"
    /\ \E p \in pending :
        /\ ~Unreadable(p)
        /\ pending' = (pending \ {p}) \cup
                          IF tree[p] = "dir" /\ ~Skips(p) THEN Children(p) ELSE {}
        /\ files' = files \cup IF tree[p] = "go" THEN {File(p)} ELSE {}
    /\ UNCHANGED <<input, phase, line, modulePath>>

(* walkErr, or the error of parseFile. *)
WalkFails == phase = "walk" /\ (\E p \in pending : Unreadable(p)) /\ Fail

(* The files are sorted by their paths, which are distinct. *)
EndWalk ==
    /\ phase = "walk" /\ pending = {}
    /\ phase' = IF files = {} THEN "empty" ELSE "scanned"
    /\ UNCHANGED <<input, line, modulePath, pending, files>>

Finished == phase \in {"scanned", "empty", "refused", "failed"}
Return == Finished /\ UNCHANGED vars

Next ==
    \/ SkipLine \/ RefuseLine \/ ReadDirective \/ EndOfFile
    \/ OpenRoot \/ Visit \/ WalkFails \/ EndWalk \/ Return

Spec == Init /\ [][Next]_vars

-----------------------------------------------------------------------------
(* Properties *)

(* The places below the scan root that no skipped directory hides. *)
Visible ==
    {p \in DOMAIN tree : IsPrefix(scanRoot, p) /\ p # scanRoot
        /\ \A n \in Len(scanRoot) + 1..Len(p) - 1 : p[n] \notin Skipped}

(* A finished walk holds every .go file below the root exactly once, the   *)
(* root itself being scanned whatever its name; none of them was broken,   *)
(* and no directory that cannot be listed was taken for an empty one.      *)
(* ErrNoGoFiles means that there are none.                                 *)
EveryFileOnce ==
    phase \in {"scanned", "empty"} =>
        LET sources == {p \in Visible : tree[p] \in {"go", "broken"}}
        IN  /\ {f.path : f \in files} = {Text(Relative(scanRoot, p)) : p \in sources}
            /\ Cardinality(files) = Cardinality(sources)
            /\ \A p \in sources : tree[p] = "go"
            /\ \A p \in Visible \cup {scanRoot} :
                   tree[p] = "closed" => p # scanRoot /\ Last(p) \in Skipped

(* DESIGN.ja.md:276: PackagePath and ResolvedPath use the same coordinates *)
(* also when a part of the module is scanned. The import path of a         *)
(* directory, which is the module path followed by the directory's place   *)
(* in the module, resolves to the package the files of it are given, save  *)
(* in a module named C, whose root is taken for cgo.                       *)
SameCoordinates ==
    phase = "scanned" /\ Module # <<"C">> =>
        \A p \in Visible : tree[p] = "go" =>
            LET directory == Front(Relative(moduleRoot, p))
                text == IF directory = <<>> THEN Module ELSE Module \o <<"/">> \o Text(directory)
            IN  \A f \in files : f.path = Text(Relative(scanRoot, p)) =>
                    Resolve(text) = [path |-> f.pkg, type |-> "local"]

(* An import is local exactly when its segments begin with those of the    *)
(* module: a module whose name begins like this one is another module.     *)
LocalMeansInside ==
    phase = "scanned" =>
        \A text \in Imports : text # <<>> /\ text # <<"C">> =>
            Resolve(text).type = "local" <=>
                IsPrefix(Module, text) /\ (text # Module => text[Len(Module) + 1] = "/")

(* An import leads to a scanned package exactly when it names a directory  *)
(* of this module: paths of packages and of imports are one name space.    *)
OneNameSpace == SameCoordinates /\ LocalMeansInside

(* The lines that begin with "module", and the one that declares the path: *)
(* there is no other such line, and it has a path that is one.             *)
Directives == {i \in DOMAIN lines : lines[i] # <<>> /\ lines[i][1] = "module"}

Declares(i) == Directives = {i} /\ Len(lines[i]) > 1 /\ lines[i][2] \notin Malformed

(* A module file is read exactly when it has one module directive, with a  *)
(* path, and the resolver goes by that path: a directive without a path or *)
(* a second one, be it the same, is never passed over, and no other line   *)
(* before, between or after stands in the way.                             *)
OneModulePath ==
    /\ phase = "refused" => ~\E i \in Directives : Declares(i)
    /\ phase \notin {"gomod", "refused"} =>
           \E i \in Directives : Declares(i) /\ modulePath = {lines[i][2]}
=============================================================================

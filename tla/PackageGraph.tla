---------------------------- MODULE PackageGraph ----------------------------
(***************************************************************************)
(* internal/graph.Build: the package-level import graph of a scan.         *)
(*                                                                         *)
(* Build walks the scanned files twice. The first loop registers the       *)
(* package of every file; the second adds the local imports one by one,    *)
(* remembering which files form an edge (its provenance). Edges inside one *)
(* package are left out of the graph but remembered in "imported".         *)
(*                                                                         *)
(* A path is a member of Path, a spelling; Clean maps it to the canonical  *)
(* one, as path.Clean does, and NoPath is the empty string, which          *)
(* cleanPackagePath rejects. The maps forward and reverse always have the  *)
(* same keys, kept in "known"; a missing key of an inner map is the empty  *)
(* set, since the code never stores an empty one.                          *)
(***************************************************************************)
EXTENDS Integers, Sequences

CONSTANTS
    Path,       \* the spellings of package directories
    NoPath,     \* the empty path
    Clean,      \* path.Clean, a function on Path
    FileId,     \* module-relative names of source files
    Inputs      \* the lists of scanned files Build may be called with

Package == {Clean[p] : p \in Path}

Import == [type : {"local", "other"}, resolved : Path \cup {NoPath}]

SourceFile == [path : FileId, pkg : Path \cup {NoPath}, imports : Seq(Import)]

ASSUME CleanAssumption ==
    /\ Clean \in [Path -> Path]
    /\ \A p \in Path : Clean[Clean[p]] = Clean[p]
    /\ NoPath \notin Path

ASSUME InputsAssumption == Inputs \subseteq Seq(SourceFile)

VARIABLES
    files,      \* the argument of Build
    phase,      \* "register": first loop, "link": second loop, "built"
    file,       \* index of the current file in either loop
    imp,        \* index of the current import of that file
    known,      \* the keys of the maps forward and reverse
    forward,    \* forward[p][q]: the files of p that import q
    reverse,    \* reverse[q]: the packages that import q
    imported    \* every package some local import resolves to

vars == <<files, phase, file, imp, known, forward, reverse, imported>>

NoEdges == [q \in Package |-> {}]

Init ==
    /\ files \in Inputs
    /\ phase = "register"
    /\ file = 1
    /\ imp = 1
    /\ known = {}
    /\ forward = [p \in Package |-> NoEdges]
    /\ reverse = [p \in Package |-> {}]
    /\ imported = {}

-----------------------------------------------------------------------------

(* The file a loop is at, and the import of it the second loop is at. *)
Current == files[file]
CurrentImport == Current.imports[imp]

(* An import that forms no edge: not local, or not resolved to a directory. *)
Ignored(i) == i.type # "local" \/ i.resolved = NoPath

(* Registration that keeps no edge of a package already known. *)
EmptyEntry(p) ==
    /\ known' = known \cup {p}
    /\ forward' = [forward EXCEPT ![p] = NoEdges]
    /\ reverse' = [reverse EXCEPT ![p] = {}]

(* First loop, one iteration. *)
Register ==
    /\ phase = "register"
    /\ file <= Len(files)
    /\ IF Current.pkg = NoPath
       THEN UNCHANGED <<known, forward, reverse>>
       ELSE EmptyEntry(Clean[Current.pkg])
    /\ file' = file + 1
    /\ UNCHANGED <<files, phase, imp, imported>>

BeginLinking ==
    /\ phase = "register"
    /\ file > Len(files)
    /\ phase' = "link"
    /\ file' = 1
    /\ imp' = 1
    /\ UNCHANGED <<files, known, forward, reverse, imported>>

(* Second loop: the file has no package, or its imports are exhausted. *)
NextFile ==
    /\ phase = "link"
    /\ file <= Len(files)
    /\ Current.pkg = NoPath \/ imp > Len(Current.imports)
    /\ file' = file + 1
    /\ imp' = 1
    /\ UNCHANGED <<files, phase, known, forward, reverse, imported>>

AtImport ==
    /\ phase = "link"
    /\ file <= Len(files)
    /\ Current.pkg # NoPath
    /\ imp <= Len(Current.imports)

SkipImport ==
    /\ AtImport
    /\ Ignored(CurrentImport)
    /\ imp' = imp + 1
    /\ UNCHANGED <<files, phase, file, known, forward, reverse, imported>>

(* Mutated form of Target: the resolved path is used as it is spelled. *)
TargetAsSpelled == CurrentImport.resolved

Target == Clean[CurrentImport.resolved]
Source == Clean[Current.pkg]

(* Mutated form of SelfImport: the test for a self edge comes first. *)
SelfImportUnrecorded ==
    /\ AtImport
    /\ ~Ignored(CurrentImport)
    /\ Source = Target
    /\ imp' = imp + 1
    /\ UNCHANGED <<files, phase, file, known, forward, reverse, imported>>

SelfImport ==
    /\ AtImport
    /\ ~Ignored(CurrentImport)
    /\ Source = Target
    /\ imported' = imported \cup {Target}
    /\ imp' = imp + 1
    /\ UNCHANGED <<files, phase, file, known, forward, reverse>>

(* Mutated forms of AddEdge. The first gives the target a fresh entry even  *)
(* when it has one; the second keeps only the last file that forms an edge; *)
(* the third records the reverse edge only with the first file.             *)
AddEdgeToFreshTarget ==
    /\ known' = known \cup {Target}
    /\ forward' = [forward EXCEPT ![Target] = NoEdges,
                                  ![Source][Target] = @ \cup {Current.path}]
    /\ reverse' = [reverse EXCEPT ![Target] = {Source}]

AddEdgeLastFile ==
    /\ known' = known \cup {Target}
    /\ forward' = [forward EXCEPT ![Source][Target] = {Current.path}]
    /\ reverse' = [reverse EXCEPT ![Target] = @ \cup {Source}]

AddEdgeSourceOnly ==
    /\ known' = known
    /\ forward' = [forward EXCEPT ![Source][Target] = @ \cup {Current.path}]
    /\ reverse' = [reverse EXCEPT ![Target] = @ \cup {Source}]

(* A target without scanned files becomes a leaf: a key with no edges. *)
AddEdge ==
    /\ known' = known \cup {Target}
    /\ forward' = [forward EXCEPT ![Source][Target] = @ \cup {Current.path}]
    /\ reverse' = [reverse EXCEPT ![Target] = @ \cup {Source}]

LinkImport ==
    /\ AtImport
    /\ ~Ignored(CurrentImport)
    /\ Source # Target
    /\ imported' = imported \cup {Target}
    /\ AddEdge
    /\ imp' = imp + 1
    /\ UNCHANGED <<files, phase, file>>

Return ==
    /\ phase = "link"
    /\ file > Len(files)
    /\ phase' = "built"
    /\ UNCHANGED <<files, file, imp, known, forward, reverse, imported>>

(* The caller holds the graph; nothing changes it any more. *)
Returned == phase = "built" /\ UNCHANGED vars

Next ==
    \/ Register
    \/ BeginLinking
    \/ NextFile
    \/ SkipImport
    \/ SelfImport
    \/ LinkImport
    \/ Return
    \/ Returned

Spec == Init /\ [][Next]_vars

-----------------------------------------------------------------------------
(* The queries on a finished graph. *)

Dependents(p) == IF p = NoPath THEN {} ELSE reverse[Clean[p]]

Dependencies(p) ==
    IF p = NoPath THEN {} ELSE {q \in Package : forward[Clean[p]][q] # {}}

IsImported(p) == p # NoPath /\ Clean[p] \in imported

-----------------------------------------------------------------------------
(* What the input says, independently of the loops. *)

(* Import i of file k is a local import of q by package p. *)
Imports(k, i, p, q) ==
    /\ files[k].pkg # NoPath
    /\ Clean[files[k].pkg] = p
    /\ ~Ignored(files[k].imports[i])
    /\ Clean[files[k].imports[i].resolved] = q

(* The second loop has passed import i of file k. *)
Linked(k, i) ==
    \/ phase = "built"
    \/ phase = "link" /\ (k < file \/ (k = file /\ i < imp))

LinkedImport(p, q) ==
    \E k \in 1..Len(files) : \E i \in 1..Len(files[k].imports) :
        Linked(k, i) /\ Imports(k, i, p, q)

-----------------------------------------------------------------------------
(* Properties *)

TypeOK ==
    /\ files \in Inputs
    /\ phase \in {"register", "link", "built"}
    /\ file \in 1..(Len(files) + 1)
    /\ imp \in Nat \ {0}
    /\ known \subseteq Package
    /\ forward \in [Package -> [Package -> SUBSET FileId]]
    /\ reverse \in [Package -> SUBSET Package]
    /\ imported \subseteq Package

(* At every step of the second loop, the provenance of an edge is exactly  *)
(* the set of files whose imports seen so far form it, whatever the order  *)
(* of files and however many files share a package; a package has no edge  *)
(* to itself.                                                              *)
EdgesExact ==
    \A p, q \in Package :
        forward[p][q] =
            {f \in FileId :
                /\ p # q
                /\ \E k \in 1..Len(files) :
                    /\ files[k].path = f
                    /\ \E i \in 1..Len(files[k].imports) :
                        Linked(k, i) /\ Imports(k, i, p, q)}

(* reverse is the transpose of forward: Dependents and Dependencies, FanIn *)
(* and FanOut and both closures speak of one relation.                     *)
ReverseIsTranspose ==
    \A p, q \in Package : p \in reverse[q] <=> forward[p][q] # {}

(* The second loop never writes into the nil map of a package that was not *)
(* registered, and no edge leads to a package that is not a key, which     *)
(* would make the closure drop it when it is a seed.                       *)
NoNilMapWrite ==
    /\ AtImport => Source \in known
    /\ \A p, q \in Package : forward[p][q] # {} => p \in known /\ q \in known

(* The keys of a finished graph are the packages of its files and the      *)
(* targets of their local imports: nothing else is ever a node, so a rule  *)
(* that matches packages sees only observed ones.                          *)
KnownExact ==
    phase = "built" =>
        known = {p \in Package :
                    \/ \E k \in 1..Len(files) :
                        files[k].pkg # NoPath /\ Clean[files[k].pkg] = p
                    \/ \E q \in Package : LinkedImport(q, p)}

(* imported holds every local target, those of same-package imports too:   *)
(* the orphan test must not report a package its own external tests import *)
(* although the package has no dependents.                                 *)
ImportedExact ==
    imported = {q \in Package : \E p \in Package : LinkedImport(p, q)}

(* The maps say what the imports say, at every step and for any order,     *)
(* spelling and repetition of files and imports.                           *)
MapsExact == EdgesExact /\ ReverseIsTranspose /\ KnownExact /\ ImportedExact

(* The second loop only adds: a later file never takes a file off an edge, *)
(* a dependent off a package, or a package out of the graph.               *)
OnlyGrows ==
    [][phase # "register" =>
        /\ known \subseteq known'
        /\ imported \subseteq imported'
        /\ \A q \in Package :
            /\ reverse[q] \subseteq reverse'[q]
            /\ \A p \in Package : forward[p][q] \subseteq forward'[p][q]]_vars

=============================================================================

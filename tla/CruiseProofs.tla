---------------------------- MODULE CruiseProofs ----------------------------
(* Runs fail, pass and honour a generated baseline as they promise, for     *)
(* every tree, every number of files, runs and edits, and every finding a   *)
(* configuration may have.                                                  *)
EXTENDS Cruise, FiniteSetTheorems, TLAPS

Stages == {"idle", "usage", "config", "baseline", "module", "scan", "evaluate", "output", "done"}

Sources == [File -> Text]
Origin == [config : Config, goMod : GoMod, sources : Sources]

(* The stages a run goes through between its start and its end. *)
Running == stage \notin {"idle", "done"}

(* A run that got to its end, having validated. *)
Validated == stage = "done" /\ failure = "none" /\ Validating

(* The type invariant of the program and of the tree it runs on. *)
TypeOK ==
    /\ disk \in [config : Config, goMod : GoMod, sources : Sources, baseline : BaselineFile]
    /\ args \in Arguments
    /\ stage \in Stages
    /\ stdout \in {"nothing", "version", "report", "baseline"}
    /\ failure \in Stages \cup {"none"}
    /\ exit \in 0..255
    /\ runs \in Nat /\ edits \in Nat
    /\ read.baseline \in BaselineFile
    /\ read = [config |-> read.config, goMod |-> read.goMod, sources |-> read.sources,
               baseline |-> read.baseline]

-----------------------------------------------------------------------------
(* The inductive invariant. *)

(* A baseline that says where it came from holds exactly its findings. *)
Honest(b) ==
    b.origin # NoOrigin =>
        /\ b.origin \in Origin
        /\ b.entries = {v.id : v \in Found(b.origin.config, b.origin.sources)}

History == Honest(disk.baseline) /\ Honest(read.baseline)

(* Nothing is said before the end. *)
Silent == Running => failure = "none" /\ stdout = "nothing" /\ exit = 0

(* What the run has read by now. *)
Reading ==
    /\ stage \in {"idle", "usage", "config"} => read = NothingRead
    /\ stage \in {"baseline", "module", "scan", "evaluate", "output"} => read.config \in Config
    /\ stage \in {"scan", "evaluate", "output"} => read.goMod \in GoMod
    /\ stage = "scan" =>
           /\ DOMAIN read.sources \subseteq File
           /\ read.sources = [f \in DOMAIN read.sources |-> read.sources[f]]
           /\ \A f \in DOMAIN read.sources : read.sources[f] \in Text
    /\ stage \in {"evaluate", "output"} => read.sources \in Sources
    /\ stage \in {"baseline", "module"} => read.sources = <<>>
    /\ stage = "baseline" => read.baseline.entries = Missing
    /\ stage \in {"module", "scan", "evaluate", "output"} => (args.baseline <=> WithBaseline)

(* A program that has come past its usage was used properly. *)
Usage ==
    /\ stage = "usage" => args.entry = "cli"
    /\ stage \in {"config", "baseline", "module", "scan", "evaluate", "output"} =>
           (args.entry = "cli" => ~Misused /\ args.parse = "ok" /\ args.version = "no")

(* The result is that of applying the entries to the findings. *)
Decided ==
    stage = "output" => result = Applied /\ read.baseline.entries # Broken

(* Standard output, status and result of a run that is over. *)
Ended ==
    stage = "done" =>
        /\ failure # "none" =>
               /\ exit \in {1, 2}
               /\ failure # "output" => stdout = "nothing"
               /\ failure = "usage" => read = NothingRead
        /\ Validated =>
               /\ Inputs \in Origin
               /\ args.baseline <=> WithBaseline
               /\ read.baseline.entries # Broken
               /\ result = Applied
               /\ IF args.entry = "cli" THEN exit = ExitCode(ErrorCount)
                  ELSE exit = Verdict(ErrorCount)

Inv == TypeOK /\ History /\ Silent /\ Reading /\ Usage /\ Decided /\ Ended

-----------------------------------------------------------------------------
(* Steps that leave what they do not concern alone. *)

LEMMA ArgumentFields ==
    ASSUME NEW a \in Arguments
    PROVE  /\ a.entry \in {"cli", "test"}
           /\ a.version \in {"no", "only", "mixed"}
           /\ a.parse \in {"ok", "help", "error"}
           /\ a.generate \in BOOLEAN /\ a.baseline \in BOOLEAN
           /\ a.entry = "test" => ~a.generate
BY ArgumentsAssumption

LEMMA InitInv == ASSUME Init PROVE Inv
<1>1. TypeOK
  <2>1. disk \in Trees /\ disk.baseline.entries = Missing
    BY DEF Init
  <2>2. PICK b \in Baselines : disk.baseline = [entries |-> b, origin |-> NoOrigin]
    BY <2>1 DEF Trees
  <2>3. disk.baseline \in BaselineFile
    BY <2>1, <2>2 DEF BaselineFile
  <2>4. disk \in [config : Config, goMod : GoMod, sources : Sources, baseline : BaselineFile]
    BY <2>1, <2>3 DEF Trees, Sources
  <2>5. NothingRead.baseline \in BaselineFile
    BY DEF NothingRead, BaselineFile
  <2> QED
    BY <2>4, <2>5 DEF Init, TypeOK, Stages, NothingRead
<1>2. History
  BY DEF Init, History, Honest, Trees, NothingRead
<1>3. Silent /\ Reading /\ Usage /\ Decided /\ Ended
  BY DEF Init, Silent, Running, Reading, Usage, Decided, Ended
<1> QED
  BY <1>1, <1>2, <1>3 DEF Inv

(* The end of a failing run. *)
LEMMA FailInv ==
    ASSUME Inv, Running, Fail
    PROVE  Inv'
<1>1. stage \in Stages /\ stage # "idle" /\ stage # "done" /\ stage' = "done" /\ failure' = stage
  BY DEF Inv, TypeOK, Running, Fail
<1>2. stdout = "nothing" /\ failure = "none"
  BY DEF Inv, Silent
<1>3. TypeOK'
  BY <1>1 DEF Inv, TypeOK, Fail, FailedOutput, Stages
<1>4. History'
  BY DEF Inv, History, Honest, Fail
<1>5. (Silent /\ Reading /\ Usage /\ Decided)'
  BY <1>1 DEF Silent, Running, Reading, Usage, Decided
<1>6. Ended'
  <2>1. failure' # "none"
    BY <1>1 DEF Stages
  <2>2. exit' \in {1, 2} /\ stdout' = "nothing" /\ read' = read
    BY <1>2 DEF Fail, FailedOutput
  <2>3. stage = "usage" => read = NothingRead
    BY DEF Inv, Reading
  <2> QED
    BY <1>1, <2>1, <2>2, <2>3 DEF Ended, Validated, Fail
<1> QED
  BY <1>3, <1>4, <1>5, <1>6 DEF Inv

(* A step that leaves a run alone. *)
LEMMA SameRun ==
    ASSUME Inv, TypeOK', History',
           UNCHANGED <<args, stage, read, result, stdout, failure, exit>>
    PROVE  Inv'
<1>1. Silent' /\ Usage'
  BY DEF Inv, Silent, Running, Usage, Misused
<1>2. Reading'
  BY DEF Inv, Reading, WithBaseline
<1>3. Decided' /\ Ended'
  <2>1. Applied' = Applied
    BY DEF Applied, Findings, Entries, WithBaseline
  <2>2. ErrorCount' = ErrorCount
    BY DEF ErrorCount, Errors
  <2>3. Validated' = Validated
    BY DEF Validated, Validating
  <2>4. /\ ExitCode(ErrorCount)' = ExitCode(ErrorCount)
        /\ Verdict(ErrorCount)' = Verdict(ErrorCount)
    BY <2>2 DEF ExitCode, Verdict
  <2>5. Decided'
    BY <2>1 DEF Inv, Decided
  <2>6. Ended'
    BY <2>1, <2>2, <2>3, <2>4 DEF Inv, Ended, WithBaseline, Inputs
  <2> QED
    BY <2>5, <2>6
<1> QED
  BY <1>1, <1>2, <1>3 DEF Inv

LEMMA EditInv == ASSUME Inv, Edit PROVE Inv'
<1>1. UNCHANGED <<args, stage, read, result, stdout, failure, exit, runs>> /\ edits' = edits + 1
  BY DEF Edit
<1>2. disk \in [config : Config, goMod : GoMod, sources : Sources, baseline : BaselineFile]
  BY DEF Inv, TypeOK
<1>3. /\ disk' \in [config : Config, goMod : GoMod, sources : Sources, baseline : BaselineFile]
      /\ disk'.baseline = disk.baseline \/ disk'.baseline.origin = NoOrigin
  <2>1. CASE \E c \in Config : disk' = [disk EXCEPT !.config = c]
    BY <1>2, <2>1
  <2>2. CASE \E m \in GoMod : disk' = [disk EXCEPT !.goMod = m]
    BY <1>2, <2>2
  <2>3. CASE \E f \in File, x \in Text : disk' = [disk EXCEPT !.sources[f] = x]
    BY <1>2, <2>3 DEF Sources
  <2>4. CASE \E b \in Baselines :
                disk' = [disk EXCEPT !.baseline = [entries |-> b, origin |-> NoOrigin]]
    <3>1. PICK b \in Baselines :
                disk' = [disk EXCEPT !.baseline = [entries |-> b, origin |-> NoOrigin]]
      BY <2>4
    <3>2. [entries |-> b, origin |-> NoOrigin] \in BaselineFile
      BY FindingsAssumption DEF BaselineFile
    <3> QED
      BY <1>2, <3>1, <3>2
  <2> QED
    BY <2>1, <2>2, <2>3, <2>4 DEF Edit
<1>4. TypeOK'
  BY <1>1, <1>3 DEF Inv, TypeOK
<1>5. History'
  BY <1>1, <1>3 DEF Inv, History, Honest
<1> QED
  BY <1>1, <1>4, <1>5, SameRun

LEMMA StartInv == ASSUME Inv, Start PROVE Inv'
<1>1. /\ args' \in Arguments
      /\ stage' = IF args'.entry = "cli" THEN "usage" ELSE "config"
      /\ read' = NothingRead /\ result' = NoResult /\ stdout' = "nothing"
      /\ failure' = "none" /\ exit' = 0 /\ runs' = runs + 1 /\ edits' = edits
  BY DEF Start
<1>2. disk' = disk \/ disk' = [disk EXCEPT !.baseline = [entries |-> Broken, origin |-> NoOrigin]]
  BY DEF Start, Opened
<1>3. [entries |-> Broken, origin |-> NoOrigin] \in BaselineFile /\ NothingRead.baseline \in BaselineFile
  BY DEF BaselineFile, NothingRead
<1>4. TypeOK'
  BY <1>1, <1>2, <1>3 DEF Inv, TypeOK, Stages, NothingRead
<1>5. Honest(disk'.baseline)
  <2>1. CASE disk' = disk
    BY <2>1 DEF Inv, History, Honest
  <2>2. CASE disk' = [disk EXCEPT !.baseline = [entries |-> Broken, origin |-> NoOrigin]]
    BY <2>2 DEF Inv, TypeOK, Honest
  <2> QED
    BY <1>2, <2>1, <2>2
<1>6. History'
  BY <1>1, <1>5 DEF History, Honest, NothingRead
<1>7. (Silent /\ Reading /\ Usage /\ Decided /\ Ended)'
  BY <1>1, ArgumentFields DEF Silent, Running, Reading, Usage, Misused, Decided, Ended
<1> QED
  BY <1>4, <1>6, <1>7 DEF Inv

(* The steps at the usage. *)
LEMMA UsageInv ==
    ASSUME Inv, PrintVersion \/ PrintHelp \/ CheckUsage
    PROVE  Inv'
<1>1. stage = "usage" /\ Running
  BY DEF PrintVersion, PrintHelp, CheckUsage, Running
<1>2. CASE Fail
  BY <1>1, <1>2, FailInv
<1>3. CASE ~Fail
  <2>1. UNCHANGED <<disk, args, read, result, failure, exit, runs, edits>>
    BY <1>3 DEF PrintVersion, PrintHelp, CheckUsage, Continue
  <2>2. \/ /\ stage' = "done"
           /\ args.version = "only" \/ args.parse = "help"
           /\ stdout' \in {"version", stdout}
        \/ /\ stage' = "config"
           /\ ~Misused /\ args.parse # "help" /\ args.version # "only"
           /\ stdout' = stdout
    BY <1>3 DEF PrintVersion, PrintHelp, CheckUsage, Continue
  <2>3. args \in Arguments /\ args.entry = "cli" /\ failure = "none" /\ exit = 0
        /\ stdout = "nothing" /\ read = NothingRead
    BY <1>1 DEF Inv, TypeOK, Silent, Usage, Reading
  <2>4. TypeOK'
    BY <2>1, <2>2 DEF Inv, TypeOK, Stages
  <2>5. History'
    BY <2>1 DEF Inv, History, Honest
  <2>6. CASE stage' = "done"
    <3>1. ~Validated'
      BY <2>1, <2>2, <2>3, <2>6 DEF Validated, Validating
    <3> QED
      BY <2>1, <2>3, <2>4, <2>5, <2>6, <3>1
      DEF Inv, Silent, Running, Reading, Usage, Decided, Ended
  <2>7. CASE stage' = "config"
    <3>1. ~Misused /\ args.parse # "help" /\ args.version # "only" /\ stdout' = stdout
      BY <2>2, <2>7
    <3>2. args.parse = "ok" /\ args.version = "no"
      BY <2>3, <3>1, ArgumentFields DEF Misused
    <3>3. Usage'
      BY <2>1, <2>7, <3>1, <3>2 DEF Usage, Misused
    <3> QED
      BY <2>1, <2>3, <2>4, <2>5, <2>7, <3>1, <3>3
      DEF Inv, Silent, Running, Reading, Decided, Ended
  <2> QED
    BY <2>2, <2>6, <2>7
<1> QED
  BY <1>2, <1>3

(* A run that goes on from a stage of reading to the next. *)
LEMMA OnwardInv ==
    ASSUME Inv, NEW next \in {"baseline", "module", "scan", "evaluate"}, Continue(next),
           stage \in {"config", "baseline", "module", "scan"}, TypeOK', History', Reading'
    PROVE  Inv'
<1>1. /\ stage' = next
      /\ UNCHANGED <<disk, args, result, stdout, failure, exit, runs, edits>>
  BY DEF Continue
<1>2. Silent'
  BY <1>1 DEF Inv, Silent, Running
<1>3. Usage'
  BY <1>1 DEF Inv, Usage, Misused
<1>4. Decided' /\ Ended'
  BY <1>1 DEF Decided, Ended
<1> QED
  BY <1>2, <1>3, <1>4 DEF Inv

LEMMA LoadFileInv == ASSUME Inv, LoadFile PROVE Inv'
<1>1. CASE Fail
  BY <1>1, FailInv DEF LoadFile, Running
<1>2. CASE ~Fail
  <2>1. /\ stage = "config" /\ stage' = "baseline" /\ Continue("baseline")
        /\ read' = [read EXCEPT !.config = disk.config]
        /\ UNCHANGED <<disk, args, result, stdout, failure, exit, runs, edits>>
    BY <1>2 DEF LoadFile, Continue
  <2>2. read = NothingRead
    BY <2>1 DEF Inv, Reading
  <2>3. read'.baseline = read.baseline /\ read'.config \in Config /\ read'.sources = <<>>
        /\ read.baseline.entries = Missing
    BY <2>1, <2>2 DEF Inv, TypeOK, NothingRead
  <2>4. TypeOK'
    BY <2>1, <2>3 DEF Inv, TypeOK, Stages
  <2>5. History'
    BY <2>1, <2>3 DEF Inv, History, Honest
  <2>6. Reading'
    BY <2>1, <2>3 DEF Reading
  <2> QED
    BY <2>1, <2>4, <2>5, <2>6, OnwardInv
<1> QED
  BY <1>1, <1>2

LEMMA LoadBaselineFileInv == ASSUME Inv, LoadBaselineFile PROVE Inv'
<1>1. CASE Fail
  BY <1>1, FailInv DEF LoadBaselineFile, Running
<1>2. CASE ~Fail
  <2>1. /\ stage = "baseline" /\ stage' = "module" /\ Continue("module")
        /\ UNCHANGED <<disk, args, result, stdout, failure, exit, runs, edits>>
        /\ IF ~args.baseline THEN read' = read
           ELSE disk.baseline.entries # Missing
                /\ read' = [read EXCEPT !.baseline = disk.baseline]
    BY <1>2 DEF LoadBaselineFile, Continue
  <2>2. read.config \in Config /\ read.sources = <<>> /\ read.baseline.entries = Missing
    BY <2>1 DEF Inv, Reading
  <2>3. args.baseline \in BOOLEAN
    BY ArgumentFields DEF Inv, TypeOK
  <2>4. read'.config \in Config /\ read'.sources = <<>> /\ (args.baseline <=> read'.baseline.entries # Missing)
    BY <2>1, <2>2, <2>3 DEF Inv, TypeOK
  <2>5. TypeOK'
    BY <2>1 DEF Inv, TypeOK, Stages
  <2>6. History'
    BY <2>1 DEF Inv, TypeOK, History, Honest
  <2>7. Reading'
    BY <2>1, <2>4 DEF Reading, WithBaseline
  <2> QED
    BY <2>1, <2>5, <2>6, <2>7, OnwardInv
<1> QED
  BY <1>1, <1>2

LEMMA ReadModuleInv == ASSUME Inv, ReadModule PROVE Inv'
<1>1. CASE Fail
  BY <1>1, FailInv DEF ReadModule, Running
<1>2. CASE ~Fail
  <2>1. /\ stage = "module" /\ stage' = "scan" /\ Continue("scan")
        /\ read' = [read EXCEPT !.goMod = disk.goMod]
        /\ UNCHANGED <<disk, args, result, stdout, failure, exit, runs, edits>>
    BY <1>2 DEF ReadModule, Continue
  <2>2. read'.baseline = read.baseline /\ read'.goMod \in GoMod
        /\ read'.config = read.config /\ read'.sources = read.sources
    BY <2>1 DEF Inv, TypeOK
  <2>3. TypeOK'
    BY <2>1, <2>2 DEF Inv, TypeOK, Stages
  <2>4. History'
    BY <2>1, <2>2 DEF Inv, History, Honest
  <2>5. read.sources = <<>>
    BY <2>1 DEF Inv, Reading
  <2>6. DOMAIN <<>> = {} /\ <<>> = [f \in {} |-> <<>>[f]]
    OBVIOUS
  <2>7. Reading'
    BY <2>1, <2>2, <2>5, <2>6 DEF Inv, Reading, WithBaseline
  <2> QED
    BY <2>1, <2>3, <2>4, <2>7, OnwardInv
<1> QED
  BY <1>1, <1>2

LEMMA ScanInv == ASSUME Inv, ScanFile \/ ScanFails \/ ScanEnd PROVE Inv'
<1>1. stage = "scan"
  BY DEF ScanFile, ScanFails, ScanEnd
<1>2. CASE Fail
  BY <1>1, <1>2, FailInv DEF Running
<1>3. CASE ~Fail /\ ScanFile
  <2>1. PICK f \in Unread :
           /\ read' = [read EXCEPT !.sources =
                    [g \in DOMAIN read.sources \cup {f} |->
                        IF g = f THEN disk.sources[f] ELSE read.sources[g]]]
           /\ Continue("scan")
    BY <1>3 DEF ScanFile
  <2>2. UNCHANGED <<disk, args, result, stdout, failure, exit, runs, edits>> /\ stage' = "scan"
    BY <2>1 DEF Continue
  <2> DEFINE sources == [g \in DOMAIN read.sources \cup {f} |->
                            IF g = f THEN disk.sources[f] ELSE read.sources[g]]
  <2>3. /\ read'.baseline = read.baseline /\ read'.goMod = read.goMod
        /\ read'.config = read.config /\ read'.sources = sources
    BY <2>1 DEF Inv, TypeOK
  <2>4. f \in File /\ disk.sources[f] \in Text
    BY DEF Inv, TypeOK, Unread, Sources
  <2>5. /\ DOMAIN sources \subseteq File
        /\ sources = [g \in DOMAIN sources |-> sources[g]]
        /\ \A g \in DOMAIN sources : sources[g] \in Text
    BY <1>1, <2>4 DEF Inv, Reading
  <2>6. TypeOK'
    BY <2>1, <2>2, <2>3 DEF Inv, TypeOK, Stages
  <2>7. History'
    BY <2>2, <2>3 DEF Inv, History, Honest
  <2>8. Reading'
    BY <1>1, <2>2, <2>3, <2>5 DEF Inv, Reading, WithBaseline
  <2> QED
    BY <1>1, <2>1, <2>6, <2>7, <2>8, OnwardInv
<1>4. CASE ~Fail /\ ScanEnd
  <2>1. Unread = {} /\ read' = read /\ Continue("evaluate")
    BY <1>4 DEF ScanEnd
  <2>2. UNCHANGED <<disk, args, result, stdout, failure, exit, runs, edits>> /\ stage' = "evaluate"
    BY <2>1 DEF Continue
  <2>3. DOMAIN read.sources = File
    BY <1>1, <2>1 DEF Inv, Reading, Unread
  <2>4. read.sources \in Sources
    BY <1>1, <2>3 DEF Inv, Reading, Sources
  <2>5. TypeOK'
    BY <2>1, <2>2 DEF Inv, TypeOK, Stages
  <2>6. History'
    BY <2>1, <2>2 DEF Inv, History, Honest
  <2>7. Reading'
    BY <1>1, <2>1, <2>2, <2>4 DEF Inv, Reading, WithBaseline
  <2> QED
    BY <1>1, <2>1, <2>5, <2>6, <2>7, OnwardInv
<1> QED
  BY <1>2, <1>3, <1>4 DEF ScanFails

LEMMA EvaluateInv == ASSUME Inv, Evaluate \/ EvaluationFails PROVE Inv'
<1>1. stage = "evaluate"
  BY DEF Evaluate, EvaluationFails
<1>2. CASE Fail
  BY <1>1, <1>2, FailInv DEF Running
<1>3. CASE ~Fail
  <2>1. /\ read.baseline.entries # Broken /\ result' = Applied /\ stage' = "output"
        /\ UNCHANGED <<disk, args, read, stdout, failure, exit, runs, edits>>
    BY <1>3 DEF Evaluate, EvaluationFails
  <2>2. TypeOK'
    BY <2>1 DEF Inv, TypeOK, Stages
  <2>3. History'
    BY <2>1 DEF Inv, History, Honest
  <2>4. (Silent /\ Reading /\ Usage)'
    BY <1>1, <2>1 DEF Inv, Silent, Running, Reading, WithBaseline, Usage, Misused
  <2>5. Applied' = Applied
    BY <2>1 DEF Applied, Findings, Entries, WithBaseline
  <2>6. (Decided /\ Ended)'
    BY <2>1, <2>5 DEF Decided, Ended
  <2> QED
    BY <2>2, <2>3, <2>4, <2>6 DEF Inv
<1> QED
  BY <1>2, <1>3

-----------------------------------------------------------------------------
(* What the errors of a result add up to. *)

(* The findings are finitely many, and the entries are identities. *)
LEMMA Bounded ==
    ASSUME Inv, Inputs \in Origin, read.baseline.entries # Broken
    PROVE  /\ Findings \subseteq Finding /\ IsFiniteSet(Findings)
           /\ Entries \subseteq Id /\ IsFiniteSet(Entries)
<1>1. read.config \in Config /\ read.sources \in Sources
  BY DEF Inputs, Origin
<1>2. Findings \subseteq Finding /\ IsFiniteSet(Findings)
  BY <1>1, FindingsAssumption DEF Findings, Sources
<1>3. read.baseline.entries \in {Missing, Broken} \cup SUBSET Id
  BY DEF Inv, TypeOK, BaselineFile
<1>4. Entries \subseteq Id
  BY <1>3 DEF Entries, WithBaseline
<1>5. IsFiniteSet(Entries)
  BY <1>4, FS_Subset, FindingsAssumption
<1> QED
  BY <1>2, <1>4, <1>5

LEMMA Counting ==
    ASSUME Inv, Inputs \in Origin, read.baseline.entries # Broken, result = Applied
    PROVE  /\ ErrorCount \in Nat
           /\ ErrorCount = 0 <=>
                /\ Entries \subseteq {v.id : v \in Findings}
                /\ \A v \in Findings : v.severity = "error" => v.id \in Entries
<1> DEFINE W == {w \in result.violations : w.severity = "error"}
           Of(v) == {v} \X (1..v.count)
           Each == {Of(v) : v \in W}
<1>1. /\ Findings \subseteq Finding /\ IsFiniteSet(Findings)
      /\ Entries \subseteq Id /\ IsFiniteSet(Entries)
  BY Bounded
<1>2. /\ W = {v \in Findings : v.id \notin Entries /\ v.severity = "error"}
      /\ result.stale = Entries \ {v.id : v \in Findings}
  BY DEF Applied
<1>3. IsFiniteSet(result.stale) /\ IsFiniteSet(W)
  BY <1>1, <1>2, FS_Subset
<1>4. \A v \in W : v.count \in Nat /\ v.count # 0
  BY <1>1, <1>2 DEF Finding
<1>5. \A v \in W : IsFiniteSet(Of(v)) /\ Of(v) # {}
  <2> SUFFICES ASSUME NEW v \in W PROVE IsFiniteSet(Of(v)) /\ Of(v) # {}
    OBVIOUS
  <2>1. v.count \in Nat /\ v.count # 0
    BY <1>4
  <2>2. IsFiniteSet({v}) /\ IsFiniteSet(1..v.count)
    <3>1. 1 \in Int /\ v.count \in Int
      BY <2>1
    <3> QED
      BY <3>1, FS_Singleton, FS_Interval
  <2>3. IsFiniteSet(Of(v))
    BY <2>2, FS_Product
  <2>4. 1 \in 1..v.count
    BY <2>1
  <2>5. <<v, 1>> \in Of(v)
    BY <2>4
  <2> QED
    BY <2>3, <2>5
<1> HIDE DEF Of
<1>6. IsFiniteSet(Each)
  <2>1. [v \in W |-> Of(v)] \in Surjection(W, Each)
    BY DEF Surjection
  <2> QED
    BY <1>3, <2>1, FS_Surjection
<1> HIDE DEF W
<1>7. IsFiniteSet(UNION Each)
  BY <1>5, <1>6, FS_UNION
<1>8. Errors = UNION Each
  BY DEF Errors, Of, W
<1>9. Errors = {} <=> W = {}
  BY <1>5, <1>8
<1>10. /\ Cardinality(result.stale) \in Nat /\ Cardinality(Errors) \in Nat
       /\ Cardinality(result.stale) = 0 <=> result.stale = {}
       /\ Cardinality(Errors) = 0 <=> Errors = {}
  BY <1>3, <1>7, <1>8, FS_CardinalityType, FS_EmptySet
<1>11. ErrorCount \in Nat /\ (ErrorCount = 0 <=> result.stale = {} /\ Errors = {})
  BY <1>10 DEF ErrorCount
<1>12. result.stale = {} <=> Entries \subseteq {v.id : v \in Findings}
  BY <1>2
<1>13. W = {} <=> \A v \in Findings : v.severity = "error" => v.id \in Entries
  BY <1>2
<1> QED
  BY <1>9, <1>11, <1>12, <1>13

LEMMA OutputFailsInv == ASSUME Inv, OutputFails PROVE Inv'
BY FailInv DEF OutputFails, Running

(* A generating run writes down all the findings of what it has read. *)
LEMMA WriteBaselineInv == ASSUME Inv, WriteBaseline PROVE Inv'
<1>1. /\ stage = "output" /\ args.generate /\ stage' = "done"
      /\ stdout' = "baseline" /\ exit' = 0
      /\ UNCHANGED <<args, read, result, failure, runs, edits>>
      /\ disk' = Closed([entries |-> Generated, origin |-> Inputs])
  BY DEF WriteBaseline
<1>2. args \in Arguments /\ args.entry = "cli"
  BY <1>1, ArgumentFields DEF Inv, TypeOK
<1>3. ~WithBaseline
  BY <1>1, <1>2 DEF Inv, Usage, Misused, Reading
<1>4. Inputs \in Origin
  BY <1>1 DEF Inv, Reading, Inputs, Origin
<1>5. result = Applied /\ read.baseline.entries # Broken
  BY <1>1 DEF Inv, Decided
<1>6. Generated = {v.id : v \in Findings}
  BY <1>3, <1>5 DEF Generated, Applied, Entries
<1> DEFINE written == [entries |-> Generated, origin |-> Inputs]
<1>7. Generated \subseteq Id
  BY <1>4, <1>5, <1>6, Bounded DEF Finding
<1>8. written \in BaselineFile
  BY <1>4, <1>7 DEF BaselineFile, Origin, Sources
<1>9. Honest(written)
  BY <1>4, <1>6 DEF Honest, Inputs, Findings
<1>10. disk' = disk \/ disk' = [disk EXCEPT !.baseline = written]
  BY <1>1 DEF Closed
<1>11. TypeOK'
  BY <1>1, <1>8, <1>10 DEF Inv, TypeOK, Stages
<1>12. History'
  <2>1. disk'.baseline \in {disk.baseline, written}
    BY <1>10 DEF Inv, TypeOK
  <2>2. Honest(disk'.baseline)
    BY <1>9, <2>1 DEF Inv, History
  <2> QED
    BY <1>1, <2>2 DEF Inv, History, Honest
<1>13. failure' = "none" /\ ~Validated'
  BY <1>1, <1>2 DEF Inv, Silent, Running, Validated, Validating
<1>14. (Silent /\ Reading /\ Usage /\ Decided /\ Ended)'
  BY <1>1, <1>13 DEF Silent, Running, Reading, Usage, Decided, Ended
<1> QED
  BY <1>11, <1>12, <1>14 DEF Inv

LEMMA WriteReportInv == ASSUME Inv, WriteReport PROVE Inv'
<1>1. /\ stage = "output" /\ stage' = "done"
      /\ stdout' \in {"report", stdout}
      /\ exit' = IF args.entry = "cli" THEN ExitCode(ErrorCount) ELSE Verdict(ErrorCount)
      /\ UNCHANGED <<disk, args, read, result, failure, runs, edits>>
  BY DEF WriteReport
<1>2. Inputs \in Origin
  BY <1>1 DEF Inv, Reading, Inputs, Origin
<1>3. result = Applied /\ read.baseline.entries # Broken
  BY <1>1 DEF Inv, Decided
<1>4. ErrorCount \in Nat
  BY <1>2, <1>3, Counting
<1>5. exit' \in 0..255
  BY <1>1, <1>4 DEF ExitCode, Verdict
<1>6. TypeOK'
  BY <1>1, <1>5 DEF Inv, TypeOK, Stages
<1>7. History'
  BY <1>1 DEF Inv, History, Honest
<1>8. (Silent /\ Reading /\ Usage /\ Decided)'
  BY <1>1 DEF Silent, Running, Reading, Usage, Decided
<1>9. Ended'
  <2>1. failure' = "none"
    BY <1>1 DEF Inv, Silent, Running
  <2>2. Inputs' \in Origin
    BY <1>1, <1>2 DEF Inputs
  <2>3. args'.baseline <=> WithBaseline'
    BY <1>1 DEF Inv, Reading, WithBaseline
  <2>4. result' = Applied'
    BY <1>1, <1>3 DEF Applied, Findings, Entries, WithBaseline
  <2>5. ErrorCount' = ErrorCount
    BY <1>1 DEF ErrorCount, Errors
  <2>6. IF args'.entry = "cli" THEN exit' = ExitCode(ErrorCount')
        ELSE exit' = Verdict(ErrorCount')
    BY <1>1, <2>5
  <2>7. read'.baseline.entries # Broken
    BY <1>1, <1>3
  <2> QED
    BY <2>1, <2>2, <2>3, <2>4, <2>6, <2>7 DEF Ended, ExitCode, Verdict
<1> QED
  BY <1>6, <1>7, <1>8, <1>9 DEF Inv

-----------------------------------------------------------------------------
(* The theorems. *)

LEMMA StepInv == ASSUME Inv, [Next]_vars PROVE Inv'
<1>1. CASE UNCHANGED vars
  <2>1. TypeOK' /\ History'
    BY <1>1 DEF Inv, TypeOK, History, Honest, vars
  <2> QED
    BY <1>1, <2>1, SameRun DEF vars
<1>2. CASE Next
  BY <1>1, <1>2, EditInv, StartInv, UsageInv, LoadFileInv, LoadBaselineFileInv, ReadModuleInv,
     ScanInv, EvaluateInv, OutputFailsInv, WriteBaselineInv, WriteReportInv
  DEF Next, Finished
<1> QED
  BY <1>1, <1>2

LEMMA Invariance == Spec => []Inv
BY InitInv, StepInv, PTL DEF Spec

(* A run only ever holds what it has read, and its status fits a byte. *)
THEOREM TypeCorrect == Spec => []TypeOK
<1>1. Inv => TypeOK
  BY DEF Inv
<1> QED
  BY <1>1, Invariance, PTL

(* A run that fails says so and leaves standard output to a baseline alone. *)
THEOREM QuietFailures == Spec => []FailsQuietly
<1>1. Inv => FailsQuietly
  BY DEF Inv, Ended, FailsQuietly, Status
<1> QED
  BY <1>1, Invariance, PTL

(* A validating run passes exactly on clean inputs, however many errors     *)
(* there are: the sum of finitely many counts is zero only without errors,  *)
(* and the status is capped before it wraps.                                *)
THEOREM CleanPasses == Spec => []PassesIffClean
<1>1. ASSUME Inv, stage = "done", Validating
      PROVE  Status = 0 <=>
                /\ failure = "none"
                /\ LET ids == IF args.baseline THEN read.baseline.entries ELSE {}
                   IN  /\ ids \subseteq {v.id : v \in Findings}
                       /\ \A v \in Findings : v.severity = "error" => v.id \in ids
  <2>1. CASE failure # "none"
    <3>1. exit \in {1, 2}
      BY <1>1, <2>1 DEF Inv, Ended
    <3> QED
      BY <2>1, <3>1 DEF Status
  <2>2. CASE failure = "none"
    <3>1. /\ Inputs \in Origin /\ read.baseline.entries # Broken /\ result = Applied
          /\ args.baseline <=> WithBaseline
          /\ IF args.entry = "cli" THEN exit = ExitCode(ErrorCount)
             ELSE exit = Verdict(ErrorCount)
      BY <1>1, <2>2 DEF Inv, Ended, Validated
    <3>2. /\ ErrorCount \in Nat
          /\ ErrorCount = 0 <=>
                /\ Entries \subseteq {v.id : v \in Findings}
                /\ \A v \in Findings : v.severity = "error" => v.id \in Entries
      BY <1>1, <3>1, Counting
    <3>3. Status = 0 <=> ErrorCount = 0
      BY <3>1, <3>2 DEF Status, ExitCode, Verdict
    <3>4. Entries = IF args.baseline THEN read.baseline.entries ELSE {}
      BY <3>1 DEF Entries
    <3> QED
      BY <2>2, <3>2, <3>3, <3>4
  <2> QED
    BY <2>1, <2>2
<1>2. Inv => PassesIffClean
  BY <1>1 DEF PassesIffClean
<1> QED
  BY <1>2, Invariance, PTL

(* A generated baseline holds the findings of the inputs it came from, so   *)
(* a later run on the same inputs has nothing to report.                    *)
THEOREM RatchetHolds == Spec => []Ratchet
<1>1. ASSUME Inv, stage = "done", failure = "none", Validating, args.baseline,
             read.baseline.origin = Inputs
      PROVE  Status = 0 /\ result.violations = {} /\ result.stale = {}
  <2>1. /\ Inputs \in Origin /\ read.baseline.entries # Broken /\ result = Applied
        /\ args.baseline <=> WithBaseline
        /\ IF args.entry = "cli" THEN exit = ExitCode(ErrorCount)
           ELSE exit = Verdict(ErrorCount)
    BY <1>1 DEF Inv, Ended, Validated
  <2>2. Inputs # NoOrigin
    BY <2>1, FindingsAssumption DEF Origin, Sources
  <2>3. read.baseline.entries = {v.id : v \in Findings}
    BY <1>1, <2>2 DEF Inv, History, Honest, Inputs, Findings
  <2>4. Entries = {v.id : v \in Findings}
    BY <1>1, <2>1, <2>3 DEF Entries
  <2>5. result.violations = {} /\ result.stale = {}
    BY <2>1, <2>4 DEF Applied
  <2>6. ErrorCount = 0
    BY <1>1, <2>1, <2>4, Counting
  <2>7. Status = 0
    BY <2>1, <2>6 DEF Status, ExitCode, Verdict
  <2> QED
    BY <2>5, <2>7
<1>2. Inv => Ratchet
  BY <1>1 DEF Ratchet
<1> QED
  BY <1>2, Invariance, PTL
=============================================================================

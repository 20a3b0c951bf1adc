------------------------------- MODULE Cruise -------------------------------
(***************************************************************************)
(* internal/cli.Run, archtest.Check and cruiser.Validate behind both: one  *)
(* run after another over a working tree that people edit meanwhile.       *)
(*                                                                         *)
(* A run reads the configuration, the baseline, go.mod and the sources one *)
(* after the other, so it may see them in states that never existed        *)
(* together. The violations of a tree are a set of findings: an identity,  *)
(* a severity and how many violations share it. The baseline is what       *)
(* Baseline shows: the entries are the identities, and applying them       *)
(* splits the findings.                                                    *)
(*                                                                         *)
(* Outside the program: edits, and the shell that sends the standard       *)
(* output of a generating run to the baseline, emptying the file first     *)
(* ("truncate") or replacing it on success ("replace").                    *)
(***************************************************************************)
EXTENDS Integers, FiniteSets

CONSTANTS
    Config, BadConfig,      \* configurations, those config.Parse rejects
    GoMod, BadGoMod,        \* go.mod files, those NewResolverFromGoMod rejects
    File,                   \* the files below the scan root
    Text, BadText,          \* contents of a file, those that do not parse,
    Absent,                 \* and that of no file
    Id,                     \* identities of violations
    Found(_, _),            \* the findings of a configuration and sources
    Arguments,              \* the argument lists to run with
    Baselines,              \* what a person may leave in the baseline file
    Missing,                \* no such file, or not asked for
    Broken,                 \* a baseline that Load and Write refuse
    NoOrigin,               \* a baseline no run generated
    MaxRuns, MaxEdits       \* bounds of the model

Finding == [id : Id, severity : {"error", "warn", "info"}, count : Nat \ {0}]

(* A baseline file: its entries, and a history variable, the inputs it was *)
(* generated from.                                                         *)
BaselineFile == [entries : {Missing, Broken} \cup SUBSET Id,
                 origin : {NoOrigin} \cup [config : Config, goMod : GoMod,
                                           sources : [File -> Text]]]

ASSUME ArgumentsAssumption ==
    /\ Arguments \subseteq
           [entry : {"cli", "test"}, version : {"no", "only", "mixed"},
            parse : {"ok", "help", "error"}, positional : BOOLEAN, config : BOOLEAN,
            baseline : BOOLEAN, generate : BOOLEAN,
            output : {"err", "json", "unknown"}, shell : {"screen", "truncate", "replace"}]
    /\ \A a \in Arguments : a.entry = "test" => ~a.generate

(* The findings of a tree are finitely many, and what stands for no entries *)
(* and for no origin is nothing else.                                       *)
ASSUME FindingsAssumption ==
    /\ IsFiniteSet(Id)
    /\ \A c \in Config, s \in [File -> Text] :
           Found(c, s) \subseteq Finding /\ IsFiniteSet(Found(c, s))
    /\ \A b \in Baselines : b \in {Missing, Broken} \/ b \subseteq Id
    /\ Missing # Broken /\ \A ids \in SUBSET Id : ids # Missing /\ ids # Broken
    /\ \A i \in [config : Config, goMod : GoMod, sources : [File -> Text]] : i # NoOrigin

VARIABLES
    disk,       \* the working tree: config, goMod, sources, baseline
    args,       \* the arguments of the run
    stage,      \* where the run is, or "idle"
    read,       \* what the run has read
    result,     \* cruiser.Result
    stdout,     \* what the run has written: "nothing", "version", "report", "baseline"
    failure,    \* the stage that failed, or "none"
    exit,       \* exit code
    runs, edits

vars == <<disk, args, stage, read, result, stdout, failure, exit, runs, edits>>

NothingRead == [config |-> Missing, goMod |-> Missing, sources |-> <<>>,
                baseline |-> [entries |-> Missing, origin |-> NoOrigin]]

NoResult == [violations |-> {}, known |-> {}, stale |-> {}]

Trees == [config : Config, goMod : GoMod, sources : [File -> Text],
          baseline : {[entries |-> b, origin |-> NoOrigin] : b \in Baselines}]

Init ==
    /\ disk \in {t \in Trees : t.baseline.entries = Missing}
    /\ args \in Arguments
    /\ stage = "idle"
    /\ read = NothingRead
    /\ result = NoResult
    /\ stdout = "nothing"
    /\ failure = "none"
    /\ exit = 0
    /\ runs = 0
    /\ edits = 0

-----------------------------------------------------------------------------
(* Outside the program. *)

Edit ==
    /\ edits < MaxEdits
    /\ disk' \in
        {[disk EXCEPT !.config = c] : c \in Config} \cup
        {[disk EXCEPT !.goMod = m] : m \in GoMod} \cup
        {[disk EXCEPT !.sources[f] = t] : f \in File, t \in Text} \cup
        {[disk EXCEPT !.baseline = [entries |-> b, origin |-> NoOrigin]] : b \in Baselines}
    /\ disk' # disk
    /\ edits' = edits + 1
    /\ UNCHANGED <<args, stage, read, result, stdout, failure, exit, runs>>

(* What the shell makes of the output of a run, before and after it. *)
Opened == IF args'.shell = "truncate"
          THEN [disk EXCEPT !.baseline = [entries |-> Broken, origin |-> NoOrigin]]
          ELSE disk

Closed(written) ==
    IF args.shell = "truncate" \/ (args.shell = "replace" /\ exit' = 0)
    THEN [disk EXCEPT !.baseline = written]
    ELSE disk

Start ==
    /\ stage \in {"idle", "done"}
    /\ runs < MaxRuns
    /\ args' \in Arguments
    /\ disk' = Opened
    /\ stage' = IF args'.entry = "cli" THEN "usage" ELSE "config"
    /\ read' = NothingRead
    /\ result' = NoResult
    /\ stdout' = "nothing"
    /\ failure' = "none"
    /\ exit' = 0
    /\ runs' = runs + 1
    /\ UNCHANGED edits

-----------------------------------------------------------------------------
(* Failing, succeeding and going on. *)

(* Mutated form of FailedOutput: usage and errors go to standard output. *)
FailedOutputReport == "report"

FailedOutput == stdout

Fail ==
    /\ stage' = "done"
    /\ failure' = stage
    /\ exit' = IF args.entry = "cli" THEN 2 ELSE 1
    /\ stdout' = FailedOutput
    /\ UNCHANGED <<disk, args, read, result, runs, edits>>

Continue(next) ==
    /\ stage' = next
    /\ UNCHANGED <<disk, args, result, stdout, failure, exit, runs, edits>>

(* Mutated form of Misused: a baseline may be given to a generating run. *)
MisusedUnlessGenerating ==
    \/ args.parse = "error"
    \/ args.version = "mixed"
    \/ args.positional
    \/ ~args.config
    \/ args.output = "unknown"
    \/ args.generate /\ args.output # "err"

(* The usage errors, in the order of the code; help and a lone --version   *)
(* come before all but the first.                                          *)
Misused ==
    \/ args.parse = "error"
    \/ args.version = "mixed"
    \/ args.positional
    \/ ~args.config
    \/ args.generate /\ args.baseline
    \/ args.output = "unknown"
    \/ args.generate /\ args.output # "err"

PrintVersion ==
    /\ stage = "usage"
    /\ args.version = "only"
    /\ \/ Fail
       \/ /\ stage' = "done"
          /\ stdout' = "version"
          /\ UNCHANGED <<disk, args, read, result, failure, exit, runs, edits>>

PrintHelp ==
    /\ stage = "usage"
    /\ args.version # "only"
    /\ args.parse = "help"
    /\ UNCHANGED read
    /\ Continue("done")

CheckUsage ==
    /\ stage = "usage"
    /\ args.version # "only"
    /\ args.parse # "help"
    /\ IF Misused THEN Fail ELSE UNCHANGED read /\ Continue("config")

-----------------------------------------------------------------------------
(* Reading. *)

(* A test hands its configuration over instead, and normalizeConfiguration  *)
(* applies the same rules.                                                  *)
LoadFile ==
    /\ stage = "config"
    /\ IF disk.config \in BadConfig THEN Fail
       ELSE /\ read' = [read EXCEPT !.config = disk.config]
            /\ Continue("baseline")

(* When a baseline is asked for. A test may hand over one  *)
(* that was never loaded; Validate refuses it later.                        *)
LoadBaselineFile ==
    /\ stage = "baseline"
    /\ IF ~args.baseline THEN UNCHANGED read /\ Continue("module")
       ELSE IF \/ disk.baseline.entries = Missing
               \/ args.entry = "cli" /\ disk.baseline.entries = Broken
            THEN Fail
            ELSE /\ read' = [read EXCEPT !.baseline = disk.baseline]
                 /\ Continue("module")

ReadModule ==
    /\ stage = "module"
    /\ IF disk.goMod \in BadGoMod THEN Fail
       ELSE /\ read' = [read EXCEPT !.goMod = disk.goMod]
            /\ Continue("scan")

Unread == File \ DOMAIN read.sources

(* Scan reads the files one by one and gives up at the first it cannot parse. *)
ScanFile ==
    /\ stage = "scan"
    /\ \E f \in Unread :
        IF disk.sources[f] \in BadText THEN Fail
        ELSE /\ read' = [read EXCEPT !.sources =
                    [g \in DOMAIN read.sources \cup {f} |->
                        IF g = f THEN disk.sources[f] ELSE read.sources[g]]]
             /\ Continue("scan")

(* A directory that cannot be read, or a file gone since it was listed. *)
ScanFails ==
    /\ stage = "scan"
    /\ Fail

ScanEnd ==
    /\ stage = "scan"
    /\ Unread = {}
    /\ IF \A f \in File : read.sources[f] = Absent THEN Fail
       ELSE UNCHANGED read /\ Continue("evaluate")

-----------------------------------------------------------------------------
(* Evaluating and applying the baseline. *)

Inputs == [config |-> read.config, goMod |-> read.goMod, sources |-> read.sources]

Findings == Found(read.config, read.sources)

WithBaseline == read.baseline.entries # Missing

Entries == IF WithBaseline THEN read.baseline.entries ELSE {}

Applied == [violations |-> {v \in Findings : v.id \notin Entries},
            known      |-> {v \in Findings : v.id \in Entries},
            stale      |-> Entries \ {v.id : v \in Findings}]

Evaluate ==
    /\ stage = "evaluate"
    /\ IF read.baseline.entries = Broken THEN Fail
       ELSE /\ result' = Applied
            /\ stage' = "output"
            /\ UNCHANGED <<disk, args, read, stdout, failure, exit, runs, edits>>

(* A template that expands to a pattern the compiler rejects. *)
EvaluationFails ==
    /\ stage = "evaluate"
    /\ Fail

(* The single violations of severity error. *)
Errors ==
    UNION {{v} \X (1..v.count) : v \in {w \in result.violations : w.severity = "error"}}

(* Mutated form of ErrorCount: stale entries are not errors. *)
ErrorCountWithoutStale == Cardinality(Errors)

ErrorCount == Cardinality(result.stale) + Cardinality(Errors)

ExitCode(n) == IF n > 255 THEN 255 ELSE n

(* A test fails through tb.Errorf when there are errors; Check only logs a  *)
(* report of warnings.                                                      *)
Verdict(n) == IF n > 0 THEN 1 ELSE 0

(* The err report of a run with nothing to say is empty. *)
ReportWritten ==
    args.output # "err" \/ result.violations # {} \/ result.stale # {}

(* The output of a program may fail, a closed pipe or a full disk, that of  *)
(* a test is a buffer; no output is nothing to fail at.                     *)
OutputFails ==
    /\ stage = "output"
    /\ args.entry = "cli"
    /\ args.generate \/ ReportWritten
    /\ Fail

Generated == {v.id : v \in result.violations}

WriteBaseline ==
    /\ stage = "output"
    /\ args.generate
    /\ stdout' = "baseline"
    /\ exit' = 0
    /\ disk' = Closed([entries |-> Generated, origin |-> Inputs])
    /\ stage' = "done"
    /\ UNCHANGED <<args, read, result, failure, runs, edits>>

WriteReport ==
    /\ stage = "output"
    /\ ~args.generate
    /\ stdout' = IF ReportWritten THEN "report" ELSE stdout
    /\ exit' = IF args.entry = "cli" THEN ExitCode(ErrorCount) ELSE Verdict(ErrorCount)
    /\ stage' = "done"
    /\ UNCHANGED <<disk, args, read, result, failure, runs, edits>>

(* The bounds are reached. *)
Finished == stage = "done" /\ runs = MaxRuns /\ UNCHANGED vars

Next ==
    \/ Edit
    \/ Start
    \/ PrintVersion
    \/ PrintHelp
    \/ CheckUsage
    \/ LoadFile
    \/ LoadBaselineFile
    \/ ReadModule
    \/ ScanFile
    \/ ScanFails
    \/ ScanEnd
    \/ Evaluate
    \/ EvaluationFails
    \/ OutputFails
    \/ WriteBaseline
    \/ WriteReport
    \/ Finished

Spec == Init /\ [][Next]_vars

-----------------------------------------------------------------------------
(* Properties *)

(* The run was asked to validate, and the process status the system keeps  *)
(* of its exit code.                                                       *)
Validating ==
    args.entry = "test" \/ (args.version = "no" /\ args.parse = "ok" /\ ~args.generate)

Status == exit % 256

(* A validating run passes exactly when nothing failed and, in the files   *)
(* as it read them, every finding of severity error is in the baseline it  *)
(* read and every entry of it is a finding still. However many violations  *)
(* there are, the process status does not wrap to success; a torn, missing *)
(* or malformed baseline never stands for an empty or a matching one.      *)
PassesIffClean ==
    stage = "done" /\ Validating =>
        (Status = 0 <=>
            /\ failure = "none"
            /\ LET ids == IF args.baseline THEN read.baseline.entries ELSE {}
               IN  /\ ids \subseteq {v.id : v \in Findings}
                   /\ \A v \in Findings : v.severity = "error" => v.id \in ids)

(* A baseline written by a generating run suppresses everything in a later *)
(* run that reads the same inputs, whatever happened to the tree between   *)
(* and during the two runs: nothing is reported and nothing is stale.      *)
Ratchet ==
    stage = "done" /\ failure = "none" /\ Validating /\ args.baseline
        /\ read.baseline.origin = Inputs
        => Status = 0 /\ result.violations = {} /\ result.stale = {}

(* A run that fails before its output has written nothing to standard      *)
(* output, which may be the baseline, and fails visibly; one that was      *)
(* stopped by its usage has not read the tree.                             *)
FailsQuietly ==
    stage = "done" /\ failure # "none" =>
        /\ Status # 0
        /\ failure # "output" => stdout = "nothing"
        /\ failure = "usage" => read = NothingRead

=============================================================================

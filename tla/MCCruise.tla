------------------------------ MODULE MCCruise ------------------------------
(* Cruise over two runs and two edits: two files, one identity with a      *)
(* single violation and one with 256, so that the status would wrap.       *)
EXTENDS Cruise

MCFound(c, s) ==
    {[id |-> "x", severity |-> "error", count |-> 1] : f \in {f \in DOMAIN s : s[f] = "one"}}
    \cup
    {[id |-> "y", severity |-> IF c = "strict" THEN "error" ELSE "warn", count |-> 256] :
        f \in {f \in DOMAIN s : s[f] = "many"}}

MCBaselines == {Missing, Broken, {}, {"x"}, {"x", "y"}}

Run == [entry |-> "cli", version |-> "no", parse |-> "ok", positional |-> FALSE,
        config |-> TRUE, baseline |-> FALSE, generate |-> FALSE, output |-> "err",
        shell |-> "screen"]

MCArguments ==
    {Run,
     [Run EXCEPT !.baseline = TRUE],
     [Run EXCEPT !.entry = "test", !.baseline = TRUE],
     [Run EXCEPT !.generate = TRUE, !.shell = "truncate"],
     [Run EXCEPT !.generate = TRUE, !.baseline = TRUE, !.shell = "replace"],
     [Run EXCEPT !.version = "only"],
     [Run EXCEPT !.parse = "help"],
     [Run EXCEPT !.output = "json"],
     [Run EXCEPT !.generate = TRUE, !.shell = "replace"]}
=============================================================================

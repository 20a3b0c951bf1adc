----------------------------- MODULE MCClosure ------------------------------
(* Closure on every graph of up to three packages, one of them with a      *)
(* second spelling, for every list of up to two seeds.                     *)
EXTENDS Closure, SequencesExt

MCPath == {"a", "./a", "b", "c"}
MCClean == [p \in MCPath |-> IF p = "./a" THEN "a" ELSE p]
MCSeedLists == SeqOf(MCPath \cup {""}, 2)
=============================================================================

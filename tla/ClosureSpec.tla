---------------------------- MODULE ClosureSpec -----------------------------
(***************************************************************************)
(* What a closure query on the package graph promises: one answer, the     *)
(* packages reachable from those seeds that are packages of the graph.     *)
(***************************************************************************)
EXTENDS Sequences, Integers, Reachability

CONSTANTS Path, NoPath, Clean, Pending

VARIABLES
    known,      \* the packages of the graph
    succ,       \* the edges the query may follow
    seeds,      \* the packages asked for, as the caller spells them
    answer      \* Pending, then the result

vars == <<known, succ, seeds, answer>>

(* The seeds that are packages of the graph. *)
KnownSeeds ==
    {Clean[seeds[i]] : i \in {j \in 1..Len(seeds) :
                                seeds[j] # NoPath /\ Clean[seeds[j]] \in known}}

Init == answer = Pending

Answer ==
    /\ answer = Pending
    /\ answer' = Reach(succ, KnownSeeds)
    /\ UNCHANGED <<known, succ, seeds>>

Next == Answer

Spec == Init /\ [][Next]_vars /\ WF_vars(Answer)

=============================================================================

---------------------------- MODULE Reachability ----------------------------
(***************************************************************************)
(* Reachability in a directed graph given by its successor function, as a  *)
(* reader of a "reachable" rule understands it: the smallest set that      *)
(* holds the seeds and every successor of its members. The definition      *)
(* quantifies over the closed sets, so it needs neither paths nor          *)
(* recursion.                                                              *)
(***************************************************************************)

(* Following edges of succ never leaves the set. *)
ClosedUnder(succ, set) == \A n \in set : succ[n] \subseteq set

(* Every package reachable from a seed, the seeds included. *)
Reach(succ, seeds) ==
    {n \in DOMAIN succ :
        \A set \in SUBSET DOMAIN succ :
            seeds \subseteq set /\ ClosedUnder(succ, set) => n \in set}

(* The graph with every edge reversed. *)
Transpose(succ) == [q \in DOMAIN succ |-> {p \in DOMAIN succ : q \in succ[p]}]

=============================================================================

---------------------------- MODULE BaselineSpec ----------------------------
(***************************************************************************)
(* What the baseline promises: a current violation is known when an entry  *)
(* has its identity and reported otherwise, and an entry no current        *)
(* violation has is stale. A malformed baseline is refused instead.        *)
(***************************************************************************)
EXTENDS Naturals

CONSTANTS Pending, Refused

VARIABLES
    entryIds,       \* the identities of the baseline, by position
    violationIds,   \* the identities of the current violations, by position
    malformed,      \* the baseline breaks the rules of its format
    verdict         \* Pending, then the outcome

vars == <<entryIds, violationIds, malformed, verdict>>

Covered(i) == \E e \in DOMAIN entryIds : entryIds[e] = violationIds[i]

Partition ==
    [reported |-> {i \in DOMAIN violationIds : ~Covered(i)},
     known    |-> {i \in DOMAIN violationIds : Covered(i)},
     stale    |-> {e \in DOMAIN entryIds :
                    \A i \in DOMAIN violationIds : violationIds[i] # entryIds[e]}]

Init == verdict = Pending

(* The baseline comes into being: it is generated, or read. *)
Obtain == verdict = Pending /\ UNCHANGED <<verdict, violationIds>>

Decide ==
    /\ verdict = Pending
    /\ verdict' = IF malformed THEN Refused ELSE Partition
    /\ UNCHANGED <<entryIds, violationIds, malformed>>

Next == Obtain \/ Decide

Spec == Init /\ [][Next]_vars /\ WF_vars(Decide)

=============================================================================

----------------------------- MODULE SortedMap -----------------------------
(***************************************************************************)
(* What map.h promises: a set of keys with an iterator that moves over     *)
(* them in order.  A key stands for its node, with the data stored in it.  *)
(***************************************************************************)
EXTENDS Integers, FiniteSetsExt

CONSTANT Keys   \* keys, ordered by the comparator

VARIABLES
    stored,   \* keys in the map
    it        \* the iterator: a key, or End

sortedVars == <<stored, it>>

End == 0
LeastOf(S) == IF S = {} THEN End ELSE Min(S)
GreatestOf(S) == IF S = {} THEN End ELSE Max(S)

SortedInit == stored = {} /\ it = End

SortedInsert(k) == stored' = stored \cup {k} /\ UNCHANGED it

SortedFind(k) == it' = (IF k \in stored THEN k ELSE End) /\ UNCHANGED stored
SortedFirst == it' = LeastOf(stored) /\ UNCHANGED stored
SortedLast == it' = GreatestOf(stored) /\ UNCHANGED stored

SortedNext ==
    /\ it # End
    /\ it' = LeastOf({k \in stored : k > it})
    /\ UNCHANGED stored

SortedPrev ==
    /\ it # End
    /\ it' = GreatestOf({k \in stored : k < it})
    /\ UNCHANGED stored

SortedErase == it # End /\ stored' = stored \ {it} /\ it' = End

SortedClear == stored' = {} /\ it' = End

SortedStep ==
    \/ \E k \in Keys : SortedInsert(k) \/ SortedFind(k)
    \/ SortedFirst \/ SortedLast \/ SortedNext \/ SortedPrev \/ SortedErase \/ SortedClear

SortedSpec == SortedInit /\ [][SortedStep]_sortedVars
=============================================================================

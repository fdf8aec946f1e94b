------------------------------- MODULE Naming --------------------------------
(***************************************************************************)
(* What a handle table promises: a one-to-one naming of pointers by IDs,   *)
(* to which bindings of an unused ID to an unnamed pointer are added and   *)
(* from which bindings are removed, one at a time.  How an ID is chosen,   *)
(* and that the naming is kept as two maps, is left to HandleTable.        *)
(***************************************************************************)
EXTENDS Integers

CONSTANTS Ptr, MaxId

VARIABLE bound     \* the set of <<id, pointer>> pairs

Init == bound = {}

Add(i, p) ==
    /\ \A b \in bound : b[1] # i /\ b[2] # p
    /\ bound' = bound \cup {<<i, p>>}

Remove(b) == bound' = bound \ {b}

Next ==
    \/ \E i \in 1 .. MaxId, p \in Ptr : Add(i, p)
    \/ \E b \in bound : Remove(b)

Spec == Init /\ [][Next]_bound
=============================================================================

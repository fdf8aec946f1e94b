------------------------------ MODULE HandleIds ------------------------------
(***************************************************************************)
(* The IDs of the handle manager (src/src/common/common.c): how the next   *)
(* one is chosen, and the map operations every table of handles uses.      *)
(***************************************************************************)
EXTENDS Integers, FiniteSetsExt

CONSTANT MaxId     \* the largest HMGR_HANDLE, 2^32 - 1 in the code

ASSUME MaxIdAssumption == MaxId \in Nat \ {0}

\* 0 is the reserved null handle.
Id == 1 .. MaxId

\* map[k] = v and map.erase(k) of std::map, on partial functions.
Insert(f, k, v) == [x \in DOMAIN f \cup {k} |-> IF x = k THEN v ELSE f[x]]
Erase(f, k)     == [x \in DOMAIN f \ {k} |-> f[x]]

\* id + 1 of an unsigned HMGR_HANDLE.
Succ(i) == IF i = MaxId THEN 0 ELSE i + 1

\* Mutant: after the wrap-around only the first ID is tried.
SearchIdFirstOnly(used) == IF 1 \in used THEN 0 ELSE 1

\* Mutant: after the wrap-around the IDs start again, used or not.
SearchIdNoTest(used) == 1

\* `while (idToPtr.find(++id) != idToPtr.end())' from 0: the smallest unused
\* ID, or, when the increment wraps around, 0.
SearchId(used) == IF Id \subseteq used THEN 0 ELSE Min(Id \ used)

\* The same search as the code's loop, one increment at a time: where the
\* loop that stands at 0 stops.
Walk(used) ==
    LET walk[id \in 0 .. MaxId] ==
            IF Succ(id) \in used THEN walk[Succ(id)] ELSE Succ(id)
    IN  walk[0]

\* One more than the largest ID in use; only when that wraps to 0 are the
\* holes below searched.
GetFreeID(used) ==
    IF used = {} THEN 1
    ELSE LET next == Succ(Max(used))
         IN  IF next = 0 THEN SearchId(used) ELSE next
=============================================================================

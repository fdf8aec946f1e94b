----------------------------- MODULE HandleTable -----------------------------
(***************************************************************************)
(* The handle manager of one process (src/src/common/common.c): for one    *)
(* type of handle, the two std::maps that translate the 32-bit IDs sent    *)
(* over the pipes into local pointers and back.  Both processes compile    *)
(* this file; which of them may invent an ID, and which may create an      *)
(* object for an ID it has never seen, depends on the type.                *)
(***************************************************************************)
EXTENDS HandleIds, FiniteSets

CONSTANTS
    Ptr,      \* addresses an object of this type may have
    NULL      \* the null pointer

ASSUME NullAssumption  == NULL \notin Ptr

Side   == {"linux", "windows"}
Type   == {"NPObject", "NPPInstance", "NPStream", "NotifyData"}
Exists == {"MAY_EXIST", "SHOULD_EXIST", "SHOULD_NOT_EXIST"}

\* What ended the process: the DBG_ASSERT or DBG_ABORT that fired, if any.
Fault == {"none", "null", "notNew", "unknown", "wrongSide", "noFreeId",
          "removeUnknown", "countMismatch"}

VARIABLES
    side,      \* the process this table lives in (never changes)
    type,      \* the type of handle it translates (never changes)
    idToPtr,   \* std::map<HMGR_HANDLE, void*>
    ptrToId,   \* std::map<void*, HMGR_HANDLE>
    fault      \* DBG_ASSERT and DBG_ABORT end the process: no step follows

vars == <<side, type, idToPtr, ptrToId, fault>>

Init ==
    /\ side \in Side
    /\ type \in Type
    /\ idToPtr = [i \in {} |-> NULL]
    /\ ptrToId = [p \in {} |-> 0]
    /\ fault = "none"

-----------------------------------------------------------------------------
\* Only the Windows side creates objects, instances and streams for the IDs
\* the Linux side sends, and only the Linux side notify data.
MayCreate == (side = "windows") <=> (type # "NotifyData")
\* Dually, IDs are invented by the side that owns the original.
MayAllocate == ~MayCreate

Fail(reason) ==
    /\ fault' = reason
    /\ UNCHANGED <<side, type, idToPtr, ptrToId>>

Bind(i, p) ==
    /\ idToPtr' = Insert(idToPtr, i, p)
    /\ ptrToId' = Insert(ptrToId, p, i)
    /\ UNCHANGED <<side, type, fault>>

-----------------------------------------------------------------------------
(***************************************************************************)
(* handleManager_idToPtr.  A created object has an address no entry of     *)
(* this table has: every handler removes an entry before it frees the      *)
(* object.                                                                 *)
(***************************************************************************)
CreateForId(i) ==
    IF MayCreate
    THEN \E p \in Ptr \ DOMAIN ptrToId : Bind(i, p)
    ELSE Fail("wrongSide")

TranslateId(i, exists) ==
    /\ fault = "none"
    /\ IF i = 0
       THEN IF type = "NotifyData" THEN UNCHANGED vars ELSE Fail("null")
       ELSE IF i \in DOMAIN idToPtr
       THEN IF exists = "SHOULD_NOT_EXIST" THEN Fail("notNew") ELSE UNCHANGED vars
       ELSE IF exists = "SHOULD_EXIST" THEN Fail("unknown") ELSE CreateForId(i)

\* handleManager_ptrToId.
AllocateFor(p) ==
    LET i == GetFreeID(DOMAIN idToPtr)
    IN  IF ~MayAllocate THEN Fail("wrongSide")
        ELSE IF i = 0 THEN Fail("noFreeId")
        ELSE Bind(i, p)

TranslatePtr(p, exists) ==
    /\ fault = "none"
    /\ IF p = NULL
       THEN IF type = "NotifyData" THEN UNCHANGED vars ELSE Fail("null")
       ELSE IF p \in DOMAIN ptrToId
       THEN IF exists = "SHOULD_NOT_EXIST" THEN Fail("notNew") ELSE UNCHANGED vars
       ELSE IF exists = "SHOULD_EXIST" THEN Fail("unknown") ELSE AllocateFor(p)

\* Mutant: only the map of pointers is updated.
RemoveByPtrHalf(p) ==
    /\ fault = "none"
    /\ IF p \in DOMAIN ptrToId
       THEN /\ ptrToId' = Erase(ptrToId, p)
            /\ UNCHANGED <<side, type, idToPtr, fault>>
       ELSE Fail("removeUnknown")

\* handleManager_removeByPtr.
RemoveByPtr(p) ==
    /\ fault = "none"
    /\ IF p \in DOMAIN ptrToId
       THEN /\ idToPtr' = Erase(idToPtr, ptrToId[p])
            /\ ptrToId' = Erase(ptrToId, p)
            /\ UNCHANGED <<side, type, fault>>
       ELSE Fail("removeUnknown")

\* handleManager_count: the Windows side asks it whether to stay alive.
Count ==
    /\ fault = "none"
    /\ IF Cardinality(DOMAIN idToPtr) = Cardinality(DOMAIN ptrToId)
       THEN UNCHANGED vars
       ELSE Fail("countMismatch")

\* handleManager_findInstance: the instance with the largest ID.
FindInstance ==
    IF DOMAIN idToPtr = {} THEN NULL ELSE idToPtr[Max(DOMAIN idToPtr)]

Next ==
    \/ \E i \in Id \cup {0}, exists \in Exists : TranslateId(i, exists)
    \/ \E p \in Ptr \cup {NULL}, exists \in Exists : TranslatePtr(p, exists)
    \/ \E p \in Ptr : RemoveByPtr(p)
    \/ Count

Spec == Init /\ [][Next]_vars

-----------------------------------------------------------------------------
\* Each map is a partial function between IDs and addresses; 0 is no ID.
TypeOK ==
    /\ side \in Side
    /\ type \in Type
    /\ DOMAIN idToPtr \subseteq Id
    /\ DOMAIN ptrToId \subseteq Ptr
    /\ idToPtr \in [DOMAIN idToPtr -> Ptr]
    /\ ptrToId \in [DOMAIN ptrToId -> Id]
    /\ fault \in Fault

\* The two maps, updated one after the other by every operation, are inverse
\* to each other: no ID and no pointer is ever bound on one side only.
MapsAgree ==
    /\ \A i \in DOMAIN idToPtr :
          idToPtr[i] \in DOMAIN ptrToId /\ ptrToId[idToPtr[i]] = i
    /\ \A p \in DOMAIN ptrToId :
          ptrToId[p] \in DOMAIN idToPtr /\ idToPtr[ptrToId[p]] = p

\* The assertion of handleManager_count (common.c:867) never fires.
CountsAgree == fault # "countMismatch"

\* "unable to find free id" (common.c:804) is the truth: the wrap-around
\* search gives up only when every ID of the type is in use.
GivesUpOnlyWhenFull == fault = "noFreeId" => DOMAIN idToPtr = Id

\* In every state the search of handleManager_getFreeID, were it needed, would
\* stop at the value SearchId gives: the smallest free ID or, after one more
\* wrap-around, the null handle.
SearchIsTheLoop == SearchId(DOMAIN idToPtr) = Walk(DOMAIN idToPtr)

\* While an ID stays bound it means the same object, although both sides
\* bind and unbind others around it and IDs are reused.
StableMeaning ==
    [][\A i \in DOMAIN idToPtr \cap DOMAIN idToPtr' : idToPtr'[i] = idToPtr[i]]_vars

\* What a table promises its users: a one-to-one naming, changed one binding
\* at a time.
Names == INSTANCE Naming WITH
    bound <- {<<i, idToPtr[i]>> : i \in DOMAIN idToPtr}

ImplementsNaming == Names!Spec
=============================================================================

-------------------------- MODULE HandleManagerProofs --------------------------
(***************************************************************************)
(* Proofs about both halves of the handle manager: HandleTable for every   *)
(* address set and every ID width, and IdentifierTable for any number of   *)
(* names, numbers and addresses.                                           *)
(***************************************************************************)
EXTENDS HandleTable, IdentifierTable, TLAPS, WellFoundedInduction,
        FiniteSetTheorems, FunctionTheorems

\* Every non-empty set of naturals has a least element.
LEMMA LeastNatural ==
    ASSUME NEW S \in SUBSET Nat, S # {}
    PROVE  \E x \in S : \A y \in S : x =< y
<1> DEFINE R == {ss \in Nat \X Nat : ss[1] < ss[2]}
<1>1. IsWellFoundedOn(R, Nat)
  BY NatLessThanWellFounded DEF OpToRel
<1>2. PICK x \in S : \A y \in S : ~ (<<y, x>> \in R)
  BY <1>1, WFMin, Zenon
<1>3. ASSUME NEW y \in S PROVE x =< y
  <2>1. <<y, x>> \notin R
    BY <1>2
  <2>2. x \in Nat /\ y \in Nat /\ ~ (y < x)
    BY <2>1
  <2> QED BY <2>2
<1> QED BY <1>3

\* Min of FiniteSetsExt is the least element where there is one.
LEMMA MinProperties ==
    ASSUME NEW S \in SUBSET Nat, S # {}
    PROVE  Min(S) \in S /\ \A y \in S : Min(S) =< y
BY LeastNatural DEF Min

\* A non-empty set of IDs has a greatest element, and Max returns it.
LEMMA MaxProperties ==
    ASSUME NEW S \in SUBSET Id, S # {}
    PROVE  Max(S) \in S /\ \A y \in S : y =< Max(S)
<1> USE MaxIdAssumption DEF Id
<1> DEFINE T == {MaxId - x : x \in S}
<1>1. T \in SUBSET Nat /\ T # {}
  <2>1. ASSUME NEW x \in S PROVE MaxId - x \in Nat
    OBVIOUS
  <2>2. PICK x \in S : TRUE
    OBVIOUS
  <2>3. MaxId - x \in T
    OBVIOUS
  <2>4. \A t \in T : t \in Nat
    BY <2>1
  <2> QED BY <2>3, <2>4
<1>2. PICK t \in T : \A u \in T : t =< u
  <2> HIDE DEF T
  <2> QED BY <1>1, LeastNatural
<1>3. PICK m \in S : t = MaxId - m
  BY <1>2
<1>4. ASSUME NEW y \in S PROVE m >= y
  <2>1. MaxId - m =< MaxId - y
    BY <1>2, <1>3
  <2> QED BY <2>1
<1>5. \E x \in S : \A y \in S : x >= y
  BY <1>4
<1> QED BY <1>5 DEF Max

\* getFreeID returns 0 only when every ID is in use, and otherwise an ID that
\* is not.
LEMMA GetFreeIDFresh ==
    ASSUME NEW used \in SUBSET Id
    PROVE  /\ GetFreeID(used) = 0 => used = Id
           /\ GetFreeID(used) # 0 => GetFreeID(used) \in Id \ used
<1> USE MaxIdAssumption
<1>1. CASE used = {}
  BY <1>1 DEF GetFreeID, Id
<1>2. CASE used # {}
  <2>1. Max(used) \in used /\ \A y \in used : y =< Max(used)
    BY <1>2, MaxProperties
  <2>2. Max(used) \in 1 .. MaxId
    BY <2>1 DEF Id
  <2>3. CASE Succ(Max(used)) # 0
    <3>1. GetFreeID(used) = Max(used) + 1 /\ Max(used) # MaxId
      BY <1>2, <2>3 DEF GetFreeID, Succ
    <3>2. Max(used) + 1 \in Id
      BY <2>2, <3>1 DEF Id
    <3>3. Max(used) + 1 \notin used
      BY <2>1, <2>2
    <3> QED BY <3>1, <3>2, <3>3, <2>2
  <2>4. CASE Succ(Max(used)) = 0
    <3>1. GetFreeID(used) = SearchId(used)
      BY <1>2, <2>4 DEF GetFreeID
    <3>2. CASE Id \subseteq used
      BY <3>1, <3>2 DEF SearchId
    <3>3. CASE ~ (Id \subseteq used)
      <4>1. Min(Id \ used) \in Id \ used
        BY <3>3, MinProperties DEF Id
      <4>2. SearchId(used) = Min(Id \ used)
        BY <3>3 DEF SearchId
      <4> QED BY <3>1, <4>1, <4>2 DEF Id
    <3> QED BY <3>2, <3>3
  <2> QED BY <2>3, <2>4
<1> QED BY <1>1, <1>2

\* A set that holds 0 and the successor of each of its members holds every
\* natural.
LEMMA Induction ==
    ASSUME NEW T, 0 \in T, \A n \in Nat : n \in T => n + 1 \in T
    PROVE  Nat \subseteq T
<1> SUFFICES ASSUME Nat \ T # {} PROVE FALSE
  OBVIOUS
<1>1. PICK x \in Nat \ T : \A y \in Nat \ T : x =< y
  BY LeastNatural
<1> QED BY <1>1

-----------------------------------------------------------------------------
(***************************************************************************)
(* The loop of handleManager_getFreeID and the value it is modelled by.    *)
(***************************************************************************)
\* The IDs above a handle that are free, and the first of them, or 0.
FreeAbove(used, id) == {j \in Id \ used : id < j}
FirstFree(used, id) ==
    IF FreeAbove(used, id) = {} THEN 0 ELSE Min(FreeAbove(used, id))

\* One increment of the loop, from wherever it stands.
WalkStep(used, f, id) == IF Succ(id) \in used THEN f[Succ(id)] ELSE Succ(id)
IsWalk(used, f) == f = [id \in 0 .. MaxId |-> WalkStep(used, f, id)]

LEMMA FirstFreeSteps ==
    ASSUME NEW used \in SUBSET Id, NEW id \in 0 .. MaxId
    PROVE  FirstFree(used, id) =
             IF Succ(id) \in used THEN FirstFree(used, Succ(id)) ELSE Succ(id)
<1> USE MaxIdAssumption
<1>1. CASE id = MaxId
  <2>1. FreeAbove(used, id) = {}
    BY <1>1 DEF FreeAbove, Id
  <2>2. Succ(id) = 0 /\ 0 \notin used
    BY <1>1 DEF Succ, Id
  <2> QED BY <2>1, <2>2 DEF FirstFree
<1>2. CASE id # MaxId
  <2>1. Succ(id) = id + 1 /\ id + 1 \in Id
    BY <1>2 DEF Succ, Id
  <2>2. CASE id + 1 \in used
    <3>1. FreeAbove(used, id) = FreeAbove(used, id + 1)
      BY <2>2 DEF FreeAbove, Id
    <3> QED BY <2>1, <2>2, <3>1 DEF FirstFree
  <2>3. CASE id + 1 \notin used
    <3>1. id + 1 \in FreeAbove(used, id)
      BY <2>1, <2>3 DEF FreeAbove
    <3>2. FreeAbove(used, id) \in SUBSET Nat
      BY DEF FreeAbove, Id
    <3>3. Min(FreeAbove(used, id)) \in FreeAbove(used, id)
          /\ Min(FreeAbove(used, id)) =< id + 1
      BY <3>1, <3>2, MinProperties
    <3>4. Min(FreeAbove(used, id)) = id + 1
      BY <3>3 DEF FreeAbove, Id
    <3> QED BY <2>1, <2>3, <3>1, <3>4 DEF FirstFree
  <2> QED BY <2>2, <2>3
<1> QED BY <1>1, <1>2

\* Whatever function the loop's equation describes, it is this one: the loop
\* wraps around at MaxId, so the equation is solved from there downwards.
LEMMA WalkIsFirstFree ==
    ASSUME NEW used \in SUBSET Id, NEW f, IsWalk(used, f),
           NEW id \in 0 .. MaxId
    PROVE  f[id] = FirstFree(used, id)
<1> USE MaxIdAssumption
<1> DEFINE T == {n \in Nat : n =< MaxId =>
                    f[MaxId - n] = FirstFree(used, MaxId - n)}
<1>1. \A k \in 0 .. MaxId : f[k] = WalkStep(used, f, k)
  BY DEF IsWalk
<1>2. 0 \in T
  <2>1. Succ(MaxId) = 0 /\ 0 \notin used /\ MaxId \in 0 .. MaxId
    BY DEF Succ, Id
  <2>2. f[MaxId] = 0
    BY <1>1, <2>1 DEF WalkStep
  <2>3. FirstFree(used, MaxId) = 0
    BY <2>1, FirstFreeSteps
  <2>4. MaxId - 0 = MaxId
    OBVIOUS
  <2> QED BY <2>2, <2>3, <2>4
<1>3. ASSUME NEW n \in Nat, n \in T PROVE n + 1 \in T
  <2> SUFFICES ASSUME n + 1 =< MaxId
               PROVE  f[MaxId - (n + 1)] = FirstFree(used, MaxId - (n + 1))
    OBVIOUS
  <2> DEFINE k == MaxId - (n + 1)
  <2>1. k \in 0 .. MaxId /\ Succ(k) = MaxId - n
    BY DEF Succ
  <2>2. f[MaxId - n] = FirstFree(used, MaxId - n)
    BY <1>3
  <2> HIDE DEF k
  <2>3. f[k] = WalkStep(used, f, k)
    BY <1>1, <2>1
  <2>4. f[k] = FirstFree(used, k)
    BY <2>1, <2>2, <2>3, FirstFreeSteps DEF WalkStep
  <2> QED BY <2>4 DEF k
<1>4. Nat \subseteq T
  <2> HIDE DEF T
  <2> QED BY <1>2, <1>3, Induction
<1>5. MaxId - id \in Nat /\ MaxId - id =< MaxId /\ MaxId - (MaxId - id) = id
  OBVIOUS
<1>6. MaxId - id \in T
  BY <1>4, <1>5
<1> QED BY <1>5, <1>6

\* There is such a function, so the loop from 0 stops where SearchId says.
LEMMA WalkIsSearch ==
    ASSUME NEW used \in SUBSET Id
    PROVE  SearchId(used) = Walk(used)
<1> USE MaxIdAssumption
<1> DEFINE g == [id \in 0 .. MaxId |-> FirstFree(used, id)]
           w == CHOOSE f : IsWalk(used, f)
<1>1. IsWalk(used, g)
  <2>1. ASSUME NEW id \in 0 .. MaxId
        PROVE  FirstFree(used, id) = WalkStep(used, g, id)
    <3>1. Succ(id) \in 0 .. MaxId
      BY DEF Succ
    <3>2. g[Succ(id)] = FirstFree(used, Succ(id))
      BY <3>1
    <3> HIDE DEF g
    <3> QED BY <3>2, FirstFreeSteps DEF WalkStep
  <2>2. [id \in 0 .. MaxId |-> FirstFree(used, id)]
          = [id \in 0 .. MaxId |-> WalkStep(used, g, id)]
    BY <2>1, Zenon
  <2> QED BY <2>2 DEF IsWalk
<1>2. IsWalk(used, w)
  <2> HIDE DEF g
  <2> QED BY <1>1
<1>3. w[0] = FirstFree(used, 0)
  <2>1. 0 \in 0 .. MaxId
    OBVIOUS
  <2> HIDE DEF w
  <2> QED BY <1>2, <2>1, WalkIsFirstFree
<1>4. Walk(used) = w[0]
  BY DEF Walk, IsWalk, WalkStep
<1>5. FreeAbove(used, 0) = Id \ used
  BY DEF FreeAbove, Id
<1>6. FirstFree(used, 0) = SearchId(used)
  BY <1>5 DEF FirstFree, SearchId
<1> QED BY <1>3, <1>4, <1>6

-----------------------------------------------------------------------------
\* The inductive invariant: the types, and that the maps are inverse.
IInv == TypeOK /\ MapsAgree

\* Binding an unused ID to an unnamed pointer keeps the maps inverse.
LEMMA BindPreserves ==
    ASSUME IInv, NEW i \in Id \ DOMAIN idToPtr, NEW p \in Ptr \ DOMAIN ptrToId,
           Bind(i, p)
    PROVE  IInv'
<1> USE DEF IInv, Bind, Insert
<1>1. TypeOK'
  BY DEF TypeOK
<1>2. MapsAgree'
  BY DEF TypeOK, MapsAgree
<1> QED BY <1>1, <1>2

\* So does erasing a pointer together with its ID.
LEMMA RemovePreserves ==
    ASSUME IInv, NEW p \in Ptr, RemoveByPtr(p)
    PROVE  IInv'
<1>1. CASE p \in DOMAIN ptrToId
  <2> USE <1>1 DEF IInv, RemoveByPtr, Erase
  <2>1. TypeOK'
    BY DEF TypeOK
  <2>2. MapsAgree'
    BY DEF TypeOK, MapsAgree
  <2> QED BY <2>1, <2>2
<1>2. CASE p \notin DOMAIN ptrToId
  BY <1>2 DEF IInv, RemoveByPtr, Fail, TypeOK, Fault, MapsAgree
<1> QED BY <1>1, <1>2

\* A fault leaves both maps alone.
LEMMA FailPreserves ==
    ASSUME IInv, NEW reason \in Fault, Fail(reason)
    PROVE  IInv'
BY DEF IInv, Fail, TypeOK, MapsAgree

LEMMA TranslateIdPreserves ==
    ASSUME IInv, NEW i \in Id \cup {0}, NEW exists \in Exists,
           TranslateId(i, exists)
    PROVE  IInv'
<1>1. CASE UNCHANGED vars
  BY <1>1 DEF IInv, TypeOK, MapsAgree, vars
<1>2. ASSUME NEW reason \in Fault, Fail(reason)
      PROVE  IInv'
  BY <1>2, FailPreserves
<1>3. ASSUME i \in Id \ DOMAIN idToPtr,
             NEW p \in Ptr \ DOMAIN ptrToId, Bind(i, p)
      PROVE  IInv'
  BY <1>3, BindPreserves
<1>4. \/ UNCHANGED vars
      \/ \E reason \in Fault : Fail(reason)
      \/ /\ i \in Id \ DOMAIN idToPtr
         /\ \E p \in Ptr \ DOMAIN ptrToId : Bind(i, p)
  BY DEF TranslateId, CreateForId, Fault
<1> QED BY <1>1, <1>2, <1>3, <1>4

LEMMA TranslatePtrPreserves ==
    ASSUME IInv, NEW p \in Ptr \cup {NULL}, NEW exists \in Exists,
           TranslatePtr(p, exists)
    PROVE  IInv'
<1> DEFINE i == GetFreeID(DOMAIN idToPtr)
<1>1. CASE UNCHANGED vars
  BY <1>1 DEF IInv, TypeOK, MapsAgree, vars
<1>2. ASSUME NEW reason \in Fault, Fail(reason)
      PROVE  IInv'
  BY <1>2, FailPreserves
<1>3. ASSUME p \in Ptr \ DOMAIN ptrToId, i # 0, Bind(i, p)
      PROVE  IInv'
  <2>1. i \in Id \ DOMAIN idToPtr
    BY <1>3, GetFreeIDFresh DEF IInv, TypeOK
  <2> HIDE DEF i
  <2> QED BY <1>3, <2>1, BindPreserves
<1>4. \/ UNCHANGED vars
      \/ \E reason \in Fault : Fail(reason)
      \/ p \in Ptr \ DOMAIN ptrToId /\ i # 0 /\ Bind(i, p)
  BY DEF TranslatePtr, AllocateFor, Fault
<1> QED BY <1>1, <1>2, <1>3, <1>4

LEMMA Initialises == Init => IInv
BY MaxIdAssumption DEF Init, IInv, TypeOK, MapsAgree, Fault

LEMMA IInvInductive == IInv /\ [Next]_vars => IInv'
<1> SUFFICES ASSUME IInv, [Next]_vars PROVE IInv'
  OBVIOUS
<1>1. ASSUME NEW i \in Id \cup {0}, NEW exists \in Exists,
             TranslateId(i, exists)
      PROVE  IInv'
  BY <1>1, TranslateIdPreserves
<1>2. ASSUME NEW p \in Ptr \cup {NULL}, NEW exists \in Exists,
             TranslatePtr(p, exists)
      PROVE  IInv'
  BY <1>2, TranslatePtrPreserves
<1>3. ASSUME NEW p \in Ptr, RemoveByPtr(p)
      PROVE  IInv'
  BY <1>3, RemovePreserves
<1>4. CASE Count
  BY <1>4, FailPreserves DEF Count, Fault, IInv, TypeOK, MapsAgree, vars
<1>5. CASE UNCHANGED vars
  BY <1>5 DEF IInv, TypeOK, MapsAgree, vars
<1> QED BY <1>1, <1>2, <1>3, <1>4, <1>5 DEF Next

\* The maps are well typed and inverse to each other in every reachable
\* state, whatever sequence of translations and removals led there.
THEOREM MapsAlwaysAgree == Spec => [](TypeOK /\ MapsAgree)
<1>1. Spec => []IInv
  BY Initialises, IInvInductive, PTL DEF Spec
<1> QED BY <1>1, PTL DEF IInv

-----------------------------------------------------------------------------
\* Inverse maps have equally many entries.
LEMMA EqualSizes ==
    ASSUME IInv
    PROVE  Cardinality(DOMAIN idToPtr) = Cardinality(DOMAIN ptrToId)
<1>1. IsFiniteSet(DOMAIN idToPtr)
  <2>1. IsFiniteSet(Id)
    BY MaxIdAssumption, FS_Interval DEF Id
  <2> QED BY <2>1, FS_Subset DEF IInv, TypeOK
<1>2. idToPtr \in Bijection(DOMAIN idToPtr, DOMAIN ptrToId)
  <2>1. idToPtr \in [DOMAIN idToPtr -> DOMAIN ptrToId]
    BY DEF IInv, TypeOK, MapsAgree
  <2>2. \A i, j \in DOMAIN idToPtr : idToPtr[i] = idToPtr[j] => i = j
    BY DEF IInv, MapsAgree
  <2>3. \A p \in DOMAIN ptrToId : \E i \in DOMAIN idToPtr : idToPtr[i] = p
    BY DEF IInv, MapsAgree
  <2> QED BY <2>1, <2>2, <2>3 DEF Bijection, Injection, Surjection, IsInjective
<1>3. ExistsBijection(DOMAIN idToPtr, DOMAIN ptrToId)
  BY <1>2 DEF ExistsBijection
<1> QED BY <1>1, <1>3, FS_Bijection

\* The assertion inside handleManager_count never fires.
THEOREM CountNeverFails == Spec => []CountsAgree
<1>1. Init => CountsAgree
  BY DEF Init, CountsAgree
<1>2. IInv /\ CountsAgree /\ [Next]_vars => CountsAgree'
  <2> SUFFICES ASSUME IInv, CountsAgree, [Next]_vars PROVE CountsAgree'
    OBVIOUS
  <2>1. ASSUME NEW i \in Id \cup {0}, NEW exists \in Exists,
               TranslateId(i, exists)
        PROVE  CountsAgree'
    BY <2>1 DEF TranslateId, CreateForId, Bind, Fail, CountsAgree, vars
  <2>2. ASSUME NEW p \in Ptr \cup {NULL}, NEW exists \in Exists,
               TranslatePtr(p, exists)
        PROVE  CountsAgree'
    BY <2>2 DEF TranslatePtr, AllocateFor, Bind, Fail, CountsAgree, vars
  <2>3. ASSUME NEW p \in Ptr, RemoveByPtr(p)
        PROVE  CountsAgree'
    BY <2>3 DEF RemoveByPtr, Fail, CountsAgree
  <2>4. CASE Count
    BY <2>4, EqualSizes DEF Count, CountsAgree, vars
  <2>5. CASE UNCHANGED vars
    BY <2>5 DEF CountsAgree, vars
  <2> QED BY <2>1, <2>2, <2>3, <2>4, <2>5 DEF Next
<1>3. Spec => []IInv
  BY Initialises, IInvInductive, PTL DEF Spec
<1> QED BY <1>1, <1>2, <1>3, PTL DEF Spec

\* An ID is refused only when the type has none left, for every width of the
\* handle: the search after the wrap-around misses no hole.
THEOREM NoFreeIdIsTrue == Spec => []GivesUpOnlyWhenFull
<1>1. Init => GivesUpOnlyWhenFull
  BY DEF Init, GivesUpOnlyWhenFull
<1>2. IInv /\ GivesUpOnlyWhenFull /\ [Next]_vars => GivesUpOnlyWhenFull'
  <2> SUFFICES ASSUME IInv, GivesUpOnlyWhenFull, [Next]_vars
               PROVE  GivesUpOnlyWhenFull'
    OBVIOUS
  <2>1. ASSUME NEW i \in Id \cup {0}, NEW exists \in Exists,
               TranslateId(i, exists)
        PROVE  GivesUpOnlyWhenFull'
    BY <2>1 DEF TranslateId, CreateForId, Bind, Fail, GivesUpOnlyWhenFull, vars
  <2>2. ASSUME NEW p \in Ptr \cup {NULL}, NEW exists \in Exists,
               TranslatePtr(p, exists)
        PROVE  GivesUpOnlyWhenFull'
    <3> DEFINE i == GetFreeID(DOMAIN idToPtr)
    <3>1. i = 0 => DOMAIN idToPtr = Id
      BY GetFreeIDFresh DEF IInv, TypeOK
    <3> HIDE DEF i
    <3>2. AllocateFor(p) => \/ fault' = "wrongSide"
                            \/ i = 0 /\ Fail("noFreeId")
                            \/ fault' = fault
      BY DEF AllocateFor, Bind, Fail, i
    <3> QED
      BY <2>2, <3>1, <3>2 DEF TranslatePtr, Fail, GivesUpOnlyWhenFull, vars
  <2>3. ASSUME NEW p \in Ptr, RemoveByPtr(p)
        PROVE  GivesUpOnlyWhenFull'
    BY <2>3 DEF RemoveByPtr, Fail, GivesUpOnlyWhenFull
  <2>4. CASE Count
    BY <2>4 DEF Count, Fail, GivesUpOnlyWhenFull, vars
  <2>5. CASE UNCHANGED vars
    BY <2>5 DEF GivesUpOnlyWhenFull, vars
  <2> QED BY <2>1, <2>2, <2>3, <2>4, <2>5 DEF Next
<1>3. Spec => []IInv
  BY Initialises, IInvInductive, PTL DEF Spec
<1> QED BY <1>1, <1>2, <1>3, PTL DEF Spec

\* In every reachable state the loop after the wrap-around stops at the ID the
\* model takes: the induction runs down from MaxId, where the counter wraps.
THEOREM SearchAlwaysTheLoop == Spec => []SearchIsTheLoop
<1>1. IInv => SearchIsTheLoop
  <2> SUFFICES ASSUME IInv PROVE SearchIsTheLoop
    OBVIOUS
  <2>1. DOMAIN idToPtr \in SUBSET Id
    BY DEF IInv, TypeOK
  <2> QED BY <2>1, WalkIsSearch DEF SearchIsTheLoop
<1>2. Spec => []IInv
  BY Initialises, IInvInductive, PTL DEF Spec
<1> QED BY <1>1, <1>2, PTL

-----------------------------------------------------------------------------
\* Every step adds one fresh binding, removes one, or changes neither map.
LEMMA StepShape ==
    ASSUME IInv, [Next]_vars
    PROVE  \/ \E i \in Id \ DOMAIN idToPtr, p \in Ptr \ DOMAIN ptrToId : Bind(i, p)
           \/ \E p \in DOMAIN ptrToId : idToPtr' = Erase(idToPtr, ptrToId[p])
           \/ idToPtr' = idToPtr
<1>1. ASSUME NEW i \in Id \cup {0}, NEW exists \in Exists,
             TranslateId(i, exists)
      PROVE  \/ i \in Id \ DOMAIN idToPtr
                /\ \E p \in Ptr \ DOMAIN ptrToId : Bind(i, p)
             \/ idToPtr' = idToPtr
  BY <1>1 DEF TranslateId, CreateForId, Fail, vars
<1>2. ASSUME NEW p \in Ptr \cup {NULL}, NEW exists \in Exists,
             TranslatePtr(p, exists)
      PROVE  \/ p \in Ptr \ DOMAIN ptrToId
                /\ \E i \in Id \ DOMAIN idToPtr : Bind(i, p)
             \/ idToPtr' = idToPtr
  <2> DEFINE i == GetFreeID(DOMAIN idToPtr)
  <2>1. i # 0 => i \in Id \ DOMAIN idToPtr
    BY GetFreeIDFresh DEF IInv, TypeOK
  <2>2. AllocateFor(p) => (i # 0 /\ Bind(i, p)) \/ idToPtr' = idToPtr
    BY DEF AllocateFor, Fail
  <2> HIDE DEF i
  <2> QED BY <1>2, <2>1, <2>2 DEF TranslatePtr, Fail, vars
<1>3. ASSUME NEW p \in Ptr, RemoveByPtr(p)
      PROVE  \/ p \in DOMAIN ptrToId /\ idToPtr' = Erase(idToPtr, ptrToId[p])
             \/ idToPtr' = idToPtr
  BY <1>3 DEF RemoveByPtr, Fail
<1>4. Count \/ UNCHANGED vars => idToPtr' = idToPtr
  BY DEF Count, Fail, vars
<1> QED BY <1>1, <1>2, <1>3, <1>4 DEF Next

\* No step gives an ID that stays bound another object.
THEOREM MeaningIsStable == Spec => StableMeaning
<1>1. IInv /\ [Next]_vars =>
        [\A i \in DOMAIN idToPtr \cap DOMAIN idToPtr' : idToPtr'[i] = idToPtr[i]]_vars
  BY StepShape DEF Bind, Insert, Erase
<1>2. Spec => []IInv
  BY Initialises, IInvInductive, PTL DEF Spec
<1> QED BY <1>1, <1>2, PTL DEF Spec, StableMeaning

\* The two maps implement a one-to-one naming: every step of the table is one
\* Add, one Remove or nothing at all to the set of pairs they represent.
THEOREM TableImplementsNaming == Spec => ImplementsNaming
<1> DEFINE pairs == {<<i, idToPtr[i]>> : i \in DOMAIN idToPtr}
<1>1. Init => Names!Init
  BY DEF Init, Names!Init
<1>2. IInv /\ [Next]_vars => [Names!Next]_pairs
  <2> SUFFICES ASSUME IInv, [Next]_vars PROVE [Names!Next]_pairs
    OBVIOUS
  <2>1. ASSUME NEW i \in Id \ DOMAIN idToPtr,
               NEW p \in Ptr \ DOMAIN ptrToId, Bind(i, p)
        PROVE  Names!Add(i, p)
    <3>1. \A b \in pairs : b[1] # i /\ b[2] # p
      BY DEF IInv, MapsAgree
    <3>2. pairs' = pairs \cup {<<i, p>>}
      BY <2>1 DEF Bind, Insert
    <3> QED BY <3>1, <3>2 DEF Names!Add
  <2>2. ASSUME NEW p \in DOMAIN ptrToId,
               idToPtr' = Erase(idToPtr, ptrToId[p])
        PROVE  \E b \in pairs : Names!Remove(b)
    <3> DEFINE b == <<ptrToId[p], p>>
    <3>1. ptrToId[p] \in DOMAIN idToPtr /\ idToPtr[ptrToId[p]] = p
      BY DEF IInv, MapsAgree
    <3>2. pairs' = pairs \ {b}
      BY <2>2, <3>1 DEF Erase
    <3>3. b \in pairs
      BY <3>1
    <3> HIDE DEF b
    <3>4. \E c \in pairs : pairs' = pairs \ {c}
      BY <3>2, <3>3
    <3> QED BY <3>4 DEF Names!Remove
  <2>3. idToPtr' = idToPtr => pairs' = pairs
    OBVIOUS
  <2>4. CASE \E i \in Id \ DOMAIN idToPtr, p \in Ptr \ DOMAIN ptrToId : Bind(i, p)
    BY <2>1, <2>4 DEF Names!Next, Id
  <2>5. CASE \E p \in DOMAIN ptrToId : idToPtr' = Erase(idToPtr, ptrToId[p])
    <3>1. \E b \in pairs : Names!Remove(b)
      BY <2>2, <2>5
    <3> QED BY <3>1 DEF Names!Next
  <2> HIDE DEF pairs
  <2> QED BY <2>3, <2>4, <2>5, StepShape
<1>3. Spec => []IInv
  BY Initialises, IInvInductive, PTL DEF Spec
<1> QED BY <1>1, <1>2, <1>3, PTL DEF Spec, ImplementsNaming, Names!Spec

-----------------------------------------------------------------------------
(***************************************************************************)
(* The identifier cache: one identifier for each name and number.          *)
(***************************************************************************)
\* With these two maps the identifier of d is p.
Finds(strings, ints, d, p) ==
    p = IF d.type = "string" THEN Find(strings, d.value) ELSE Find(ints, d.value)

\* The maps name what they are asked for, and nothing has been made that they
\* do not find.
MapsFind ==
    /\ DOMAIN ident \subseteq Address
    /\ \A v \in DOMAIN stringToNPIdentifier :
          /\ stringToNPIdentifier[v] \in DOMAIN ident
          /\ ident[stringToNPIdentifier[v]] = OfName(v)
    /\ \A v \in DOMAIN intToNPIdentifier :
          /\ intToNPIdentifier[v] \in DOMAIN ident
          /\ ident[intToNPIdentifier[v]] = OfNumber(v)
    /\ \A p \in DOMAIN ident : Finds(stringToNPIdentifier, intToNPIdentifier, ident[p], p)

\* What is on the stack is the rest of the array, its next element on top.
StackHoldsRest ==
    /\ sent \in Seq(Description)
    /\ stack \in Seq(Description)
    /\ read \in Seq(Address)
    /\ Len(read) + Len(stack) = Len(sent)
    /\ \A n \in 1 .. Len(stack) : stack[n] = sent[Len(sent) + 1 - n]
    /\ \A n \in 1 .. Len(read) : read[n] \in DOMAIN ident /\ ident[read[n]] = sent[n]

IdentifiersInv == MapsFind /\ StackHoldsRest

-----------------------------------------------------------------------------
\* GetIdentifier keeps the maps right, its result stands for what was asked
\* for, and no identifier changes its meaning.
LEMMA GetIdentifierRight ==
    ASSUME Assumption, MapsFind,
           NEW d \in Description, NEW p \in Address, GetIdentifier(d, p)
    PROVE  /\ MapsFind'
           /\ p \in DOMAIN ident' /\ ident'[p] = d
           /\ \A q \in DOMAIN ident : q \in DOMAIN ident' /\ ident'[q] = ident[q]
<1> USE DEF Find, Finds
<1>1. CASE handleManager_lookupIdentifier(d) # Null
  <2>1. UNCHANGED <<ident, stringToNPIdentifier, intToNPIdentifier>> /\ p = handleManager_lookupIdentifier(d)
    BY <1>1 DEF GetIdentifier
  <2>2. p \in DOMAIN ident /\ ident[p] = d
    BY <1>1, <2>1 DEF handleManager_lookupIdentifier, MapsFind, Description, OfName, OfNumber
  <2> QED BY <2>1, <2>2 DEF MapsFind, handleManager_lookupIdentifier
<1>2. CASE handleManager_lookupIdentifier(d) = Null
  <2>1. /\ p \notin DOMAIN ident
        /\ DOMAIN ident' = DOMAIN ident \cup {p}
        /\ ident'[p] = d
        /\ \A q \in DOMAIN ident : ident'[q] = ident[q]
        /\ handleManager_updateIdentifier(d, p)
    BY <1>2 DEF GetIdentifier, Put
  <2>2. ASSUME NEW q \in DOMAIN ident, ident[q] = d PROVE FALSE
    <3>1. q = handleManager_lookupIdentifier(d)
      BY <2>2 DEF MapsFind, handleManager_lookupIdentifier
    <3>2. q # Null
      BY DEF MapsFind, Assumption
    <3> QED BY <1>2, <3>1, <3>2
  <2>3. CASE d.type = "string"
    <3>1. PICK v \in Name : d = OfName(v)
      BY <2>3 DEF Description, OfName, OfNumber
    <3>2. /\ DOMAIN stringToNPIdentifier' = DOMAIN stringToNPIdentifier \cup {v}
          /\ stringToNPIdentifier'[v] = p
          /\ \A w \in DOMAIN stringToNPIdentifier \ {v} : stringToNPIdentifier'[w] = stringToNPIdentifier[w]
          /\ intToNPIdentifier' = intToNPIdentifier
      BY <2>1, <2>3, <3>1 DEF handleManager_updateIdentifier, Put, OfName
    <3>3. v \notin DOMAIN stringToNPIdentifier
      BY <2>2, <3>1 DEF MapsFind
    <3>4. ASSUME NEW q \in DOMAIN ident'
          PROVE  Finds(stringToNPIdentifier', intToNPIdentifier', ident'[q], q)
      <4>1. CASE q = p
        BY <4>1, <2>1, <3>1, <3>2 DEF OfName
      <4>2. CASE q # p
        <5>1. q \in DOMAIN ident /\ ident'[q] = ident[q] /\ q # Null
          BY <2>1, <4>2 DEF MapsFind, Assumption
        <5>2. Finds(stringToNPIdentifier, intToNPIdentifier, ident[q], q)
          BY <5>1 DEF MapsFind
        <5> QED BY <5>1, <5>2, <3>2, <3>3
      <4> QED BY <4>1, <4>2
    <3>5. DOMAIN ident' \subseteq Address
      BY <2>1 DEF MapsFind
    <3>6. \A w \in DOMAIN stringToNPIdentifier' :
             stringToNPIdentifier'[w] \in DOMAIN ident' /\ ident'[stringToNPIdentifier'[w]] = OfName(w)
      BY <2>1, <3>1, <3>2 DEF MapsFind
    <3>7. \A w \in DOMAIN intToNPIdentifier' :
             intToNPIdentifier'[w] \in DOMAIN ident' /\ ident'[intToNPIdentifier'[w]] = OfNumber(w)
      BY <2>1, <3>1, <3>2 DEF MapsFind
    <3> QED BY <2>1, <3>4, <3>5, <3>6, <3>7 DEF MapsFind
  <2>4. CASE d.type # "string"
    <3>1. PICK v \in Number : d = OfNumber(v)
      BY <2>4 DEF Description, OfName, OfNumber
    <3>2. /\ DOMAIN intToNPIdentifier' = DOMAIN intToNPIdentifier \cup {v}
          /\ intToNPIdentifier'[v] = p
          /\ \A w \in DOMAIN intToNPIdentifier \ {v} : intToNPIdentifier'[w] = intToNPIdentifier[w]
          /\ stringToNPIdentifier' = stringToNPIdentifier
      BY <2>1, <2>4, <3>1 DEF handleManager_updateIdentifier, Put, OfNumber
    <3>3. v \notin DOMAIN intToNPIdentifier
      BY <2>2, <3>1 DEF MapsFind
    <3>4. ASSUME NEW q \in DOMAIN ident'
          PROVE  Finds(stringToNPIdentifier', intToNPIdentifier', ident'[q], q)
      <4>1. CASE q = p
        BY <4>1, <2>1, <3>1, <3>2 DEF OfNumber
      <4>2. CASE q # p
        <5>1. q \in DOMAIN ident /\ ident'[q] = ident[q] /\ q # Null
          BY <2>1, <4>2 DEF MapsFind, Assumption
        <5>2. Finds(stringToNPIdentifier, intToNPIdentifier, ident[q], q)
          BY <5>1 DEF MapsFind
        <5> QED BY <5>1, <5>2, <3>2, <3>3
      <4> QED BY <4>1, <4>2
    <3>5. DOMAIN ident' \subseteq Address
      BY <2>1 DEF MapsFind
    <3>6. \A w \in DOMAIN stringToNPIdentifier' :
             stringToNPIdentifier'[w] \in DOMAIN ident' /\ ident'[stringToNPIdentifier'[w]] = OfName(w)
      BY <2>1, <3>1, <3>2 DEF MapsFind
    <3>7. \A w \in DOMAIN intToNPIdentifier' :
             intToNPIdentifier'[w] \in DOMAIN ident' /\ ident'[intToNPIdentifier'[w]] = OfNumber(w)
      BY <2>1, <3>1, <3>2 DEF MapsFind
    <3> QED BY <2>1, <3>4, <3>5, <3>6, <3>7 DEF MapsFind
  <2> QED BY <2>3, <2>4
<1> QED BY <1>1, <1>2

-----------------------------------------------------------------------------
LEMMA InitRight == IdentifierInit => IdentifiersInv
BY DEF IdentifierInit, IdentifiersInv, MapsFind, StackHoldsRest

LEMMA AskRight == ASSUME Assumption, IdentifiersInv, NEW d \in Description, Ask(d) PROVE IdentifiersInv'
<1>1. PICK p \in Address : GetIdentifier(d, p)
  BY DEF Ask
<1>2. /\ MapsFind'
      /\ \A q \in DOMAIN ident : q \in DOMAIN ident' /\ ident'[q] = ident[q]
  BY <1>1, GetIdentifierRight DEF IdentifiersInv
<1>3. UNCHANGED <<stack, sent, read>>
  BY DEF Ask
<1> QED BY <1>2, <1>3 DEF IdentifiersInv, StackHoldsRest

LEMMA SendRight ==
    ASSUME Assumption, IdentifiersInv, NEW count \in 0 .. MaxCount, NEW array \in [1 .. count -> Description],
           Send(array)
    PROVE  IdentifiersInv'
<1>1. array \in Seq(Description) /\ Len(array) = count /\ count \in Nat
  BY DEF Assumption
<1>2. stack' = [n \in 1 .. count |-> array[count + 1 - n]]
  BY <1>1 DEF Send
<1>3. \A n \in 1 .. count : count + 1 - n \in 1 .. count
  BY <1>1
<1>4. stack' \in [1 .. count -> Description]
  BY <1>1, <1>2, <1>3
<1>5. stack' \in Seq(Description) /\ Len(stack') = count
  BY <1>1, <1>4
<1>6. /\ sent' = array /\ read' = <<>>
      /\ UNCHANGED <<ident, stringToNPIdentifier, intToNPIdentifier>>
  BY DEF Send
<1>7. MapsFind'
  BY <1>6 DEF IdentifiersInv, MapsFind, handleManager_lookupIdentifier
<1>8. \A n \in 1 .. Len(stack') : stack'[n] = sent'[Len(sent') + 1 - n]
  BY <1>1, <1>2, <1>5, <1>6
<1> QED BY <1>1, <1>5, <1>6, <1>7, <1>8 DEF IdentifiersInv, StackHoldsRest

LEMMA ReadRight == ASSUME Assumption, IdentifiersInv, Read PROVE IdentifiersInv'
<1> DEFINE top == Len(stack)
<1>1. /\ top \in Nat /\ top > 0 /\ stack[top] \in Description
      /\ stack[top] = sent[Len(read) + 1]
      /\ Len(read) \in Nat
  BY DEF IdentifiersInv, StackHoldsRest, Read
<1>2. PICK p \in Address : GetIdentifier(stack[top], p) /\ read' = Append(read, p)
  BY DEF Read
<1>3. /\ MapsFind'
      /\ p \in DOMAIN ident' /\ ident'[p] = stack[top]
      /\ \A q \in DOMAIN ident : q \in DOMAIN ident' /\ ident'[q] = ident[q]
  BY <1>1, <1>2, GetIdentifierRight DEF IdentifiersInv
<1>4. /\ sent' = sent
      /\ stack' \in Seq(Description) /\ Len(stack') = top - 1
      /\ \A n \in 1 .. Len(stack') : stack'[n] = stack[n]
  <2>1. stack' = SubSeq(stack, 1, top - 1) /\ sent' = sent
    BY DEF Read
  <2>2. stack \in Seq(Description)
    BY DEF IdentifiersInv, StackHoldsRest
  <2>3. stack' = [n \in 1 .. top - 1 |-> stack[n]]
    BY <1>1, <2>1, <2>2
  <2>4. /\ 1 .. top - 1 \subseteq 1 .. top /\ top - 1 \in Nat
        /\ \A n \in 1 .. top : stack[n] \in Description
    BY <1>1, <2>2
  <2>5. stack' \in [1 .. top - 1 -> Description]
    BY <2>3, <2>4
  <2>6. stack' \in Seq(Description) /\ Len(stack') = top - 1
    BY <2>4, <2>5
  <2> QED BY <2>1, <2>3, <2>6
<1>5. /\ read' \in Seq(Address) /\ Len(read') = Len(read) + 1
      /\ read'[Len(read) + 1] = p
      /\ \A n \in 1 .. Len(read) : read'[n] = read[n]
  BY <1>2 DEF IdentifiersInv, StackHoldsRest
<1>6. \A n \in 1 .. Len(read') : read'[n] \in DOMAIN ident' /\ ident'[read'[n]] = sent[n]
  BY <1>1, <1>3, <1>5, SMTT(60) DEF IdentifiersInv, StackHoldsRest
<1>7. \A n \in 1 .. Len(stack') : stack'[n] = sent[Len(sent) + 1 - n]
  <2>1. \A n \in 1 .. top : stack[n] = sent[Len(sent) + 1 - n]
    BY DEF IdentifiersInv, StackHoldsRest
  <2>2. 1 .. Len(stack') \subseteq 1 .. top
    BY <1>1, <1>4
  <2> QED BY <1>4, <2>1, <2>2
<1>8. sent \in Seq(Description) /\ Len(read') + Len(stack') = Len(sent)
  <2>1. sent \in Seq(Description) /\ Len(read) + top = Len(sent)
    BY DEF IdentifiersInv, StackHoldsRest
  <2>2. top \in Nat /\ Len(read) \in Nat /\ Len(stack') = top - 1 /\ Len(read') = Len(read) + 1
    BY <1>1, <1>4, <1>5
  <2> HIDE DEF top
  <2>3. Len(read') + Len(stack') = Len(read) + top
    BY <2>2
  <2> QED BY <2>1, <2>3
<1>9. StackHoldsRest'
  BY <1>4, <1>5, <1>6, <1>7, <1>8 DEF StackHoldsRest
<1> QED BY <1>3, <1>9 DEF IdentifiersInv

LEMMA NextRight == ASSUME Assumption, IdentifiersInv, [IdentifierNext]_identifierVars PROVE IdentifiersInv'
<1>1. CASE UNCHANGED identifierVars
  BY <1>1 DEF identifierVars, IdentifiersInv, MapsFind, StackHoldsRest, handleManager_lookupIdentifier, Find
<1>2. CASE IdentifierNext
  BY <1>2, AskRight, SendRight, ReadRight DEF IdentifierNext
<1> QED BY <1>1, <1>2

LEMMA IInvSuffices == IdentifiersInv => IdentifiersAgree
<1> SUFFICES ASSUME IdentifiersInv PROVE IdentifiersAgree
  OBVIOUS
<1>1. ASSUME NEW p \in DOMAIN ident, NEW q \in DOMAIN ident, ident[p] = ident[q] PROVE p = q
  BY <1>1 DEF IdentifiersInv, MapsFind, Finds
<1> QED BY <1>1 DEF IdentifiersInv, StackHoldsRest, IdentifiersAgree

\* For any names, numbers and addresses: the plugin gets the same pointer for
\* the same name or number, and arrays of identifiers arrive in their order
\* (handleManager_lookupIdentifier, readIdentifierArray).
THEOREM IdentifiersAlwaysAgree == ASSUME Assumption PROVE IdentifierSpec => []IdentifiersAgree
<1>1. IdentifierInit => IdentifiersInv
  BY InitRight
<1>2. IdentifiersInv /\ [IdentifierNext]_identifierVars => IdentifiersInv'
  BY NextRight
<1>3. IdentifiersInv => IdentifiersAgree
  BY IInvSuffices
<1> QED BY <1>1, <1>2, <1>3, PTL DEF IdentifierSpec
=============================================================================

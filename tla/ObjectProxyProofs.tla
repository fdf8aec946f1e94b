-------------------------- MODULE ObjectProxyProofs --------------------------
(***************************************************************************)
(* Proofs about ObjectProxy: for any number of objects, references and     *)
(* nested calls, as long as no method runs again on the object it runs on, *)
(* both sides know the same objects and their counts balance, so that no   *)
(* assertion fails and no pointer is left to an object that is gone.       *)
(***************************************************************************)
EXTENDS ObjectProxy, TLAPS, WellFoundedInduction, FiniteSetTheorems,
        FunctionTheorems, SequenceTheorems

Objects == [sort : {"none", "page", "custom"}, refs : Nat, held : Nat]
Kinds   == {"method", "getvalue", "deallocate", "script"}
Frames  == [kind : Kinds, callee : Id \cup {0}, args : Seq(Id)]

-----------------------------------------------------------------------------
(***************************************************************************)
(* The inductive invariant, as operators on what it is about: a handler    *)
(* changes the tables several times in one step.                           *)
(***************************************************************************)
\* No assertion has fired.
Whole(t) == t = [lin |-> t.lin, win |-> t.win, fault |-> "none"]

\* What Linux knows and Windows does not.
Missing(t) == DOMAIN t.lin \ DOMAIN t.win

\* The tables name objects that exist, each once, and the proxy of i counts
\* need[i] references; only a custom proxy outlives its last one.
TablesFit(t, o, need) ==
    /\ DOMAIN t.lin \subseteq Id /\ DOMAIN t.win \subseteq DOMAIN t.lin
    /\ \A i \in DOMAIN t.lin : t.lin[i] \in Addr /\ o[t.lin[i]].sort # "none"
    /\ \A i, j \in DOMAIN t.lin : t.lin[i] = t.lin[j] => i = j
    /\ \A i \in DOMAIN t.win :
          /\ t.win[i].ref = need[i] /\ t.win[i].addr = t.lin[i]
          /\ t.win[i].custom \in BOOLEAN
          /\ t.win[i].custom <=> o[t.lin[i]].sort = "custom"
          /\ need[i] > 0 \/ t.win[i].custom
    /\ \A i \in Id \ DOMAIN t.win : need[i] = 0

\* References to i that the methods in calls use.
Uses(calls, i) == Cardinality(RunsOn(calls, i)) + Cardinality(PassedIn(calls, i))

Need(mine, calls) == [i \in Id |-> mine[i] + Uses(calls, i)]

\* Methods have a callee, no two the same; what Linux knows alone is what is
\* being deallocated, once.
CallsFit(calls, t) ==
    /\ calls \in Seq(Frames)
    /\ \A n \in DOMAIN calls :
          /\ Len(calls[n].args) =< MaxArgs
          /\ calls[n].kind = "method" => calls[n].callee \in Id
          /\ calls[n].kind = "deallocate" => calls[n].callee \in Missing(t)
    /\ \A i \in Id : Cardinality(RunsOn(calls, i)) =< 1
    /\ \A m, n \in DOMAIN calls :
          /\ calls[m].kind = "deallocate" /\ calls[n].kind = "deallocate"
          /\ calls[m].callee = calls[n].callee
          => m = n
    /\ \A i \in Missing(t) :
          \E n \in DOMAIN calls : calls[n].kind = "deallocate" /\ calls[n].callee = i

\* The browser's count is what the page and the plugin hold, and the page holds
\* what the running methods use; a custom object keeps its ID until it is gone.
ObjectsFit(o, t, mine, calls) ==
    /\ \A a \in Addr : o[a].sort = "none" => o[a].refs = 0 /\ o[a].held = 0
    /\ \A a \in Addr : o[a].sort = "custom" => Named(t, a)
    /\ \A a \in Addr : ~Named(t, a) => o[a].refs = o[a].held
    /\ \A i \in DOMAIN t.lin :
          /\ o[t.lin[i]].refs = o[t.lin[i]].held + mine[i]
          /\ Uses(calls, i) =< o[t.lin[i]].held
    /\ \A i \in Missing(t) : o[t.lin[i]].sort = "custom" /\ o[t.lin[i]].held = 0

Fits(o, t, mine, calls) ==
    /\ o \in [Addr -> Objects]
    /\ mine \in [Id -> Nat]
    /\ Whole(t)
    /\ TablesFit(t, o, Need(mine, calls))
    /\ CallsFit(calls, t)
    /\ ObjectsFit(o, t, mine, calls)

IInv == Fits(obj, tables, own, stack)

-----------------------------------------------------------------------------
(***************************************************************************)
(* How IDs are chosen.                                                     *)
(***************************************************************************)
\* Every non-empty set of naturals has a least element.
LEMMA LeastNatural ==
    ASSUME NEW S \in SUBSET Nat, S # {}
    PROVE  \E x \in S : \A y \in S : x =< y
<1> DEFINE R == {ss \in Nat \X Nat : ss[1] < ss[2]}
<1>1. IsWellFoundedOn(R, Nat)
  BY NatLessThanWellFounded DEF OpToRel
<1>2. PICK x \in S : \A y \in S : ~ (<<y, x>> \in R)
  BY <1>1, WFMin, Zenon
<1>3. ASSUME NEW y \in S PROVE x =< y
  <2>1. <<y, x>> \notin R
    BY <1>2
  <2>2. x \in Nat /\ y \in Nat /\ ~ (y < x)
    BY <2>1
  <2> QED BY <2>2
<1> QED BY <1>3

\* Min of FiniteSetsExt is the least element where there is one.
LEMMA MinProperties ==
    ASSUME NEW S \in SUBSET Nat, S # {}
    PROVE  Min(S) \in S /\ \A y \in S : Min(S) =< y
BY LeastNatural DEF Min

\* A non-empty set of IDs has a greatest element, and Max returns it.
LEMMA MaxProperties ==
    ASSUME NEW S \in SUBSET Id, S # {}
    PROVE  Max(S) \in S /\ \A y \in S : y =< Max(S)
<1> USE MaxIdAssumption DEF Id
<1> DEFINE T == {MaxId - x : x \in S}
<1>1. T \in SUBSET Nat /\ T # {}
  <2>1. ASSUME NEW x \in S PROVE MaxId - x \in Nat
    OBVIOUS
  <2>2. PICK x \in S : TRUE
    OBVIOUS
  <2>3. MaxId - x \in T
    OBVIOUS
  <2>4. \A t \in T : t \in Nat
    BY <2>1
  <2> QED BY <2>3, <2>4
<1>2. PICK t \in T : \A u \in T : t =< u
  <2> HIDE DEF T
  <2> QED BY <1>1, LeastNatural
<1>3. PICK m \in S : t = MaxId - m
  BY <1>2
<1>4. ASSUME NEW y \in S PROVE m >= y
  <2>1. MaxId - m =< MaxId - y
    BY <1>2, <1>3
  <2> QED BY <2>1
<1>5. \E x \in S : \A y \in S : x >= y
  BY <1>4
<1> QED BY <1>5 DEF Max

\* getFreeID returns 0 only when every ID is in use, and otherwise an ID that
\* is not.
LEMMA GetFreeIDFresh ==
    ASSUME NEW used \in SUBSET Id
    PROVE  /\ GetFreeID(used) = 0 => used = Id
           /\ GetFreeID(used) # 0 => GetFreeID(used) \in Id \ used
<1> USE MaxIdAssumption
<1>1. CASE used = {}
  BY <1>1 DEF GetFreeID, Id
<1>2. CASE used # {}
  <2>1. Max(used) \in used /\ \A y \in used : y =< Max(used)
    BY <1>2, MaxProperties
  <2>2. Max(used) \in 1 .. MaxId
    BY <2>1 DEF Id
  <2>3. CASE Succ(Max(used)) # 0
    <3>1. GetFreeID(used) = Max(used) + 1 /\ Max(used) # MaxId
      BY <1>2, <2>3 DEF GetFreeID, Succ
    <3>2. Max(used) + 1 \in Id
      BY <2>2, <3>1 DEF Id
    <3>3. Max(used) + 1 \notin used
      BY <2>1, <2>2
    <3> QED BY <3>1, <3>2, <3>3, <2>2
  <2>4. CASE Succ(Max(used)) = 0
    <3>1. GetFreeID(used) = SearchId(used)
      BY <1>2, <2>4 DEF GetFreeID
    <3>2. CASE Id \subseteq used
      BY <3>1, <3>2 DEF SearchId
    <3>3. CASE ~ (Id \subseteq used)
      <4>1. Min(Id \ used) \in Id \ used
        BY <3>3, MinProperties DEF Id
      <4>2. SearchId(used) = Min(Id \ used)
        BY <3>3 DEF SearchId
      <4> QED BY <3>1, <4>1, <4>2 DEF Id
    <3> QED BY <3>2, <3>3
  <2> QED BY <2>3, <2>4
<1> QED BY <1>1, <1>2

-----------------------------------------------------------------------------
(***************************************************************************)
(* Counting.                                                               *)
(***************************************************************************)
\* A stack that is not empty is its rest and its innermost call.
LEMMA FrontAndLast ==
    ASSUME NEW S, NEW calls \in Seq(S), calls # <<>>
    PROVE  /\ Front(calls) \in Seq(S)
           /\ Last(calls) \in S
           /\ Len(calls) \in DOMAIN calls /\ Last(calls) = calls[Len(calls)]
           /\ Len(Front(calls)) = Len(calls) - 1
           /\ \A k \in DOMAIN Front(calls) :
                 k \in DOMAIN calls /\ k # Len(calls) /\ Front(calls)[k] = calls[k]
           /\ calls = Append(Front(calls), Last(calls))
<1>1. Len(calls) \in Nat /\ Len(calls) > 0
  OBVIOUS
<1>2. Front(calls) = [k \in 1 .. Len(calls) - 1 |-> calls[k]]
  <2>1. Front(calls) = SubSeq(calls, 1, Len(calls) - 1)
    BY DEF Front
  <2> QED BY <1>1, <2>1
<1>3. Front(calls) \in Seq(S) /\ Len(Front(calls)) = Len(calls) - 1
  <2> DEFINE m == Len(calls) - 1
  <2>1. m \in Nat /\ \A k \in 1 .. m : calls[k] \in S
    BY <1>1
  <2>2. [k \in 1 .. m |-> calls[k]] \in [1 .. m -> S]
    BY <2>1
  <2>3. Front(calls) \in [1 .. m -> S]
    BY <1>2, <2>2
  <2> HIDE DEF m
  <2>4. Front(calls) \in Seq(S) /\ Len(Front(calls)) = m
    BY <2>1, <2>3
  <2> QED BY <2>4 DEF m
<1>4. Last(calls) = calls[Len(calls)] /\ Last(calls) \in S
  BY <1>1 DEF Last
<1>5. calls = Append(Front(calls), Last(calls))
  BY <1>1, <1>2, <1>3, <1>4
<1> QED BY <1>1, <1>2, <1>3, <1>4, <1>5

\* The places of x in a sequence, and among its first k members.
Places(seq, x)  == {n \in DOMAIN seq : seq[n] = x}
Until(seq, k, x) == {n \in 1 .. k : seq[n] = x}
Same(x, y) == IF x = y THEN 1 ELSE 0

LEMMA OccurrencesIsCount ==
    ASSUME NEW S, NEW seq \in Seq(S), NEW x
    PROVE  /\ IsFiniteSet(Places(seq, x))
           /\ Occurrences(seq, x) = Cardinality(Places(seq, x))
           /\ Occurrences(seq, x) \in Nat
<1>1. IsFiniteSet(1 .. Len(seq))
  BY FS_Interval
<1>2. Places(seq, x) \in SUBSET (1 .. Len(seq))
  BY DEF Places
<1>3. IsFiniteSet(Places(seq, x))
  BY <1>1, <1>2, FS_Subset
<1>4. Cardinality(Places(seq, x)) \in Nat
  BY <1>3, FS_CardinalityType
<1> QED BY <1>3, <1>4 DEF Occurrences, Places

\* Counting the members one after the other.
LEMMA CountUntil ==
    ASSUME NEW S, NEW seq \in Seq(S), NEW x
    PROVE  /\ Cardinality(Until(seq, 0, x)) = 0
           /\ Cardinality(Until(seq, Len(seq), x)) = Occurrences(seq, x)
           /\ \A k \in 0 .. Len(seq) : Cardinality(Until(seq, k, x)) \in Nat
           /\ \A k \in 1 .. Len(seq) :
                 Cardinality(Until(seq, k, x)) = Cardinality(Until(seq, k - 1, x)) + Same(seq[k], x)
           /\ \A k \in 0 .. Len(seq) : Cardinality(Until(seq, k, x)) =< Occurrences(seq, x)
<1>1. Until(seq, 0, x) = {}
  BY DEF Until
<1>2. Until(seq, Len(seq), x) = Places(seq, x)
  BY DEF Until, Places
<1>3. ASSUME NEW k \in 0 .. Len(seq)
      PROVE  /\ IsFiniteSet(Until(seq, k, x)) /\ Cardinality(Until(seq, k, x)) \in Nat
             /\ Cardinality(Until(seq, k, x)) =< Occurrences(seq, x)
  <2>1. Until(seq, k, x) \in SUBSET Places(seq, x)
    BY DEF Until, Places
  <2> QED BY <2>1, OccurrencesIsCount, FS_Subset, FS_CardinalityType
<1>4. ASSUME NEW k \in 1 .. Len(seq)
      PROVE  Cardinality(Until(seq, k, x)) = Cardinality(Until(seq, k - 1, x)) + Same(seq[k], x)
  <2>1. k - 1 \in 0 .. Len(seq) /\ k \notin Until(seq, k - 1, x)
    BY DEF Until
  <2>2. IsFiniteSet(Until(seq, k - 1, x)) /\ Cardinality(Until(seq, k - 1, x)) \in Nat
    BY <1>3, <2>1
  <2>3. CASE seq[k] = x
    <3>1. Until(seq, k, x) = Until(seq, k - 1, x) \cup {k}
      BY <2>3 DEF Until
    <3>2. Cardinality(Until(seq, k - 1, x) \cup {k}) = Cardinality(Until(seq, k - 1, x)) + 1
      BY <2>1, <2>2, FS_AddElement
    <3> QED BY <2>3, <3>1, <3>2 DEF Same
  <2>4. CASE seq[k] # x
    <3>1. Until(seq, k, x) = Until(seq, k - 1, x)
      BY <2>4 DEF Until
    <3> QED BY <2>2, <2>4, <3>1 DEF Same
  <2> QED BY <2>3, <2>4
<1> QED BY <1>1, <1>2, <1>3, <1>4, OccurrencesIsCount, FS_EmptySet

\* A list with one more member in front.
LEMMA OccurrencesCons ==
    ASSUME NEW S, NEW seq \in Seq(S), NEW y \in S, NEW x
    PROVE  Occurrences(<<y>> \o seq, x) = Occurrences(seq, x) + Same(y, x)
<1> DEFINE more == <<y>> \o seq
           P == Places(seq, x)
           Q == Places(more, x)
           f == [n \in P |-> n + 1]
<1>1. /\ more \in Seq(S) /\ Len(more) = Len(seq) + 1 /\ more[1] = y
      /\ \A n \in 1 .. Len(seq) : more[n + 1] = seq[n]
  OBVIOUS
<1>2. IsFiniteSet(P) /\ Occurrences(seq, x) = Cardinality(P) /\ Cardinality(P) \in Nat
  BY OccurrencesIsCount
<1>3. IsFiniteSet(Q) /\ Occurrences(more, x) = Cardinality(Q) /\ Cardinality(Q) \in Nat
  <2> HIDE DEF more
  <2> QED BY <1>1, OccurrencesIsCount
<1>4. Cardinality(Q \ {1}) = Cardinality(P)
  <2>1. DOMAIN seq = 1 .. Len(seq) /\ DOMAIN more = 1 .. Len(seq) + 1 /\ Len(seq) \in Nat
    BY <1>1
  <2> HIDE DEF more
  <2>2. f \in [P -> Q \ {1}]
    <3>1. ASSUME NEW n \in P PROVE n + 1 \in Q \ {1}
      <4>1. n \in 1 .. Len(seq) /\ seq[n] = x
        BY <2>1 DEF Places
      <4>2. n + 1 \in 1 .. Len(seq) + 1 /\ more[n + 1] = x /\ n + 1 # 1
        BY <4>1, <1>1, <2>1
      <4> QED BY <4>2, <2>1 DEF Places
    <3> QED BY <3>1
  <2>3. \A m, n \in P : f[m] = f[n] => m = n
    BY <2>1 DEF Places
  <2>4. \A q \in Q \ {1} : \E n \in P : f[n] = q
    <3>1. ASSUME NEW q \in Q \ {1} PROVE \E n \in P : f[n] = q
      <4>1. q \in 1 .. Len(seq) + 1 /\ more[q] = x /\ q # 1
        BY <2>1 DEF Places
      <4>2. q - 1 \in 1 .. Len(seq) /\ (q - 1) + 1 = q
        BY <4>1, <2>1
      <4>3. seq[q - 1] = x
        BY <4>1, <4>2, <1>1
      <4>4. q - 1 \in P
        BY <4>2, <4>3, <2>1 DEF Places
      <4>5. f[q - 1] = q
        BY <4>4, <4>2
      <4> QED BY <4>4, <4>5
    <3> QED BY <3>1
  <2>5. f \in Bijection(P, Q \ {1})
    <3> HIDE DEF f, P, Q
    <3> QED BY <2>2, <2>3, <2>4 DEF Bijection, Injection, Surjection, IsInjective
  <2>6. IsFiniteSet(Q \ {1})
    BY <1>3, FS_Subset
  <2> HIDE DEF f, P, Q
  <2>7. ExistsBijection(P, Q \ {1})
    BY <2>5 DEF ExistsBijection
  <2> QED BY <2>6, <2>7, <1>2, FS_Bijection
<1>5. 1 \in Q <=> y = x
  <2>1. 1 \in DOMAIN more
    BY <1>1
  <2> QED BY <1>1, <2>1 DEF Places
<1> HIDE DEF P, Q
<1>6. CASE y = x
  <2>1. Cardinality(Q \ {1}) = Cardinality(Q) - 1
    BY <1>3, <1>5, <1>6, FS_RemoveElement
  <2> QED BY <2>1, <1>2, <1>3, <1>4, <1>6 DEF Same
<1>7. CASE y # x
  <2>1. Q \ {1} = Q
    BY <1>5, <1>7
  <2>2. Same(y, x) = 0
    BY <1>7 DEF Same
  <2>3. Cardinality(Q) = Cardinality(P)
    BY <2>1, <1>4
  <2> QED BY <2>2, <2>3, <1>2, <1>3
<1> QED BY <1>6, <1>7
-----------------------------------------------------------------------------
(***************************************************************************)
(* What the running methods use.                                           *)
(***************************************************************************)
\* What one call uses.
RunOf(f, i)  == IF f.kind = "method" /\ f.callee = i THEN 1 ELSE 0
ArgsOf(f, i) == IF f.kind = "method" THEN Occurrences(f.args, i) ELSE 0

LEMMA RunsOnIsCount ==
    ASSUME NEW calls \in Seq(Frames), NEW i
    PROVE  IsFiniteSet(RunsOn(calls, i)) /\ Cardinality(RunsOn(calls, i)) \in Nat
<1>1. IsFiniteSet(1 .. Len(calls))
  BY FS_Interval
<1>2. RunsOn(calls, i) \in SUBSET (1 .. Len(calls))
  BY DEF RunsOn
<1> QED BY <1>1, <1>2, FS_Subset, FS_CardinalityType

LEMMA PassedInIsCount ==
    ASSUME NEW calls \in Seq(Frames), NEW i
    PROVE  IsFiniteSet(PassedIn(calls, i)) /\ Cardinality(PassedIn(calls, i)) \in Nat
<1>1. IsFiniteSet(1 .. Len(calls)) /\ IsFiniteSet(1 .. MaxArgs)
  BY FS_Interval, MaxArgsAssumption
<1>2. IsFiniteSet((1 .. Len(calls)) \X (1 .. MaxArgs))
  BY <1>1, FS_Product
<1>3. PassedIn(calls, i) \in SUBSET ((1 .. Len(calls)) \X (1 .. MaxArgs))
  BY DEF PassedIn
<1> QED BY <1>2, <1>3, FS_Subset, FS_CardinalityType

LEMMA UsesIsCount ==
    ASSUME NEW calls \in Seq(Frames), NEW i
    PROVE  Uses(calls, i) \in Nat
BY RunsOnIsCount, PassedInIsCount DEF Uses

LEMMA RunsOnAppend ==
    ASSUME NEW calls \in Seq(Frames), NEW f \in Frames, NEW i
    PROVE  Cardinality(RunsOn(Append(calls, f), i)) = Cardinality(RunsOn(calls, i)) + RunOf(f, i)
<1> DEFINE new == Len(calls) + 1
           more == Append(calls, f)
<1>1. IsFiniteSet(RunsOn(calls, i)) /\ Cardinality(RunsOn(calls, i)) \in Nat
  BY RunsOnIsCount
<1>2. /\ DOMAIN more = DOMAIN calls \cup {new} /\ new \notin DOMAIN calls
      /\ \A k \in DOMAIN calls : more[k] = calls[k]
      /\ more[new] = f
  OBVIOUS
<1> HIDE DEF more, new
<1>3. CASE f.kind = "method" /\ f.callee = i
  <2>1. RunsOn(more, i) = RunsOn(calls, i) \cup {new} /\ new \notin RunsOn(calls, i)
    BY <1>2, <1>3 DEF RunsOn
  <2>2. Cardinality(RunsOn(more, i)) = Cardinality(RunsOn(calls, i)) + 1
    BY <1>1, <2>1, FS_AddElement
  <2>3. RunOf(f, i) = 1
    BY <1>3 DEF RunOf
  <2> QED BY <2>2, <2>3 DEF more
<1>4. CASE ~(f.kind = "method" /\ f.callee = i)
  <2>1. RunsOn(more, i) = RunsOn(calls, i)
    BY <1>2, <1>4 DEF RunsOn
  <2>2. RunOf(f, i) = 0
    BY <1>4 DEF RunOf
  <2> QED BY <1>1, <2>1, <2>2 DEF more
<1> QED BY <1>3, <1>4

LEMMA PassedInAppend ==
    ASSUME NEW calls \in Seq(Frames), NEW f \in Frames, Len(f.args) =< MaxArgs, NEW i
    PROVE  Cardinality(PassedIn(Append(calls, f), i)) = Cardinality(PassedIn(calls, i)) + ArgsOf(f, i)
<1> DEFINE new == Len(calls) + 1
           more == Append(calls, f)
           P == Places(f.args, i)
           N == {<<new, n>> : n \in P}
           g == [n \in P |-> <<new, n>>]
<1>1. IsFiniteSet(PassedIn(calls, i)) /\ Cardinality(PassedIn(calls, i)) \in Nat
  BY PassedInIsCount
<1>2. /\ DOMAIN more = DOMAIN calls \cup {new} /\ new \notin DOMAIN calls
      /\ \A k \in DOMAIN calls : more[k] = calls[k]
      /\ more[new] = f
  OBVIOUS
<1>3. /\ f.args \in Seq(Id) /\ DOMAIN f.args = 1 .. Len(f.args)
      /\ DOMAIN f.args \subseteq 1 .. MaxArgs
  BY MaxArgsAssumption DEF Frames
<1>4. IsFiniteSet(P) /\ Occurrences(f.args, i) = Cardinality(P) /\ Cardinality(P) \in Nat
  BY <1>3, OccurrencesIsCount
<1> HIDE DEF more, new
<1>5. CASE f.kind = "method"
  <2>1. IsFiniteSet(N) /\ Cardinality(N) = Cardinality(P)
    <3>1. g \in Bijection(P, N)
      <4>1. g \in [P -> N] /\ \A m, n \in P : g[m] = g[n] => m = n
        BY Zenon
      <4>2. \A q \in N : \E n \in P : g[n] = q
        OBVIOUS
      <4> HIDE DEF g, P, N
      <4> QED BY <4>1, <4>2 DEF Bijection, Injection, Surjection, IsInjective
    <3>2. ExistsBijection(P, N)
      BY <3>1 DEF ExistsBijection
    <3> HIDE DEF P, N
    <3> QED BY <1>4, <3>2, FS_Bijection
  <2>2. PassedIn(more, i) = PassedIn(calls, i) \cup N
    <3>1. ASSUME NEW p \in PassedIn(more, i) PROVE p \in PassedIn(calls, i) \cup N
      <4>1. /\ p = <<p[1], p[2]>> /\ p[1] \in DOMAIN more /\ p[2] \in 1 .. MaxArgs
            /\ more[p[1]].kind = "method" /\ p[2] \in DOMAIN more[p[1]].args
            /\ more[p[1]].args[p[2]] = i
        BY DEF PassedIn
      <4>2. CASE p[1] = new
        <5>1. p[2] \in P
          BY <4>1, <4>2, <1>2 DEF Places
        <5> QED BY <4>1, <4>2, <5>1
      <4>3. CASE p[1] # new
        <5>1. p[1] \in DOMAIN calls /\ more[p[1]] = calls[p[1]]
          BY <4>1, <4>3, <1>2
        <5>2. p \in (DOMAIN calls) \X (1 .. MaxArgs)
          BY <4>1, <5>1
        <5> QED BY <4>1, <5>1, <5>2 DEF PassedIn
      <4> QED BY <4>2, <4>3
    <3>2. ASSUME NEW p \in PassedIn(calls, i) PROVE p \in PassedIn(more, i)
      <4>1. /\ p \in (DOMAIN calls) \X (1 .. MaxArgs)
            /\ calls[p[1]].kind = "method" /\ p[2] \in DOMAIN calls[p[1]].args
            /\ calls[p[1]].args[p[2]] = i
        BY DEF PassedIn
      <4>2. p[1] \in DOMAIN calls /\ p \in (DOMAIN more) \X (1 .. MaxArgs) /\ more[p[1]] = calls[p[1]]
        BY <4>1, <1>2
      <4> QED BY <4>1, <4>2 DEF PassedIn
    <3>3. ASSUME NEW n \in P PROVE <<new, n>> \in PassedIn(more, i)
      <4>1. n \in DOMAIN f.args /\ f.args[n] = i /\ n \in 1 .. MaxArgs
        BY <1>3 DEF Places
      <4>2. <<new, n>> \in (DOMAIN more) \X (1 .. MaxArgs)
        BY <4>1, <1>2
      <4> DEFINE p == <<new, n>>
      <4>3. p[1] = new /\ p[2] = n
        OBVIOUS
      <4>4. p \in (DOMAIN more) \X (1 .. MaxArgs)
        BY <4>2
      <4> HIDE DEF p
      <4>5. p \in PassedIn(more, i)
        BY <4>1, <4>3, <4>4, <1>2, <1>5 DEF PassedIn
      <4> QED BY <4>5 DEF p
    <3> HIDE DEF P
    <3> QED BY <3>1, <3>2, <3>3
  <2>3. PassedIn(calls, i) \cap N = {}
    BY <1>2 DEF PassedIn
  <2>4. ArgsOf(f, i) = Cardinality(P)
    BY <1>4, <1>5 DEF ArgsOf
  <2> HIDE DEF N, P
  <2>5. Cardinality(PassedIn(more, i)) = Cardinality(PassedIn(calls, i)) + Cardinality(N) - Cardinality(PassedIn(calls, i) \cap N)
    BY <2>1, <2>2, <1>1, FS_Union
  <2>6. Cardinality(PassedIn(calls, i) \cap N) = 0
    BY <2>3, FS_EmptySet
  <2> QED BY <1>1, <1>4, <2>1, <2>4, <2>5, <2>6 DEF more
<1>6. CASE f.kind # "method"
  <2>1. ASSUME NEW p \in PassedIn(more, i) PROVE p \in PassedIn(calls, i)
    <3>1. /\ p = <<p[1], p[2]>> /\ p[1] \in DOMAIN more /\ p[2] \in 1 .. MaxArgs
          /\ more[p[1]].kind = "method" /\ p[2] \in DOMAIN more[p[1]].args
          /\ more[p[1]].args[p[2]] = i
      BY DEF PassedIn
    <3>2. p[1] \in DOMAIN calls /\ more[p[1]] = calls[p[1]]
      BY <3>1, <1>2, <1>6
    <3>3. p \in (DOMAIN calls) \X (1 .. MaxArgs)
      BY <3>1, <3>2
    <3> QED BY <3>1, <3>2, <3>3 DEF PassedIn
  <2>2. ASSUME NEW p \in PassedIn(calls, i) PROVE p \in PassedIn(more, i)
    <3>1. /\ p \in (DOMAIN calls) \X (1 .. MaxArgs)
          /\ calls[p[1]].kind = "method" /\ p[2] \in DOMAIN calls[p[1]].args
          /\ calls[p[1]].args[p[2]] = i
      BY DEF PassedIn
    <3>2. p[1] \in DOMAIN calls /\ p \in (DOMAIN more) \X (1 .. MaxArgs) /\ more[p[1]] = calls[p[1]]
      BY <3>1, <1>2
    <3> QED BY <3>1, <3>2 DEF PassedIn
  <2>3. PassedIn(more, i) = PassedIn(calls, i)
    BY <2>1, <2>2
  <2>4. ArgsOf(f, i) = 0
    BY <1>6 DEF ArgsOf
  <2> QED BY <1>1, <2>3, <2>4 DEF more
<1> QED BY <1>5, <1>6

LEMMA UsesAppend ==
    ASSUME NEW calls \in Seq(Frames), NEW f \in Frames, Len(f.args) =< MaxArgs, NEW i
    PROVE  /\ Uses(Append(calls, f), i) = Uses(calls, i) + RunOf(f, i) + ArgsOf(f, i)
           /\ Uses(calls, i) \in Nat /\ RunOf(f, i) \in Nat /\ ArgsOf(f, i) \in Nat
<1>1. RunOf(f, i) \in Nat
  BY DEF RunOf
<1>2. ArgsOf(f, i) \in Nat
  <2>1. f.args \in Seq(Id)
    BY DEF Frames
  <2> QED BY <2>1, OccurrencesIsCount DEF ArgsOf
<1>3. Cardinality(RunsOn(calls, i)) \in Nat /\ Cardinality(PassedIn(calls, i)) \in Nat
  BY RunsOnIsCount, PassedInIsCount
<1> QED BY <1>1, <1>2, <1>3, RunsOnAppend, PassedInAppend DEF Uses

LEMMA UsesFront ==
    ASSUME NEW calls \in Seq(Frames), calls # <<>>, Len(Last(calls).args) =< MaxArgs, NEW i
    PROVE  /\ Uses(calls, i) = Uses(Front(calls), i) + RunOf(Last(calls), i) + ArgsOf(Last(calls), i)
           /\ Cardinality(RunsOn(calls, i)) = Cardinality(RunsOn(Front(calls), i)) + RunOf(Last(calls), i)
           /\ Cardinality(RunsOn(Front(calls), i)) =< Cardinality(RunsOn(calls, i))
           /\ Uses(Front(calls), i) \in Nat
           /\ RunOf(Last(calls), i) \in Nat /\ ArgsOf(Last(calls), i) \in Nat
<1>1. /\ Front(calls) \in Seq(Frames) /\ Last(calls) \in Frames
      /\ calls = Append(Front(calls), Last(calls))
  BY FrontAndLast
<1>2. /\ Uses(Append(Front(calls), Last(calls)), i)
            = Uses(Front(calls), i) + RunOf(Last(calls), i) + ArgsOf(Last(calls), i)
      /\ Uses(Front(calls), i) \in Nat
      /\ RunOf(Last(calls), i) \in Nat /\ ArgsOf(Last(calls), i) \in Nat
  BY <1>1, UsesAppend
<1>3. Cardinality(RunsOn(Append(Front(calls), Last(calls)), i))
            = Cardinality(RunsOn(Front(calls), i)) + RunOf(Last(calls), i)
  BY <1>1, RunsOnAppend
<1>4. Cardinality(RunsOn(Front(calls), i)) \in Nat
  BY <1>1, RunsOnIsCount
<1>5. /\ Uses(calls, i) = Uses(Front(calls), i) + RunOf(Last(calls), i) + ArgsOf(Last(calls), i)
      /\ Cardinality(RunsOn(calls, i)) = Cardinality(RunsOn(Front(calls), i)) + RunOf(Last(calls), i)
  BY <1>1, <1>2, <1>3
<1> QED BY <1>2, <1>4, <1>5
-----------------------------------------------------------------------------
(***************************************************************************)
(* The helpers on tables that fit.                                         *)
(***************************************************************************)
LEMMA AssertionHolds ==
    ASSUME NEW t, NEW holds, holds, NEW what
    PROVE  DbgAssert(t, holds, what) = t
BY DEF DbgAssert

\* Counting from 0 to N.
LEMMA CountingUp ==
    ASSUME NEW N \in Nat, NEW S, 0 \in S, \A k \in 1 .. N : k - 1 \in S => k \in S
    PROVE  \A k \in 0 .. N : k \in S
<1> DEFINE Bad == {k \in 0 .. N : k \notin S}
<1>1. SUFFICES ASSUME Bad # {} PROVE FALSE
  OBVIOUS
<1>2. Bad \in SUBSET Nat
  OBVIOUS
<1>3. PICK k \in Bad : \A l \in Bad : k =< l
  <2> HIDE DEF Bad
  <2> QED BY <1>1, <1>2, LeastNatural
<1>4. k \in 1 .. N
  BY <1>3
<1>5. k - 1 \in 0 .. N /\ k - 1 \notin Bad
  BY <1>3, <1>4
<1> QED BY <1>3, <1>4, <1>5

More(need, i) == [j \in Id |-> need[j] + Same(i, j)]
Less(need, i) == [j \in Id |-> need[j] - Same(i, j)]

LEMMA SameIs ==
    /\ \A i, j : i = j => Same(i, j) = 1
    /\ \A i, j : i # j => Same(i, j) = 0
<1>1. ASSUME NEW i, NEW j, i = j PROVE Same(i, j) = 1
  BY <1>1 DEF Same
<1>2. ASSUME NEW i, NEW j, i # j PROVE Same(i, j) = 0
  BY <1>2 DEF Same
<1> QED BY <1>1, <1>2

LEMMA MoreIs ==
    ASSUME NEW need \in [Id -> Nat], NEW i
    PROVE  /\ \A j \in Id : More(need, i)[j] = IF j = i THEN need[j] + 1 ELSE need[j]
           /\ \A j \in Id : Less(need, i)[j] = IF j = i THEN need[j] - 1 ELSE need[j]
<1>1. ASSUME NEW j \in Id
      PROVE  /\ More(need, i)[j] = IF j = i THEN need[j] + 1 ELSE need[j]
             /\ Less(need, i)[j] = IF j = i THEN need[j] - 1 ELSE need[j]
  <2>1. More(need, i)[j] = need[j] + Same(i, j) /\ Less(need, i)[j] = need[j] - Same(i, j)
    BY DEF More, Less
  <2>2. need[j] \in Nat
    OBVIOUS
  <2>3. CASE i = j
    <3>1. Same(i, j) = 1
      BY <2>3, SameIs
    <3> QED BY <2>1, <2>3, <3>1
  <2>4. CASE i # j
    <3>1. Same(i, j) = 0
      BY <2>4, SameIs
    <3> QED BY <2>1, <2>2, <2>4, <3>1
  <2> QED BY <2>3, <2>4
<1> QED BY <1>1

\* A named object has one ID.
LEMMA IdOfNamed ==
    ASSUME NEW t, NEW o, NEW need, TablesFit(t, o, need), NEW a, Named(t, a)
    PROVE  /\ IdOf(t, a) \in DOMAIN t.lin /\ t.lin[IdOf(t, a)] = a
           /\ IdOf(t, a) \in Id
           /\ \A i \in DOMAIN t.lin : t.lin[i] = a => i = IdOf(t, a)
<1>1. \E i \in DOMAIN t.lin : t.lin[i] = a
  BY DEF Named
<1>2. IdOf(t, a) \in DOMAIN t.lin /\ t.lin[IdOf(t, a)] = a
  BY <1>1 DEF IdOf
<1> QED BY <1>2 DEF TablesFit

LEMMA IdOfKnown ==
    ASSUME NEW t, NEW o, NEW need, TablesFit(t, o, need), NEW i \in DOMAIN t.lin
    PROVE  Named(t, t.lin[i]) /\ IdOf(t, t.lin[i]) = i
<1>1. Named(t, t.lin[i])
  BY DEF Named
<1> QED BY <1>1, IdOfNamed

\* There is an ID for one object more.
LEMMA RoomForObject ==
    ASSUME NEW t, NEW o, NEW need, TablesFit(t, o, need), NEW a \in Addr, ~Named(t, a)
    PROVE  GetFreeID(DOMAIN t.lin) \in Id \ DOMAIN t.lin
<1> DEFINE used == DOMAIN t.lin
           f == [i \in used |-> t.lin[i]]
<1>1. used \in SUBSET Id
  BY DEF TablesFit
<1>2. SUFFICES ASSUME used = Id PROVE FALSE
  BY <1>1, GetFreeIDFresh
<1>3. f \in Injection(used, Addr \ {a})
  <2>1. \A i \in used : t.lin[i] \in Addr \ {a}
    BY DEF TablesFit, Named
  <2>2. f \in [used -> Addr \ {a}]
    BY <2>1
  <2>3. \A i, j \in used : f[i] = f[j] => i = j
    BY DEF TablesFit
  <2> QED BY <2>2, <2>3 DEF Injection, IsInjective
<1>4. /\ IsFiniteSet(Addr \ {a}) /\ Cardinality(Addr \ {a}) = Cardinality(Addr) - 1
      /\ Cardinality(Addr) \in Nat
  BY EnoughIdsAssumption, FS_RemoveElement, FS_CardinalityType
<1>5. Cardinality(used) =< Cardinality(Addr \ {a})
  <2> HIDE DEF f, used
  <2> QED BY <1>3, <1>4, FS_Injection
<1>6. Cardinality(used) = MaxId /\ MaxId \in Nat
  BY <1>2, MaxIdAssumption, FS_Interval DEF Id
<1> QED BY <1>4, <1>5, <1>6, EnoughIdsAssumption

\* u knows what t knows, and besides only objects of A.
Grown(t, u, A) ==
    /\ DOMAIN t.lin \subseteq DOMAIN u.lin
    /\ \A i \in DOMAIN t.lin : u.lin[i] = t.lin[i]
    /\ \A j \in DOMAIN u.lin \ DOMAIN t.lin : u.lin[j] \in A

\* Linux names an object.
LEMMA LinWriteFits ==
    ASSUME NEW t, NEW o, NEW need, Whole(t), TablesFit(t, o, need),
           NEW a \in Addr, o[a].sort # "none"
    PROVE  /\ Whole(LinWrite(t, a)) /\ TablesFit(LinWrite(t, a), o, need)
           /\ LinWrite(t, a).win = t.win
           /\ Named(LinWrite(t, a), a) /\ Grown(t, LinWrite(t, a), {a})
<1>1. CASE Named(t, a)
  <2>1. LinWrite(t, a) = t
    BY <1>1 DEF LinWrite
  <2> QED BY <1>1, <2>1 DEF Grown
<1>2. CASE ~Named(t, a)
  <2> DEFINE i == GetFreeID(DOMAIN t.lin)
             u == [lin |-> Insert(t.lin, i, a), win |-> t.win, fault |-> "none"]
  <2>1. i \in Id /\ i \notin DOMAIN t.lin /\ i # 0
    BY <1>2, RoomForObject DEF Id
  <2> HIDE DEF i
  <2>2. [t EXCEPT !.lin = Insert(@, i, a)] = u
    BY DEF Whole
  <2>3. LinWrite(t, a) = u
    BY <1>2, <2>1, <2>2, AssertionHolds DEF LinWrite, i
  <2>4. /\ DOMAIN u.lin = DOMAIN t.lin \cup {i} /\ u.lin[i] = a /\ u.win = t.win
        /\ \A j \in DOMAIN t.lin : u.lin[j] = t.lin[j]
    BY <2>1 DEF Insert
  <2>5. Whole(u)
    BY DEF Whole
  <2> HIDE DEF u
  <2>6. TablesFit(u, o, need)
    <3>1. DOMAIN u.lin \subseteq Id /\ DOMAIN u.win \subseteq DOMAIN u.lin
      BY <2>1, <2>4 DEF TablesFit
    <3>2. \A j \in DOMAIN u.lin : u.lin[j] \in Addr /\ o[u.lin[j]].sort # "none"
      BY <2>1, <2>4 DEF TablesFit
    <3>3. \A j, k \in DOMAIN u.lin : u.lin[j] = u.lin[k] => j = k
      BY <1>2, <2>1, <2>4 DEF TablesFit, Named
    <3>4. \A j \in DOMAIN u.win : j \in DOMAIN t.win /\ u.lin[j] = t.lin[j] /\ u.win[j] = t.win[j]
      BY <2>4 DEF TablesFit
    <3> QED BY <3>1, <3>2, <3>3, <3>4, <2>4 DEF TablesFit
  <2> QED BY <2>3, <2>4, <2>5, <2>6 DEF Named, Grown
<1> QED BY <1>1, <1>2

\* One reference of i is counted more or less: the proxy keeps the rest.
LEMMA CountFits ==
    ASSUME NEW t, NEW o, NEW need \in [Id -> Nat], Whole(t), TablesFit(t, o, need),
           NEW i \in DOMAIN t.win, NEW n \in Int,
           need[i] + n > 0 \/ (need[i] + n = 0 /\ t.win[i].custom),
           NEW then, \A j \in Id : then[j] = IF j = i THEN need[j] + n ELSE need[j]
    PROVE  /\ Whole(Count(t, i, n)) /\ TablesFit(Count(t, i, n), o, then)
           /\ Count(t, i, n).lin = t.lin
           /\ DOMAIN Count(t, i, n).win = DOMAIN t.win
           /\ Count(t, i, n).win[i].ref = need[i] + n
           /\ Count(t, i, n).win[i].custom = t.win[i].custom
<1> DEFINE p == Proxy(t.win[i].ref + n, t.win[i].custom, t.win[i].addr)
           u == [lin |-> t.lin, win |-> Insert(t.win, i, p), fault |-> "none"]
<1>1. Count(t, i, n) = u
  <2>1. Count(t, i, n) = [t EXCEPT !.win = Insert(@, i, p)]
    BY DEF Count
  <2> HIDE DEF p
  <2> QED BY <2>1 DEF Whole
<1>2. p.ref = need[i] + n /\ p.custom = t.win[i].custom /\ p.addr = t.lin[i]
  BY DEF TablesFit, Proxy
<1> HIDE DEF p
<1>3. /\ DOMAIN u.win = DOMAIN t.win /\ u.win[i] = p /\ u.lin = t.lin
      /\ \A j \in DOMAIN t.win \ {i} : u.win[j] = t.win[j]
  BY DEF Insert
<1>4. Whole(u)
  BY DEF Whole
<1> HIDE DEF u
<1>5. TablesFit(u, o, then)
  <2>1. i \in Id /\ then[i] = need[i] + n
    BY DEF TablesFit
  <2>2. \A j \in DOMAIN u.win \ {i} : u.win[j] = t.win[j] /\ then[j] = need[j]
    BY <1>3 DEF TablesFit
  <2>3. \A j \in DOMAIN u.win :
           /\ u.win[j].ref = then[j] /\ u.win[j].addr = u.lin[j]
           /\ u.win[j].custom \in BOOLEAN
           /\ u.win[j].custom <=> o[u.lin[j]].sort = "custom"
           /\ then[j] > 0 \/ u.win[j].custom
    <3>1. ASSUME NEW j \in DOMAIN u.win
          PROVE  /\ u.win[j].ref = then[j] /\ u.win[j].addr = u.lin[j]
                 /\ u.win[j].custom \in BOOLEAN
                 /\ u.win[j].custom <=> o[u.lin[j]].sort = "custom"
                 /\ then[j] > 0 \/ u.win[j].custom
      <4>1. CASE j = i
        BY <4>1, <1>2, <1>3, <2>1 DEF TablesFit
      <4>2. CASE j # i
        BY <4>2, <1>3, <2>2 DEF TablesFit
      <4> QED BY <4>1, <4>2
    <3> QED BY <3>1
  <2>4. \A j \in Id \ DOMAIN u.win : then[j] = 0
    BY <1>3 DEF TablesFit
  <2> QED BY <2>3, <2>4, <1>3 DEF TablesFit
<1> QED BY <1>1, <1>2, <1>3, <1>4, <1>5

\* Windows reads an object that Linux has named.
LEMMA WinReadFits ==
    ASSUME NEW t, NEW o, NEW need \in [Id -> Nat], Whole(t), TablesFit(t, o, need),
           NEW i \in DOMAIN t.lin,
           i \in DOMAIN t.win \/ o[t.lin[i]].sort # "custom"
    PROVE  /\ Whole(WinRead(t, i, t.lin[i]))
           /\ TablesFit(WinRead(t, i, t.lin[i]), o, More(need, i))
           /\ WinRead(t, i, t.lin[i]).lin = t.lin
           /\ DOMAIN WinRead(t, i, t.lin[i]).win = DOMAIN t.win \cup {i}
<1> DEFINE then == More(need, i)
<1>1. /\ i \in Id
      /\ \A j \in Id : then[j] = IF j = i THEN need[j] + 1 ELSE need[j]
  BY MoreIs DEF TablesFit
<1> HIDE DEF then
<1>2. CASE i \in DOMAIN t.win
  <2>1. WinRead(t, i, t.lin[i]) = Count(t, i, 1)
    BY <1>2 DEF WinRead
  <2>2. need[i] + 1 > 0
    BY <1>1
  <2> QED BY <2>1, <2>2, <1>1, <1>2, CountFits DEF then
<1>3. CASE i \notin DOMAIN t.win
  <2> DEFINE p == Proxy(1, FALSE, t.lin[i])
             u == [lin |-> t.lin, win |-> Insert(t.win, i, p), fault |-> "none"]
  <2>1. WinRead(t, i, t.lin[i]) = u
    <3>1. WinRead(t, i, t.lin[i]) = [t EXCEPT !.win = Insert(@, i, p)]
      BY <1>3 DEF WinRead
    <3> HIDE DEF p
    <3> QED BY <3>1 DEF Whole
  <2>2. p.ref = 1 /\ p.custom = FALSE /\ p.addr = t.lin[i]
    BY DEF Proxy
  <2> HIDE DEF p
  <2>3. /\ DOMAIN u.win = DOMAIN t.win \cup {i} /\ u.win[i] = p /\ u.lin = t.lin
        /\ \A j \in DOMAIN t.win : u.win[j] = t.win[j]
    BY <1>3 DEF Insert
  <2>4. Whole(u)
    BY DEF Whole
  <2> HIDE DEF u
  <2>5. then[i] = 1 /\ \A j \in Id \ {i} : then[j] = need[j]
    BY <1>1, <1>3 DEF TablesFit
  <2>6. ASSUME NEW j \in DOMAIN u.win
        PROVE  /\ u.win[j].ref = then[j] /\ u.win[j].addr = u.lin[j]
               /\ u.win[j].custom \in BOOLEAN
               /\ u.win[j].custom <=> o[u.lin[j]].sort = "custom"
               /\ then[j] > 0 \/ u.win[j].custom
    <3>1. CASE j = i
      <4>1. ~u.win[j].custom /\ u.win[j].custom \in BOOLEAN
        BY <3>1, <2>2, <2>3
      <4>2. ~(o[u.lin[j]].sort = "custom")
        BY <3>1, <1>3, <2>3
      <4>3. u.win[j].ref = then[j] /\ u.win[j].addr = u.lin[j] /\ then[j] > 0
        BY <3>1, <2>2, <2>3, <2>5
      <4> QED BY <4>1, <4>2, <4>3
    <3>2. CASE j # i
      BY <3>2, <2>3, <2>5 DEF TablesFit
    <3> QED BY <3>1, <3>2
  <2>7. \A j \in Id \ DOMAIN u.win : then[j] = 0
    BY <2>3, <2>5 DEF TablesFit
  <2>8. TablesFit(u, o, then)
    BY <2>3, <2>6, <2>7 DEF TablesFit
  <2> QED BY <2>1, <2>3, <2>4, <2>8 DEF then
<1> QED BY <1>2, <1>3
-----------------------------------------------------------------------------
(***************************************************************************)
(* Linux writes a list of objects.                                         *)
(***************************************************************************)
WriteStep(t, objs, f, n) == IF n = 0 THEN t ELSE LinWrite(f[n - 1], objs[Len(objs) + 1 - n])
IsWrite(t, objs, N, f) == f = [n \in 0 .. N |-> WriteStep(t, objs, f, n)]

LEMMA WriteExists ==
    ASSUME NEW t, NEW objs, NEW N \in Nat
    PROVE  \E f : IsWrite(t, objs, N, f)
<1> DEFINE T == {k \in 0 .. N : \E f : IsWrite(t, objs, k, f)}
<1>1. 0 \in T
  <2> DEFINE f == [n \in 0 .. 0 |-> t]
  <2>1. \A n \in 0 .. 0 : WriteStep(t, objs, f, n) = t
    BY DEF WriteStep
  <2>2. [n \in 0 .. 0 |-> t] = [n \in 0 .. 0 |-> WriteStep(t, objs, f, n)]
    BY <2>1, Zenon
  <2>3. IsWrite(t, objs, 0, f)
    BY <2>2 DEF IsWrite
  <2> HIDE DEF f
  <2>4. \E g : IsWrite(t, objs, 0, g)
    BY <2>3
  <2> QED BY <2>4
<1>2. ASSUME NEW k \in 1 .. N, k - 1 \in T PROVE k \in T
  <2>1. PICK g : IsWrite(t, objs, k - 1, g)
    BY <1>2
  <2> DEFINE h == [n \in 0 .. k |-> WriteStep(t, objs, g, n)]
  <2>2. \A n \in 0 .. k - 1 : g[n] = WriteStep(t, objs, g, n)
    BY <2>1 DEF IsWrite
  <2>3. ASSUME NEW n \in 0 .. k - 1 PROVE h[n] = g[n]
    <3>1. n \in 0 .. k
      OBVIOUS
    <3> QED BY <2>2, <3>1
  <2>4. ASSUME NEW n \in 0 .. k PROVE WriteStep(t, objs, g, n) = WriteStep(t, objs, h, n)
    <3>1. CASE n = 0
      BY <3>1 DEF WriteStep
    <3>2. CASE n # 0
      <4>1. n - 1 \in 0 .. k - 1
        BY <3>2
      <4>2. h[n - 1] = g[n - 1]
        BY <4>1, <2>3
      <4> HIDE DEF h
      <4> QED BY <4>2 DEF WriteStep
    <3> QED BY <3>1, <3>2
  <2>5. [n \in 0 .. k |-> WriteStep(t, objs, g, n)] = [n \in 0 .. k |-> WriteStep(t, objs, h, n)]
    BY <2>4, Zenon
  <2>6. IsWrite(t, objs, k, h)
    BY <2>5 DEF IsWrite
  <2> HIDE DEF h
  <2>7. \E f : IsWrite(t, objs, k, f)
    BY <2>6
  <2> QED BY <2>7
<1>3. N \in T
  <2> HIDE DEF T
  <2>1. \A k \in 0 .. N : k \in T
    BY <1>1, <1>2, CountingUp
  <2> QED BY <2>1
<1> QED BY <1>3

\* Every member of the list is named, and nothing else.
LEMMA WriteAllFits ==
    ASSUME NEW t, NEW o, NEW need, Whole(t), TablesFit(t, o, need),
           NEW objs \in Seq(Addr), \A m \in DOMAIN objs : o[objs[m]].sort # "none"
    PROVE  /\ Whole(WriteAll(t, objs)) /\ TablesFit(WriteAll(t, objs), o, need)
           /\ WriteAll(t, objs).win = t.win
           /\ Grown(t, WriteAll(t, objs), {objs[m] : m \in DOMAIN objs})
           /\ \A m \in DOMAIN objs : Named(WriteAll(t, objs), objs[m])
<1> DEFINE N == Len(objs)
           A == {objs[m] : m \in DOMAIN objs}
           w == CHOOSE f : IsWrite(t, objs, N, f)
           Good(k) ==
              /\ Whole(w[k]) /\ TablesFit(w[k], o, need) /\ w[k].win = t.win
              /\ Grown(t, w[k], A)
              /\ \A m \in N + 1 - k .. N : Named(w[k], objs[m])
           T == {k \in 0 .. N : Good(k)}
<1> HIDE DEF w, Good, T, A
<1>1. N \in Nat /\ DOMAIN objs = 1 .. N
  OBVIOUS
<1> HIDE DEF N
<1> USE DEF w
<1>2. IsWrite(t, objs, N, w)
  BY <1>1, WriteExists
<1>3. WriteAll(t, objs) = w[N]
  BY DEF WriteAll, IsWrite, WriteStep, N
<1> HIDE DEF w
<1> USE DEF Good, T, A
<1>4. \A k \in 0 .. N : w[k] = WriteStep(t, objs, w, k)
  BY <1>2 DEF IsWrite
<1>5. 0 \in T
  <2>1. w[0] = t
    BY <1>1, <1>4 DEF WriteStep
  <2>2. \A m \in N + 1 - 0 .. N : FALSE
    BY <1>1
  <2> QED BY <2>1, <2>2, <1>1 DEF Grown
<1>6. ASSUME NEW k \in 1 .. N, k - 1 \in T PROVE k \in T
  <2> DEFINE u == w[k - 1]
             p == N + 1 - k
             a == objs[p]
  <2>1. Whole(u) /\ TablesFit(u, o, need) /\ u.win = t.win /\ Grown(t, u, A)
    BY <1>6
  <2>2. \A m \in N + 1 - (k - 1) .. N : Named(u, objs[m])
    BY <1>6
  <2>3. p \in DOMAIN objs /\ a \in Addr /\ a \in A /\ o[a].sort # "none"
    BY <1>1
  <2>4. w[k] = LinWrite(u, a)
    BY <1>4 DEF WriteStep, N
  <2> HIDE DEF u, a, A
  <2>5. /\ Whole(w[k]) /\ TablesFit(w[k], o, need) /\ w[k].win = u.win
        /\ Named(w[k], a) /\ Grown(u, w[k], {a})
    BY <2>1, <2>3, <2>4, LinWriteFits
  <2>6. Grown(t, w[k], A)
    BY <2>1, <2>3, <2>5 DEF Grown
  <2>7. ASSUME NEW m \in N + 1 - k .. N PROVE Named(w[k], objs[m])
    <3>1. CASE m = p
      BY <3>1, <2>5 DEF a
    <3>2. CASE m # p
      <4>1. m \in N + 1 - (k - 1) .. N
        BY <3>2, <1>1
      <4>2. Named(u, objs[m])
        BY <4>1, <2>2
      <4> QED BY <4>2, <2>5 DEF Named, Grown
    <3> QED BY <3>1, <3>2
  <2>8. Good(k)
    BY <2>1, <2>5, <2>6, <2>7
  <2> QED BY <2>8, <1>1
<1>7. N \in T
  <2> HIDE DEF T
  <2>1. \A k \in 0 .. N : k \in T
    BY <1>1, <1>5, <1>6, CountingUp
  <2> QED BY <2>1, <1>1
<1>8. Good(N)
  BY <1>7
<1>9. N + 1 - N .. N = DOMAIN objs
  BY <1>1
<1> QED BY <1>3, <1>8, <1>9

-----------------------------------------------------------------------------
(***************************************************************************)
(* Windows reads a list of objects.                                        *)
(***************************************************************************)
ReadStep(t, objs, f, n) == IF n = 0 THEN t ELSE WinRead(f[n - 1], IdOf(t, objs[n]), objs[n])
IsRead(t, objs, N, f) == f = [n \in 0 .. N |-> ReadStep(t, objs, f, n)]

LEMMA ReadExists ==
    ASSUME NEW t, NEW objs, NEW N \in Nat
    PROVE  \E f : IsRead(t, objs, N, f)
<1> DEFINE T == {k \in 0 .. N : \E f : IsRead(t, objs, k, f)}
<1>1. 0 \in T
  <2> DEFINE f == [n \in 0 .. 0 |-> t]
  <2>1. \A n \in 0 .. 0 : ReadStep(t, objs, f, n) = t
    BY DEF ReadStep
  <2>2. [n \in 0 .. 0 |-> t] = [n \in 0 .. 0 |-> ReadStep(t, objs, f, n)]
    BY <2>1, Zenon
  <2>3. IsRead(t, objs, 0, f)
    BY <2>2 DEF IsRead
  <2> HIDE DEF f
  <2>4. \E g : IsRead(t, objs, 0, g)
    BY <2>3
  <2> QED BY <2>4
<1>2. ASSUME NEW k \in 1 .. N, k - 1 \in T PROVE k \in T
  <2>1. PICK g : IsRead(t, objs, k - 1, g)
    BY <1>2
  <2> DEFINE h == [n \in 0 .. k |-> ReadStep(t, objs, g, n)]
  <2>2. \A n \in 0 .. k - 1 : g[n] = ReadStep(t, objs, g, n)
    BY <2>1 DEF IsRead
  <2>3. ASSUME NEW n \in 0 .. k - 1 PROVE h[n] = g[n]
    <3>1. n \in 0 .. k
      OBVIOUS
    <3> QED BY <2>2, <3>1
  <2>4. ASSUME NEW n \in 0 .. k PROVE ReadStep(t, objs, g, n) = ReadStep(t, objs, h, n)
    <3>1. CASE n = 0
      BY <3>1 DEF ReadStep
    <3>2. CASE n # 0
      <4>1. n - 1 \in 0 .. k - 1
        BY <3>2
      <4>2. h[n - 1] = g[n - 1]
        BY <4>1, <2>3
      <4> HIDE DEF h
      <4> QED BY <4>2 DEF ReadStep
    <3> QED BY <3>1, <3>2
  <2>5. [n \in 0 .. k |-> ReadStep(t, objs, g, n)] = [n \in 0 .. k |-> ReadStep(t, objs, h, n)]
    BY <2>4, Zenon
  <2>6. IsRead(t, objs, k, h)
    BY <2>5 DEF IsRead
  <2> HIDE DEF h
  <2>7. \E f : IsRead(t, objs, k, f)
    BY <2>6
  <2> QED BY <2>7
<1>3. N \in T
  <2> HIDE DEF T
  <2>1. \A k \in 0 .. N : k \in T
    BY <1>1, <1>2, CountingUp
  <2> QED BY <2>1
<1> QED BY <1>3

\* The IDs by which a list of objects travels.
IdsOf(t, objs) == [n \in DOMAIN objs |-> IdOf(t, objs[n])]

\* The needs when the first k of a list of references are counted.
With(need, ids, k) == [i \in Id |-> need[i] + Cardinality(Until(ids, k, i))]

LEMMA WithSteps ==
    ASSUME NEW need \in [Id -> Nat], NEW ids \in Seq(Id)
    PROVE  /\ With(need, ids, 0) = need
           /\ With(need, ids, Len(ids)) = [i \in Id |-> need[i] + Occurrences(ids, i)]
           /\ \A k \in 0 .. Len(ids) : With(need, ids, k) \in [Id -> Nat]
           /\ \A k \in 1 .. Len(ids) : With(need, ids, k) = More(With(need, ids, k - 1), ids[k])
<1>1. With(need, ids, 0) = need
  <2>1. \A i \in Id : need[i] + Cardinality(Until(ids, 0, i)) = need[i]
    BY CountUntil
  <2>2. [i \in Id |-> need[i] + Cardinality(Until(ids, 0, i))] = [i \in Id |-> need[i]]
    BY <2>1, Zenon
  <2> QED BY <2>2 DEF With
<1>2. With(need, ids, Len(ids)) = [i \in Id |-> need[i] + Occurrences(ids, i)]
  <2>1. \A i \in Id : need[i] + Cardinality(Until(ids, Len(ids), i)) = need[i] + Occurrences(ids, i)
    BY CountUntil
  <2> QED BY <2>1, Zenon DEF With
<1>3. ASSUME NEW k \in 0 .. Len(ids) PROVE With(need, ids, k) \in [Id -> Nat]
  <2>1. \A i \in Id : need[i] + Cardinality(Until(ids, k, i)) \in Nat
    <3>1. ASSUME NEW i \in Id PROVE need[i] + Cardinality(Until(ids, k, i)) \in Nat
      <4>1. Cardinality(Until(ids, k, i)) \in Nat
        BY CountUntil
      <4>2. need[i] \in Nat
        OBVIOUS
      <4> QED BY <4>1, <4>2
    <3> QED BY <3>1
  <2> QED BY <2>1 DEF With
<1>4. ASSUME NEW k \in 1 .. Len(ids)
      PROVE  With(need, ids, k) = More(With(need, ids, k - 1), ids[k])
  <2> DEFINE last == With(need, ids, k - 1)
  <2>1. ASSUME NEW i \in Id
        PROVE  need[i] + Cardinality(Until(ids, k, i)) = last[i] + Same(ids[k], i)
    <3>1. /\ Cardinality(Until(ids, k, i)) = Cardinality(Until(ids, k - 1, i)) + Same(ids[k], i)
          /\ Cardinality(Until(ids, k - 1, i)) \in Nat
      <4>1. k - 1 \in 0 .. Len(ids)
        OBVIOUS
      <4>2. Cardinality(Until(ids, k - 1, i)) \in Nat
        BY <4>1, CountUntil
      <4>3. Cardinality(Until(ids, k, i)) = Cardinality(Until(ids, k - 1, i)) + Same(ids[k], i)
        BY CountUntil
      <4> QED BY <4>2, <4>3
    <3>2. last[i] = need[i] + Cardinality(Until(ids, k - 1, i))
      BY DEF With
    <3>3. Same(ids[k], i) \in Nat
      BY DEF Same
    <3>4. need[i] \in Nat
      OBVIOUS
    <3> HIDE DEF last
    <3> QED BY <3>1, <3>2, <3>3, <3>4
  <2> HIDE DEF last
  <2>2. [i \in Id |-> need[i] + Cardinality(Until(ids, k, i))] = [i \in Id |-> last[i] + Same(ids[k], i)]
    BY <2>1, Zenon
  <2> QED BY <2>2 DEF With, More, last
<1> QED BY <1>1, <1>2, <1>3, <1>4

\* Every member of the list is counted once more.
LEMMA ReadAllFits ==
    ASSUME NEW t, NEW o, NEW need \in [Id -> Nat], Whole(t), TablesFit(t, o, need),
           NEW objs \in Seq(Addr), \A m \in DOMAIN objs : Named(t, objs[m]),
           \A m \in DOMAIN objs :
              o[objs[m]].sort = "custom" => IdOf(t, objs[m]) \in DOMAIN t.win
    PROVE  /\ Whole(ReadAll(t, objs))
           /\ IdsOf(t, objs) \in Seq(Id)
           /\ TablesFit(ReadAll(t, objs), o,
                        [i \in Id |-> need[i] + Occurrences(IdsOf(t, objs), i)])
           /\ ReadAll(t, objs).lin = t.lin
           /\ DOMAIN ReadAll(t, objs).win = DOMAIN t.win \cup {IdOf(t, objs[m]) : m \in DOMAIN objs}
<1> DEFINE N == Len(objs)
           ids == IdsOf(t, objs)
           r == CHOOSE f : IsRead(t, objs, N, f)
           Good(k) ==
              /\ Whole(r[k]) /\ TablesFit(r[k], o, With(need, ids, k)) /\ r[k].lin = t.lin
              /\ DOMAIN r[k].win = DOMAIN t.win \cup {ids[m] : m \in 1 .. k}
           T == {k \in 0 .. N : Good(k)}
<1> HIDE DEF r, Good, T, ids
<1>1. N \in Nat /\ DOMAIN objs = 1 .. N
  OBVIOUS
<1> USE DEF r
<1>2. IsRead(t, objs, N, r)
  BY <1>1, ReadExists
<1>3. ReadAll(t, objs) = r[N]
  BY DEF ReadAll, IsRead, ReadStep
<1> HIDE DEF r, N
<1> USE DEF ids, Good, T
<1>4. \A k \in 0 .. N : r[k] = ReadStep(t, objs, r, k)
  BY <1>2 DEF IsRead
<1>5. /\ ids \in Seq(Id) /\ Len(ids) = N
      /\ \A m \in 1 .. N : ids[m] = IdOf(t, objs[m]) /\ ids[m] \in DOMAIN t.lin /\ t.lin[ids[m]] = objs[m]
  <2>1. \A m \in 1 .. N : IdOf(t, objs[m]) \in Id /\ IdOf(t, objs[m]) \in DOMAIN t.lin /\ t.lin[IdOf(t, objs[m])] = objs[m]
    BY <1>1, IdOfNamed
  <2>2. ids = [m \in 1 .. N |-> IdOf(t, objs[m])]
    BY <1>1 DEF IdsOf
  <2> HIDE DEF ids
  <2>3. ids \in [1 .. N -> Id]
    BY <2>1, <2>2
  <2> QED BY <2>1, <2>2, <2>3, <1>1
<1> HIDE DEF ids
<1>6. 0 \in T
  <2>1. r[0] = t
    BY <1>1, <1>4 DEF ReadStep
  <2>2. With(need, ids, 0) = need
    BY <1>5, WithSteps
  <2>3. {ids[m] : m \in 1 .. 0} = {}
    OBVIOUS
  <2> QED BY <2>1, <2>2, <2>3, <1>1
<1>7. ASSUME NEW k \in 1 .. N, k - 1 \in T PROVE k \in T
  <2> DEFINE u == r[k - 1]
             before == With(need, ids, k - 1)
             i == ids[k]
  <2>1. /\ Whole(u) /\ TablesFit(u, o, before) /\ u.lin = t.lin
        /\ DOMAIN u.win = DOMAIN t.win \cup {ids[m] : m \in 1 .. k - 1}
    BY <1>7
  <2>2. before \in [Id -> Nat] /\ With(need, ids, k) = More(before, i)
    <3>1. k - 1 \in 0 .. Len(ids) /\ k \in 1 .. Len(ids)
      BY <1>5, <1>1
    <3> QED BY <3>1, <1>5, WithSteps
  <2>3. i \in DOMAIN u.lin /\ u.lin[i] = objs[k] /\ i = IdOf(t, objs[k])
    BY <1>5, <2>1
  <2>4. i \in DOMAIN u.win \/ o[objs[k]].sort # "custom"
    BY <1>1, <2>1, <2>3
  <2>5. r[k] = WinRead(u, i, u.lin[i])
    BY <1>1, <1>4, <2>3 DEF ReadStep
  <2> HIDE DEF u, before, i
  <2>6. /\ Whole(r[k]) /\ TablesFit(r[k], o, More(before, i)) /\ r[k].lin = u.lin
        /\ DOMAIN r[k].win = DOMAIN u.win \cup {i}
    <3>1. i \in DOMAIN u.win \/ o[u.lin[i]].sort # "custom"
      BY <2>3, <2>4
    <3> DEFINE v == WinRead(u, i, u.lin[i])
    <3>2. /\ Whole(v) /\ TablesFit(v, o, More(before, i)) /\ v.lin = u.lin
          /\ DOMAIN v.win = DOMAIN u.win \cup {i}
      <4>1. Whole(u) /\ TablesFit(u, o, before) /\ before \in [Id -> Nat] /\ i \in DOMAIN u.lin
        BY <2>1, <2>2, <2>3
      <4> HIDE DEF T, Good
      <4> QED BY <4>1, <3>1, WinReadFits
    <3> QED BY <2>5, <3>2
  <2>7. DOMAIN r[k].win = DOMAIN t.win \cup {ids[m] : m \in 1 .. k}
    BY <2>1, <2>6 DEF i
  <2>8. Good(k)
    BY <2>1, <2>2, <2>6, <2>7
  <2> QED BY <2>8, <1>1
<1>8. N \in T
  <2> HIDE DEF T
  <2>1. \A k \in 0 .. N : k \in T
    BY <1>1, <1>6, <1>7, CountingUp
  <2> QED BY <2>1, <1>1
<1>9. Good(N)
  BY <1>8
<1>10. With(need, ids, N) = [i \in Id |-> need[i] + Occurrences(ids, i)]
  BY <1>5, WithSteps
<1>11. {ids[m] : m \in 1 .. N} = {IdOf(t, objs[m]) : m \in DOMAIN objs}
  BY <1>1, <1>5, SMTT(30)
<1> QED BY <1>3, <1>5, <1>9, <1>10, <1>11 DEF ids
-----------------------------------------------------------------------------
(***************************************************************************)
(* Linux hands a list of objects to Windows.                               *)
(***************************************************************************)
\* An object that is going away is not handed out: a custom one is named.
MayPass(t, o, objs) ==
    \A m \in DOMAIN objs :
       /\ o[objs[m]].sort # "none"
       /\ o[objs[m]].sort = "custom" => Named(t, objs[m])
       /\ Named(t, objs[m]) => IdOf(t, objs[m]) \in DOMAIN t.win

LEMMA PassFits ==
    ASSUME NEW t, NEW o, NEW need \in [Id -> Nat], Whole(t), TablesFit(t, o, need),
           NEW objs \in Seq(Addr), MayPass(t, o, objs)
    PROVE  LET u == PassToWindows(t, objs)
           IN  /\ Whole(u)
               /\ IdsOf(u, objs) \in Seq(Id)
               /\ TablesFit(u, o, [i \in Id |-> need[i] + Occurrences(IdsOf(u, objs), i)])
               /\ Grown(t, u, {objs[m] : m \in DOMAIN objs})
               /\ Missing(u) = Missing(t)
               /\ \A m \in DOMAIN objs : Named(u, objs[m]) /\ IdOf(u, objs[m]) \in DOMAIN u.win
<1> DEFINE A == {objs[m] : m \in DOMAIN objs}
           v == WriteAll(t, objs)
           u == ReadAll(v, objs)
<1>1. /\ Whole(v) /\ TablesFit(v, o, need) /\ v.win = t.win
      /\ Grown(t, v, A)
      /\ \A m \in DOMAIN objs : Named(v, objs[m])
  BY WriteAllFits DEF MayPass
<1> HIDE DEF v
<1>2. ASSUME NEW m \in DOMAIN objs, Named(t, objs[m])
      PROVE  IdOf(v, objs[m]) = IdOf(t, objs[m])
  <2>1. IdOf(t, objs[m]) \in DOMAIN t.lin /\ t.lin[IdOf(t, objs[m])] = objs[m]
    BY <1>2, IdOfNamed
  <2>2. IdOf(t, objs[m]) \in DOMAIN v.lin /\ v.lin[IdOf(t, objs[m])] = objs[m]
    BY <2>1, <1>1 DEF Grown
  <2>3. Named(v, objs[m])
    BY <1>1
  <2> QED BY <2>2, <2>3, <1>1, IdOfNamed
<1>3. \A m \in DOMAIN objs : o[objs[m]].sort = "custom" => IdOf(v, objs[m]) \in DOMAIN v.win
  BY <1>1, <1>2 DEF MayPass
<1>4. /\ Whole(u)
      /\ IdsOf(v, objs) \in Seq(Id)
      /\ TablesFit(u, o, [i \in Id |-> need[i] + Occurrences(IdsOf(v, objs), i)])
      /\ u.lin = v.lin
      /\ DOMAIN u.win = DOMAIN v.win \cup {IdOf(v, objs[m]) : m \in DOMAIN objs}
  BY <1>1, <1>3, ReadAllFits, ZenonT(60)
<1>5. PassToWindows(t, objs) = u
  BY DEF PassToWindows, v
<1> HIDE DEF u, A
<1>6. \A a : IdOf(u, a) = IdOf(v, a) /\ (Named(u, a) <=> Named(v, a))
  BY <1>4 DEF IdOf, Named
<1>7. IdsOf(u, objs) = IdsOf(v, objs)
  BY <1>6 DEF IdsOf
<1>8. Grown(t, u, A)
  BY <1>1, <1>4 DEF Grown
<1>9. \A m \in DOMAIN objs : Named(u, objs[m]) /\ IdOf(u, objs[m]) \in DOMAIN u.win
  BY <1>1, <1>4, <1>6
<1>10. Missing(u) = Missing(t)
  <2>1. ASSUME NEW j \in Missing(u) PROVE j \in Missing(t)
    <3>1. j \in DOMAIN v.lin /\ j \notin DOMAIN t.win /\ \A m \in DOMAIN objs : j # IdOf(v, objs[m])
      BY <2>1, <1>1, <1>4 DEF Missing
    <3>2. j \in DOMAIN t.lin
      <4>1. SUFFICES ASSUME j \notin DOMAIN t.lin PROVE FALSE
        OBVIOUS
      <4>2. PICK m \in DOMAIN objs : v.lin[j] = objs[m]
        BY <4>1, <3>1, <1>1 DEF Grown, A
      <4>3. j = IdOf(v, objs[m])
        BY <4>2, <3>1, <1>1, IdOfNamed
      <4> QED BY <4>3, <3>1
    <3> QED BY <3>1, <3>2 DEF Missing
  <2>2. ASSUME NEW j \in Missing(t) PROVE j \in Missing(u)
    <3>1. j \in DOMAIN t.lin /\ j \notin DOMAIN t.win
      BY <2>2 DEF Missing
    <3>2. j \in DOMAIN u.lin /\ v.lin[j] = t.lin[j]
      BY <3>1, <1>1, <1>4 DEF Grown
    <3>3. ASSUME NEW m \in DOMAIN objs, j = IdOf(v, objs[m]) PROVE FALSE
      <4>1. t.lin[j] = objs[m]
        BY <3>2, <3>3, <1>1, IdOfNamed
      <4>2. Named(t, objs[m])
        BY <3>1, <4>1 DEF Named
      <4>3. IdOf(t, objs[m]) = j
        BY <4>2, <3>3, <1>2
      <4> QED BY <4>2, <4>3, <3>1 DEF MayPass
    <3> QED BY <3>1, <3>2, <3>3, <1>1, <1>4 DEF Missing
  <2> QED BY <2>1, <2>2
<1> QED BY <1>4, <1>5, <1>7, <1>8, <1>9, <1>10 DEF A

-----------------------------------------------------------------------------
(***************************************************************************)
(* References to proxies go.                                               *)
(***************************************************************************)
\* u knows what t knows, except page objects whose proxies have gone.
Shrunk(t, u, o) ==
    /\ DOMAIN u.lin \subseteq DOMAIN t.lin
    /\ \A i \in DOMAIN u.lin : u.lin[i] = t.lin[i]
    /\ \A i \in DOMAIN t.lin \ DOMAIN u.lin : o[t.lin[i]].sort # "custom"
    /\ Missing(u) = Missing(t)

LEMMA ShrunkTransitive ==
    ASSUME NEW t, NEW u, NEW v, NEW o, Shrunk(t, u, o), Shrunk(u, v, o)
    PROVE  Shrunk(t, v, o)
BY DEF Shrunk

\* Both tables without i, or one reference less.
Released(t, i) ==
    IF LastRef(t, i)
    THEN [lin |-> Erase(t.lin, i), win |-> Erase(t.win, i), fault |-> "none"]
    ELSE Count(t, i, -1)

\* Whoever tells Linux that the proxy has gone, it comes to the same.
LEMMA WinDecRefReleases ==
    ASSUME NEW t, NEW o, NEW need \in [Id -> Nat], Whole(t), TablesFit(t, o, need),
           NEW i \in Id, need[i] > 0
    PROVE  /\ i \in DOMAIN t.win /\ i \in DOMAIN t.lin
           /\ WinDecRef(t, i, TRUE) = Released(t, i)
           /\ LinRead(WinDecRef(t, i, FALSE), i, LastRef(t, i)) = Released(t, i)
<1>1. i \in DOMAIN t.win /\ i \in DOMAIN t.lin /\ t.win[i].ref > 0
  BY DEF TablesFit
<1> DEFINE gone == [t EXCEPT !.win = Erase(@, i)]
           both == [lin |-> Erase(t.lin, i), win |-> Erase(t.win, i), fault |-> "none"]
<1>2. gone = [lin |-> t.lin, win |-> Erase(t.win, i), fault |-> "none"]
  BY DEF Whole
<1>3. gone.lin = t.lin
  BY <1>2
<1> HIDE DEF gone
<1>4. [gone EXCEPT !.lin = Erase(@, i)] = both
  <2> DEFINE rest == Erase(t.lin, i)
  <2>1. Erase(gone.lin, i) = rest
    BY <1>3
  <2> HIDE DEF rest
  <2>2. [gone EXCEPT !.lin = rest] = [lin |-> rest, win |-> Erase(t.win, i), fault |-> "none"]
    BY <1>2
  <2> QED BY <2>1, <2>2 DEF rest
<1> HIDE DEF both
<1>5. LinRemove(gone, i) = both
  BY <1>1, <1>3, <1>4, AssertionHolds DEF LinRemove
<1>6. LinRead(gone, i, FALSE) = gone /\ LinRead(gone, i, TRUE) = both
  BY <1>1, <1>3, <1>5, AssertionHolds DEF LinRead
<1>7. CASE LastRef(t, i)
  <2>1. WinDecRef(t, i, TRUE) = both
    <3>1. WinDecRef(t, i, TRUE) = LinRemove(LinRead(gone, i, FALSE), i)
      BY <1>1, <1>7, AssertionHolds DEF WinDecRef, gone
    <3> QED BY <3>1, <1>5, <1>6
  <2>2. WinDecRef(t, i, FALSE) = gone
    BY <1>1, <1>7, AssertionHolds DEF WinDecRef, gone
  <2>3. LinRead(WinDecRef(t, i, FALSE), i, LastRef(t, i)) = LinRead(gone, i, TRUE)
    BY <1>7, <2>2 DEF LinRead
  <2> QED BY <1>1, <1>6, <1>7, <2>1, <2>3 DEF Released, both
<1>8. CASE ~LastRef(t, i)
  <2> DEFINE u == Count(t, i, -1)
  <2>1. WinDecRef(t, i, TRUE) = u /\ WinDecRef(t, i, FALSE) = u
    BY <1>1, <1>8, AssertionHolds DEF WinDecRef
  <2>2. u.lin = t.lin
    BY DEF Count, Whole
  <2> HIDE DEF u
  <2>3. LinRead(u, i, LastRef(t, i)) = u
    BY <1>1, <1>8, <2>2, AssertionHolds DEF LinRead
  <2> QED BY <1>1, <1>8, <2>1, <2>3 DEF Released, u
<1> QED BY <1>7, <1>8

LEMMA ReleasedFits ==
    ASSUME NEW t, NEW o, NEW need \in [Id -> Nat], Whole(t), TablesFit(t, o, need),
           NEW i \in Id, need[i] > 0
    PROVE  /\ Whole(Released(t, i)) /\ TablesFit(Released(t, i), o, Less(need, i))
           /\ Shrunk(t, Released(t, i), o)
           /\ DOMAIN Released(t, i).lin =
                 IF LastRef(t, i) THEN DOMAIN t.lin \ {i} ELSE DOMAIN t.lin
           /\ ~LastRef(t, i) =>
                 /\ i \in DOMAIN Released(t, i).win
                 /\ Released(t, i).win[i].ref = need[i] - 1
                 /\ Released(t, i).win[i].custom = t.win[i].custom
<1> DEFINE then == Less(need, i)
           u == Released(t, i)
<1>1. /\ i \in DOMAIN t.win /\ i \in DOMAIN t.lin /\ t.win[i].ref = need[i]
      /\ t.win[i].custom \in BOOLEAN
      /\ t.win[i].custom <=> o[t.lin[i]].sort = "custom"
  BY DEF TablesFit
<1>2. \A j \in Id : then[j] = IF j = i THEN need[j] - 1 ELSE need[j]
  BY MoreIs
<1> HIDE DEF then
<1>3. CASE LastRef(t, i)
  <2>1. u = [lin |-> Erase(t.lin, i), win |-> Erase(t.win, i), fault |-> "none"]
    BY <1>3 DEF Released
  <2>2. need[i] = 1 /\ o[t.lin[i]].sort # "custom"
    BY <1>1, <1>3 DEF LastRef
  <2> HIDE DEF u
  <2>3. Whole(u)
    BY <2>1 DEF Whole
  <2>4. /\ DOMAIN u.lin = DOMAIN t.lin \ {i} /\ DOMAIN u.win = DOMAIN t.win \ {i}
        /\ \A j \in DOMAIN u.lin : u.lin[j] = t.lin[j]
        /\ \A j \in DOMAIN u.win : u.win[j] = t.win[j] /\ j # i
    BY <2>1 DEF Erase
  <2>5. \A j \in Id \ DOMAIN u.win : then[j] = 0
    <3>1. ASSUME NEW j \in Id \ DOMAIN u.win PROVE then[j] = 0
      <4>1. CASE j = i
        BY <4>1, <1>2, <2>2
      <4>2. CASE j # i
        <5>1. j \notin DOMAIN t.win
          BY <4>2, <2>4
        <5>2. need[j] = 0
          BY <5>1 DEF TablesFit
        <5> QED BY <5>2, <4>2, <1>2
      <4> QED BY <4>1, <4>2
    <3> QED BY <3>1
  <2>6. \A j \in DOMAIN u.win : j \in Id /\ then[j] = need[j]
    BY <1>2, <2>4 DEF TablesFit
  <2>7. TablesFit(u, o, then)
    BY <2>4, <2>5, <2>6 DEF TablesFit
  <2>8. Shrunk(t, u, o)
    BY <1>1, <2>2, <2>4 DEF Shrunk, Missing
  <2> QED BY <1>3, <2>3, <2>4, <2>7, <2>8 DEF u, then
<1>4. CASE ~LastRef(t, i)
  <2>1. u = Count(t, i, -1)
    BY <1>4 DEF Released
  <2>2. need[i] + (-1) > 0 \/ (need[i] + (-1) = 0 /\ t.win[i].custom)
    <3>1. need[i] \in Nat
      OBVIOUS
    <3>2. t.win[i].custom \/ need[i] # 1
      BY <1>1, <1>4 DEF LastRef
    <3> QED BY <3>1, <3>2
  <2>3. \A j \in Id : then[j] = IF j = i THEN need[j] + (-1) ELSE need[j]
    BY <1>2
  <2>4. /\ Whole(u) /\ TablesFit(u, o, then) /\ u.lin = t.lin /\ DOMAIN u.win = DOMAIN t.win
        /\ u.win[i].ref = need[i] + (-1)
        /\ u.win[i].custom = t.win[i].custom
    BY <1>1, <2>1, <2>2, <2>3, CountFits
  <2> HIDE DEF u
  <2>5. Shrunk(t, u, o)
    BY <2>4 DEF Shrunk, Missing
  <2> QED BY <1>1, <1>4, <2>4, <2>5 DEF u, then
<1> QED BY <1>3, <1>4
DropStep(t, ids, f, n) == IF n = 0 THEN t ELSE WinDecRef(f[n - 1], ids[n], TRUE)
IsDrop(t, ids, N, f) == f = [n \in 0 .. N |-> DropStep(t, ids, f, n)]

LEMMA DropExists ==
    ASSUME NEW t, NEW ids, NEW N \in Nat
    PROVE  \E f : IsDrop(t, ids, N, f)
<1> DEFINE T == {k \in 0 .. N : \E f : IsDrop(t, ids, k, f)}
<1>1. 0 \in T
  <2> DEFINE f == [n \in 0 .. 0 |-> t]
  <2>1. \A n \in 0 .. 0 : DropStep(t, ids, f, n) = t
    BY DEF DropStep
  <2>2. [n \in 0 .. 0 |-> t] = [n \in 0 .. 0 |-> DropStep(t, ids, f, n)]
    BY <2>1, Zenon
  <2>3. IsDrop(t, ids, 0, f)
    BY <2>2 DEF IsDrop
  <2> HIDE DEF f
  <2>4. \E g : IsDrop(t, ids, 0, g)
    BY <2>3
  <2> QED BY <2>4
<1>2. ASSUME NEW k \in 1 .. N, k - 1 \in T PROVE k \in T
  <2>1. PICK g : IsDrop(t, ids, k - 1, g)
    BY <1>2
  <2> DEFINE h == [n \in 0 .. k |-> DropStep(t, ids, g, n)]
  <2>2. \A n \in 0 .. k - 1 : g[n] = DropStep(t, ids, g, n)
    BY <2>1 DEF IsDrop
  <2>3. ASSUME NEW n \in 0 .. k - 1 PROVE h[n] = g[n]
    <3>1. n \in 0 .. k
      OBVIOUS
    <3> QED BY <2>2, <3>1
  <2>4. ASSUME NEW n \in 0 .. k PROVE DropStep(t, ids, g, n) = DropStep(t, ids, h, n)
    <3>1. CASE n = 0
      BY <3>1 DEF DropStep
    <3>2. CASE n # 0
      <4>1. n - 1 \in 0 .. k - 1
        BY <3>2
      <4>2. h[n - 1] = g[n - 1]
        BY <4>1, <2>3
      <4> HIDE DEF h
      <4> QED BY <4>2 DEF DropStep
    <3> QED BY <3>1, <3>2
  <2>5. [n \in 0 .. k |-> DropStep(t, ids, g, n)] = [n \in 0 .. k |-> DropStep(t, ids, h, n)]
    BY <2>4, Zenon
  <2>6. IsDrop(t, ids, k, h)
    BY <2>5 DEF IsDrop
  <2> HIDE DEF h
  <2>7. \E f : IsDrop(t, ids, k, f)
    BY <2>6
  <2> QED BY <2>7
<1>3. N \in T
  <2> HIDE DEF T
  <2>1. \A k \in 0 .. N : k \in T
    BY <1>1, <1>2, CountingUp
  <2> QED BY <2>1
<1> QED BY <1>3

\* What is needed while all but the first k references are still counted.
Rest(need, ids, k) ==
    [i \in Id |-> need[i] + (Occurrences(ids, i) - Cardinality(Until(ids, k, i)))]

LEMMA RestSteps ==
    ASSUME NEW need \in [Id -> Nat], NEW ids \in Seq(Id)
    PROVE  /\ Rest(need, ids, 0) = [i \in Id |-> need[i] + Occurrences(ids, i)]
           /\ Rest(need, ids, Len(ids)) = need
           /\ \A k \in 0 .. Len(ids) : Rest(need, ids, k) \in [Id -> Nat]
           /\ \A k \in 1 .. Len(ids) :
                 /\ Rest(need, ids, k - 1)[ids[k]] > 0
                 /\ Rest(need, ids, k) = Less(Rest(need, ids, k - 1), ids[k])
<1>1. \A i \in Id : need[i] \in Nat /\ Occurrences(ids, i) \in Nat
  BY OccurrencesIsCount
<1>2. ASSUME NEW i \in Id
      PROVE  /\ need[i] + (Occurrences(ids, i) - Cardinality(Until(ids, 0, i)))
                   = need[i] + Occurrences(ids, i)
             /\ need[i] + (Occurrences(ids, i) - Cardinality(Until(ids, Len(ids), i))) = need[i]
  <2>1. Cardinality(Until(ids, 0, i)) = 0 /\ Cardinality(Until(ids, Len(ids), i)) = Occurrences(ids, i)
    BY CountUntil
  <2> QED BY <1>1, <2>1
<1>3. Rest(need, ids, 0) = [i \in Id |-> need[i] + Occurrences(ids, i)]
  <2>1. \A i \in Id : need[i] + (Occurrences(ids, i) - Cardinality(Until(ids, 0, i)))
                         = need[i] + Occurrences(ids, i)
    BY <1>2
  <2> QED BY <2>1, Zenon DEF Rest
<1>4. Rest(need, ids, Len(ids)) = need
  <2>1. \A i \in Id : need[i] + (Occurrences(ids, i) - Cardinality(Until(ids, Len(ids), i))) = need[i]
    BY <1>2
  <2>2. [i \in Id |-> need[i] + (Occurrences(ids, i) - Cardinality(Until(ids, Len(ids), i)))]
            = [i \in Id |-> need[i]]
    BY <2>1, Zenon
  <2> QED BY <2>2 DEF Rest
<1>5. ASSUME NEW k \in 0 .. Len(ids), NEW i \in Id
      PROVE  /\ Cardinality(Until(ids, k, i)) \in Nat
             /\ Rest(need, ids, k)[i] = need[i] + (Occurrences(ids, i) - Cardinality(Until(ids, k, i)))
             /\ Rest(need, ids, k)[i] \in Nat
  <2>1. Cardinality(Until(ids, k, i)) \in Nat /\ Cardinality(Until(ids, k, i)) =< Occurrences(ids, i)
    BY CountUntil
  <2>2. Rest(need, ids, k)[i] = need[i] + (Occurrences(ids, i) - Cardinality(Until(ids, k, i)))
    BY DEF Rest
  <2> QED BY <1>1, <2>1, <2>2
<1>6. ASSUME NEW k \in 0 .. Len(ids) PROVE Rest(need, ids, k) \in [Id -> Nat]
  <2>1. \A i \in Id : Rest(need, ids, k)[i] \in Nat
    BY <1>5
  <2>2. Rest(need, ids, k) = [i \in Id |-> Rest(need, ids, k)[i]]
    BY DEF Rest
  <2> QED BY <2>1, <2>2
<1>7. ASSUME NEW k \in 1 .. Len(ids)
      PROVE  /\ Rest(need, ids, k - 1)[ids[k]] > 0
             /\ Rest(need, ids, k) = Less(Rest(need, ids, k - 1), ids[k])
  <2> DEFINE last == Rest(need, ids, k - 1)
  <2>1. k - 1 \in 0 .. Len(ids) /\ k \in 0 .. Len(ids) /\ ids[k] \in Id
    OBVIOUS
  <2>2. ASSUME NEW i \in Id
        PROVE  /\ Rest(need, ids, k)[i] = last[i] - Same(ids[k], i)
               /\ Rest(need, ids, k)[i] \in Nat /\ last[i] \in Nat
    <3>1. Cardinality(Until(ids, k, i)) = Cardinality(Until(ids, k - 1, i)) + Same(ids[k], i)
      BY CountUntil
    <3>2. /\ Cardinality(Until(ids, k, i)) \in Nat /\ Cardinality(Until(ids, k - 1, i)) \in Nat
          /\ last[i] = need[i] + (Occurrences(ids, i) - Cardinality(Until(ids, k - 1, i)))
          /\ Rest(need, ids, k)[i] = need[i] + (Occurrences(ids, i) - Cardinality(Until(ids, k, i)))
          /\ Rest(need, ids, k)[i] \in Nat /\ last[i] \in Nat
      BY <1>5, <2>1
    <3>3. Same(ids[k], i) \in Nat
      BY DEF Same
    <3> HIDE DEF last
    <3> QED BY <1>1, <3>1, <3>2, <3>3, SMTT(30)
  <2>3. last[ids[k]] > 0
    <3>1. Same(ids[k], ids[k]) = 1
      BY SameIs
    <3> HIDE DEF last
    <3> QED BY <3>1, <2>1, <2>2
  <2>4. Rest(need, ids, k) = [i \in Id |-> Rest(need, ids, k)[i]]
    BY DEF Rest
  <2>5. [i \in Id |-> Rest(need, ids, k)[i]] = [i \in Id |-> last[i] - Same(ids[k], i)]
    <3>1. \A i \in Id : Rest(need, ids, k)[i] = last[i] - Same(ids[k], i)
      BY <2>2
    <3> HIDE DEF last
    <3> QED BY <3>1, Zenon
  <2> HIDE DEF last
  <2> QED BY <2>3, <2>4, <2>5 DEF Less, last
<1> QED BY <1>3, <1>4, <1>6, <1>7

LEMMA DropAllFits ==
    ASSUME NEW t, NEW o, NEW need \in [Id -> Nat], Whole(t), NEW ids \in Seq(Id),
           TablesFit(t, o, [i \in Id |-> need[i] + Occurrences(ids, i)])
    PROVE  Whole(DropAll(t, ids)) /\ TablesFit(DropAll(t, ids), o, need) /\ Shrunk(t, DropAll(t, ids), o)
<1> DEFINE N == Len(ids)
           d == CHOOSE f : IsDrop(t, ids, N, f)
           Good(k) == Whole(d[k]) /\ TablesFit(d[k], o, Rest(need, ids, k)) /\ Shrunk(t, d[k], o)
           T == {k \in 0 .. N : Good(k)}
<1> HIDE DEF T, Good, d
<1>1. N \in Nat
  OBVIOUS
<1> USE DEF d
<1>2. IsDrop(t, ids, N, d)
  BY <1>1, DropExists
<1>3. DropAll(t, ids) = d[N]
  BY DEF DropAll, IsDrop, DropStep
<1> HIDE DEF d, N
<1>4. \A k \in 0 .. N : d[k] = DropStep(t, ids, d, k)
  BY <1>2 DEF IsDrop
<1>5. 0 \in T
  <2>1. d[0] = t
    <3>1. 0 \in 0 .. N
      BY <1>1
    <3>2. d[0] = DropStep(t, ids, d, 0)
      BY <1>4, <3>1
    <3> QED BY <3>2 DEF DropStep
  <2>2. Rest(need, ids, 0) = [i \in Id |-> need[i] + Occurrences(ids, i)]
    BY RestSteps
  <2>3. Shrunk(t, t, o)
    BY DEF Shrunk
  <2>4. Good(0)
    BY <2>1, <2>2, <2>3 DEF Good
  <2> QED BY <2>4, <1>1 DEF T
<1>6. ASSUME NEW k \in 1 .. N, k - 1 \in T PROVE k \in T
  <2> DEFINE u == d[k - 1]
             last == Rest(need, ids, k - 1)
             i == ids[k]
  <2>1. Whole(u) /\ TablesFit(u, o, last) /\ Shrunk(t, u, o)
    BY <1>6 DEF T, Good
  <2>2. last \in [Id -> Nat] /\ last[i] > 0 /\ Rest(need, ids, k) = Less(last, i) /\ i \in Id
    <3>1. k - 1 \in 0 .. Len(ids) /\ k \in 1 .. Len(ids)
      BY <1>1 DEF N
    <3> QED BY <3>1, RestSteps
  <2>3. d[k] = WinDecRef(u, i, TRUE)
    <3>1. k \in 0 .. N /\ k # 0
      BY <1>1
    <3>2. d[k] = DropStep(t, ids, d, k)
      BY <1>4, <3>1
    <3> QED BY <3>1, <3>2 DEF DropStep
  <2> HIDE DEF u, last, i
  <2>4. d[k] = Released(u, i)
    BY <2>1, <2>2, <2>3, WinDecRefReleases
  <2>5. /\ Whole(Released(u, i)) /\ TablesFit(Released(u, i), o, Less(last, i))
        /\ Shrunk(u, Released(u, i), o)
    BY <2>1, <2>2, ReleasedFits
  <2>6. Shrunk(t, Released(u, i), o)
    BY <2>1, <2>5, ShrunkTransitive
  <2>7. Good(k)
    BY <2>2, <2>4, <2>5, <2>6 DEF Good
  <2> QED BY <2>7, <1>1 DEF T
<1>7. N \in T
  <2>1. \A k \in 0 .. N : k \in T
    BY <1>1, <1>5, <1>6, CountingUp
  <2> QED BY <2>1, <1>1
<1>8. Good(N)
  BY <1>7 DEF T
<1>9. Rest(need, ids, N) = need
  BY RestSteps DEF N
<1> QED BY <1>3, <1>8, <1>9 DEF Good
-----------------------------------------------------------------------------
(***************************************************************************)
(* The parts of the invariant when something changes.                      *)
(***************************************************************************)
LEMMA NeedIs ==
    ASSUME NEW mine \in [Id -> Nat], NEW calls \in Seq(Frames)
    PROVE  /\ Need(mine, calls) \in [Id -> Nat]
           /\ \A i \in Id : Need(mine, calls)[i] = mine[i] + Uses(calls, i)
           /\ \A i \in Id : mine[i] \in Nat /\ Uses(calls, i) \in Nat
<1>1. \A i \in Id : mine[i] \in Nat /\ Uses(calls, i) \in Nat
  BY UsesIsCount
<1>2. \A i \in Id : Need(mine, calls)[i] = mine[i] + Uses(calls, i)
  BY DEF Need
<1>3. \A i \in Id : mine[i] + Uses(calls, i) \in Nat
  BY <1>1
<1> QED BY <1>1, <1>2, <1>3 DEF Need

\* The tables fit whatever the counts of the objects are.
LEMMA SortsMatter ==
    ASSUME NEW t, NEW o, NEW need, TablesFit(t, o, need),
           NEW p, \A i \in DOMAIN t.lin : p[t.lin[i]].sort = o[t.lin[i]].sort,
           NEW then, \A i \in Id : then[i] = need[i]
    PROVE  TablesFit(t, p, then)
<1>1. \A i \in DOMAIN t.win : i \in Id /\ i \in DOMAIN t.lin
  BY DEF TablesFit
<1> QED BY <1>1 DEF TablesFit

LEMMA CallsSame ==
    ASSUME NEW calls, NEW t, CallsFit(calls, t), NEW u, Missing(u) = Missing(t)
    PROVE  CallsFit(calls, u)
BY DEF CallsFit

\* A call begins; a method does not run yet.
LEMMA CallsPush ==
    ASSUME NEW calls, NEW t, CallsFit(calls, t), NEW u, Missing(u) = Missing(t),
           NEW f \in Frames, Len(f.args) =< MaxArgs, f.kind # "deallocate",
           f.kind = "method" => f.callee \in Id /\ RunsOn(calls, f.callee) = {}
    PROVE  CallsFit(Append(calls, f), u)
<1> DEFINE new == Len(calls) + 1
           more == Append(calls, f)
<1>1. calls \in Seq(Frames)
  BY DEF CallsFit
<1>2. /\ DOMAIN more = DOMAIN calls \cup {new} /\ new \notin DOMAIN calls
      /\ \A k \in DOMAIN calls : more[k] = calls[k]
      /\ more[new] = f
      /\ more \in Seq(Frames)
  BY <1>1
<1>3. ASSUME NEW i \in Id PROVE Cardinality(RunsOn(more, i)) =< 1
  <2>1. Cardinality(RunsOn(more, i)) = Cardinality(RunsOn(calls, i)) + RunOf(f, i)
    BY <1>1, RunsOnAppend
  <2>2. Cardinality(RunsOn(calls, i)) \in Nat /\ Cardinality(RunsOn(calls, i)) =< 1
    BY <1>1, RunsOnIsCount DEF CallsFit
  <2>3. CASE f.kind = "method" /\ f.callee = i
    <3>1. Cardinality(RunsOn(calls, i)) = 0 /\ RunOf(f, i) = 1
      BY <2>3, FS_EmptySet DEF RunOf
    <3> QED BY <2>1, <3>1
  <2>4. CASE ~(f.kind = "method" /\ f.callee = i)
    <3>1. RunOf(f, i) = 0
      BY <2>4 DEF RunOf
    <3> QED BY <2>1, <2>2, <3>1
  <2> QED BY <2>3, <2>4
<1> HIDE DEF more, new
<1>4. \A n \in DOMAIN more :
         /\ Len(more[n].args) =< MaxArgs
         /\ more[n].kind = "method" => more[n].callee \in Id
         /\ more[n].kind = "deallocate" => more[n].callee \in Missing(u) /\ n \in DOMAIN calls
  BY <1>2 DEF CallsFit
<1>5. \A m, n \in DOMAIN more :
         /\ more[m].kind = "deallocate" /\ more[n].kind = "deallocate"
         /\ more[m].callee = more[n].callee
         => m = n
  BY <1>2, <1>4 DEF CallsFit
<1>6. \A i \in Missing(u) :
         \E n \in DOMAIN more : more[n].kind = "deallocate" /\ more[n].callee = i
  BY <1>2 DEF CallsFit
<1> QED BY <1>2, <1>3, <1>4, <1>5, <1>6 DEF CallsFit, more

\* An object begins to go: Windows forgets it first.
LEMMA CallsPushDeallocate ==
    ASSUME NEW calls, NEW t, CallsFit(calls, t), NEW i \in Id, i \notin Missing(t),
           NEW u, Missing(u) = Missing(t) \cup {i}
    PROVE  /\ Frame("deallocate", i, <<>>) \in Frames
           /\ CallsFit(Append(calls, Frame("deallocate", i, <<>>)), u)
           /\ \A j : Uses(Append(calls, Frame("deallocate", i, <<>>)), j) = Uses(calls, j)
<1> DEFINE f == Frame("deallocate", i, <<>>)
           new == Len(calls) + 1
           more == Append(calls, f)
<1>1. calls \in Seq(Frames)
  BY DEF CallsFit
<1>2. /\ f \in Frames /\ f.kind = "deallocate" /\ f.callee = i /\ f.args = <<>>
  BY DEF Frame, Frames, Kinds
<1>3. Len(f.args) =< MaxArgs /\ Len(f.args) = 0
  BY <1>2, MaxArgsAssumption
<1> HIDE DEF f
<1>4. /\ DOMAIN more = DOMAIN calls \cup {new} /\ new \notin DOMAIN calls
      /\ \A k \in DOMAIN calls : more[k] = calls[k]
      /\ more[new] = f
      /\ more \in Seq(Frames)
  BY <1>1, <1>2
<1>5. \A j : RunOf(f, j) = 0 /\ ArgsOf(f, j) = 0
  BY <1>2 DEF RunOf, ArgsOf
<1>6. ASSUME NEW j PROVE Uses(more, j) = Uses(calls, j)
  <2>1. Uses(more, j) = Uses(calls, j) + RunOf(f, j) + ArgsOf(f, j) /\ Uses(calls, j) \in Nat
    BY <1>1, <1>2, <1>3, UsesAppend
  <2> QED BY <1>5, <2>1
<1>7. ASSUME NEW j \in Id PROVE Cardinality(RunsOn(more, j)) =< 1
  <2>1. Cardinality(RunsOn(more, j)) = Cardinality(RunsOn(calls, j)) + RunOf(f, j)
    BY <1>1, <1>2, RunsOnAppend
  <2>2. Cardinality(RunsOn(calls, j)) \in Nat /\ Cardinality(RunsOn(calls, j)) =< 1
    BY <1>1, RunsOnIsCount DEF CallsFit
  <2> QED BY <1>5, <2>1, <2>2
<1> HIDE DEF more, new
<1>8. \A n \in DOMAIN more :
         /\ Len(more[n].args) =< MaxArgs
         /\ more[n].kind = "method" => more[n].callee \in Id
         /\ more[n].kind = "deallocate" => more[n].callee \in Missing(u)
  BY <1>2, <1>3, <1>4 DEF CallsFit
<1>9. \A m, n \in DOMAIN more :
         /\ more[m].kind = "deallocate" /\ more[n].kind = "deallocate"
         /\ more[m].callee = more[n].callee
         => m = n
  BY <1>2, <1>4 DEF CallsFit
<1>10. \A j \in Missing(u) :
         \E n \in DOMAIN more : more[n].kind = "deallocate" /\ more[n].callee = j
  BY <1>2, <1>4 DEF CallsFit
<1> QED BY <1>2, <1>4, <1>6, <1>7, <1>8, <1>9, <1>10 DEF CallsFit, more, f

\* The innermost call returns.
LEMMA CallsPop ==
    ASSUME NEW calls, calls # <<>>, NEW t, CallsFit(calls, t), NEW u,
           Missing(u) = IF Last(calls).kind = "deallocate" THEN Missing(t) \ {Last(calls).callee}
                        ELSE Missing(t)
    PROVE  CallsFit(Front(calls), u)
<1> DEFINE less == Front(calls)
           f == Last(calls)
<1>1. calls \in Seq(Frames)
  BY DEF CallsFit
<1>2. /\ less \in Seq(Frames) /\ f \in Frames
      /\ Len(calls) \in DOMAIN calls /\ f = calls[Len(calls)]
      /\ Len(less) = Len(calls) - 1
      /\ \A k \in DOMAIN less : k \in DOMAIN calls /\ k # Len(calls) /\ less[k] = calls[k]
  BY <1>1, FrontAndLast
<1>3. \A k \in DOMAIN calls : k # Len(calls) => k \in DOMAIN less
  <2> HIDE DEF less, f
  <2> QED BY <1>1, <1>2
<1>4. Len(f.args) =< MaxArgs
  BY <1>2 DEF CallsFit
<1>5. ASSUME NEW i \in Id PROVE Cardinality(RunsOn(less, i)) =< 1
  <2>1. Cardinality(RunsOn(less, i)) =< Cardinality(RunsOn(calls, i))
    BY <1>1, <1>4, UsesFront
  <2>2. Cardinality(RunsOn(calls, i)) \in Nat /\ Cardinality(RunsOn(calls, i)) =< 1
    BY <1>1, RunsOnIsCount DEF CallsFit
  <2>3. Cardinality(RunsOn(less, i)) \in Nat
    BY <1>2, RunsOnIsCount
  <2> QED BY <2>1, <2>2, <2>3
<1> HIDE DEF less, f
<1>6. \A n \in DOMAIN less :
         /\ Len(less[n].args) =< MaxArgs
         /\ less[n].kind = "method" => less[n].callee \in Id
  BY <1>2 DEF CallsFit
<1>7. ASSUME NEW n \in DOMAIN less, less[n].kind = "deallocate"
      PROVE  less[n].callee \in Missing(u)
  <2>1. /\ n \in DOMAIN calls /\ n # Len(calls) /\ less[n] = calls[n]
        /\ less[n].callee \in Missing(t)
    BY <1>2, <1>7 DEF CallsFit
  <2>2. f.kind = "deallocate" => f.callee # less[n].callee
    BY <1>2, <1>7, <2>1 DEF CallsFit
  <2> QED BY <2>1, <2>2 DEF f
<1>8. \A m, n \in DOMAIN less :
         /\ less[m].kind = "deallocate" /\ less[n].kind = "deallocate"
         /\ less[m].callee = less[n].callee
         => m = n
  BY <1>2 DEF CallsFit
<1>9. ASSUME NEW i \in Missing(u)
      PROVE  \E n \in DOMAIN less : less[n].kind = "deallocate" /\ less[n].callee = i
  <2>1. i \in Missing(t) /\ (f.kind = "deallocate" => i # f.callee)
    BY DEF f
  <2>2. PICK n \in DOMAIN calls : calls[n].kind = "deallocate" /\ calls[n].callee = i
    BY <2>1 DEF CallsFit
  <2>3. n # Len(calls)
    BY <1>2, <2>1, <2>2
  <2>4. n \in DOMAIN less
    BY <1>3, <2>2, <2>3
  <2> QED BY <1>2, <2>2, <2>4
<1> QED BY <1>2, <1>5, <1>6, <1>7, <1>8, <1>9 DEF CallsFit, less
\* The counts of a change, by r and h, and what the plugin holds of it with them.
Adjusted(o, a, r, h) == [o EXCEPT ![a] = Adjust(@, r, h)]
MayAdjust(o, t, mine, calls, a, r, h, then) ==
    /\ o[a].sort # "none" /\ (Named(t, a) => IdOf(t, a) \notin Missing(t))
    /\ o[a].refs + r \in Nat /\ o[a].held + h \in Nat
    /\ ~Named(t, a) => r = h
    /\ Named(t, a) => Uses(calls, IdOf(t, a)) =< o[a].held + h
    /\ \A i \in DOMAIN t.lin : then[i] = IF t.lin[i] = a THEN mine[i] + (r - h) ELSE mine[i]

LEMMA AdjustFits ==
    ASSUME NEW o \in [Addr -> Objects], NEW t, NEW need, TablesFit(t, o, need),
           NEW mine \in [Id -> Nat], NEW calls, ObjectsFit(o, t, mine, calls),
           NEW a \in Addr, NEW r \in Int, NEW h \in Int, NEW then,
           MayAdjust(o, t, mine, calls, a, r, h, then)
    PROVE  /\ Adjusted(o, a, r, h) \in [Addr -> Objects]
           /\ \A b \in Addr : Adjusted(o, a, r, h)[b].sort = o[b].sort
           /\ ObjectsFit(Adjusted(o, a, r, h), t, then, calls)
<1> DEFINE x == Adjust(o[a], r, h)
           p == Adjusted(o, a, r, h)
<1> USE DEF MayAdjust
<1>1. o[a] \in Objects
  OBVIOUS
<1>2. x = [sort |-> o[a].sort, refs |-> o[a].refs + r, held |-> o[a].held + h]
  BY DEF Adjust, Object
<1>3. x \in Objects /\ x.sort = o[a].sort /\ x.refs = o[a].refs + r /\ x.held = o[a].held + h
  BY <1>1, <1>2 DEF Objects
<1>4. p = [o EXCEPT ![a] = x]
  BY DEF Adjusted
<1> HIDE DEF x, p
<1>5. p[a] = x /\ (\A b \in Addr \ {a} : p[b] = o[b]) /\ p \in [Addr -> Objects]
  BY <1>3, <1>4
<1>6. \A b \in Addr : p[b].sort = o[b].sort
  BY <1>3, <1>5
<1>7. ASSUME NEW i \in DOMAIN t.lin
      PROVE  /\ p[t.lin[i]].refs = p[t.lin[i]].held + then[i]
             /\ Uses(calls, i) =< p[t.lin[i]].held
  <2>1. t.lin[i] \in Addr /\ i \in Id
    BY DEF TablesFit
  <2>2. o[t.lin[i]].refs = o[t.lin[i]].held + mine[i] /\ Uses(calls, i) =< o[t.lin[i]].held
    BY DEF ObjectsFit
  <2>3. CASE t.lin[i] = a
    <3>1. Named(t, a) /\ i = IdOf(t, a)
      BY <2>3, IdOfKnown
    <3>2. then[i] = mine[i] + (r - h) /\ mine[i] \in Nat
      BY <2>1, <2>3
    <3>3. o[a].held \in Nat /\ o[a].refs \in Nat
      BY <1>1 DEF Objects
    <3>4. p[t.lin[i]].refs = o[a].refs + r /\ p[t.lin[i]].held = o[a].held + h
      BY <1>3, <1>5, <2>3
    <3>5. Uses(calls, i) =< o[a].held + h
      BY <3>1
    <3>6. o[a].refs = o[a].held + mine[i]
      BY <2>2, <2>3
    <3>7. o[a].refs + r = (o[a].held + h) + (mine[i] + (r - h))
      BY <3>2, <3>3, <3>6
    <3> QED BY <3>2, <3>4, <3>5, <3>7
  <2>4. CASE t.lin[i] # a
    <3>1. p[t.lin[i]] = o[t.lin[i]] /\ then[i] = mine[i]
      BY <1>5, <2>1, <2>4
    <3> QED BY <2>2, <3>1
  <2> QED BY <2>3, <2>4
<1>8. ASSUME NEW b \in Addr, ~Named(t, b) PROVE p[b].refs = p[b].held
  <2>1. o[b].refs = o[b].held
    BY <1>8 DEF ObjectsFit
  <2>2. CASE b = a
    <3>1. r = h
      BY <1>8, <2>2
    <3> QED BY <1>3, <1>5, <2>1, <2>2, <3>1
  <2>3. CASE b # a
    BY <1>5, <2>1, <2>3
  <2> QED BY <2>2, <2>3
<1>9. ASSUME NEW i \in Missing(t) PROVE p[t.lin[i]].sort = "custom" /\ p[t.lin[i]].held = 0
  <2>1. i \in DOMAIN t.lin /\ t.lin[i] \in Addr
    BY DEF Missing, TablesFit
  <2>2. t.lin[i] # a
    BY <2>1, IdOfKnown
  <2>3. p[t.lin[i]] = o[t.lin[i]]
    BY <1>5, <2>1, <2>2
  <2> QED BY <2>3 DEF ObjectsFit
<1>10. \A b \in Addr : p[b].sort = "none" => p[b].refs = 0 /\ p[b].held = 0
  BY <1>3, <1>5, <1>6 DEF ObjectsFit
<1>11. \A b \in Addr : p[b].sort = "custom" => Named(t, b)
  BY <1>6 DEF ObjectsFit
<1> QED BY <1>3, <1>5, <1>6, <1>7, <1>8, <1>9, <1>10, <1>11 DEF ObjectsFit, p

\* Fewer calls use less.
LEMMA ObjectsFewerUses ==
    ASSUME NEW o \in [Addr -> Objects], NEW t, NEW need, TablesFit(t, o, need),
           NEW mine, NEW calls \in Seq(Frames), ObjectsFit(o, t, mine, calls),
           NEW fewer \in Seq(Frames), \A i \in Id : Uses(fewer, i) =< Uses(calls, i)
    PROVE  ObjectsFit(o, t, mine, fewer)
<1>1. ASSUME NEW i \in DOMAIN t.lin PROVE Uses(fewer, i) =< o[t.lin[i]].held
  <2>1. Uses(calls, i) =< o[t.lin[i]].held
    BY DEF ObjectsFit
  <2>2. i \in Id /\ t.lin[i] \in Addr
    BY DEF TablesFit
  <2>3. Uses(fewer, i) =< Uses(calls, i) /\ Uses(fewer, i) \in Nat /\ Uses(calls, i) \in Nat
    BY <2>2, UsesIsCount
  <2>4. o[t.lin[i]].held \in Nat
    BY <2>2 DEF Objects
  <2> QED BY <2>1, <2>3, <2>4
<1> QED BY <1>1 DEF ObjectsFit

\* An ID that is forgotten had no more references.
LEMMA ObjectsShrunk ==
    ASSUME NEW o \in [Addr -> Objects], NEW t, NEW need, TablesFit(t, o, need),
           NEW mine \in [Id -> Nat], NEW calls \in Seq(Frames), ObjectsFit(o, t, mine, calls),
           NEW u, Shrunk(t, u, o), TablesFit(u, o, Need(mine, calls))
    PROVE  ObjectsFit(o, u, mine, calls)
<1>1. \A a \in Addr : o[a].sort = "custom" => Named(u, a)
  <2>1. ASSUME NEW a \in Addr, o[a].sort = "custom" PROVE Named(u, a)
    <3>1. PICK i \in DOMAIN t.lin : t.lin[i] = a
      BY <2>1 DEF ObjectsFit, Named
    <3>2. i \in DOMAIN u.lin /\ u.lin[i] = a
      BY <2>1, <3>1 DEF Shrunk
    <3> QED BY <3>2 DEF Named
  <2> QED BY <2>1
<1>2. ASSUME NEW a \in Addr, ~Named(u, a) PROVE o[a].refs = o[a].held
  <2>1. CASE ~Named(t, a)
    BY <2>1 DEF ObjectsFit
  <2>2. CASE Named(t, a)
    <3>1. PICK i \in DOMAIN t.lin : t.lin[i] = a
      BY <2>2 DEF Named
    <3>2. i \notin DOMAIN u.lin
      BY <1>2, <3>1 DEF Named, Shrunk
    <3>3. i \in Id /\ i \notin DOMAIN u.win
      BY <3>2 DEF TablesFit
    <3>4. Need(mine, calls)[i] = 0
      BY <3>3 DEF TablesFit
    <3>5. mine[i] = 0
      BY <3>3, <3>4, NeedIs
    <3>6. o[a].refs = o[a].held + mine[i]
      BY <3>1 DEF ObjectsFit
    <3>7. o[a].held \in Nat
      BY DEF Objects
    <3> QED BY <3>5, <3>6, <3>7
  <2> QED BY <2>1, <2>2
<1>3. \A i \in DOMAIN u.lin : i \in DOMAIN t.lin /\ u.lin[i] = t.lin[i]
  BY DEF Shrunk
<1>4. \A i \in Missing(u) : i \in Missing(t) /\ i \in DOMAIN u.lin
  BY DEF Shrunk, Missing
<1> QED BY <1>1, <1>2, <1>3, <1>4 DEF ObjectsFit

\* An object that is named newly is not the plugin's yet.
LEMMA ObjectsGrown ==
    ASSUME NEW o \in [Addr -> Objects], NEW t, NEW mine \in [Id -> Nat], NEW calls \in Seq(Frames),
           TablesFit(t, o, Need(mine, calls)), ObjectsFit(o, t, mine, calls),
           NEW u, NEW need, TablesFit(u, o, need), NEW A, Grown(t, u, A),
           Missing(u) = Missing(t)
    PROVE  ObjectsFit(o, u, mine, calls)
<1>1. \A a \in Addr : Named(t, a) => Named(u, a)
  BY DEF Named, Grown
<1>2. ASSUME NEW i \in DOMAIN u.lin
      PROVE  /\ o[u.lin[i]].refs = o[u.lin[i]].held + mine[i]
             /\ Uses(calls, i) =< o[u.lin[i]].held
  <2>1. CASE i \in DOMAIN t.lin
    BY <2>1 DEF Grown, ObjectsFit
  <2>2. CASE i \notin DOMAIN t.lin
    <3>1. i \in Id /\ i \notin DOMAIN t.win /\ u.lin[i] \in Addr
      BY <2>2 DEF TablesFit
    <3>2. Need(mine, calls)[i] = 0
      BY <3>1 DEF TablesFit
    <3>3. mine[i] = 0 /\ Uses(calls, i) = 0
      BY <3>1, <3>2, NeedIs
    <3>4. ~Named(t, u.lin[i])
      BY <2>2 DEF Named, Grown, TablesFit
    <3>5. o[u.lin[i]].refs = o[u.lin[i]].held
      BY <3>1, <3>4 DEF ObjectsFit
    <3>6. o[u.lin[i]].held \in Nat
      BY <3>1 DEF Objects
    <3> QED BY <3>3, <3>5, <3>6
  <2> QED BY <2>1, <2>2
<1>3. \A i \in Missing(u) : i \in DOMAIN t.lin /\ u.lin[i] = t.lin[i]
  BY DEF Missing, Grown
<1> QED BY <1>1, <1>2, <1>3 DEF ObjectsFit

\* An object the page has a reference to is not going away.
LEMMA HeldIsAlive ==
    ASSUME NEW o \in [Addr -> Objects], NEW t, NEW mine, NEW calls, NEW need,
           TablesFit(t, o, need), ObjectsFit(o, t, mine, calls),
           NEW a \in Addr, o[a].held > 0
    PROVE  /\ o[a].sort # "none"
           /\ o[a].sort = "custom" => Named(t, a)
           /\ Named(t, a) => IdOf(t, a) \in DOMAIN t.lin /\ IdOf(t, a) \in DOMAIN t.win
<1>1. o[a].sort # "none" /\ (o[a].sort = "custom" => Named(t, a))
  BY DEF ObjectsFit
<1>2. ASSUME Named(t, a) PROVE IdOf(t, a) \in DOMAIN t.lin /\ IdOf(t, a) \in DOMAIN t.win
  <2>1. IdOf(t, a) \in DOMAIN t.lin /\ t.lin[IdOf(t, a)] = a
    BY <1>2, IdOfNamed
  <2>2. IdOf(t, a) \notin Missing(t)
    BY <2>1 DEF ObjectsFit
  <2> QED BY <2>1, <2>2 DEF Missing
<1> QED BY <1>1, <1>2
-----------------------------------------------------------------------------
(***************************************************************************)
(* The page's steps.                                                       *)
(***************************************************************************)
\* The last reference to a has gone: Windows forgets a custom object at once,
\* Linux when the plugin's deallocate has returned.
LEMMA DeallocateFits ==
    ASSUME obj \in [Addr -> Objects], NEW t, NEW mine \in [Id -> Nat], NEW a \in Addr,
           Whole(t), TablesFit(t, obj, Need(mine, stack)), CallsFit(stack, t),
           obj[a].sort # "none", Named(t, a) => IdOf(t, a) \in DOMAIN t.win,
           NEW o, o = [obj EXCEPT ![a] = Object(obj[a].sort, 0, 0)],
           ObjectsFit(o, t, mine, stack),
           Deallocate(t, a)
    PROVE  Fits(obj', tables', mine, stack')
<1> DEFINE x == Object(obj[a].sort, 0, 0)
<1>1. x.sort = obj[a].sort /\ x.refs = 0 /\ x.held = 0 /\ x \in Objects
  BY DEF Object, Objects
<1> HIDE DEF x
<1>2. o = [obj EXCEPT ![a] = x]
  BY DEF x
<1>3. o \in [Addr -> Objects] /\ o[a] = x /\ \A b \in Addr \ {a} : o[b] = obj[b]
  BY <1>1, <1>2
<1>4. stack \in Seq(Frames)
  BY DEF CallsFit
<1>5. \A i \in Id : Need(mine, stack)[i] = mine[i] + Uses(stack, i) /\ mine[i] \in Nat /\ Uses(stack, i) \in Nat
  BY <1>4, NeedIs
\* Nobody uses a any more.
<1>6. ASSUME Named(t, a)
      PROVE  /\ IdOf(t, a) \in Id /\ IdOf(t, a) \in DOMAIN t.win /\ t.lin[IdOf(t, a)] = a
             /\ IdOf(t, a) \in DOMAIN t.lin
             /\ Need(mine, stack)[IdOf(t, a)] = 0 /\ t.win[IdOf(t, a)].ref = 0
             /\ t.win[IdOf(t, a)].custom /\ obj[a].sort = "custom"
  <2> DEFINE i == IdOf(t, a)
  <2>1. i \in DOMAIN t.lin /\ t.lin[i] = a /\ i \in Id /\ i \in DOMAIN t.win
    BY <1>6, IdOfNamed
  <2> HIDE DEF i
  <2>2. o[a].refs = o[a].held + mine[i] /\ Uses(stack, i) =< o[a].held
    BY <2>1 DEF ObjectsFit
  <2>3. mine[i] = 0 /\ Uses(stack, i) = 0
    BY <2>1, <2>2, <1>1, <1>3, <1>5
  <2>4. Need(mine, stack)[i] = 0
    BY <2>1, <2>3, <1>5
  <2>5. t.win[i].custom /\ t.win[i].ref = 0
    BY <2>1, <2>4 DEF TablesFit
  <2>6. obj[a].sort = "custom"
    BY <2>1, <2>5 DEF TablesFit
  <2> QED BY <2>1, <2>4, <2>5, <2>6 DEF i
<1>7. CASE obj[a].sort = "custom" /\ Named(t, a)
  <2> DEFINE i == IdOf(t, a)
             f == Frame("deallocate", i, <<>>)
             u == [lin |-> t.lin, win |-> Erase(t.win, i), fault |-> "none"]
             more == Append(stack, f)
  <2>1. /\ i \in Id /\ i \in DOMAIN t.win /\ t.lin[i] = a /\ i \in DOMAIN t.lin
        /\ Need(mine, stack)[i] = 0 /\ t.win[i].ref = 0 /\ t.win[i].custom
    BY <1>6, <1>7
  <2>2. tables' = WinKill(t, i) /\ obj' = [obj EXCEPT ![a] = Object("custom", 0, 0)] /\ stack' = more
    BY <1>7 DEF Deallocate, Call
  <2> HIDE DEF i
  <2>3. WinKill(t, i) = u
    <3>1. [t EXCEPT !.win = Erase(@, i)] = u
      BY DEF Whole
    <3>2. t.win[i].custom /\ t.win[i].ref + 1 = 1
      BY <2>1
    <3> HIDE DEF u
    <3> QED BY <2>1, <3>1, <3>2, AssertionHolds DEF WinKill
  <2>4. obj' = o
    BY <2>2, <1>7
  <2>5. /\ u.lin = t.lin /\ DOMAIN u.win = DOMAIN t.win \ {i}
        /\ \A j \in DOMAIN u.win : u.win[j] = t.win[j]
    BY DEF Erase
  <2>6. Whole(u)
    BY DEF Whole
  <2> HIDE DEF u
  <2>7. i \notin Missing(t) /\ Missing(u) = Missing(t) \cup {i}
    BY <2>1, <2>5 DEF Missing
  <2>8. CallsFit(more, u) /\ (\A j : Uses(more, j) = Uses(stack, j)) /\ more \in Seq(Frames)
    <3>1. CallsFit(more, u) /\ \A j : Uses(more, j) = Uses(stack, j)
      BY <2>1, <2>7, CallsPushDeallocate
    <3> QED BY <3>1 DEF CallsFit
  <2> HIDE DEF more, f
  <2>9. \A j \in Id : Need(mine, more)[j] = Need(mine, stack)[j]
    <3>1. \A j \in Id : Need(mine, more)[j] = mine[j] + Uses(more, j)
      BY <2>8, NeedIs
    <3> QED BY <3>1, <2>8, <1>5
  <2>10. TablesFit(u, obj, Need(mine, stack))
    BY <2>1, <2>5 DEF TablesFit
  <2>11. TablesFit(u, o, Need(mine, more))
    <3>1. \A j \in DOMAIN u.lin : o[u.lin[j]].sort = obj[u.lin[j]].sort
      <4>1. \A j \in DOMAIN u.lin : u.lin[j] \in Addr
        BY <2>10 DEF TablesFit
      <4> QED BY <4>1, <1>1, <1>3
    <3> QED BY <3>1, <2>9, <2>10, SortsMatter, ZenonT(60)
  <2>12. ObjectsFit(o, u, mine, more)
    <3>1. \A b : Named(u, b) <=> Named(t, b)
      BY <2>5 DEF Named
    <3>2. \A j \in Missing(u) : o[u.lin[j]].sort = "custom" /\ o[u.lin[j]].held = 0
      <4>1. ASSUME NEW j \in Missing(u) PROVE o[u.lin[j]].sort = "custom" /\ o[u.lin[j]].held = 0
        <5>1. CASE j = i
          BY <5>1, <2>1, <2>5, <1>1, <1>3, <1>7
        <5>2. CASE j # i
          BY <5>2, <2>5, <2>7 DEF ObjectsFit
        <5> QED BY <5>1, <5>2
      <4> QED BY <4>1
    <3> QED BY <2>5, <2>8, <3>1, <3>2 DEF ObjectsFit
  <2> QED BY <2>2, <2>3, <2>4, <2>6, <2>8, <2>11, <2>12, <1>3 DEF Fits
<1>8. CASE ~(obj[a].sort = "custom" /\ Named(t, a))
  <2>1. tables' = t /\ obj' = [obj EXCEPT ![a] = Free] /\ stack' = stack
    BY <1>8 DEF Deallocate
  <2>2. ~Named(t, a)
    BY <1>6, <1>8
  <2>3. Free.sort = "none" /\ Free.refs = 0 /\ Free.held = 0 /\ Free \in Objects
    BY DEF Free, Object, Objects
  <2>4. obj' \in [Addr -> Objects] /\ obj'[a] = Free /\ \A b \in Addr \ {a} : obj'[b] = obj[b]
    BY <2>1, <2>3
  <2>5. \A i \in DOMAIN t.lin : t.lin[i] \in Addr \ {a}
    BY <2>2 DEF TablesFit, Named
  <2>6. TablesFit(t, obj', Need(mine, stack))
    <3>1. \A i \in DOMAIN t.lin : obj'[t.lin[i]].sort = obj[t.lin[i]].sort
      BY <2>4, <2>5
    <3> QED BY <3>1, SortsMatter
  <2>7. ObjectsFit(obj', t, mine, stack)
    <3>1. \A b \in Addr \ {a} : obj'[b] = o[b]
      BY <2>4, <1>3
    <3>2. \A i \in Missing(t) : i \in DOMAIN t.lin
      BY DEF Missing
    <3>3. \A b \in Addr : obj'[b].sort = "none" => obj'[b].refs = 0 /\ obj'[b].held = 0
      BY <3>1, <2>3, <2>4 DEF ObjectsFit
    <3>4. \A b \in Addr : obj'[b].sort = "custom" => Named(t, b)
      BY <3>1, <2>3, <2>4 DEF ObjectsFit
    <3>5. \A b \in Addr : ~Named(t, b) => obj'[b].refs = obj'[b].held
      BY <3>1, <2>3, <2>4 DEF ObjectsFit
    <3> QED BY <3>1, <3>2, <3>3, <3>4, <3>5, <2>5 DEF ObjectsFit
  <2> QED BY <2>1, <2>4, <2>6, <2>7 DEF Fits
<1> QED BY <1>7, <1>8

\* What the invariant says about the state.
LEMMA Facts ==
    ASSUME IInv
    PROVE  /\ obj \in [Addr -> Objects] /\ own \in [Id -> Nat]
           /\ Whole(tables) /\ TablesFit(tables, obj, Need(own, stack))
           /\ CallsFit(stack, tables) /\ ObjectsFit(obj, tables, own, stack)
           /\ stack \in Seq(Frames)
           /\ tables.fault = "none"
           /\ \A a \in Addr : /\ obj[a].sort \in {"none", "page", "custom"}
                              /\ obj[a].refs \in Nat /\ obj[a].held \in Nat
           /\ Need(own, stack) \in [Id -> Nat]
           /\ \A i \in Id : /\ Need(own, stack)[i] = own[i] + Uses(stack, i)
                            /\ own[i] \in Nat /\ Uses(stack, i) \in Nat
           /\ \A a \in Addr : ForArgs(a) \in Nat
<1>1. /\ obj \in [Addr -> Objects] /\ own \in [Id -> Nat]
      /\ Whole(tables) /\ TablesFit(tables, obj, Need(own, stack))
      /\ CallsFit(stack, tables) /\ ObjectsFit(obj, tables, own, stack)
  BY DEF IInv, Fits
<1>2. stack \in Seq(Frames)
  BY <1>1 DEF CallsFit
<1>3. tables.fault = "none"
  BY <1>1 DEF Whole
<1>4. \A a \in Addr : /\ obj[a].sort \in {"none", "page", "custom"}
                      /\ obj[a].refs \in Nat /\ obj[a].held \in Nat
  BY <1>1 DEF Objects
<1>5. \A a \in Addr : ForArgs(a) \in Nat
  BY <1>2, PassedInIsCount DEF ForArgs
<1> QED BY <1>1, <1>2, <1>3, <1>4, <1>5, NeedIs

LEMMA PageNewObjectStep ==
    ASSUME IInv, NEW a \in Addr, PageNewObject(a)
    PROVE  IInv'
<1> DEFINE x == Object("page", 1, 1)
<1>1. x.sort = "page" /\ x.refs = 1 /\ x.held = 1 /\ x \in Objects
  BY DEF Object, Objects
<1>2. obj[a].sort = "none" /\ obj' = [obj EXCEPT ![a] = x] /\ tables' = tables /\ own' = own /\ stack' = stack
  BY DEF PageNewObject, Free, Object
<1> HIDE DEF x
<1>3. obj' \in [Addr -> Objects] /\ obj'[a] = x /\ \A b \in Addr \ {a} : obj'[b] = obj[b]
  BY <1>1, <1>2, Facts
<1>4. ~Named(tables, a) /\ \A i \in DOMAIN tables.lin : tables.lin[i] \in Addr \ {a}
  BY <1>2, Facts DEF Named, TablesFit
<1>5. TablesFit(tables, obj', Need(own, stack))
  <2>1. \A i \in DOMAIN tables.lin : obj'[tables.lin[i]].sort = obj[tables.lin[i]].sort
    BY <1>3, <1>4
  <2> QED BY <2>1, Facts, SortsMatter
<1>6. ObjectsFit(obj', tables, own, stack)
  <2>1. ObjectsFit(obj, tables, own, stack)
    BY Facts
  <2>2. \A b \in Addr : obj'[b].sort = "none" => obj'[b].refs = 0 /\ obj'[b].held = 0
    BY <2>1, <1>1, <1>3 DEF ObjectsFit
  <2>3. \A b \in Addr : obj'[b].sort = "custom" => Named(tables, b)
    BY <2>1, <1>1, <1>3 DEF ObjectsFit
  <2>4. \A b \in Addr : ~Named(tables, b) => obj'[b].refs = obj'[b].held
    BY <2>1, <1>1, <1>3 DEF ObjectsFit
  <2>5. \A i \in Missing(tables) : i \in DOMAIN tables.lin
    BY DEF Missing
  <2> QED BY <2>1, <2>2, <2>3, <2>4, <2>5, <1>3, <1>4 DEF ObjectsFit
<1> QED BY <1>2, <1>3, <1>5, <1>6, Facts DEF IInv, Fits

LEMMA PageRetainStep ==
    ASSUME IInv, NEW a \in Addr, PageRetain(a)
    PROVE  IInv'
<1>1. /\ obj[a].held > 0
      /\ obj' = [obj EXCEPT ![a] = Adjust(@, 1, 1)]
      /\ tables' = tables /\ own' = own /\ stack' = stack
  <2>1. obj[a].held > ForArgs(a) /\ ForArgs(a) \in Nat /\ obj[a].held \in Nat
    BY Facts DEF PageRetain, PageHas
  <2> QED BY <2>1 DEF PageRetain
<1>2. /\ obj[a].sort # "none"
      /\ Named(tables, a) => IdOf(tables, a) \in DOMAIN tables.lin /\ IdOf(tables, a) \in DOMAIN tables.win
  BY <1>1, Facts, HeldIsAlive
<1>3. Named(tables, a) => IdOf(tables, a) \notin Missing(tables)
  BY <1>2 DEF Missing
<1>4. obj[a].refs + 1 \in Nat /\ obj[a].held + 1 \in Nat
  BY Facts
<1>5. Named(tables, a) => Uses(stack, IdOf(tables, a)) =< obj[a].held + 1
  <2>1. SUFFICES ASSUME Named(tables, a) PROVE Uses(stack, IdOf(tables, a)) =< obj[a].held + 1
    OBVIOUS
  <2>2. IdOf(tables, a) \in DOMAIN tables.lin /\ IdOf(tables, a) \in Id /\ tables.lin[IdOf(tables, a)] = a
    BY <2>1, Facts, IdOfNamed
  <2>3. Uses(stack, IdOf(tables, a)) =< obj[a].held
    BY <2>2, Facts DEF ObjectsFit
  <2>4. Uses(stack, IdOf(tables, a)) \in Nat /\ obj[a].held \in Nat
    BY <2>2, Facts
  <2> QED BY <2>3, <2>4
<1>6. \A i \in DOMAIN tables.lin :
         own[i] = IF tables.lin[i] = a THEN own[i] + (1 - 1) ELSE own[i]
  <2>1. \A i \in DOMAIN tables.lin : own[i] \in Nat
    BY Facts DEF TablesFit
  <2> QED BY <2>1
<1>7. /\ obj' \in [Addr -> Objects] /\ \A b \in Addr : obj'[b].sort = obj[b].sort
      /\ ObjectsFit(obj', tables, own, stack)
  <2>1. MayAdjust(obj, tables, own, stack, a, 1, 1, own)
    BY <1>2, <1>3, <1>4, <1>5, <1>6 DEF MayAdjust
  <2>2. obj' = Adjusted(obj, a, 1, 1)
    BY <1>1 DEF Adjusted
  <2>3. /\ obj \in [Addr -> Objects] /\ own \in [Id -> Nat]
        /\ TablesFit(tables, obj, Need(own, stack)) /\ ObjectsFit(obj, tables, own, stack)
    BY Facts
  <2>4. /\ Adjusted(obj, a, 1, 1) \in [Addr -> Objects]
        /\ \A b \in Addr : Adjusted(obj, a, 1, 1)[b].sort = obj[b].sort
        /\ ObjectsFit(Adjusted(obj, a, 1, 1), tables, own, stack)
    BY <2>1, <2>3, AdjustFits
  <2> QED BY <2>2, <2>4
<1>8. TablesFit(tables, obj', Need(own, stack))
  <2>1. \A i \in DOMAIN tables.lin : obj'[tables.lin[i]].sort = obj[tables.lin[i]].sort
    BY <1>7, Facts DEF TablesFit
  <2> QED BY <2>1, Facts, SortsMatter
<1> QED BY <1>1, <1>7, <1>8, Facts DEF IInv, Fits
\* As long as no method runs again on its object, what the page keeps covers
\* what the methods use.
LEMMA LockedCovers ==
    ASSUME IInv, NEW a \in Addr
    PROVE  /\ Locked(a) \in Nat
           /\ Named(tables, a) => Uses(stack, IdOf(tables, a)) =< Locked(a)
<1> DEFINE i == IdOf(tables, a)
<1>1. CASE ~Named(tables, a)
  BY <1>1 DEF Locked, ForArgs
<1>2. CASE Named(tables, a)
  <2>1. i \in Id
    BY <1>2, Facts, IdOfNamed
  <2> HIDE DEF i
  <2>2. /\ Cardinality(RunsOn(stack, i)) \in Nat /\ Cardinality(PassedIn(stack, i)) \in Nat
        /\ IsFiniteSet(RunsOn(stack, i))
    BY Facts, RunsOnIsCount, PassedInIsCount
  <2>3. Cardinality(RunsOn(stack, i)) =< 1
    BY <2>1, Facts DEF CallsFit
  <2>4. ForArgs(a) = Cardinality(PassedIn(stack, i))
    BY <1>2 DEF ForArgs, i
  <2>5. CASE RunsOn(stack, i) = {}
    <3>1. Cardinality(RunsOn(stack, i)) = 0
      BY <2>5, FS_EmptySet
    <3>2. Locked(a) = ForArgs(a) + 0
      BY <2>5, <1>2 DEF Locked, i
    <3>3. Uses(stack, i) = 0 + Cardinality(PassedIn(stack, i))
      BY <3>1 DEF Uses
    <3> QED BY <3>2, <3>3, <2>2, <2>4 DEF i
  <2>6. CASE RunsOn(stack, i) # {}
    <3>1. Locked(a) = ForArgs(a) + 1
      BY <2>6, <1>2 DEF Locked, i
    <3>2. Uses(stack, i) = Cardinality(RunsOn(stack, i)) + Cardinality(PassedIn(stack, i))
      BY DEF Uses
    <3> QED BY <3>1, <3>2, <2>2, <2>3, <2>4 DEF i
  <2> QED BY <2>5, <2>6
<1> QED BY <1>1, <1>2

\* The same tables fit when the counts of an object have changed.
LEMMA TablesAfterAdjust ==
    ASSUME NEW t, NEW o, NEW need, TablesFit(t, o, need), NEW p,
           \A b \in Addr : p[b].sort = o[b].sort,
           NEW then, \A i \in Id : then[i] = need[i]
    PROVE  TablesFit(t, p, then)
<1>1. \A i \in DOMAIN t.lin : p[t.lin[i]].sort = o[t.lin[i]].sort
  BY DEF TablesFit
<1> QED BY <1>1, SortsMatter

LEMMA PageDropStep ==
    ASSUME IInv, NEW a \in Addr, PageDrop(a)
    PROVE  IInv'
<1>1. obj[a].held > Locked(a) /\ own' = own
  BY DEF PageDrop
<1>2. obj[a].held \in Nat /\ obj[a].refs \in Nat /\ Locked(a) \in Nat /\ obj[a].held > 0
  BY <1>1, Facts, LockedCovers
<1>3. /\ obj[a].sort # "none"
      /\ Named(tables, a) => IdOf(tables, a) \in DOMAIN tables.lin /\ IdOf(tables, a) \in DOMAIN tables.win
  BY <1>2, Facts, HeldIsAlive
<1>4. Named(tables, a) => IdOf(tables, a) \notin Missing(tables)
  BY <1>3 DEF Missing
<1>5. Named(tables, a) => Uses(stack, IdOf(tables, a)) =< obj[a].held + (-1)
  <2>1. SUFFICES ASSUME Named(tables, a) PROVE Uses(stack, IdOf(tables, a)) =< obj[a].held + (-1)
    OBVIOUS
  <2>2. Uses(stack, IdOf(tables, a)) =< Locked(a)
    BY <2>1, LockedCovers
  <2>3. Uses(stack, IdOf(tables, a)) \in Nat
    BY Facts, UsesIsCount
  <2> QED BY <2>2, <2>3, <1>1, <1>2
<1>6. obj[a].refs >= obj[a].held
  <2>1. CASE Named(tables, a)
    <3> DEFINE i == IdOf(tables, a)
    <3>1. i \in DOMAIN tables.lin /\ i \in Id /\ tables.lin[i] = a
      BY <2>1, Facts, IdOfNamed
    <3> HIDE DEF i
    <3>2. obj[a].refs = obj[a].held + own[i] /\ own[i] \in Nat
      BY <3>1, Facts DEF ObjectsFit
    <3> QED BY <3>2, <1>2
  <2>2. CASE ~Named(tables, a)
    <3>1. obj[a].refs = obj[a].held
      BY <2>2, Facts DEF ObjectsFit
    <3> QED BY <3>1, <1>2
  <2> QED BY <2>1, <2>2
<1>7. \A i \in DOMAIN tables.lin :
         own[i] = IF tables.lin[i] = a THEN own[i] + ((-1) - (-1)) ELSE own[i]
  <2>1. \A i \in DOMAIN tables.lin : own[i] \in Nat
    BY Facts DEF TablesFit
  <2> QED BY <2>1
<1>8. obj[a].refs + (-1) \in Nat /\ obj[a].held + (-1) \in Nat
  BY <1>2, <1>6
<1>9. MayAdjust(obj, tables, own, stack, a, -1, -1, own)
  BY <1>3, <1>4, <1>5, <1>7, <1>8 DEF MayAdjust
<1> DEFINE p == Adjusted(obj, a, -1, -1)
<1>10. /\ p \in [Addr -> Objects] /\ \A b \in Addr : p[b].sort = obj[b].sort
       /\ ObjectsFit(p, tables, own, stack)
  <2>1. /\ obj \in [Addr -> Objects] /\ own \in [Id -> Nat]
        /\ TablesFit(tables, obj, Need(own, stack)) /\ ObjectsFit(obj, tables, own, stack)
    BY Facts
  <2> QED BY <1>9, <2>1, AdjustFits
<1>11. CASE obj[a].refs = 1
  <2>1. Deallocate(tables, a)
    BY <1>11 DEF PageDrop
  <2>2. obj[a].held = 1
    BY <1>2, <1>6, <1>11
  <2>3. p = [obj EXCEPT ![a] = Object(obj[a].sort, 0, 0)]
    <3>1. Adjust(obj[a], -1, -1) = Object(obj[a].sort, 0, 0)
      BY <1>11, <2>2 DEF Adjust, Object
    <3> QED BY <3>1 DEF Adjusted
  <2> HIDE DEF p
  <2>4. Fits(obj', tables', own, stack')
    BY <1>3, <1>10, <2>1, <2>3, Facts, DeallocateFits
  <2> QED BY <1>1, <2>4 DEF IInv
<1>12. CASE obj[a].refs # 1
  <2>1. obj' = p /\ tables' = tables /\ stack' = stack
    BY <1>12 DEF PageDrop, Adjusted
  <2> HIDE DEF p
  <2>2. TablesFit(tables, p, Need(own, stack))
    BY <1>10, Facts, TablesAfterAdjust
  <2> QED BY <1>1, <1>10, <2>1, <2>2, Facts DEF IInv, Fits
<1> QED BY <1>11, <1>12

\* A call without arguments that is not a method uses nothing.
LEMMA CallsPushPlain ==
    ASSUME NEW calls, NEW t, CallsFit(calls, t), NEW kind \in {"getvalue", "script"}
    PROVE  /\ CallsFit(Append(calls, Frame(kind, 0, <<>>)), t)
           /\ \A i : Uses(Append(calls, Frame(kind, 0, <<>>)), i) = Uses(calls, i)
<1> DEFINE f == Frame(kind, 0, <<>>)
<1>1. f \in Frames /\ f.kind = kind /\ Len(f.args) = 0
  BY DEF Frame, Frames, Kinds
<1>2. f.kind # "deallocate" /\ f.kind # "method" /\ Len(f.args) =< MaxArgs
  BY <1>1, MaxArgsAssumption
<1>3. calls \in Seq(Frames)
  BY DEF CallsFit
<1> HIDE DEF f
<1>4. CallsFit(Append(calls, f), t)
  BY <1>1, <1>2, CallsPush
<1>5. ASSUME NEW i PROVE Uses(Append(calls, f), i) = Uses(calls, i)
  <2>1. RunOf(f, i) = 0 /\ ArgsOf(f, i) = 0
    BY <1>2 DEF RunOf, ArgsOf
  <2>2. /\ Uses(Append(calls, f), i) = Uses(calls, i) + RunOf(f, i) + ArgsOf(f, i)
        /\ Uses(calls, i) \in Nat
    BY <1>1, <1>2, <1>3, UsesAppend
  <2> QED BY <2>1, <2>2
<1> QED BY <1>4, <1>5 DEF f

\* Calls that use the same can be exchanged.
LEMMA SameUses ==
    ASSUME NEW o, NEW t, NEW mine, NEW calls, Fits(o, t, mine, calls),
           NEW more, CallsFit(more, t), \A i : Uses(more, i) = Uses(calls, i)
    PROVE  Fits(o, t, mine, more)
<1>1. more \in Seq(Frames) /\ calls \in Seq(Frames)
  BY DEF CallsFit, Fits
<1>2. \A i \in Id : Need(mine, more)[i] = Need(mine, calls)[i]
  BY DEF Need
<1>3. TablesFit(t, o, Need(mine, more))
  BY <1>2, SortsMatter DEF Fits
<1>4. ObjectsFit(o, t, mine, more)
  BY DEF ObjectsFit, Fits
<1> QED BY <1>3, <1>4 DEF Fits

LEMMA PageGetScriptableStep ==
    ASSUME IInv, PageGetScriptable
    PROVE  IInv'
<1> DEFINE more == Append(stack, Frame("getvalue", 0, <<>>))
<1>1. stack' = more /\ obj' = obj /\ tables' = tables /\ own' = own
  BY DEF PageGetScriptable, Call
<1>2. CallsFit(more, tables) /\ \A i : Uses(more, i) = Uses(stack, i)
  BY Facts, CallsPushPlain
<1> HIDE DEF more
<1>3. Fits(obj, tables, own, more)
  BY <1>2, SameUses DEF IInv
<1> QED BY <1>1, <1>3 DEF IInv
LEMMA OccurrencesOne ==
    ASSUME NEW S, NEW y \in S, NEW x
    PROVE  Occurrences(<<y>>, x) = Same(y, x)
<1>1. <<>> \in Seq(S) /\ <<y>> \o <<>> = <<y>>
  OBVIOUS
<1>2. Occurrences(<<y>> \o <<>>, x) = Occurrences(<<>>, x) + Same(y, x)
  BY <1>1, OccurrencesCons
<1>3. Occurrences(<<>>, x) = 0
  <2>1. Places(<<>>, x) = {}
    BY DEF Places
  <2> QED BY <2>1, FS_EmptySet DEF Occurrences, Places
<1>4. Same(y, x) \in Nat
  BY DEF Same
<1> QED BY <1>1, <1>2, <1>3, <1>4

\* Linux hands the plugin an object, whatever calls are running.
LEMMA HandToPluginFits ==
    ASSUME NEW calls, Fits(obj, tables, own, calls), NEW a \in Addr, obj[a].held > 0,
           HandToPlugin(a)
    PROVE  Fits(obj', tables', own', calls)
<1> DEFINE u == PassToWindows(tables, <<a>>)
           i == IdOf(u, a)
<1>1. /\ obj \in [Addr -> Objects] /\ own \in [Id -> Nat] /\ Whole(tables)
      /\ TablesFit(tables, obj, Need(own, calls)) /\ CallsFit(calls, tables)
      /\ ObjectsFit(obj, tables, own, calls) /\ calls \in Seq(Frames)
  BY DEF Fits, CallsFit
<1>2. /\ Need(own, calls) \in [Id -> Nat]
      /\ \A j \in Id : /\ Need(own, calls)[j] = own[j] + Uses(calls, j)
                       /\ own[j] \in Nat /\ Uses(calls, j) \in Nat
  BY <1>1, NeedIs
<1>3. /\ obj[a].sort # "none" /\ (obj[a].sort = "custom" => Named(tables, a))
      /\ Named(tables, a) => IdOf(tables, a) \in DOMAIN tables.win
  BY <1>1, HeldIsAlive
<1>4. <<a>> \in Seq(Addr) /\ DOMAIN <<a>> = {1} /\ <<a>>[1] = a
  OBVIOUS
<1>5. MayPass(tables, obj, <<a>>)
  BY <1>3, <1>4 DEF MayPass
<1>6. /\ Whole(u)
      /\ IdsOf(u, <<a>>) \in Seq(Id)
      /\ TablesFit(u, obj, [j \in Id |-> Need(own, calls)[j] + Occurrences(IdsOf(u, <<a>>), j)])
      /\ Grown(tables, u, {<<a>>[m] : m \in DOMAIN <<a>>})
      /\ Missing(u) = Missing(tables)
      /\ \A m \in DOMAIN <<a>> : Named(u, <<a>>[m]) /\ IdOf(u, <<a>>[m]) \in DOMAIN u.win
  BY <1>1, <1>2, <1>4, <1>5, PassFits
<1>7. /\ tables' = u /\ own' = [own EXCEPT ![i] = @ + 1]
      /\ obj' = Adjusted(obj, a, 1, 0)
  BY DEF HandToPlugin, Adjusted
<1> HIDE DEF u
<1>8. Named(u, a) /\ i \in DOMAIN u.win
  BY <1>4, <1>6
<1>9. i \in DOMAIN u.lin /\ u.lin[i] = a /\ i \in Id /\ i \notin Missing(u)
  BY <1>6, <1>8, IdOfNamed DEF Missing
<1>10. IdsOf(u, <<a>>) = <<i>>
  BY <1>4 DEF IdsOf
<1> HIDE DEF i
<1>11. /\ own' \in [Id -> Nat]
       /\ \A j \in Id : own'[j] = IF j = i THEN own[j] + 1 ELSE own[j]
  BY <1>1, <1>7, <1>9
<1>12. \A j \in Id : Need(own', calls)[j] = Need(own, calls)[j] + Occurrences(<<i>>, j)
  <2>1. ASSUME NEW j \in Id PROVE Need(own', calls)[j] = Need(own, calls)[j] + Occurrences(<<i>>, j)
    <3>1. Need(own', calls)[j] = own'[j] + Uses(calls, j)
      BY <1>1, <1>11, NeedIs
    <3>2. Occurrences(<<i>>, j) = IF j = i THEN 1 ELSE 0
      BY <1>9, OccurrencesOne DEF Same
    <3> QED BY <3>1, <3>2, <1>2, <1>11
  <2> QED BY <2>1
<1>13. TablesFit(u, obj, Need(own', calls))
  <2> DEFINE need == [j \in Id |-> Need(own, calls)[j] + Occurrences(<<i>>, j)]
  <2>1. TablesFit(u, obj, need)
    BY <1>6, <1>10
  <2>2. \A j \in Id : Need(own', calls)[j] = need[j]
    BY <1>12
  <2> HIDE DEF need
  <2> QED BY <2>1, <2>2, SortsMatter
<1>14. ObjectsFit(obj, u, own, calls)
  BY <1>1, <1>6, ObjectsGrown
<1>15. MayAdjust(obj, u, own, calls, a, 1, 0, own')
  <2>1. Named(u, a) /\ IdOf(u, a) \notin Missing(u)
    BY <1>8, <1>9 DEF i
  <2>2. obj[a].refs + 1 \in Nat /\ obj[a].held + 0 \in Nat
    BY <1>1 DEF Objects
  <2>3. Uses(calls, IdOf(u, a)) =< obj[a].held + 0
    <3>1. Uses(calls, i) =< obj[a].held
      BY <1>9, <1>14 DEF ObjectsFit
    <3>2. obj[a].held \in Nat
      BY <1>1 DEF Objects
    <3>3. Uses(calls, i) =< obj[a].held + 0
      BY <3>1, <3>2
    <3> QED BY <3>3 DEF i
  <2>4. \A j \in DOMAIN u.lin : own'[j] = IF u.lin[j] = a THEN own[j] + (1 - 0) ELSE own[j]
    <3>1. \A j \in DOMAIN u.lin : j \in Id /\ (u.lin[j] = a <=> j = i)
      BY <1>6, <1>9 DEF TablesFit
    <3> QED BY <3>1, <1>11
  <2> QED BY <2>1, <2>2, <2>3, <2>4, <1>3 DEF MayAdjust
<1>16. /\ obj' \in [Addr -> Objects] /\ \A b \in Addr : obj'[b].sort = obj[b].sort
       /\ ObjectsFit(obj', u, own', calls)
  <2> DEFINE p == Adjusted(obj, a, 1, 0)
  <2>1. /\ p \in [Addr -> Objects] /\ \A b \in Addr : p[b].sort = obj[b].sort
        /\ ObjectsFit(p, u, own', calls)
    BY <1>1, <1>13, <1>14, <1>15, AdjustFits
  <2> HIDE DEF p
  <2> QED BY <2>1, <1>7 DEF p
<1>17. TablesFit(u, obj', Need(own', calls))
  BY <1>13, <1>16, TablesAfterAdjust
<1>18. CallsFit(calls, u)
  BY <1>1, <1>6, CallsSame
<1> QED BY <1>6, <1>7, <1>11, <1>16, <1>17, <1>18 DEF Fits

\* The innermost call returns, and what it used is no longer needed.
LEMMA PopPlain ==
    ASSUME NEW o, NEW t, NEW mine, NEW calls, Fits(o, t, mine, calls), calls # <<>>,
           Last(calls).kind \in {"getvalue", "script"}
    PROVE  Fits(o, t, mine, Front(calls))
<1>1. CallsFit(calls, t) /\ calls \in Seq(Frames)
  BY DEF Fits, CallsFit
<1>2. CallsFit(Front(calls), t)
  BY <1>1, CallsPop
<1>3. Len(Last(calls).args) =< MaxArgs
  <2>1. Len(calls) \in DOMAIN calls /\ Last(calls) = calls[Len(calls)]
    BY <1>1, FrontAndLast
  <2> QED BY <1>1, <2>1 DEF CallsFit
<1>4. ASSUME NEW i PROVE Uses(Front(calls), i) = Uses(calls, i)
  <2>1. RunOf(Last(calls), i) = 0 /\ ArgsOf(Last(calls), i) = 0
    BY DEF RunOf, ArgsOf
  <2>2. /\ Uses(calls, i) = Uses(Front(calls), i) + RunOf(Last(calls), i) + ArgsOf(Last(calls), i)
        /\ Uses(Front(calls), i) \in Nat
    BY <1>1, <1>3, UsesFront
  <2> QED BY <2>1, <2>2
<1> QED BY <1>2, <1>4, SameUses

LEMMA PageHasHeld ==
    ASSUME IInv, NEW a \in PageHas
    PROVE  a \in Addr /\ obj[a].held > 0 /\ obj[a].held > ForArgs(a) /\ ForArgs(a) \in Nat
<1>1. a \in Addr /\ obj[a].held > ForArgs(a)
  BY DEF PageHas
<1> QED BY <1>1, Facts

LEMMA ScriptReturnStep ==
    ASSUME IInv, ScriptReturn
    PROVE  IInv'
<1>1. Fits(obj, tables, own, Front(stack)) /\ stack' = Front(stack)
  BY PopPlain DEF ScriptReturn, IInv
<1>2. CASE UNCHANGED <<obj, tables, own>>
  BY <1>1, <1>2 DEF IInv
<1>3. CASE \E a \in PageHas : PluginMayTake(a) /\ HandToPlugin(a)
  <2>1. PICK a \in PageHas : HandToPlugin(a)
    BY <1>3
  <2>2. a \in Addr /\ obj[a].held > 0
    BY PageHasHeld
  <2>3. Fits(obj', tables', own', Front(stack))
    BY <1>1, <2>1, <2>2, HandToPluginFits
  <2> QED BY <1>1, <2>3 DEF IInv
<1> QED BY <1>2, <1>3 DEF ScriptReturn

LEMMA PluginGetValueStep ==
    ASSUME IInv, NEW a \in Addr, PluginGetValue(a)
    PROVE  IInv'
<1>1. a \in PageHas /\ HandToPlugin(a) /\ stack' = stack
  BY DEF PluginGetValue
<1>2. obj[a].held > 0
  BY <1>1, PageHasHeld
<1>3. Fits(obj', tables', own', stack)
  BY <1>1, <1>2, HandToPluginFits DEF IInv
<1> QED BY <1>1, <1>3 DEF IInv
\* A script calls a method: every argument is counted on both sides.
LEMMA PageInvokeStep ==
    ASSUME ~ReentrantCallee, IInv, NEW a \in Addr, NEW args \in ArgLists, PageInvoke(a, args)
    PROVE  IInv'
<1> DEFINE objs == <<a>> \o args
           u == PassToWindows(tables, objs)
           ids == [n \in DOMAIN args |-> IdOf(u, args[n])]
           c == IdOf(u, a)
           f == Frame("method", c, ids)
           more == Append(stack, f)
<1>1. args \in Seq(Addr) /\ Len(args) =< MaxArgs /\ DOMAIN args = 1 .. Len(args)
  <2>1. PICK n \in 0 .. MaxArgs : args \in [1 .. n -> Addr]
    BY DEF ArgLists
  <2>2. n \in Nat /\ n =< MaxArgs
    BY MaxArgsAssumption
  <2> QED BY <2>1, <2>2
<1>2. /\ objs \in Seq(Addr) /\ DOMAIN objs = 1 .. Len(args) + 1 /\ objs[1] = a
      /\ \A n \in DOMAIN args : n + 1 \in DOMAIN objs /\ objs[n + 1] = args[n]
      /\ \A m \in DOMAIN objs : objs[m] = a \/ \E n \in DOMAIN args : objs[m] = args[n]
  <2>1. /\ objs \in Seq(Addr) /\ DOMAIN objs = 1 .. Len(args) + 1 /\ objs[1] = a
        /\ \A n \in DOMAIN args : n + 1 \in DOMAIN objs /\ objs[n + 1] = args[n]
    BY <1>1
  <2> HIDE DEF objs
  <2>2. ASSUME NEW m \in DOMAIN objs, m # 1 PROVE \E n \in DOMAIN args : objs[m] = args[n]
    <3>1. m - 1 \in DOMAIN args /\ (m - 1) + 1 = m
      BY <1>1, <2>1, <2>2
    <3>2. objs[(m - 1) + 1] = args[m - 1]
      BY <2>1, <3>1
    <3> QED BY <3>1, <3>2
  <2> QED BY <2>1, <2>2
<1>3. /\ a \in PageHas /\ obj[a].sort = "custom"
      /\ \A n \in DOMAIN args : args[n] \in PageHas
      /\ RunsOn(stack, c) = {}
      /\ tables' = u /\ stack' = more /\ own' = own
      /\ obj' = [b \in Addr |-> Adjust(obj[b], Occurrences(args, b), Occurrences(args, b))]
  <2>1. \A n \in DOMAIN args : args[n] \in ToSet(args)
    BY DEF ToSet
  <2>2. f.callee = c
    BY DEF Frame
  <2> QED BY <2>1, <2>2 DEF PageInvoke, Call
<1> HIDE DEF objs, ids, f, more
<1>4. \A b \in PageHas : b \in Addr /\ obj[b].held > 0 /\ obj[b].held > ForArgs(b) /\ ForArgs(b) \in Nat
  BY PageHasHeld
<1>5. \A b \in PageHas :
         /\ obj[b].sort # "none" /\ (obj[b].sort = "custom" => Named(tables, b))
         /\ Named(tables, b) => IdOf(tables, b) \in DOMAIN tables.win
  BY <1>4, Facts, HeldIsAlive
<1>6. MayPass(tables, obj, objs)
  <2>1. \A m \in DOMAIN objs : objs[m] \in PageHas
    BY <1>2, <1>3
  <2> QED BY <1>5, <2>1 DEF MayPass
<1>7. /\ Whole(u)
      /\ IdsOf(u, objs) \in Seq(Id)
      /\ TablesFit(u, obj, [j \in Id |-> Need(own, stack)[j] + Occurrences(IdsOf(u, objs), j)])
      /\ Grown(tables, u, {objs[m] : m \in DOMAIN objs})
      /\ Missing(u) = Missing(tables)
      /\ \A m \in DOMAIN objs : Named(u, objs[m]) /\ IdOf(u, objs[m]) \in DOMAIN u.win
  BY <1>2, <1>6, Facts, PassFits
<1> DEFINE whole == [j \in Id |-> Need(own, stack)[j] + Occurrences(IdsOf(u, objs), j)]
<1>8. TablesFit(u, obj, whole)
  BY <1>7
<1> HIDE DEF u, whole
<1>9. Named(u, a) /\ \A n \in DOMAIN args : Named(u, args[n])
  BY <1>2, <1>7
<1>10. c \in DOMAIN u.lin /\ u.lin[c] = a /\ c \in Id
  BY <1>8, <1>9, IdOfNamed
<1>11. /\ ids \in Seq(Id) /\ Len(ids) = Len(args) /\ DOMAIN ids = DOMAIN args
       /\ \A n \in DOMAIN args : ids[n] \in DOMAIN u.lin /\ u.lin[ids[n]] = args[n]
  <2>1. \A n \in DOMAIN args : /\ IdOf(u, args[n]) \in Id /\ IdOf(u, args[n]) \in DOMAIN u.lin
                               /\ u.lin[IdOf(u, args[n])] = args[n]
    BY <1>8, <1>9, IdOfNamed
  <2>2. ids \in [1 .. Len(args) -> Id] /\ \A n \in DOMAIN args : ids[n] = IdOf(u, args[n])
    BY <1>1, <2>1 DEF ids
  <2>3. Len(args) \in Nat
    BY <1>1
  <2> QED BY <1>1, <2>1, <2>2, <2>3
<1>12. IdsOf(u, objs) = <<c>> \o ids
  <2> DEFINE all == <<c>> \o ids
             these == IdsOf(u, objs)
  <2>1. /\ all \in Seq(Id) /\ DOMAIN all = 1 .. Len(args) + 1 /\ all[1] = c
        /\ \A n \in DOMAIN args : all[n + 1] = ids[n]
    BY <1>1, <1>10, <1>11
  <2>2. these = [m \in 1 .. Len(args) + 1 |-> IdOf(u, objs[m])]
    BY <1>2 DEF IdsOf
  <2> HIDE DEF all, these
  <2>3. ASSUME NEW m \in 1 .. Len(args) + 1 PROVE all[m] = IdOf(u, objs[m])
    <3>1. CASE m = 1
      BY <3>1, <2>1, <1>2
    <3>2. CASE m # 1
      <4>1. m - 1 \in DOMAIN args /\ (m - 1) + 1 = m
        BY <1>1, <3>2
      <4>2. all[(m - 1) + 1] = ids[m - 1] /\ objs[(m - 1) + 1] = args[m - 1]
        BY <2>1, <1>2, <4>1
      <4>3. ids[m - 1] = IdOf(u, args[m - 1])
        BY <4>1 DEF ids
      <4> QED BY <4>1, <4>2, <4>3
    <3> QED BY <3>1, <3>2
  <2>4. all = [m \in 1 .. Len(args) + 1 |-> all[m]]
    BY <2>1
  <2>5. [m \in 1 .. Len(args) + 1 |-> all[m]] = [m \in 1 .. Len(args) + 1 |-> IdOf(u, objs[m])]
    BY <2>3, Zenon
  <2>6. all = these
    BY <2>2, <2>4, <2>5
  <2> QED BY <2>6 DEF all, these
\* The call that begins.
<1>13. f \in Frames /\ f.kind = "method" /\ f.callee = c /\ f.args = ids /\ Len(f.args) =< MaxArgs
  <2>1. f = [kind |-> "method", callee |-> c, args |-> ids]
    BY DEF f, Frame
  <2> HIDE DEF f
  <2> QED BY <2>1, <1>1, <1>10, <1>11 DEF Frames, Kinds
<1>14. CallsFit(more, u) /\ more \in Seq(Frames)
  <2>1. CallsFit(more, u)
    BY <1>3, <1>7, <1>10, <1>13, Facts, CallsPush DEF more
  <2> QED BY <2>1 DEF CallsFit
<1>15. \A j \in Id : /\ Uses(more, j) = Uses(stack, j) + Same(c, j) + Occurrences(ids, j)
                     /\ Occurrences(ids, j) \in Nat /\ Same(c, j) \in Nat
  <2>1. ASSUME NEW j \in Id
        PROVE  /\ Uses(more, j) = Uses(stack, j) + Same(c, j) + Occurrences(ids, j)
               /\ Occurrences(ids, j) \in Nat /\ Same(c, j) \in Nat
    <3>1. RunOf(f, j) = Same(c, j) /\ ArgsOf(f, j) = Occurrences(ids, j)
      BY <1>13 DEF RunOf, ArgsOf, Same
    <3>2. Uses(more, j) = Uses(stack, j) + RunOf(f, j) + ArgsOf(f, j)
      BY <1>13, Facts, UsesAppend DEF more
    <3>3. Occurrences(ids, j) \in Nat
      BY <1>11, OccurrencesIsCount
    <3> QED BY <3>1, <3>2, <3>3 DEF Same
  <2> QED BY <2>1
<1>16. \A j \in Id : Need(own, more)[j] = whole[j]
  <2>1. ASSUME NEW j \in Id PROVE Need(own, more)[j] = whole[j]
    <3>1. whole[j] = Need(own, stack)[j] + Occurrences(<<c>> \o ids, j)
      BY <1>12 DEF whole
    <3>2. Occurrences(<<c>> \o ids, j) = Occurrences(ids, j) + Same(c, j)
      BY <1>10, <1>11, OccurrencesCons
    <3>3. Need(own, more)[j] = own[j] + Uses(more, j)
      BY <1>14, Facts, NeedIs
    <3>4. Need(own, stack)[j] = own[j] + Uses(stack, j) /\ own[j] \in Nat /\ Uses(stack, j) \in Nat
      BY Facts
    <3> QED BY <3>1, <3>2, <3>3, <3>4, <1>15
  <2> QED BY <2>1
\* The counts of the arguments.
<1>17. \A b \in Addr : Occurrences(args, b) \in Nat
  BY <1>1, OccurrencesIsCount
<1>18. /\ obj' \in [Addr -> Objects]
       /\ \A b \in Addr : /\ obj'[b].sort = obj[b].sort
                          /\ obj'[b].refs = obj[b].refs + Occurrences(args, b)
                          /\ obj'[b].held = obj[b].held + Occurrences(args, b)
  <2>1. \A b \in Addr : /\ obj'[b] = [sort |-> obj[b].sort, refs |-> obj[b].refs + Occurrences(args, b),
                                      held |-> obj[b].held + Occurrences(args, b)]
    BY <1>3 DEF Adjust, Object
  <2>2. ASSUME NEW b \in Addr PROVE obj'[b] \in Objects
    <3>1. /\ obj[b].sort \in {"none", "page", "custom"} /\ obj[b].refs \in Nat /\ obj[b].held \in Nat
          /\ Occurrences(args, b) \in Nat
      BY <1>17, Facts DEF Objects
    <3>2. obj[b].refs + Occurrences(args, b) \in Nat /\ obj[b].held + Occurrences(args, b) \in Nat
      BY <3>1
    <3>3. [sort |-> obj[b].sort, refs |-> obj[b].refs + Occurrences(args, b),
           held |-> obj[b].held + Occurrences(args, b)] \in Objects
      BY <3>1, <3>2, Zenon DEF Objects
    <3> QED BY <2>1, <3>3
  <2>3. obj' = [b \in Addr |-> obj'[b]]
    BY <1>3
  <2> QED BY <2>1, <2>2, <2>3
<1>19. TablesFit(u, obj', Need(own, more))
  BY <1>8, <1>16, <1>18, TablesAfterAdjust
<1>20. ObjectsFit(obj, u, own, stack)
  BY <1>7, <1>8, Facts, ObjectsGrown
<1>21. ASSUME NEW i \in DOMAIN u.lin PROVE Occurrences(args, u.lin[i]) = Occurrences(ids, i)
  <2>1. \A n \in DOMAIN args : args[n] = u.lin[i] <=> ids[n] = i
    BY <1>8, <1>11 DEF TablesFit
  <2>2. {n \in DOMAIN args : args[n] = u.lin[i]} = {n \in DOMAIN ids : ids[n] = i}
    BY <2>1, <1>11
  <2> QED BY <2>2 DEF Occurrences
<1>22. ASSUME NEW i \in DOMAIN u.lin
       PROVE  /\ obj'[u.lin[i]].refs = obj'[u.lin[i]].held + own[i]
              /\ Uses(more, i) =< obj'[u.lin[i]].held
  <2> DEFINE b == u.lin[i]
             n == Occurrences(args, b)
  <2>1. b \in Addr /\ i \in Id
    BY <1>8 DEF TablesFit
  <2>2. /\ obj'[b].refs = obj[b].refs + n /\ obj'[b].held = obj[b].held + n
        /\ n \in Nat /\ n = Occurrences(ids, i)
    BY <2>1, <1>17, <1>18, <1>21
  <2>3. obj[b].refs = obj[b].held + own[i] /\ Uses(stack, i) =< obj[b].held
    BY <1>20 DEF ObjectsFit
  <2>4. Uses(more, i) = Uses(stack, i) + Same(c, i) + n
    BY <1>15, <2>1, <2>2
  <2>5. obj[b].held \in Nat /\ own[i] \in Nat /\ Uses(stack, i) \in Nat
    BY <2>1, Facts
  <2>6. Uses(stack, i) + Same(c, i) =< obj[b].held
    <3>1. CASE i = c
      <4>1. b = a /\ Same(c, i) = 1
        BY <3>1, <1>10 DEF Same
      <4>2. Named(tables, a)
        BY <1>3, <1>5
      <4>3. c = IdOf(tables, a)
        <5>1. IdOf(tables, a) \in DOMAIN tables.lin /\ tables.lin[IdOf(tables, a)] = a
          BY <4>2, Facts, IdOfNamed
        <5>2. IdOf(tables, a) \in DOMAIN u.lin /\ u.lin[IdOf(tables, a)] = a
          BY <5>1, <1>7 DEF Grown
        <5> QED BY <5>2, <1>10, <1>8 DEF TablesFit
      <4>4. ForArgs(a) = Cardinality(PassedIn(stack, c))
        BY <4>2, <4>3 DEF ForArgs
      <4>5. Uses(stack, c) = 0 + Cardinality(PassedIn(stack, c))
        BY <1>3, FS_EmptySet DEF Uses
      <4>6. Uses(stack, i) = ForArgs(a)
        <5>1. ForArgs(a) \in Nat
          BY <1>3, <1>4
        <5> QED BY <3>1, <4>4, <4>5, <5>1
      <4>7. obj[a].held > ForArgs(a) /\ ForArgs(a) \in Nat
        BY <1>3, <1>4
      <4> HIDE DEF b, n, c
      <4> QED BY <4>1, <4>6, <4>7, <2>5
    <3>2. CASE i # c
      <4>1. Same(c, i) = 0
        BY <3>2 DEF Same
      <4> HIDE DEF b, n, c
      <4> QED BY <4>1, <2>3, <2>5
    <3> QED BY <3>1, <3>2
  <2>7. Same(c, i) \in Nat
    BY DEF Same
  <2> HIDE DEF n, c
  <2> QED BY <2>2, <2>3, <2>4, <2>5, <2>6, <2>7
<1>23. \A b \in Addr : obj'[b].sort = "none" => obj'[b].refs = 0 /\ obj'[b].held = 0
  <2>1. ASSUME NEW b \in Addr, obj'[b].sort = "none" PROVE obj'[b].refs = 0 /\ obj'[b].held = 0
    <3>1. obj[b].sort = "none" /\ obj[b].refs = 0 /\ obj[b].held = 0
      BY <2>1, <1>18, Facts DEF ObjectsFit
    <3>2. b \notin PageHas
      BY <3>1, <1>5
    <3>3. Places(args, b) = {}
      BY <3>2, <1>3 DEF Places
    <3>4. Occurrences(args, b) = 0
      BY <3>3, <1>1, OccurrencesIsCount, FS_EmptySet
    <3> QED BY <3>1, <3>4, <1>18
  <2> QED BY <2>1
<1>24. \A b \in Addr : obj'[b].sort = "custom" => Named(u, b)
  BY <1>18, <1>20 DEF ObjectsFit
<1>25. \A b \in Addr : ~Named(u, b) => obj'[b].refs = obj'[b].held
  BY <1>18, <1>20 DEF ObjectsFit
<1>26. \A i \in Missing(u) : obj'[u.lin[i]].sort = "custom" /\ obj'[u.lin[i]].held = 0
  <2>1. ASSUME NEW i \in Missing(u) PROVE obj'[u.lin[i]].sort = "custom" /\ obj'[u.lin[i]].held = 0
    <3> DEFINE b == u.lin[i]
    <3>1. i \in DOMAIN u.lin /\ b \in Addr
      BY <1>8 DEF Missing, TablesFit
    <3>2. obj[b].sort = "custom" /\ obj[b].held = 0
      BY <1>20 DEF ObjectsFit
    <3> HIDE DEF b
    <3>3. b \notin PageHas
      BY <3>2, <1>4
    <3>4. Places(args, b) = {}
      BY <3>3, <1>3 DEF Places
    <3>5. Occurrences(args, b) = 0
      BY <3>4, <1>1, OccurrencesIsCount, FS_EmptySet
    <3> QED BY <3>1, <3>2, <3>5, <1>18 DEF b
  <2> QED BY <2>1
<1>27. ObjectsFit(obj', u, own, more)
  BY <1>22, <1>23, <1>24, <1>25, <1>26 DEF ObjectsFit
<1> QED BY <1>3, <1>7, <1>14, <1>18, <1>19, <1>27, Facts DEF IInv, Fits

\* The plugin makes an object: it is named and counted once.
LEMMA PluginCreateStep ==
    ASSUME IInv, NEW a \in Addr, PluginCreate(a)
    PROVE  IInv'
<1> DEFINE x == Object("custom", 1, 0)
           t == LinWrite(tables, a)
           i == IdOf(t, a)
           proxy == Proxy(1, TRUE, a)
           u == [lin |-> t.lin, win |-> Insert(t.win, i, proxy), fault |-> "none"]
<1>1. x.sort = "custom" /\ x.refs = 1 /\ x.held = 0 /\ x \in Objects
  BY DEF Object, Objects
<1>2. proxy.ref = 1 /\ proxy.custom = TRUE /\ proxy.addr = a
  BY DEF Proxy
<1>3. /\ obj[a].sort = "none" /\ obj' = [obj EXCEPT ![a] = x]
      /\ tables' = [DbgAssert(t, i \notin DOMAIN t.win, "notNew") EXCEPT
                      !.win = Insert(@, i, proxy)]
      /\ own' = [own EXCEPT ![i] = 1] /\ stack' = stack
  BY DEF PluginCreate, Free, Object
<1> HIDE DEF x, t, proxy
<1>4. obj' \in [Addr -> Objects] /\ obj'[a] = x /\ \A b \in Addr \ {a} : obj'[b] = obj[b]
  BY <1>1, <1>3, Facts
<1>5. ~Named(tables, a) /\ \A j \in DOMAIN tables.lin : tables.lin[j] \in Addr \ {a}
  BY <1>3, Facts DEF Named, TablesFit
<1>6. TablesFit(tables, obj', Need(own, stack))
  <2>1. \A j \in DOMAIN tables.lin : obj'[tables.lin[j]].sort = obj[tables.lin[j]].sort
    BY <1>4, <1>5
  <2> QED BY <2>1, Facts, SortsMatter
<1>7. /\ Whole(t) /\ TablesFit(t, obj', Need(own, stack)) /\ t.win = tables.win
      /\ Named(t, a) /\ Grown(tables, t, {a})
  <2>1. obj'[a].sort # "none"
    BY <1>1, <1>4
  <2> QED BY <2>1, <1>6, Facts, LinWriteFits DEF t
<1>8. i \in DOMAIN t.lin /\ t.lin[i] = a /\ i \in Id
  BY <1>7, IdOfNamed
<1> HIDE DEF i
<1>9. i \notin DOMAIN tables.lin
  BY <1>5, <1>7, <1>8 DEF Grown, Named
<1>10. DOMAIN t.lin = DOMAIN tables.lin \cup {i}
  <2>1. \A j \in DOMAIN t.lin \ DOMAIN tables.lin : t.lin[j] = a
    BY <1>7 DEF Grown
  <2>2. \A j \in DOMAIN t.lin \ DOMAIN tables.lin : j = i
    BY <2>1, <1>7, <1>8 DEF TablesFit
  <2>3. DOMAIN tables.lin \subseteq DOMAIN t.lin
    BY <1>7 DEF Grown
  <2> QED BY <2>2, <2>3, <1>8
<1>11. i \notin DOMAIN t.win /\ DOMAIN t.win = DOMAIN tables.win
  BY <1>7, <1>9, Facts DEF TablesFit
<1>12. tables' = u
  <2>1. DbgAssert(t, i \notin DOMAIN t.win, "notNew") = t
    BY <1>11, AssertionHolds
  <2>2. [t EXCEPT !.win = Insert(@, i, proxy)] = u
    BY <1>7 DEF Whole
  <2> QED BY <2>1, <2>2, <1>3
<1>13. /\ u.lin = t.lin /\ DOMAIN u.win = DOMAIN t.win \cup {i} /\ u.win[i] = proxy
       /\ \A j \in DOMAIN t.win : u.win[j] = t.win[j]
  BY <1>11 DEF Insert
<1>14. Whole(u)
  BY DEF Whole
<1> HIDE DEF u
<1>15. own[i] = 0 /\ Uses(stack, i) = 0
  <2>1. Need(own, stack)[i] = 0
    BY <1>7, <1>8, <1>11 DEF TablesFit
  <2> QED BY <2>1, <1>8, Facts
<1>16. own' \in [Id -> Nat] /\ own'[i] = 1 /\ \A j \in Id \ {i} : own'[j] = own[j]
  BY <1>3, <1>8, Facts
<1>17. \A j \in Id : Need(own', stack)[j] = IF j = i THEN 1 ELSE Need(own, stack)[j]
  <2>1. \A j \in Id : Need(own', stack)[j] = own'[j] + Uses(stack, j)
    BY <1>16, Facts, NeedIs
  <2>2. \A j \in Id : Need(own, stack)[j] = own[j] + Uses(stack, j)
    BY Facts
  <2> QED BY <2>1, <2>2, <1>15, <1>16
<1>18. TablesFit(u, obj', Need(own', stack))
  <2>1. DOMAIN u.lin \subseteq Id /\ DOMAIN u.win \subseteq DOMAIN u.lin
    BY <1>7, <1>8, <1>13 DEF TablesFit
  <2>2. /\ \A j \in DOMAIN u.lin : u.lin[j] \in Addr /\ obj'[u.lin[j]].sort # "none"
        /\ \A j, k \in DOMAIN u.lin : u.lin[j] = u.lin[k] => j = k
    BY <1>7, <1>13 DEF TablesFit
  <2>3. ASSUME NEW j \in DOMAIN u.win
        PROVE  /\ u.win[j].ref = Need(own', stack)[j] /\ u.win[j].addr = u.lin[j]
               /\ u.win[j].custom \in BOOLEAN
               /\ u.win[j].custom <=> obj'[u.lin[j]].sort = "custom"
               /\ Need(own', stack)[j] > 0 \/ u.win[j].custom
    <3>1. j \in Id
      BY <2>1
    <3>2. CASE j = i
      <4>1. u.win[j] = proxy /\ u.lin[j] = a /\ Need(own', stack)[j] = 1
        BY <3>1, <3>2, <1>8, <1>13, <1>17
      <4>2. obj'[u.lin[j]].sort = "custom"
        BY <4>1, <1>1, <1>4
      <4> QED BY <4>1, <4>2, <1>2
    <3>3. CASE j # i
      <4>1. j \in DOMAIN t.win /\ u.win[j] = t.win[j] /\ u.lin[j] = t.lin[j]
            /\ Need(own', stack)[j] = Need(own, stack)[j]
        BY <3>1, <3>3, <1>13, <1>17
      <4> QED BY <4>1, <1>7 DEF TablesFit
    <3> QED BY <3>2, <3>3
  <2>4. \A j \in Id \ DOMAIN u.win : Need(own', stack)[j] = 0
    BY <1>7, <1>13, <1>17 DEF TablesFit
  <2> QED BY <2>1, <2>2, <2>3, <2>4 DEF TablesFit
<1>19. Missing(u) = Missing(tables)
  BY <1>9, <1>10, <1>11, <1>13 DEF Missing
<1>20. CallsFit(stack, u)
  BY <1>19, Facts, CallsSame
<1>21. ObjectsFit(obj', u, own', stack)
  <2>1. ObjectsFit(obj, tables, own, stack)
    BY Facts
  <2>2. \A b \in Addr : obj'[b].sort = "none" => obj'[b].refs = 0 /\ obj'[b].held = 0
    BY <2>1, <1>1, <1>4 DEF ObjectsFit
  <2>3. Named(u, a) /\ \A b : Named(tables, b) => Named(u, b)
    BY <1>7, <1>8, <1>13 DEF Named, Grown
  <2>4. \A b \in Addr : obj'[b].sort = "custom" => Named(u, b)
    BY <2>1, <2>3, <1>4 DEF ObjectsFit
  <2>5. \A b \in Addr : ~Named(u, b) => obj'[b].refs = obj'[b].held
    BY <2>1, <2>3, <1>4 DEF ObjectsFit
  <2>6. ASSUME NEW j \in DOMAIN u.lin
        PROVE  /\ obj'[u.lin[j]].refs = obj'[u.lin[j]].held + own'[j]
               /\ Uses(stack, j) =< obj'[u.lin[j]].held
    <3>1. CASE j = i
      <4>1. obj'[u.lin[j]] = x /\ own'[j] = 1 /\ Uses(stack, j) = 0
        BY <3>1, <1>4, <1>8, <1>13, <1>15, <1>16
      <4> QED BY <4>1, <1>1
    <3>2. CASE j # i
      <4>1. j \in DOMAIN tables.lin /\ j \in Id
        BY <3>2, <1>7, <1>10, <1>13 DEF TablesFit
      <4>2. u.lin[j] = tables.lin[j] /\ tables.lin[j] \in Addr \ {a} /\ own'[j] = own[j]
        BY <3>2, <4>1, <1>5, <1>7, <1>13, <1>16 DEF Grown
      <4> QED BY <4>1, <4>2, <2>1, <1>4 DEF ObjectsFit
    <3> QED BY <3>1, <3>2
  <2>7. ASSUME NEW j \in Missing(u) PROVE obj'[u.lin[j]].sort = "custom" /\ obj'[u.lin[j]].held = 0
    <3>1. j \in Missing(tables) /\ j \in DOMAIN tables.lin
      BY <1>19 DEF Missing
    <3>2. u.lin[j] = tables.lin[j] /\ tables.lin[j] \in Addr \ {a}
      BY <3>1, <1>5, <1>7, <1>13 DEF Grown
    <3> QED BY <3>1, <3>2, <2>1, <1>4 DEF ObjectsFit
  <2> QED BY <2>2, <2>4, <2>5, <2>6, <2>7 DEF ObjectsFit
<1> QED BY <1>3, <1>4, <1>12, <1>14, <1>16, <1>18, <1>20, <1>21 DEF IInv, Fits

\* What the tables name is all that the counts of the objects depend on.
LEMMA ObjectsSameNames ==
    ASSUME NEW o, NEW t, NEW mine, NEW calls, ObjectsFit(o, t, mine, calls),
           NEW u, u.lin = t.lin, DOMAIN u.win = DOMAIN t.win
    PROVE  ObjectsFit(o, u, mine, calls) /\ Missing(u) = Missing(t)
<1>1. Missing(u) = Missing(t)
  BY DEF Missing
<1>2. \A b : Named(u, b) <=> Named(t, b)
  BY DEF Named
<1> QED BY <1>1, <1>2 DEF ObjectsFit

\* What is counted for i is among what the browser counts for its object.
LEMMA CountedTwice ==
    ASSUME IInv, NEW i \in DOMAIN tables.win
    PROVE  /\ i \in Id /\ i \in DOMAIN tables.lin /\ tables.lin[i] \in Addr
           /\ obj[tables.lin[i]].sort # "none"
           /\ obj[tables.lin[i]].refs = obj[tables.lin[i]].held + own[i]
           /\ Uses(stack, i) =< obj[tables.lin[i]].held
           /\ Need(own, stack)[i] =< obj[tables.lin[i]].refs
           /\ tables.win[i].ref = Need(own, stack)[i]
           /\ Named(tables, tables.lin[i]) /\ IdOf(tables, tables.lin[i]) = i
           /\ i \notin Missing(tables)
           /\ \A j \in DOMAIN tables.lin : j \in Id /\ (tables.lin[j] = tables.lin[i] => j = i)
<1> DEFINE a == tables.lin[i]
<1>1. /\ i \in Id /\ i \in DOMAIN tables.lin /\ a \in Addr /\ obj[a].sort # "none"
      /\ tables.win[i].ref = Need(own, stack)[i] /\ i \notin Missing(tables)
      /\ \A j \in DOMAIN tables.lin : j \in Id /\ (tables.lin[j] = a => j = i)
  BY Facts DEF TablesFit, Missing
<1>2. obj[a].refs = obj[a].held + own[i] /\ Uses(stack, i) =< obj[a].held
  BY <1>1, Facts DEF ObjectsFit
<1>3. Named(tables, a) /\ IdOf(tables, a) = i
  BY <1>1, Facts, IdOfKnown
<1>4. Need(own, stack)[i] =< obj[a].refs
  <2> HIDE DEF a
  <2>1. Need(own, stack)[i] = own[i] + Uses(stack, i) /\ own[i] \in Nat /\ Uses(stack, i) \in Nat
    BY <1>1, Facts
  <2>2. obj[a].held \in Nat /\ obj[a].refs \in Nat
    BY <1>1, Facts
  <2> QED BY <2>1, <2>2, <1>2
<1> QED BY <1>1, <1>2, <1>3, <1>4

\* Both counts go up.
LEMMA PluginRetainStep ==
    ASSUME IInv, NEW i \in Id, PluginRetain(i)
    PROVE  IInv'
<1> DEFINE a == tables.lin[i]
           u == Count(tables, i, 1)
           t == LinRead(u, i, FALSE)
           then == Need(own', stack)
           p == Adjusted(obj, a, 1, 0)
<1>1. /\ i \in DOMAIN tables.win
      /\ own' = [own EXCEPT ![i] = @ + 1] /\ stack' = stack
      /\ t.fault = "none" =>
            /\ obj' = [obj EXCEPT ![t.lin[i]] = Adjust(@, 1, 0)]
            /\ tables' = DbgAssert(t, t.win[i].ref <= obj[t.lin[i]].refs + 1, "countTooSmall")
  BY DEF PluginRetain, PluginHas
<1>2. /\ i \in Id /\ i \in DOMAIN tables.lin /\ a \in Addr /\ obj[a].sort # "none"
      /\ obj[a].refs = obj[a].held + own[i] /\ Uses(stack, i) =< obj[a].held
      /\ Need(own, stack)[i] =< obj[a].refs
      /\ Named(tables, a) /\ IdOf(tables, a) = i /\ i \notin Missing(tables)
      /\ \A j \in DOMAIN tables.lin : j \in Id /\ (tables.lin[j] = a => j = i)
  BY <1>1, CountedTwice
<1>3. /\ own' \in [Id -> Nat]
      /\ \A j \in Id : own'[j] = IF j = i THEN own[j] + 1 ELSE own[j]
  BY <1>1, Facts
<1>4. \A j \in Id : then[j] = IF j = i THEN Need(own, stack)[j] + 1 ELSE Need(own, stack)[j]
  <2>1. \A j \in Id : then[j] = own'[j] + Uses(stack, j)
    BY <1>3, Facts, NeedIs
  <2> HIDE DEF then
  <2> QED BY <2>1, <1>3, Facts, SMTT(60)
<1> HIDE DEF then
<1>5. /\ Whole(u) /\ TablesFit(u, obj, then) /\ u.lin = tables.lin
      /\ DOMAIN u.win = DOMAIN tables.win
      /\ u.win[i].ref = Need(own, stack)[i] + 1
  <2>1. Need(own, stack)[i] + 1 > 0
    BY <1>2, Facts
  <2>2. Whole(tables) /\ TablesFit(tables, obj, Need(own, stack)) /\ Need(own, stack) \in [Id -> Nat]
    BY Facts
  <2> QED BY <2>1, <2>2, <1>1, <1>4, CountFits
<1> HIDE DEF u, a
<1>6. t = u
  <2>1. i \in DOMAIN u.lin
    BY <1>2, <1>5
  <2> QED BY <2>1, AssertionHolds DEF LinRead
<1>7. u.fault = "none" /\ u.lin[i] = a
  BY <1>5 DEF Whole, a
<1> HIDE DEF t
<1>8. obj' = p /\ tables' = u
  <2>1. u.win[i].ref <= obj[a].refs + 1
    <3>1. obj[a].refs \in Nat /\ Need(own, stack)[i] \in Nat
      BY <1>2, Facts
    <3> QED BY <3>1, <1>2, <1>5
  <2>2. DbgAssert(u, u.win[i].ref <= obj[a].refs + 1, "countTooSmall") = u
    BY <2>1, AssertionHolds
  <2> QED BY <2>2, <1>1, <1>6, <1>7 DEF Adjusted
<1>9. MayAdjust(obj, tables, own, stack, a, 1, 0, own')
  <2>1. obj[a].refs + 1 \in Nat /\ obj[a].held + 0 \in Nat /\ obj[a].held \in Nat
    BY <1>2, Facts
  <2>2. Uses(stack, IdOf(tables, a)) =< obj[a].held + 0
    <3>1. Uses(stack, i) =< obj[a].held + 0
      BY <1>2, <2>1
    <3> QED BY <3>1, <1>2
  <2>3. \A j \in DOMAIN tables.lin :
           own'[j] = IF tables.lin[j] = a THEN own[j] + (1 - 0) ELSE own[j]
    <3>1. \A j \in DOMAIN tables.lin : j \in Id /\ (tables.lin[j] = a <=> j = i)
      BY <1>2 DEF a
    <3> QED BY <3>1, <1>3
  <2> QED BY <2>1, <2>2, <2>3, <1>2 DEF MayAdjust
<1>10. /\ p \in [Addr -> Objects] /\ \A b \in Addr : p[b].sort = obj[b].sort
       /\ ObjectsFit(p, tables, own', stack)
  <2>1. /\ obj \in [Addr -> Objects] /\ own \in [Id -> Nat]
        /\ TablesFit(tables, obj, Need(own, stack)) /\ ObjectsFit(obj, tables, own, stack)
    BY Facts
  <2> QED BY <2>1, <1>2, <1>9, AdjustFits
<1> HIDE DEF p
<1>11. ObjectsFit(p, u, own', stack) /\ Missing(u) = Missing(tables)
  BY <1>5, <1>10, ObjectsSameNames
<1>12. CallsFit(stack, u)
  BY <1>11, Facts, CallsSame
<1>13. TablesFit(u, p, Need(own', stack))
  BY <1>5, <1>10, TablesAfterAdjust DEF then
<1> QED BY <1>1, <1>3, <1>5, <1>8, <1>10, <1>11, <1>12, <1>13 DEF IInv, Fits

\* One reference of the plugin goes; the browser may free the object with it.
LEMMA PluginReleaseStep ==
    ASSUME IInv, NEW i \in Id, PluginRelease(i)
    PROVE  IInv'
<1> DEFINE a == tables.lin[i]
           t == LinRead(WinDecRef(tables, i, FALSE), i, LastRef(tables, i))
           r == Released(tables, i)
           u == DbgAssert(t, tables.win[i].ref <= obj[a].refs, "countTooSmall")
           v == DbgAssert(u, obj[a].refs = 1 /\ Named(t, a) => tables.win[i].custom,
                          "killObjectNotSet")
           p == Adjusted(obj, a, -1, 0)
<1>1. /\ own[i] > 0 /\ own' = [own EXCEPT ![i] = @ - 1]
      /\ t.fault = "none" =>
            IF obj[a].refs = 1 /\ v.fault = "none" THEN Deallocate(v, a)
            ELSE /\ obj' = [obj EXCEPT ![a] = Adjust(@, -1, 0)]
                 /\ tables' = v /\ UNCHANGED stack
  BY DEF PluginRelease
<1>2. Need(own, stack)[i] > 0 /\ own[i] \in Nat /\ Need(own, stack)[i] \in Nat
  BY <1>1, Facts
<1>3. i \in DOMAIN tables.win /\ t = r
  BY <1>2, Facts, WinDecRefReleases
<1>4. /\ i \in DOMAIN tables.lin /\ a \in Addr /\ obj[a].sort # "none"
      /\ obj[a].refs = obj[a].held + own[i] /\ Uses(stack, i) =< obj[a].held
      /\ Need(own, stack)[i] =< obj[a].refs /\ tables.win[i].ref = Need(own, stack)[i]
      /\ Named(tables, a) /\ IdOf(tables, a) = i /\ i \notin Missing(tables)
      /\ \A j \in DOMAIN tables.lin : j \in Id /\ (tables.lin[j] = a => j = i)
  BY <1>3, CountedTwice
<1>5. /\ Whole(r) /\ TablesFit(r, obj, Less(Need(own, stack), i)) /\ Shrunk(tables, r, obj)
      /\ DOMAIN r.lin = IF LastRef(tables, i) THEN DOMAIN tables.lin \ {i} ELSE DOMAIN tables.lin
      /\ ~LastRef(tables, i) => i \in DOMAIN r.win
  <2>1. Whole(tables) /\ TablesFit(tables, obj, Need(own, stack)) /\ Need(own, stack) \in [Id -> Nat]
    BY Facts
  <2> QED BY <2>1, <1>2, ReleasedFits
<1> HIDE DEF r, t
\* The assertions.
<1>6. ASSUME Named(r, a) PROVE ~LastRef(tables, i) /\ IdOf(r, a) = i /\ i \in DOMAIN r.win
  <2>1. IdOf(r, a) \in DOMAIN r.lin /\ r.lin[IdOf(r, a)] = a
    BY <1>5, <1>6, IdOfNamed
  <2>2. IdOf(r, a) \in DOMAIN tables.lin /\ tables.lin[IdOf(r, a)] = a
    BY <2>1, <1>5 DEF Shrunk
  <2>3. IdOf(r, a) = i
    BY <2>2, <1>4
  <2> QED BY <2>1, <2>3, <1>5
<1>7. u = r
  BY <1>3, <1>4, AssertionHolds
<1>8. obj[a].refs = 1 /\ Named(r, a) => tables.win[i].custom
  <2>1. SUFFICES ASSUME obj[a].refs = 1, Named(r, a), ~tables.win[i].custom PROVE FALSE
    OBVIOUS
  <2>2. tables.win[i].ref = 1
    BY <2>1, <1>2, <1>4
  <2>3. LastRef(tables, i)
    BY <2>1, <2>2, <1>3 DEF LastRef
  <2> QED BY <2>1, <2>3, <1>6
<1> HIDE DEF u
<1>9. v = r
  BY <1>3, <1>7, <1>8, AssertionHolds
<1> HIDE DEF v
<1>10. r.fault = "none"
  BY <1>5 DEF Whole
<1>11. IF obj[a].refs = 1 THEN Deallocate(r, a)
       ELSE obj' = p /\ tables' = r /\ stack' = stack
  BY <1>1, <1>3, <1>9, <1>10 DEF Adjusted
\* The counts.
<1>12. /\ own' \in [Id -> Nat]
       /\ \A j \in Id : own'[j] = IF j = i THEN own[j] - 1 ELSE own[j]
  <2>1. own[i] - 1 \in Nat
    BY <1>1, <1>2
  <2> QED BY <2>1, <1>1, Facts
<1>13. \A j \in Id : Need(own', stack)[j] = Less(Need(own, stack), i)[j]
  <2>1. \A j \in Id : Need(own', stack)[j] = own'[j] + Uses(stack, j)
    BY <1>12, Facts, NeedIs
  <2>2. \A j \in Id : Less(Need(own, stack), i)[j]
                       = IF j = i THEN Need(own, stack)[j] - 1 ELSE Need(own, stack)[j]
    BY Facts, MoreIs
  <2>3. \A j \in Id : Need(own, stack)[j] = own[j] + Uses(stack, j) /\ own[j] \in Nat /\ Uses(stack, j) \in Nat
    BY Facts
  <2> QED BY <2>1, <2>2, <2>3, <1>12
<1>14. TablesFit(r, obj, Need(own', stack))
  BY <1>5, <1>13, SortsMatter
<1>15. CallsFit(stack, r)
  BY <1>5, Facts, CallsSame DEF Shrunk
<1> HIDE DEF a
<1>16. MayAdjust(obj, tables, own, stack, a, -1, 0, own')
  <2>1. obj[a].refs \in Nat /\ obj[a].held \in Nat
    BY <1>4, Facts
  <2>2. obj[a].refs + (-1) \in Nat /\ obj[a].held + 0 \in Nat
    BY <2>1, <1>1, <1>2, <1>4
  <2>3. Uses(stack, IdOf(tables, a)) =< obj[a].held + 0
    <3>1. Uses(stack, i) =< obj[a].held + 0
      BY <1>4, <2>1
    <3> QED BY <3>1, <1>4
  <2>4. \A j \in DOMAIN tables.lin :
           own'[j] = IF tables.lin[j] = a THEN own[j] + ((-1) - 0) ELSE own[j]
    <3>1. \A j \in DOMAIN tables.lin : j \in Id /\ (tables.lin[j] = a <=> j = i)
      BY <1>4 DEF a
    <3>2. own'[i] = own[i] + ((-1) - 0)
      BY <1>2, <1>12
    <3> QED BY <3>1, <3>2, <1>12
  <2> QED BY <2>2, <2>3, <2>4, <1>4 DEF MayAdjust
<1>17. /\ p \in [Addr -> Objects] /\ \A b \in Addr : p[b].sort = obj[b].sort
       /\ ObjectsFit(p, tables, own', stack)
  <2>1. /\ obj \in [Addr -> Objects] /\ own \in [Id -> Nat]
        /\ TablesFit(tables, obj, Need(own, stack)) /\ ObjectsFit(obj, tables, own, stack)
    BY Facts
  <2> QED BY <2>1, <1>4, <1>16, AdjustFits
<1> HIDE DEF p
<1>18. TablesFit(r, p, Need(own', stack))
  BY <1>14, <1>17, TablesAfterAdjust
<1>19. ObjectsFit(p, r, own', stack)
  <2>1. TablesFit(tables, p, Need(own, stack))
    BY <1>17, Facts, TablesAfterAdjust
  <2>2. Shrunk(tables, r, p)
    <3>1. \A j \in DOMAIN tables.lin : tables.lin[j] \in Addr
      BY Facts DEF TablesFit
    <3> QED BY <3>1, <1>5, <1>17 DEF Shrunk
  <2> QED BY <2>1, <2>2, <1>12, <1>17, <1>18, Facts, ObjectsShrunk
<1>20. CASE obj[a].refs = 1
  <2>1. Deallocate(r, a)
    BY <1>11, <1>20
  <2>2. obj[a].held = 0
    BY <1>1, <1>2, <1>4, <1>20, Facts
  <2>3. p = [obj EXCEPT ![a] = Object(obj[a].sort, 0, 0)]
    <3>1. Adjust(obj[a], -1, 0) = Object(obj[a].sort, 0, 0)
      BY <1>20, <2>2 DEF Adjust, Object
    <3> QED BY <3>1 DEF Adjusted, p
  <2>4. Named(r, a) => IdOf(r, a) \in DOMAIN r.win
    BY <1>6
  <2>5. Fits(obj', tables', own', stack')
    BY <1>4, <1>5, <1>12, <1>14, <1>15, <1>19, <2>1, <2>3, <2>4, Facts, DeallocateFits
  <2> QED BY <2>5 DEF IInv
<1>21. CASE obj[a].refs # 1
  <2>1. obj' = p /\ tables' = r /\ stack' = stack
    BY <1>11, <1>21
  <2> QED BY <2>1, <1>5, <1>12, <1>15, <1>17, <1>18, <1>19 DEF IInv, Fits
<1> QED BY <1>20, <1>21

\* The plugin calls a script: nothing is counted.
LEMMA PluginInvokeStep ==
    ASSUME IInv, NEW i \in Id, PluginInvoke(i)
    PROVE  IInv'
<1> DEFINE more == Append(stack, Frame("script", 0, <<>>))
<1>1. /\ i \in DOMAIN tables.win /\ tables' = LinRead(tables, i, FALSE)
      /\ stack' = more /\ obj' = obj /\ own' = own
  BY DEF PluginInvoke, PluginHas, Call
<1>2. i \in DOMAIN tables.lin
  BY <1>1, CountedTwice
<1>3. tables' = tables
  BY <1>1, <1>2, AssertionHolds DEF LinRead
<1>4. CallsFit(more, tables) /\ \A j : Uses(more, j) = Uses(stack, j)
  BY Facts, CallsPushPlain
<1> HIDE DEF more
<1>5. Fits(obj, tables, own, more)
  BY <1>4, SameUses DEF IInv
<1> QED BY <1>1, <1>3, <1>5 DEF IInv

\* The end of a method: what it used is given back, and the plugin has only
\* what it holds of its own.
LEMMA DropCallRefsFits ==
    ASSUME IInv, stack # <<>>, Last(stack).kind \in {"method", "getvalue"}
    PROVE  /\ Fits(obj, DropCallRefs(tables, Last(stack)), own, Front(stack))
           /\ Shrunk(tables, DropCallRefs(tables, Last(stack)), obj)
<1> DEFINE f == Last(stack)
           front == Front(stack)
           c == f.callee
           base == More(Need(own, front), c)
           whole == [i \in Id |-> base[i] + Occurrences(f.args, i)]
           t == DropAll(tables, f.args)
           u == WinDecRef(t, c, TRUE)
<1>1. CASE f.kind = "getvalue"
  <2>1. DropCallRefs(tables, f) = tables
    BY <1>1 DEF DropCallRefs
  <2>2. Fits(obj, tables, own, front)
    BY <1>1, PopPlain DEF IInv
  <2>3. Shrunk(tables, tables, obj)
    BY DEF Shrunk
  <2> QED BY <2>1, <2>2, <2>3
<1>2. CASE f.kind = "method"
  <2>1. /\ front \in Seq(Frames) /\ f \in Frames
        /\ Len(stack) \in DOMAIN stack /\ f = stack[Len(stack)]
    BY Facts, FrontAndLast
  <2>2. f.args \in Seq(Id) /\ Len(f.args) =< MaxArgs /\ c \in Id
    BY <2>1, <1>2, Facts, ZenonT(60) DEF CallsFit, Frames
  <2>3. CallsFit(front, tables)
    <3>1. Missing(tables) = IF f.kind = "deallocate" THEN Missing(tables) \ {c} ELSE Missing(tables)
      BY <1>2
    <3> QED BY <3>1, Facts, CallsPop
  <2>4. \A i \in Id : /\ Uses(stack, i) = Uses(front, i) + RunOf(f, i) + ArgsOf(f, i)
                      /\ Uses(front, i) \in Nat
    BY <2>2, Facts, UsesFront
  <2>5. DropCallRefs(tables, f) = u
    BY <1>2 DEF DropCallRefs
  <2> HIDE DEF f, front, c
  <2>6. /\ Need(own, front) \in [Id -> Nat]
        /\ \A i \in Id : Need(own, front)[i] = own[i] + Uses(front, i)
    BY <2>1, Facts, NeedIs
  <2>7. /\ base \in [Id -> Nat]
        /\ \A i \in Id : base[i] = IF i = c THEN Need(own, front)[i] + 1 ELSE Need(own, front)[i]
    <3>1. \A i \in Id : base[i] = IF i = c THEN Need(own, front)[i] + 1 ELSE Need(own, front)[i]
      BY <2>6, MoreIs
    <3>2. \A i \in Id : base[i] \in Nat
      BY <2>6, <3>1
    <3>3. base = [i \in Id |-> base[i]]
      BY DEF More
    <3> QED BY <3>1, <3>2, <3>3
  <2> HIDE DEF base
  <2>8. \A i \in Id : whole[i] = Need(own, stack)[i]
    <3>1. ASSUME NEW i \in Id PROVE whole[i] = Need(own, stack)[i]
      <4>1. RunOf(f, i) = (IF i = c THEN 1 ELSE 0) /\ ArgsOf(f, i) = Occurrences(f.args, i)
        BY <1>2 DEF RunOf, ArgsOf, c, f
      <4>2. Occurrences(f.args, i) \in Nat
        BY <2>2, OccurrencesIsCount
      <4>3. /\ Uses(stack, i) = Uses(front, i) + RunOf(f, i) + ArgsOf(f, i) /\ Uses(front, i) \in Nat
            /\ Need(own, stack)[i] = own[i] + Uses(stack, i) /\ own[i] \in Nat
            /\ Need(own, front)[i] = own[i] + Uses(front, i)
            /\ base[i] = IF i = c THEN Need(own, front)[i] + 1 ELSE Need(own, front)[i]
        BY <2>4, <2>6, <2>7, Facts
      <4>4. whole[i] = base[i] + Occurrences(f.args, i)
        OBVIOUS
      <4> HIDE DEF whole
      <4> QED BY <4>1, <4>2, <4>3, <4>4
    <3> QED BY <3>1
  <2>9. TablesFit(tables, obj, whole)
    <3> HIDE DEF whole
    <3> QED BY <2>8, Facts, SortsMatter
  <2>10. Whole(t) /\ TablesFit(t, obj, base) /\ Shrunk(tables, t, obj)
    BY <2>2, <2>7, <2>9, Facts, DropAllFits
  <2> HIDE DEF t
  <2>11. base[c] > 0
    BY <2>2, <2>6, <2>7
  <2>12. u = Released(t, c)
    BY <2>2, <2>7, <2>10, <2>11, WinDecRefReleases
  <2>13. Whole(u) /\ TablesFit(u, obj, Less(base, c)) /\ Shrunk(t, u, obj)
    BY <2>2, <2>7, <2>10, <2>11, <2>12, ReleasedFits
  <2> HIDE DEF u
  <2>14. TablesFit(u, obj, Need(own, front))
    <3>1. \A i \in Id : Less(base, c)[i] = IF i = c THEN base[i] - 1 ELSE base[i]
      BY <2>7, MoreIs
    <3>2. \A i \in Id : Need(own, front)[i] = Less(base, c)[i]
      BY <3>1, <2>6, <2>7
    <3> QED BY <3>2, <2>13, SortsMatter
  <2>15. Shrunk(tables, u, obj)
    BY <2>10, <2>13, ShrunkTransitive
  <2>16. CallsFit(front, u)
    BY <2>3, <2>15, CallsSame DEF Shrunk
  <2>17. ObjectsFit(obj, u, own, front)
    <3>1. \A i \in Id : Uses(front, i) =< Uses(stack, i)
      <4>1. \A i \in Id : RunOf(f, i) \in Nat /\ ArgsOf(f, i) \in Nat
        BY <2>2, OccurrencesIsCount DEF RunOf, ArgsOf
      <4> QED BY <4>1, <2>4
    <3>2. ObjectsFit(obj, tables, own, front)
      BY <3>1, <2>1, Facts, ObjectsFewerUses
    <3> QED BY <3>2, <2>1, <2>14, <2>15, Facts, ObjectsShrunk
  <2>18. Fits(obj, u, own, front)
    BY <2>13, <2>14, <2>16, <2>17, Facts DEF Fits
  <2> QED BY <2>5, <2>15, <2>18 DEF f, front
<1> QED BY <1>1, <1>2

\* The plugin's reference to the result goes to the page.
LEMMA ReturnResultFits ==
    ASSUME obj \in [Addr -> Objects], NEW u, NEW calls, Fits(obj, u, own, calls),
           NEW r \in Id, own[r] > 0, NEW a, u.lin[r] = a,
           tables' = WriteResult(u, r), own' = [own EXCEPT ![r] = @ - 1],
           obj' = Adjusted(obj, a, 0, 1)
    PROVE  Fits(obj', tables', own', calls)
<1> DEFINE v == Released(u, r)
           need == Need(own, calls)
           p == Adjusted(obj, a, 0, 1)
<1>1. /\ own \in [Id -> Nat] /\ Whole(u) /\ TablesFit(u, obj, need) /\ CallsFit(calls, u)
      /\ ObjectsFit(obj, u, own, calls) /\ calls \in Seq(Frames)
  BY DEF Fits, CallsFit
<1>2. /\ need \in [Id -> Nat]
      /\ \A j \in Id : need[j] = own[j] + Uses(calls, j) /\ own[j] \in Nat /\ Uses(calls, j) \in Nat
  BY <1>1, NeedIs
<1>3. need[r] > 0
  BY <1>2
<1>4. r \in DOMAIN u.win /\ r \in DOMAIN u.lin /\ tables' = v
  BY <1>1, <1>2, <1>3, WinDecRefReleases DEF WriteResult
<1>5. Whole(v) /\ TablesFit(v, obj, Less(need, r)) /\ Shrunk(u, v, obj)
  BY <1>1, <1>2, <1>3, ReleasedFits
<1> HIDE DEF v
<1>6. /\ own' \in [Id -> Nat]
      /\ \A j \in Id : own'[j] = IF j = r THEN own[j] - 1 ELSE own[j]
  <2>1. own[r] - 1 \in Nat
    BY <1>2
  <2> QED BY <2>1, <1>1
<1>7. TablesFit(v, obj, Need(own', calls))
  <2>1. \A j \in Id : Need(own', calls)[j] = own'[j] + Uses(calls, j)
    BY <1>1, <1>6, NeedIs
  <2>2. \A j \in Id : Less(need, r)[j] = IF j = r THEN need[j] - 1 ELSE need[j]
    BY <1>2, MoreIs
  <2>3. ASSUME NEW j \in Id PROVE Need(own', calls)[j] = Less(need, r)[j]
    <3>1. /\ Need(own', calls)[j] = own'[j] + Uses(calls, j)
          /\ Less(need, r)[j] = IF j = r THEN need[j] - 1 ELSE need[j]
          /\ need[j] = own[j] + Uses(calls, j) /\ own[j] \in Nat /\ Uses(calls, j) \in Nat
          /\ own'[j] = IF j = r THEN own[j] - 1 ELSE own[j]
      BY <2>1, <2>2, <1>2, <1>6
    <3> HIDE DEF need
    <3> QED BY <3>1
  <2> QED BY <2>3, <1>5, SortsMatter
<1>8. /\ a \in Addr /\ obj[a].sort # "none" /\ r \notin Missing(u)
      /\ \A j \in DOMAIN u.lin : j \in Id /\ (u.lin[j] = a <=> j = r)
  BY <1>1, <1>4 DEF TablesFit, Missing
<1>9. Named(u, a) /\ IdOf(u, a) = r
  BY <1>1, <1>4, IdOfKnown
<1>10. MayAdjust(obj, u, own, calls, a, 0, 1, own')
  <2>1. obj[a].refs \in Nat /\ obj[a].held \in Nat
    BY <1>8 DEF Objects
  <2>2. obj[a].refs + 0 \in Nat /\ obj[a].held + 1 \in Nat
    BY <2>1
  <2>3. Uses(calls, IdOf(u, a)) =< obj[a].held + 1
    <3>1. Uses(calls, r) =< obj[a].held
      BY <1>1, <1>4 DEF ObjectsFit
    <3>2. Uses(calls, r) \in Nat
      BY <1>2
    <3>3. Uses(calls, r) =< obj[a].held + 1
      BY <2>1, <3>1, <3>2
    <3> QED BY <3>3, <1>9
  <2>4. \A j \in DOMAIN u.lin : own'[j] = IF u.lin[j] = a THEN own[j] + (0 - 1) ELSE own[j]
    <3>1. own'[r] = own[r] + (0 - 1)
      BY <1>2, <1>6
    <3> QED BY <3>1, <1>6, <1>8
  <2> QED BY <2>2, <2>3, <2>4, <1>8, <1>9 DEF MayAdjust
<1>11. /\ p \in [Addr -> Objects] /\ \A b \in Addr : p[b].sort = obj[b].sort
       /\ ObjectsFit(p, u, own', calls)
  BY <1>1, <1>8, <1>10, AdjustFits
<1> HIDE DEF p
<1>12. TablesFit(v, p, Need(own', calls))
  BY <1>7, <1>11, TablesAfterAdjust
<1>13. ObjectsFit(p, v, own', calls)
  <2>1. TablesFit(u, p, need)
    BY <1>1, <1>11, TablesAfterAdjust
  <2>2. Shrunk(u, v, p)
    <3>1. \A j \in DOMAIN u.lin : u.lin[j] \in Addr
      BY <1>1 DEF TablesFit
    <3> QED BY <3>1, <1>5, <1>11 DEF Shrunk
  <2> QED BY <2>1, <2>2, <1>1, <1>6, <1>11, <1>12, ObjectsShrunk
<1>14. CallsFit(calls, v)
  BY <1>1, <1>5, CallsSame DEF Shrunk
<1>15. obj' = p
  BY DEF p
<1> QED BY <1>4, <1>5, <1>6, <1>11, <1>12, <1>13, <1>14, <1>15 DEF Fits

LEMMA PluginReturnStep ==
    ASSUME IInv, PluginReturn
    PROVE  IInv'
<1> DEFINE f == Last(stack)
           u == DropCallRefs(tables, f)
           front == Front(stack)
<1>1. stack # <<>> /\ f.kind \in {"method", "getvalue"} /\ stack' = front
  BY DEF PluginReturn
<1>2. Fits(obj, u, own, front) /\ Shrunk(tables, u, obj)
  BY <1>1, DropCallRefsFits
<1>3. CASE tables' = u /\ UNCHANGED <<obj, own>>
  BY <1>1, <1>2, <1>3 DEF IInv
<1>4. ASSUME NEW r \in Id, own[r] > 0, tables' = ReturnTables(f, r),
             own' = [own EXCEPT ![r] = @ - 1],
             obj' = [a \in Addr |->
                       IF tables'.fault = "none" /\ a = tables.lin[r]
                       THEN Adjust(obj[a], 0, 1) ELSE obj[a]]
      PROVE  IInv'
  <2>1. tables' = WriteResult(u, r)
    BY <1>4 DEF ReturnTables
  <2> HIDE DEF u, f, front
  <2>2. own \in [Id -> Nat] /\ Whole(u) /\ TablesFit(u, obj, Need(own, front)) /\ front \in Seq(Frames)
    BY <1>2 DEF Fits, CallsFit
  <2>3. Need(own, front) \in [Id -> Nat] /\ Need(own, front)[r] > 0
    <3>1. /\ Need(own, front) \in [Id -> Nat] /\ Need(own, front)[r] = own[r] + Uses(front, r)
          /\ own[r] \in Nat /\ Uses(front, r) \in Nat
      BY <2>2, NeedIs
    <3> QED BY <3>1, <1>4
  <2>4. r \in DOMAIN u.lin /\ WriteResult(u, r) = Released(u, r)
    BY <2>2, <2>3, WinDecRefReleases DEF WriteResult
  <2>5. Whole(Released(u, r))
    BY <2>2, <2>3, ReleasedFits
  <2>6. tables'.fault = "none"
    BY <2>1, <2>4, <2>5 DEF Whole
  <2>7. u.lin[r] = tables.lin[r] /\ tables.lin[r] \in Addr
    <3>1. u.lin[r] = tables.lin[r]
      BY <1>2, <2>4 DEF Shrunk
    <3>2. u.lin[r] \in Addr
      BY <2>2, <2>4 DEF TablesFit
    <3> QED BY <3>1, <3>2
  <2>8. obj' = Adjusted(obj, tables.lin[r], 0, 1)
    <3>1. obj' = [a \in Addr |-> IF a = tables.lin[r] THEN Adjust(obj[a], 0, 1) ELSE obj[a]]
      BY <1>4, <2>6
    <3> QED BY <3>1, Facts DEF Adjusted
  <2>9. Fits(obj', tables', own', front)
    BY <1>2, <1>4, <2>1, <2>7, <2>8, Facts, ZenonT(60), ReturnResultFits
  <2> QED BY <1>1, <2>9 DEF IInv
<1> QED BY <1>3, <1>4 DEF PluginReturn

\* The ID of an object that is gone is forgotten on the Linux side too.
LEMMA DeallocateReturnStep ==
    ASSUME IInv, DeallocateReturn
    PROVE  IInv'
<1> DEFINE f == Last(stack)
           front == Front(stack)
           i == f.callee
           a == tables.lin[i]
           u == [lin |-> Erase(tables.lin, i), win |-> tables.win, fault |-> "none"]
<1>1. /\ stack # <<>> /\ f.kind = "deallocate" /\ stack' = front /\ own' = own
      /\ tables' = LinRemove(tables, i)
      /\ obj' = [b \in Addr |->
                   IF i \in DOMAIN tables.lin /\ b = tables.lin[i] THEN Free ELSE obj[b]]
  BY DEF DeallocateReturn
<1>2. front \in Seq(Frames) /\ Len(stack) \in DOMAIN stack /\ f = stack[Len(stack)]
  BY <1>1, Facts, FrontAndLast
<1>3. i \in Missing(tables) /\ Len(f.args) =< MaxArgs
  BY <1>1, <1>2, Facts DEF CallsFit
<1> HIDE DEF f, i
<1>4. /\ i \in DOMAIN tables.lin /\ i \notin DOMAIN tables.win /\ i \in Id /\ a \in Addr
      /\ \A j \in DOMAIN tables.lin : tables.lin[j] = a => j = i
  BY <1>3, Facts DEF Missing, TablesFit
<1>5. obj[a].sort = "custom" /\ obj[a].held = 0 /\ obj[a].refs = obj[a].held + own[i]
  BY <1>3, <1>4, Facts DEF ObjectsFit
<1> HIDE DEF a
<1>6. tables' = u
  <2>1. [tables EXCEPT !.lin = Erase(@, i)] = u
    <3>1. Whole(tables)
      BY Facts
    <3> QED BY <3>1 DEF Whole
  <2>2. LinRemove(tables, i) = [tables EXCEPT !.lin = Erase(@, i)]
    BY <1>4, AssertionHolds DEF LinRemove
  <2> QED BY <2>1, <2>2, <1>1
<1>7. /\ DOMAIN u.lin = DOMAIN tables.lin \ {i} /\ u.win = tables.win
      /\ \A j \in DOMAIN u.lin : u.lin[j] = tables.lin[j]
  BY DEF Erase
<1>8. Whole(u)
  BY DEF Whole
<1> HIDE DEF u
<1>9. Free.sort = "none" /\ Free.refs = 0 /\ Free.held = 0 /\ Free \in Objects
  BY DEF Free, Object, Objects
<1>10. obj' \in [Addr -> Objects] /\ obj'[a] = Free /\ \A b \in Addr \ {a} : obj'[b] = obj[b]
  <2>1. obj' = [b \in Addr |-> IF b = a THEN Free ELSE obj[b]]
    BY <1>1, <1>4 DEF a
  <2> HIDE DEF front
  <2> QED BY <2>1, <1>4, <1>9, Facts
<1>11. Missing(u) = Missing(tables) \ {i}
  BY <1>4, <1>7 DEF Missing
<1>12. CallsFit(front, u)
  <2>1. Missing(u) = IF f.kind = "deallocate" THEN Missing(tables) \ {f.callee} ELSE Missing(tables)
    BY <1>1, <1>11 DEF i
  <2> QED BY <2>1, <1>1, Facts, CallsPop DEF f
<1>13. \A j \in Id : Uses(front, j) = Uses(stack, j)
  <2>1. ASSUME NEW j \in Id PROVE Uses(front, j) = Uses(stack, j)
    <3>1. RunOf(f, j) = 0 /\ ArgsOf(f, j) = 0
      BY <1>1 DEF RunOf, ArgsOf
    <3>2. Uses(stack, j) = Uses(front, j) + RunOf(f, j) + ArgsOf(f, j) /\ Uses(front, j) \in Nat
      BY <1>1, <1>3, Facts, UsesFront DEF f
    <3> QED BY <3>1, <3>2
  <2> QED BY <2>1
<1> HIDE DEF front
<1>14. \A j \in Id : Need(own, front)[j] = Need(own, stack)[j]
  BY <1>2, <1>13, Facts, NeedIs
<1>15. \A j \in DOMAIN u.lin : /\ j \in DOMAIN tables.lin /\ j \in Id /\ tables.lin[j] \in Addr \ {a}
                               /\ u.lin[j] = tables.lin[j] /\ obj'[u.lin[j]] = obj[tables.lin[j]]
  <2>1. \A j \in DOMAIN u.lin : /\ j \in DOMAIN tables.lin /\ j \in Id /\ tables.lin[j] \in Addr \ {a}
                                /\ u.lin[j] = tables.lin[j]
    BY <1>4, <1>7, Facts DEF TablesFit
  <2> QED BY <2>1, <1>10
<1>16. TablesFit(u, obj', Need(own, front))
  <2>1. TablesFit(tables, obj, Need(own, stack))
    BY Facts
  <2>2. DOMAIN u.lin \subseteq Id /\ DOMAIN u.win \subseteq DOMAIN u.lin
    BY <2>1, <1>4, <1>7, <1>15 DEF TablesFit
  <2>3. /\ \A j \in DOMAIN u.lin : u.lin[j] \in Addr /\ obj'[u.lin[j]].sort # "none"
        /\ \A j, k \in DOMAIN u.lin : u.lin[j] = u.lin[k] => j = k
    BY <2>1, <1>15 DEF TablesFit
  <2>4. ASSUME NEW j \in DOMAIN u.win
        PROVE  /\ u.win[j].ref = Need(own, front)[j] /\ u.win[j].addr = u.lin[j]
               /\ u.win[j].custom \in BOOLEAN
               /\ u.win[j].custom <=> obj'[u.lin[j]].sort = "custom"
               /\ Need(own, front)[j] > 0 \/ u.win[j].custom
    <3>1. /\ j \in DOMAIN tables.win /\ u.win[j] = tables.win[j] /\ j \in DOMAIN u.lin /\ j \in Id
          /\ u.lin[j] = tables.lin[j] /\ obj'[u.lin[j]] = obj[tables.lin[j]]
      BY <2>2, <1>7, <1>15
    <3> QED BY <3>1, <2>1, <1>14 DEF TablesFit
  <2>5. \A j \in Id \ DOMAIN u.win : Need(own, front)[j] = 0
    BY <2>1, <1>7, <1>14 DEF TablesFit
  <2> QED BY <2>2, <2>3, <2>4, <2>5 DEF TablesFit
<1>17. ObjectsFit(obj', u, own, front)
  <2>1. ObjectsFit(obj, tables, own, stack)
    BY Facts
  <2>2. \A b \in Addr : obj'[b].sort = "none" => obj'[b].refs = 0 /\ obj'[b].held = 0
    BY <2>1, <1>9, <1>10 DEF ObjectsFit
  <2>3. \A b \in Addr \ {a} : Named(tables, b) => Named(u, b)
    BY <1>7 DEF Named, a
  <2>4. \A b \in Addr : obj'[b].sort = "custom" => Named(u, b)
    BY <2>1, <2>3, <1>9, <1>10 DEF ObjectsFit
  <2>5. \A b \in Addr : ~Named(u, b) => obj'[b].refs = obj'[b].held
    BY <2>1, <2>3, <1>9, <1>10 DEF ObjectsFit
  <2>6. \A j \in DOMAIN u.lin : /\ obj'[u.lin[j]].refs = obj'[u.lin[j]].held + own[j]
                                /\ Uses(front, j) =< obj'[u.lin[j]].held
    BY <2>1, <1>13, <1>15 DEF ObjectsFit
  <2>7. \A j \in Missing(u) : obj'[u.lin[j]].sort = "custom" /\ obj'[u.lin[j]].held = 0
    <3>1. \A j \in Missing(u) : j \in Missing(tables) /\ j \in DOMAIN u.lin
      BY <1>11 DEF Missing
    <3> QED BY <3>1, <2>1, <1>15 DEF ObjectsFit
  <2> QED BY <2>2, <2>4, <2>5, <2>6, <2>7 DEF ObjectsFit
<1> QED BY <1>1, <1>6, <1>8, <1>10, <1>12, <1>16, <1>17, Facts DEF IInv, Fits

-----------------------------------------------------------------------------
(***************************************************************************)
(* The invariant and what follows from it.                                 *)
(***************************************************************************)
LEMMA InitFits == Init => IInv
<1> SUFFICES ASSUME Init PROVE IInv
  OBVIOUS
<1> DEFINE e == EmptyTables
<1>1. obj = [a \in Addr |-> Free] /\ tables = e /\ own = [i \in Id |-> 0] /\ stack = <<>>
  BY DEF Init
<1>2. e.fault = "none" /\ DOMAIN e.lin = {} /\ DOMAIN e.win = {} /\ Whole(e)
  BY DEF EmptyTables, Whole
<1> HIDE DEF e
<1>3. Free.sort = "none" /\ Free.refs = 0 /\ Free.held = 0 /\ Free \in Objects
  BY DEF Free, Object, Objects
<1>4. obj \in [Addr -> Objects] /\ own \in [Id -> Nat] /\ stack \in Seq(Frames)
  BY <1>1, <1>3
<1>5. \A i : RunsOn(stack, i) = {} /\ PassedIn(stack, i) = {}
  BY <1>1 DEF RunsOn, PassedIn
<1>6. \A i \in Id : Cardinality(RunsOn(stack, i)) = 0 /\ Uses(stack, i) = 0
  BY <1>5, FS_EmptySet DEF Uses
<1>7. \A i \in Id : Need(own, stack)[i] = 0
  <2>1. \A i \in Id : Need(own, stack)[i] = own[i] + Uses(stack, i)
    BY <1>4, NeedIs
  <2>2. \A i \in Id : own[i] = 0
    BY <1>1
  <2> QED BY <2>1, <2>2, <1>6
<1>8. TablesFit(e, obj, Need(own, stack))
  BY <1>2, <1>7 DEF TablesFit
<1>9. CallsFit(stack, e)
  BY <1>1, <1>2, <1>4, <1>6 DEF CallsFit, Missing
<1>10. ObjectsFit(obj, e, own, stack)
  BY <1>1, <1>2, <1>3 DEF ObjectsFit, Missing, Named
<1> QED BY <1>1, <1>2, <1>4, <1>8, <1>9, <1>10 DEF IInv, Fits

LEMMA NextFits ==
    ASSUME ~ReentrantCallee, IInv, [Next]_vars
    PROVE  IInv'
<1>1. CASE UNCHANGED vars
  BY <1>1 DEF vars, IInv
<1>2. CASE Page
  <2>1. CASE \E a \in Addr : PageNewObject(a) \/ PageRetain(a) \/ PageDrop(a)
    BY <2>1, PageNewObjectStep, PageRetainStep, PageDropStep
  <2>2. CASE \E a \in Addr, args \in ArgLists : PageInvoke(a, args)
    BY <2>2, PageInvokeStep
  <2>3. CASE PageGetScriptable
    BY <2>3, PageGetScriptableStep
  <2>4. CASE ScriptReturn
    BY <2>4, ScriptReturnStep
  <2> QED BY <1>2, <2>1, <2>2, <2>3, <2>4 DEF Page
<1>3. CASE Plugin
  <2>1. CASE \E a \in Addr : PluginGetValue(a) \/ PluginCreate(a)
    BY <2>1, PluginGetValueStep, PluginCreateStep
  <2>2. CASE \E i \in Id : PluginRetain(i) \/ PluginRelease(i) \/ PluginInvoke(i)
    BY <2>2, PluginRetainStep, PluginReleaseStep, PluginInvokeStep
  <2>3. CASE PluginReturn
    BY <2>3, PluginReturnStep
  <2>4. CASE DeallocateReturn
    BY <2>4, DeallocateReturnStep
  <2> QED BY <1>3, <2>1, <2>2, <2>3, <2>4 DEF Plugin
<1> QED BY <1>1, <1>2, <1>3 DEF Next

LEMMA InFlightIsUses == \A i : InFlight(i) = Uses(stack, i)
BY DEF InFlight, Uses

LEMMA NoAssertionFailsHolds == IInv => NoAssertionFails
BY Facts DEF NoAssertionFails

LEMMA TablesAgreeHolds == IInv => TablesAgree
<1> SUFFICES ASSUME IInv PROVE TablesAgree
  OBVIOUS
<1>1. \A i \in DOMAIN tables.win : i \in DOMAIN tables.lin /\ tables.lin[i] = tables.win[i].addr
  BY Facts DEF TablesFit
<1>2. ASSUME NEW i \in DOMAIN tables.lin \ DOMAIN tables.win PROVE i \in Dying
  <2>1. PICK n \in DOMAIN stack : stack[n].kind = "deallocate" /\ stack[n].callee = i
    BY <1>2, Facts DEF CallsFit, Missing
  <2> QED BY <2>1 DEF Dying
<1> QED BY <1>1, <1>2 DEF TablesAgree

LEMMA NothingDanglesHolds == IInv => NothingDangles
BY Facts DEF NothingDangles, TablesFit

LEMMA CountsBalanceHolds == IInv => CountsBalance
<1> SUFFICES ASSUME IInv PROVE CountsBalance
  OBVIOUS
<1>1. ASSUME NEW i \in DOMAIN tables.win PROVE tables.win[i].ref = own[i] + InFlight(i)
  <2>1. i \in Id /\ tables.win[i].ref = Need(own, stack)[i]
    BY CountedTwice
  <2> QED BY <2>1, Facts, InFlightIsUses
<1>2. ASSUME NEW a \in Addr
      PROVE  obj[a].refs = obj[a].held
                           + IF Named(tables, a) THEN own[IdOf(tables, a)] ELSE 0
  <2>1. CASE Named(tables, a)
    <3>1. IdOf(tables, a) \in DOMAIN tables.lin /\ tables.lin[IdOf(tables, a)] = a
      BY <2>1, Facts, IdOfNamed
    <3>2. obj[a].refs = obj[a].held + own[IdOf(tables, a)]
      BY <3>1, Facts DEF ObjectsFit
    <3> QED BY <2>1, <3>2
  <2>2. CASE ~Named(tables, a)
    <3>1. obj[a].refs = obj[a].held /\ obj[a].held \in Nat
      BY <2>2, Facts DEF ObjectsFit
    <3> QED BY <2>2, <3>1
  <2> QED BY <2>1, <2>2
<1> QED BY <1>1, <1>2 DEF CountsBalance

LEMMA PluginPointersLiveHolds == IInv => PluginPointersLive
<1> SUFFICES ASSUME IInv, NEW i \in Id, own[i] > 0 \/ InFlight(i) > 0
             PROVE  i \in DOMAIN tables.win
  BY DEF PluginPointersLive
<1>1. Need(own, stack)[i] = own[i] + InFlight(i) /\ own[i] \in Nat /\ InFlight(i) \in Nat
  BY Facts, InFlightIsUses
<1>2. Need(own, stack)[i] # 0
  BY <1>1
<1> QED BY <1>2, Facts DEF TablesFit

LEMMA FitsAlways ==
    ASSUME ~ReentrantCallee
    PROVE  Spec => []IInv
<1>1. IInv /\ [Next]_vars => IInv'
  BY NextFits
<1> QED BY <1>1, InitFits, PTL DEF Spec

\* No assertion of objectDecRef, objectKill, the handle manager and the handlers
\* of NPN_RetainObject and NPN_ReleaseObject ever fires, however many objects,
\* references and nested calls there are.
THEOREM AssertionsNeverFire ==
    ASSUME ~ReentrantCallee
    PROVE  Spec => []NoAssertionFails
BY FitsAlways, NoAssertionFailsHolds, PTL

\* Linux and Windows always know the same objects by the same IDs, except for
\* what is being deallocated.
THEOREM TablesAlwaysAgree ==
    ASSUME ~ReentrantCallee
    PROVE  Spec => []TablesAgree
BY FitsAlways, TablesAgreeHolds, PTL

\* The Linux handle table never names an object that was freed.
THEOREM NothingEverDangles ==
    ASSUME ~ReentrantCallee
    PROVE  Spec => []NothingDangles
BY FitsAlways, NothingDanglesHolds, PTL

\* The reference counts of the browser and of the proxies always are what page,
\* plugin and running methods hold.
THEOREM CountsAlwaysBalance ==
    ASSUME ~ReentrantCallee
    PROVE  Spec => []CountsBalance
BY FitsAlways, CountsBalanceHolds, PTL

\* The plugin never holds, nor works on, a proxy that was freed.
THEOREM PluginPointersAlwaysLive ==
    ASSUME ~ReentrantCallee
    PROVE  Spec => []PluginPointersLive
BY FitsAlways, PluginPointersLiveHolds, PTL
=============================================================================

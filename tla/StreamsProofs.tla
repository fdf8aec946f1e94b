---------------------------- MODULE StreamsProofs ----------------------------
(***************************************************************************)
(* Proofs about Streams: for any number of streams, requests and nested    *)
(* calls both sides know the same streams, and notify data live as long as *)
(* a request refers to them.                                               *)
(***************************************************************************)
EXTENDS Streams, TLAPS, WellFoundedInduction, FiniteSetTheorems,
        FunctionTheorems, SequenceTheorems

Kinds  == {"newstream", "destroystream", "write", "urlnotify", "events",
           "geturl", "destroy", "create"}
Frames == [kind : Kinds, stream : Stream \cup {NULL}, notify : Id \cup {0},
           again : BOOLEAN]

-----------------------------------------------------------------------------
(***************************************************************************)
(* The inductive invariant, as operators on what it is about: a handler    *)
(* changes the tables several times in one step.                           *)
(***************************************************************************)
\* No assertion has fired.
Whole(t) ==
    t = [lin |-> t.lin, win |-> t.win, refs |-> t.refs, data |-> t.data, fault |-> "none"]

\* Both sides name the same streams, each once, and these are the open ones.
StreamsFit(t, o) ==
    /\ DOMAIN t.lin \subseteq Id
    /\ \A i \in DOMAIN t.lin : t.lin[i] \in Stream
    /\ \A i, j \in DOMAIN t.lin : t.lin[i] = t.lin[j] => i = j
    /\ DOMAIN t.win = DOMAIN t.lin
    /\ \A i \in DOMAIN t.lin : t.win[i].stream = t.lin[i]
    /\ o = {t.lin[i] : i \in DOMAIN t.lin}

HasData(win, s) == \E i \in DOMAIN win : win[i].stream = s /\ win[i].data # NULL

\* A stream that is announced or destroyed is open until that is over, and it
\* is announced or destroyed only once at a time.
AboutStream == {"newstream", "destroystream"}
CallsFit(calls, o, win) ==
    /\ calls \in Seq(Frames)
    /\ \A k \in DOMAIN calls : calls[k].kind \in AboutStream => calls[k].stream \in o
    /\ \A k, l \in DOMAIN calls :
          /\ calls[k].kind \in AboutStream
          /\ calls[l].kind \in AboutStream
          /\ calls[k].stream = calls[l].stream
          => k = l
    /\ \A k \in DOMAIN calls :
          calls[k].kind = "newstream" /\ calls[k].notify # 0 => HasData(win, calls[k].stream)
    /\ \A k \in DOMAIN calls : calls[k].kind = "urlnotify" => calls[k].notify \in Id

\* Counts and data have the same IDs, no pointer has two, and a stream that is
\* announced leaves its request unanswered.
NotifyFit(t, calls) ==
    /\ DOMAIN t.refs \subseteq Id /\ DOMAIN t.data = DOMAIN t.refs
    /\ \A n \in DOMAIN t.data : t.data[n] \in Data /\ t.data[n] = asked[n]
    /\ \A m, n \in DOMAIN t.data : t.data[m] = t.data[n] => m = n
    /\ requests \in [Id -> Nat] /\ leaked \in [Id -> Nat] /\ DOMAIN asked = Id
    /\ \A n \in Id :
          requests[n] + CallsWith(calls, {"urlnotify"}, n) + leaked[n] =
             IF n \in DOMAIN t.refs THEN t.refs[n] ELSE 0
    /\ \A n \in Id : CallsWith(calls, AboutStream, n) =< requests[n]

IInv ==
    /\ Whole(tables)
    /\ StreamsFit(tables, open)
    /\ CallsFit(stack, open, tables.win)
    /\ NotifyFit(tables, stack)

-----------------------------------------------------------------------------
(***************************************************************************)
(* How IDs are chosen.                                                     *)
(***************************************************************************)
\* Every non-empty set of naturals has a least element.
LEMMA LeastNatural ==
    ASSUME NEW S \in SUBSET Nat, S # {}
    PROVE  \E x \in S : \A y \in S : x =< y
<1> DEFINE R == {ss \in Nat \X Nat : ss[1] < ss[2]}
<1>1. IsWellFoundedOn(R, Nat)
  BY NatLessThanWellFounded DEF OpToRel
<1>2. PICK x \in S : \A y \in S : ~ (<<y, x>> \in R)
  BY <1>1, WFMin, Zenon
<1>3. ASSUME NEW y \in S PROVE x =< y
  <2>1. <<y, x>> \notin R
    BY <1>2
  <2>2. x \in Nat /\ y \in Nat /\ ~ (y < x)
    BY <2>1
  <2> QED BY <2>2
<1> QED BY <1>3

\* Min of FiniteSetsExt is the least element where there is one.
LEMMA MinProperties ==
    ASSUME NEW S \in SUBSET Nat, S # {}
    PROVE  Min(S) \in S /\ \A y \in S : Min(S) =< y
BY LeastNatural DEF Min

\* A non-empty set of IDs has a greatest element, and Max returns it.
LEMMA MaxProperties ==
    ASSUME NEW S \in SUBSET Id, S # {}
    PROVE  Max(S) \in S /\ \A y \in S : y =< Max(S)
<1> USE MaxIdAssumption DEF Id
<1> DEFINE T == {MaxId - x : x \in S}
<1>1. T \in SUBSET Nat /\ T # {}
  <2>1. ASSUME NEW x \in S PROVE MaxId - x \in Nat
    OBVIOUS
  <2>2. PICK x \in S : TRUE
    OBVIOUS
  <2>3. MaxId - x \in T
    OBVIOUS
  <2>4. \A t \in T : t \in Nat
    BY <2>1
  <2> QED BY <2>3, <2>4
<1>2. PICK t \in T : \A u \in T : t =< u
  <2> HIDE DEF T
  <2> QED BY <1>1, LeastNatural
<1>3. PICK m \in S : t = MaxId - m
  BY <1>2
<1>4. ASSUME NEW y \in S PROVE m >= y
  <2>1. MaxId - m =< MaxId - y
    BY <1>2, <1>3
  <2> QED BY <2>1
<1>5. \E x \in S : \A y \in S : x >= y
  BY <1>4
<1> QED BY <1>5 DEF Max

\* getFreeID returns 0 only when every ID is in use, and otherwise an ID that
\* is not.
LEMMA GetFreeIDFresh ==
    ASSUME NEW used \in SUBSET Id
    PROVE  /\ GetFreeID(used) = 0 => used = Id
           /\ GetFreeID(used) # 0 => GetFreeID(used) \in Id \ used
<1> USE MaxIdAssumption
<1>1. CASE used = {}
  BY <1>1 DEF GetFreeID, Id
<1>2. CASE used # {}
  <2>1. Max(used) \in used /\ \A y \in used : y =< Max(used)
    BY <1>2, MaxProperties
  <2>2. Max(used) \in 1 .. MaxId
    BY <2>1 DEF Id
  <2>3. CASE Succ(Max(used)) # 0
    <3>1. GetFreeID(used) = Max(used) + 1 /\ Max(used) # MaxId
      BY <1>2, <2>3 DEF GetFreeID, Succ
    <3>2. Max(used) + 1 \in Id
      BY <2>2, <3>1 DEF Id
    <3>3. Max(used) + 1 \notin used
      BY <2>1, <2>2
    <3> QED BY <3>1, <3>2, <3>3, <2>2
  <2>4. CASE Succ(Max(used)) = 0
    <3>1. GetFreeID(used) = SearchId(used)
      BY <1>2, <2>4 DEF GetFreeID
    <3>2. CASE Id \subseteq used
      BY <3>1, <3>2 DEF SearchId
    <3>3. CASE ~ (Id \subseteq used)
      <4>1. Min(Id \ used) \in Id \ used
        BY <3>3, MinProperties DEF Id
      <4>2. SearchId(used) = Min(Id \ used)
        BY <3>3 DEF SearchId
      <4> QED BY <3>1, <4>1, <4>2 DEF Id
    <3> QED BY <3>2, <3>3
  <2> QED BY <2>3, <2>4
<1> QED BY <1>1, <1>2

-----------------------------------------------------------------------------
(***************************************************************************)
(* Counting the calls that are about one notify data.                      *)
(***************************************************************************)
Places(calls, K, n) == {k \in DOMAIN calls : calls[k].kind \in K /\ calls[k].notify = n}

LEMMA CallsWithIsCount ==
    ASSUME NEW S, NEW calls \in Seq(S), NEW K, NEW n
    PROVE  /\ IsFiniteSet(Places(calls, K, n))
           /\ CallsWith(calls, K, n) = Cardinality(Places(calls, K, n))
           /\ CallsWith(calls, K, n) \in Nat
<1>1. IsFiniteSet(1 .. Len(calls))
  BY FS_Interval
<1>2. Places(calls, K, n) \in SUBSET (1 .. Len(calls))
  BY DEF Places
<1>3. IsFiniteSet(Places(calls, K, n))
  BY <1>1, <1>2, FS_Subset
<1>4. Cardinality(Places(calls, K, n)) \in Nat
  BY <1>3, FS_CardinalityType
<1> QED BY <1>3, <1>4 DEF CallsWith, Places

One(f, K, n) == IF f.kind \in K /\ f.notify = n THEN 1 ELSE 0

LEMMA CallsWithAppend ==
    ASSUME NEW S, NEW calls \in Seq(S), NEW f \in S, NEW K, NEW n
    PROVE  CallsWith(Append(calls, f), K, n) = CallsWith(calls, K, n) + One(f, K, n)
<1> DEFINE new == Len(calls) + 1
           more == Append(calls, f)
<1>1. /\ IsFiniteSet(Places(calls, K, n))
      /\ CallsWith(calls, K, n) = Cardinality(Places(calls, K, n))
      /\ CallsWith(calls, K, n) \in Nat
  BY CallsWithIsCount
<1>2. /\ DOMAIN more = DOMAIN calls \cup {new} /\ new \notin DOMAIN calls
      /\ \A k \in DOMAIN calls : more[k] = calls[k]
      /\ more[new] = f
      /\ more \in Seq(S)
  OBVIOUS
<1>3. CallsWith(more, K, n) = Cardinality(Places(more, K, n))
  <2> HIDE DEF more
  <2> QED BY <1>2, CallsWithIsCount
<1> HIDE DEF more, new
<1>4. CASE f.kind \in K /\ f.notify = n
  <2>1. Places(more, K, n) = Places(calls, K, n) \cup {new} /\ new \notin Places(calls, K, n)
    BY <1>2, <1>4 DEF Places
  <2>2. Cardinality(Places(more, K, n)) = Cardinality(Places(calls, K, n)) + 1
    BY <1>1, <2>1, FS_AddElement
  <2> QED BY <1>1, <1>3, <2>2, <1>4 DEF One, more
<1>5. CASE ~(f.kind \in K /\ f.notify = n)
  <2>1. Places(more, K, n) = Places(calls, K, n)
    BY <1>2, <1>5 DEF Places
  <2> QED BY <1>1, <1>3, <2>1, <1>5 DEF One, more
<1> QED BY <1>4, <1>5

\* A stack that is not empty is its rest and its innermost call.
LEMMA FrontAndLast ==
    ASSUME NEW S, NEW calls \in Seq(S), calls # <<>>
    PROVE  /\ Front(calls) \in Seq(S)
           /\ Last(calls) \in S
           /\ Len(calls) \in DOMAIN calls /\ Last(calls) = calls[Len(calls)]
           /\ Len(Front(calls)) = Len(calls) - 1
           /\ \A k \in DOMAIN Front(calls) :
                 k \in DOMAIN calls /\ k # Len(calls) /\ Front(calls)[k] = calls[k]
           /\ calls = Append(Front(calls), Last(calls))
<1>1. Len(calls) \in Nat /\ Len(calls) > 0
  OBVIOUS
<1>2. Front(calls) = [k \in 1 .. Len(calls) - 1 |-> calls[k]]
  <2>1. Front(calls) = SubSeq(calls, 1, Len(calls) - 1)
    BY DEF Front
  <2> QED BY <1>1, <2>1
<1>3. Front(calls) \in Seq(S) /\ Len(Front(calls)) = Len(calls) - 1
  <2> DEFINE m == Len(calls) - 1
  <2>1. m \in Nat /\ \A k \in 1 .. m : calls[k] \in S
    BY <1>1
  <2>2. [k \in 1 .. m |-> calls[k]] \in [1 .. m -> S]
    BY <2>1
  <2>3. Front(calls) \in [1 .. m -> S]
    BY <1>2, <2>2
  <2> HIDE DEF m
  <2>4. Front(calls) \in Seq(S) /\ Len(Front(calls)) = m
    BY <2>1, <2>3
  <2> QED BY <2>4 DEF m
<1>4. Last(calls) = calls[Len(calls)] /\ Last(calls) \in S
  BY <1>1 DEF Last
<1>5. calls = Append(Front(calls), Last(calls))
  BY <1>1, <1>2, <1>3, <1>4
<1> QED BY <1>1, <1>2, <1>3, <1>4, <1>5

LEMMA CallsWithFront ==
    ASSUME NEW S, NEW calls \in Seq(S), calls # <<>>, NEW K, NEW n
    PROVE  CallsWith(calls, K, n) = CallsWith(Front(calls), K, n) + One(Last(calls), K, n)
<1>1. /\ Front(calls) \in Seq(S) /\ Last(calls) \in S
      /\ calls = Append(Front(calls), Last(calls))
  BY FrontAndLast
<1>2. CallsWith(Append(Front(calls), Last(calls)), K, n)
        = CallsWith(Front(calls), K, n) + One(Last(calls), K, n)
  BY <1>1, CallsWithAppend
<1> QED BY <1>1, <1>2

LEMMA CallsWithMember ==
    ASSUME NEW S, NEW calls \in Seq(S), NEW k \in DOMAIN calls, NEW K, calls[k].kind \in K
    PROVE  CallsWith(calls, K, calls[k].notify) >= 1
<1> DEFINE n == calls[k].notify
<1>1. k \in Places(calls, K, n)
  BY DEF Places
<1> HIDE DEF n
<1>2. /\ IsFiniteSet(Places(calls, K, n))
      /\ CallsWith(calls, K, n) = Cardinality(Places(calls, K, n))
      /\ CallsWith(calls, K, n) \in Nat
  BY CallsWithIsCount
<1>3. CallsWith(calls, K, n) # 0
  BY <1>1, <1>2, FS_EmptySet
<1>4. CallsWith(calls, K, n) >= 1
  BY <1>2, <1>3
<1> QED BY <1>4 DEF n

-----------------------------------------------------------------------------
(***************************************************************************)
(* The helpers, on tables that fit.                                        *)
(***************************************************************************)
LEMMA AssertionHolds ==
    ASSUME NEW t, NEW holds, holds, NEW what
    PROVE  DbgAssert(t, holds, what) = t
BY DEF DbgAssert

\* A stream that is open has one ID, which both sides know.
LEMMA KnownStream ==
    ASSUME NEW t, NEW o, StreamsFit(t, o), NEW s \in o
    PROVE  /\ Named(t, s)
           /\ IdOf(t, s) \in DOMAIN t.lin /\ IdOf(t, s) \in DOMAIN t.win
           /\ t.lin[IdOf(t, s)] = s
           /\ \A i \in DOMAIN t.lin : t.lin[i] = s => i = IdOf(t, s)
<1>1. \E i \in DOMAIN t.lin : t.lin[i] = s
  BY DEF StreamsFit
<1>2. IdOf(t, s) \in DOMAIN t.lin /\ t.lin[IdOf(t, s)] = s
  BY <1>1 DEF IdOf
<1> QED BY <1>1, <1>2 DEF StreamsFit, Named

LEMMA NamedIsOpen ==
    ASSUME NEW t, NEW o, StreamsFit(t, o), NEW s
    PROVE  Named(t, s) <=> s \in o
BY DEF StreamsFit, Named

LEMMA KnownChangesNothing ==
    ASSUME NEW t, NEW o, StreamsFit(t, o), NEW s \in o
    PROVE  Known(t, s) = t
BY KnownStream, AssertionHolds DEF Known

\* There is an ID for one stream more.
LEMMA RoomForStream ==
    ASSUME NEW t, NEW o, StreamsFit(t, o), NEW s \in Stream, s \notin o
    PROVE  GetFreeID(DOMAIN t.lin) \in Id \ DOMAIN t.lin
<1> DEFINE used == DOMAIN t.lin
           f == [i \in used |-> t.lin[i]]
<1>1. used \in SUBSET Id
  BY DEF StreamsFit
<1>2. SUFFICES ASSUME used = Id PROVE FALSE
  BY <1>1, GetFreeIDFresh
<1>3. f \in Injection(used, Stream \ {s})
  <2>1. \A i \in used : t.lin[i] \in Stream \ {s}
    BY DEF StreamsFit
  <2>2. f \in [used -> Stream \ {s}]
    BY <2>1
  <2>3. \A i, j \in used : f[i] = f[j] => i = j
    BY DEF StreamsFit
  <2> QED BY <2>2, <2>3 DEF Injection, IsInjective
<1>4. /\ IsFiniteSet(Stream \ {s}) /\ Cardinality(Stream \ {s}) = Cardinality(Stream) - 1
      /\ Cardinality(Stream) \in Nat
  BY EnoughIdsAssumption, FS_RemoveElement, FS_CardinalityType
<1>5. Cardinality(used) =< Cardinality(Stream \ {s})
  <2> HIDE DEF f, used
  <2> QED BY <1>3, <1>4, FS_Injection
<1>6. Cardinality(used) = MaxId /\ MaxId \in Nat
  BY <1>2, MaxIdAssumption, FS_Interval DEF Id
<1> QED BY <1>4, <1>5, <1>6, EnoughIdsAssumption

\* Forgetting a stream on both sides.
Forgotten(t, s) == ForgetLinux(ForgetWindows(t, IdOf(t, s)), s)

LEMMA ForgetFits ==
    ASSUME NEW t, NEW o, Whole(t), StreamsFit(t, o), NEW s \in o
    PROVE  /\ Whole(Forgotten(t, s))
           /\ StreamsFit(Forgotten(t, s), o \ {s})
           /\ Forgotten(t, s).refs = t.refs /\ Forgotten(t, s).data = t.data
           /\ \A r \in o \ {s} : HasData(t.win, r) => HasData(Forgotten(t, s).win, r)
<1> DEFINE i == IdOf(t, s)
           u == [t EXCEPT !.win = Erase(@, i)]
           lin == [j \in {k \in DOMAIN t.lin : t.lin[k] # s} |-> t.lin[j]]
           w == [j \in {k \in DOMAIN u.lin : u.lin[k] # s} |-> u.lin[j]]
           v == [u EXCEPT !.lin = w]
<1>1. /\ Named(t, s) /\ i \in DOMAIN t.lin /\ i \in DOMAIN t.win /\ t.lin[i] = s
      /\ \A j \in DOMAIN t.lin : t.lin[j] = s => j = i
  BY KnownStream
<1> HIDE DEF i
<1>2. ForgetWindows(t, i) = u
  BY <1>1, AssertionHolds DEF ForgetWindows
<1>3. u = [lin |-> t.lin, win |-> Erase(t.win, i), refs |-> t.refs, data |-> t.data, fault |-> "none"]
  BY DEF Whole
<1>4. Named(u, s)
  BY <1>1, <1>3 DEF Named
<1>5. v = [lin |-> lin, win |-> Erase(t.win, i), refs |-> t.refs, data |-> t.data, fault |-> "none"]
  <2>1. u.lin = t.lin
    BY <1>3
  <2>2. w = lin
    BY <2>1
  <2> HIDE DEF w, u, lin
  <2> QED BY <1>3, <2>2
<1>6. Forgotten(t, s) = v
  <2>1. ForgetLinux(u, s) = v
    <3> HIDE DEF u
    <3> QED BY <1>4, AssertionHolds DEF ForgetLinux
  <2> QED BY <1>2, <2>1 DEF Forgotten, i
<1> HIDE DEF u, v
<1>7. StreamsFit(v, o \ {s})
  <2>1. DOMAIN v.lin = DOMAIN t.lin \ {i} /\ \A j \in DOMAIN v.lin : v.lin[j] = t.lin[j]
    BY <1>1, <1>5
  <2>2. DOMAIN v.win = DOMAIN t.win \ {i} /\ \A j \in DOMAIN v.win : v.win[j] = t.win[j]
    BY <1>5 DEF Erase
  <2>3. o \ {s} = {v.lin[j] : j \in DOMAIN v.lin}
    BY <1>1, <2>1 DEF StreamsFit
  <2> HIDE DEF lin
  <2> QED BY <2>1, <2>2, <2>3 DEF StreamsFit
<1>8. ASSUME NEW r \in o \ {s}, HasData(t.win, r) PROVE HasData(v.win, r)
  <2>1. PICK j \in DOMAIN t.win : t.win[j].stream = r /\ t.win[j].data # NULL
    BY <1>8 DEF HasData
  <2>2. j # i
    BY <1>1, <2>1 DEF StreamsFit
  <2> QED BY <2>1, <2>2, <1>5 DEF HasData, Erase
<1>9. Whole(v) /\ v.refs = t.refs /\ v.data = t.data
  BY <1>5 DEF Whole
<1> QED BY <1>6, <1>7, <1>8, <1>9

\* Naming a new stream and making the copy for it.
NewCopy(t, s, n) ==
    [stream |-> s, notify |-> n, data |-> IF n \in DOMAIN t.data THEN t.data[n] ELSE NULL]
Announced(t, s, n) ==
    LET i == GetFreeID(DOMAIN t.lin)
    IN  [lin |-> Insert(t.lin, i, s), win |-> Insert(t.win, i, NewCopy(t, s, n)),
         refs |-> t.refs, data |-> t.data, fault |-> "none"]

LEMMA NameNewStream ==
    ASSUME NEW t, NEW o, Whole(t), StreamsFit(t, o), NEW s \in Stream, s \notin o
    PROVE  /\ NameStream(t, s) = [lin |-> Insert(t.lin, GetFreeID(DOMAIN t.lin), s), win |-> t.win,
                                  refs |-> t.refs, data |-> t.data, fault |-> "none"]
           /\ IdOf(NameStream(t, s), s) = GetFreeID(DOMAIN t.lin)
<1> DEFINE i == GetFreeID(DOMAIN t.lin)
           u == [lin |-> Insert(t.lin, i, s), win |-> t.win,
                 refs |-> t.refs, data |-> t.data, fault |-> "none"]
<1>1. i \in Id /\ i \notin DOMAIN t.lin /\ i # 0
  BY RoomForStream DEF Id
<1>2. ~Named(t, s)
  BY NamedIsOpen
<1> HIDE DEF i
<1>3. [t EXCEPT !.lin = Insert(@, i, s)] = u
  BY DEF Whole
<1>4. NameStream(t, s) = u
  BY <1>1, <1>2, <1>3, AssertionHolds DEF NameStream, i
<1>5. \A j \in DOMAIN u.lin : u.lin[j] = s <=> j = i
  BY <1>2 DEF Insert, Named
<1>6. i \in DOMAIN u.lin
  BY DEF Insert
<1>7. IdOf(u, s) = i
  <2>1. IdOf(u, s) \in DOMAIN u.lin /\ u.lin[IdOf(u, s)] = s
    BY <1>5, <1>6 DEF IdOf
  <2> HIDE DEF u
  <2> QED BY <1>5, <2>1
<1> QED BY <1>4, <1>7 DEF i

LEMMA CopyNewStream ==
    ASSUME NEW t, NEW o, Whole(t), StreamsFit(t, o), NEW s \in Stream, s \notin o,
           NEW n, n = 0 \/ (n \in DOMAIN t.refs /\ n \in DOMAIN t.data)
    PROVE  /\ IdOf(NameStream(t, s), s) \notin DOMAIN t.win
           /\ CopyStream(NameStream(t, s), IdOf(NameStream(t, s), s), s, n) = Announced(t, s, n)
<1> DEFINE i == GetFreeID(DOMAIN t.lin)
           u == [lin |-> Insert(t.lin, i, s), win |-> t.win,
                 refs |-> t.refs, data |-> t.data, fault |-> "none"]
<1>1. NameStream(t, s) = u /\ IdOf(NameStream(t, s), s) = i
  BY NameNewStream
<1>2. i \notin DOMAIN t.win
  BY RoomForStream DEF StreamsFit
<1> HIDE DEF i
<1>3. i \in DOMAIN u.lin
  BY DEF Insert
<1>4. CopyStream(u, i, s, n) =
        [u EXCEPT !.win = Insert(@, i,
            [stream |-> s, notify |-> n,
             data |-> IF n \in DOMAIN u.data THEN u.data[n] ELSE NULL])]
  <2> DEFINE known == DbgAssert(u, i \in DOMAIN u.lin, "wrongSide")
             written == DbgAssert(known, n = 0 \/ n \in DOMAIN u.refs, "unknown")
             read == DbgAssert(written, n = 0 \/ n \in DOMAIN u.data, "wrongSide")
  <2>1. known = u
    BY <1>3, AssertionHolds
  <2>2. n = 0 \/ n \in DOMAIN u.refs
    OBVIOUS
  <2>3. n = 0 \/ n \in DOMAIN u.data
    OBVIOUS
  <2> HIDE DEF u, known
  <2>4. written = u
    BY <2>1, <2>2, AssertionHolds
  <2> HIDE DEF written
  <2>5. read = u
    BY <2>4, <2>3, AssertionHolds
  <2> QED BY <2>5 DEF CopyStream, read, written, known
<1>5. [u EXCEPT !.win = Insert(@, i,
            [stream |-> s, notify |-> n,
             data |-> IF n \in DOMAIN u.data THEN u.data[n] ELSE NULL])] = Announced(t, s, n)
  BY DEF Announced, NewCopy, i
<1> QED BY <1>1, <1>2, <1>4, <1>5

LEMMA AnnouncedFits ==
    ASSUME NEW t, NEW o, Whole(t), StreamsFit(t, o), NEW s \in Stream, s \notin o, NEW n
    PROVE  /\ Whole(Announced(t, s, n))
           /\ StreamsFit(Announced(t, s, n), o \cup {s})
           /\ Announced(t, s, n).refs = t.refs /\ Announced(t, s, n).data = t.data
           /\ \A r : HasData(t.win, r) => HasData(Announced(t, s, n).win, r)
           /\ n \in DOMAIN t.data /\ t.data[n] # NULL => HasData(Announced(t, s, n).win, s)
<1> DEFINE i == GetFreeID(DOMAIN t.lin)
           v == Announced(t, s, n)
<1>1. i \in Id /\ i \notin DOMAIN t.lin /\ i \notin DOMAIN t.win
  BY RoomForStream DEF StreamsFit
<1>2. v = [lin |-> Insert(t.lin, i, s), win |-> Insert(t.win, i, NewCopy(t, s, n)),
           refs |-> t.refs, data |-> t.data, fault |-> "none"]
  BY DEF Announced
<1> HIDE DEF i, v
<1>3. /\ DOMAIN v.lin = DOMAIN t.lin \cup {i} /\ v.lin[i] = s
      /\ \A j \in DOMAIN t.lin : v.lin[j] = t.lin[j]
  BY <1>1, <1>2 DEF Insert
<1>4. /\ DOMAIN v.win = DOMAIN t.win \cup {i} /\ v.win[i] = NewCopy(t, s, n)
      /\ \A j \in DOMAIN t.win : v.win[j] = t.win[j]
  BY <1>1, <1>2 DEF Insert
<1>5. StreamsFit(v, o \cup {s})
  <2>1. o \cup {s} = {v.lin[j] : j \in DOMAIN v.lin}
    BY <1>3 DEF StreamsFit
  <2>2. v.win[i].stream = s
    BY <1>4 DEF NewCopy
  <2>3. \A j \in DOMAIN t.lin : t.lin[j] # s
    BY DEF StreamsFit
  <2> QED BY <1>1, <1>3, <1>4, <2>1, <2>2, <2>3 DEF StreamsFit
<1>6. \A r : HasData(t.win, r) => HasData(v.win, r)
  BY <1>4 DEF HasData
<1>7. n \in DOMAIN t.data /\ t.data[n] # NULL => HasData(v.win, s)
  BY <1>4 DEF HasData, NewCopy
<1>8. Whole(v) /\ v.refs = t.refs /\ v.data = t.data
  BY <1>2 DEF Whole
<1> QED BY <1>5, <1>6, <1>7, <1>8 DEF v

-----------------------------------------------------------------------------
(***************************************************************************)
(* Calls that begin and end.                                               *)
(***************************************************************************)
LEMMA CallsKept ==
    ASSUME NEW calls, NEW o, NEW win, CallsFit(calls, o, win), NEW o2, NEW win2,
           \A k \in DOMAIN calls : calls[k].kind \in AboutStream =>
              /\ calls[k].stream \in o2
              /\ HasData(win, calls[k].stream) => HasData(win2, calls[k].stream)
    PROVE  CallsFit(calls, o2, win2)
BY DEF CallsFit, AboutStream

LEMMA CallsPushed ==
    ASSUME NEW calls, NEW o, NEW win, CallsFit(calls, o, win), NEW f \in Frames,
           f.kind \in AboutStream =>
              /\ f.stream \in o
              /\ \A k \in DOMAIN calls :
                    ~(calls[k].kind \in AboutStream /\ calls[k].stream = f.stream),
           f.kind = "newstream" /\ f.notify # 0 => HasData(win, f.stream),
           f.kind = "urlnotify" => f.notify \in Id
    PROVE  CallsFit(Append(calls, f), o, win)
<1> DEFINE more == Append(calls, f)
           new == Len(calls) + 1
<1>1. calls \in Seq(Frames)
  BY DEF CallsFit
<1>2. /\ more \in Seq(Frames)
      /\ DOMAIN more = DOMAIN calls \cup {new} /\ new \notin DOMAIN calls
      /\ \A k \in DOMAIN calls : more[k] = calls[k]
      /\ more[new] = f
  BY <1>1
<1> HIDE DEF more, new
<1>3. \A k \in DOMAIN more : more[k].kind \in AboutStream => more[k].stream \in o
  BY <1>2 DEF CallsFit
<1>4. ASSUME NEW k \in DOMAIN more, NEW l \in DOMAIN more,
             more[k].kind \in AboutStream, more[l].kind \in AboutStream,
             more[k].stream = more[l].stream
      PROVE  k = l
  <2>1. CASE k = new \/ l = new
    BY <2>1, <1>2, <1>4
  <2>2. CASE k # new /\ l # new
    BY <2>2, <1>2, <1>4 DEF CallsFit
  <2> QED BY <2>1, <2>2
<1>5. \A k \in DOMAIN more :
         more[k].kind = "newstream" /\ more[k].notify # 0 => HasData(win, more[k].stream)
  BY <1>2 DEF CallsFit
<1>6. \A k \in DOMAIN more : more[k].kind = "urlnotify" => more[k].notify \in Id
  BY <1>2 DEF CallsFit
<1>7. CallsFit(more, o, win)
  BY <1>2, <1>3, <1>4, <1>5, <1>6 DEF CallsFit
<1> QED BY <1>7 DEF more

LEMMA CallsPopped ==
    ASSUME NEW calls, NEW o, NEW win, CallsFit(calls, o, win), calls # <<>>
    PROVE  /\ CallsFit(Front(calls), o, win)
           /\ Last(calls) \in Frames
           /\ Last(calls).kind \in AboutStream =>
                 /\ Last(calls).stream \in o
                 /\ \A k \in DOMAIN Front(calls) :
                       Front(calls)[k].kind \in AboutStream =>
                          Front(calls)[k].stream # Last(calls).stream
           /\ Last(calls).kind = "urlnotify" => Last(calls).notify \in Id
<1> DEFINE rest == Front(calls)
           last == Last(calls)
           end == Len(calls)
<1>1. calls \in Seq(Frames)
  BY DEF CallsFit
<1>2. /\ rest \in Seq(Frames) /\ last \in Frames
      /\ end \in DOMAIN calls /\ last = calls[end]
      /\ \A k \in DOMAIN rest : k \in DOMAIN calls /\ k # end /\ rest[k] = calls[k]
  BY <1>1, FrontAndLast
<1> HIDE DEF rest, last, end
<1>3. CallsFit(rest, o, win)
  BY <1>2 DEF CallsFit
<1>4. last.kind \in AboutStream =>
         /\ last.stream \in o
         /\ \A k \in DOMAIN rest : rest[k].kind \in AboutStream => rest[k].stream # last.stream
  BY <1>2 DEF CallsFit
<1>5. last.kind = "urlnotify" => last.notify \in Id
  BY <1>2 DEF CallsFit
<1> QED BY <1>2, <1>3, <1>4, <1>5 DEF rest, last

\* A step that leaves counts, data and requests alone.
LEMMA NotifyKept ==
    ASSUME NotifyFit(tables, stack), UNCHANGED <<requests, asked, leaked>>,
           tables'.refs = tables.refs, tables'.data = tables.data,
           \A n \in Id :
              /\ CallsWith(stack', {"urlnotify"}, n) = CallsWith(stack, {"urlnotify"}, n)
              /\ CallsWith(stack', AboutStream, n) =< requests[n]
    PROVE  NotifyFit(tables, stack)'
BY DEF NotifyFit

\* Calls that are about neither a stream nor an answer.
LEMMA PushOther ==
    ASSUME IInv, NEW f \in Frames, f.kind \notin AboutStream, f.kind # "urlnotify",
           stack' = Append(stack, f), UNCHANGED <<tables, open, requests, asked, leaked>>
    PROVE  IInv'
<1>1. CallsFit(stack, open, tables.win)'
  <2>1. CallsFit(Append(stack, f), open, tables.win)
    BY CallsPushed DEF IInv, AboutStream
  <2> QED BY <2>1
<1>2. ASSUME NEW n \in Id
      PROVE  /\ CallsWith(stack', {"urlnotify"}, n) = CallsWith(stack, {"urlnotify"}, n)
             /\ CallsWith(stack', AboutStream, n) =< requests[n]
  <2>1. stack \in Seq(Frames)
    BY DEF IInv, CallsFit
  <2>2. /\ CallsWith(stack', {"urlnotify"}, n) = CallsWith(stack, {"urlnotify"}, n) + 0
        /\ CallsWith(stack', AboutStream, n) = CallsWith(stack, AboutStream, n) + 0
    BY <2>1, CallsWithAppend DEF One
  <2>3. /\ CallsWith(stack, {"urlnotify"}, n) \in Nat
        /\ CallsWith(stack, AboutStream, n) \in Nat
    BY <2>1, CallsWithIsCount
  <2> QED BY <2>2, <2>3 DEF IInv, NotifyFit
<1>3. NotifyFit(tables, stack)'
  BY <1>2, NotifyKept DEF IInv
<1> QED BY <1>1, <1>3 DEF IInv, Whole, StreamsFit

LEMMA PopOther ==
    ASSUME IInv, stack # <<>>, Last(stack).kind \notin AboutStream,
           Last(stack).kind # "urlnotify",
           stack' = Front(stack), UNCHANGED <<tables, open, requests, asked, leaked>>
    PROVE  IInv'
<1>1. CallsFit(stack, open, tables.win)'
  <2>1. CallsFit(Front(stack), open, tables.win)
    BY CallsPopped DEF IInv
  <2> QED BY <2>1
<1>2. ASSUME NEW n \in Id
      PROVE  /\ CallsWith(stack', {"urlnotify"}, n) = CallsWith(stack, {"urlnotify"}, n)
             /\ CallsWith(stack', AboutStream, n) =< requests[n]
  <2>1. stack \in Seq(Frames) /\ Front(stack) \in Seq(Frames)
    BY FrontAndLast DEF IInv, CallsFit
  <2>2. /\ CallsWith(stack, {"urlnotify"}, n) = CallsWith(stack', {"urlnotify"}, n) + 0
        /\ CallsWith(stack, AboutStream, n) = CallsWith(stack', AboutStream, n) + 0
    BY <2>1, CallsWithFront DEF One
  <2>3. /\ CallsWith(stack', {"urlnotify"}, n) \in Nat
        /\ CallsWith(stack', AboutStream, n) \in Nat
    BY <2>1, CallsWithIsCount
  <2> QED BY <2>2, <2>3 DEF IInv, NotifyFit
<1>3. NotifyFit(tables, stack)'
  BY <1>2, NotifyKept DEF IInv
<1> QED BY <1>1, <1>3 DEF IInv, Whole, StreamsFit

\* One call more, about a stream or an answer that has no other such call.
LEMMA PushCounts ==
    ASSUME NEW calls \in Seq(Frames), NEW f \in Frames, f.kind \in AboutStream,
           NEW n \in Id
    PROVE  /\ CallsWith(Append(calls, f), {"urlnotify"}, n) = CallsWith(calls, {"urlnotify"}, n)
           /\ CallsWith(Append(calls, f), AboutStream, n) =
                CallsWith(calls, AboutStream, n) + (IF f.notify = n THEN 1 ELSE 0)
           /\ CallsWith(calls, AboutStream, n) \in Nat
<1>1. /\ CallsWith(Append(calls, f), {"urlnotify"}, n) = CallsWith(calls, {"urlnotify"}, n) + One(f, {"urlnotify"}, n)
      /\ CallsWith(Append(calls, f), AboutStream, n) = CallsWith(calls, AboutStream, n) + One(f, AboutStream, n)
  BY CallsWithAppend
<1>2. /\ CallsWith(calls, {"urlnotify"}, n) \in Nat
      /\ CallsWith(calls, AboutStream, n) \in Nat
  BY CallsWithIsCount
<1>3. One(f, {"urlnotify"}, n) = 0 /\ One(f, AboutStream, n) = IF f.notify = n THEN 1 ELSE 0
  BY DEF One, AboutStream
<1> QED BY <1>1, <1>2, <1>3

LEMMA PushDestroy ==
    ASSUME IInv, NEW f \in Frames, f.kind = "destroystream", f.stream \in open,
           ~Active(AboutStream, f.stream),
           f.notify # 0 => CallsWith(stack, AboutStream, f.notify) < requests[f.notify],
           stack' = Append(stack, f), UNCHANGED <<tables, open, requests, asked, leaked>>
    PROVE  IInv'
<1>1. CallsFit(stack, open, tables.win)'
  <2>1. CallsFit(Append(stack, f), open, tables.win)
    BY CallsPushed DEF IInv, Active
  <2> QED BY <2>1
<1>2. ASSUME NEW n \in Id
      PROVE  /\ CallsWith(stack', {"urlnotify"}, n) = CallsWith(stack, {"urlnotify"}, n)
             /\ CallsWith(stack', AboutStream, n) =< requests[n]
  <2>1. stack \in Seq(Frames) /\ f.kind \in AboutStream
    BY DEF IInv, CallsFit, AboutStream
  <2>2. /\ CallsWith(stack', {"urlnotify"}, n) = CallsWith(stack, {"urlnotify"}, n)
        /\ CallsWith(stack', AboutStream, n) = CallsWith(stack, AboutStream, n) + (IF f.notify = n THEN 1 ELSE 0)
        /\ CallsWith(stack, AboutStream, n) \in Nat
    BY <2>1, PushCounts
  <2>3. requests[n] \in Nat /\ CallsWith(stack, AboutStream, n) =< requests[n] /\ n # 0
    BY DEF IInv, NotifyFit, Id
  <2> QED BY <2>2, <2>3
<1>3. NotifyFit(tables, stack)'
  BY <1>2, NotifyKept DEF IInv
<1> QED BY <1>1, <1>3 DEF IInv, Whole, StreamsFit

\* What a request that is not answered refers to is there.
LEMMA RequestHasData ==
    ASSUME NEW t, NEW calls \in Seq(Frames), NotifyFit(t, calls), NEW n \in Id,
           requests[n] > 0
    PROVE  n \in DOMAIN t.refs /\ n \in DOMAIN t.data /\ t.data[n] # NULL
<1>1. CallsWith(calls, {"urlnotify"}, n) \in Nat
  BY CallsWithIsCount
<1>2. requests[n] \in Nat /\ leaked[n] \in Nat
  BY DEF NotifyFit
<1>3. requests[n] + CallsWith(calls, {"urlnotify"}, n) + leaked[n] =
        IF n \in DOMAIN t.refs THEN t.refs[n] ELSE 0
  BY DEF NotifyFit
<1>4. n \in DOMAIN t.refs
  BY <1>1, <1>2, <1>3
<1> QED BY <1>4, NullAssumption DEF NotifyFit

\* writeHandleStream, the copy, and the plugin's newstream.
LEMMA AnnounceFits ==
    ASSUME NEW t, NEW o, NEW calls, NEW s \in Stream, NEW n \in Id \cup {0},
           Whole(t), StreamsFit(t, o), s \notin o, CallsFit(calls, o, t.win),
           NotifyFit(t, calls),
           n # 0 => CallsWith(calls, AboutStream, n) < requests[n],
           Announce(t, s, n, calls), open \cup {s} = o \cup {s},
           UNCHANGED <<requests, asked, leaked>>
    PROVE  IInv'
<1> DEFINE u == Announced(t, s, n)
           f == Frame("newstream", s, n)
<1>1. calls \in Seq(Frames) /\ f \in Frames /\ f.kind = "newstream" /\ f.stream = s /\ f.notify = n
  BY DEF CallsFit, Frame, Frames, Kinds
<1>2. n # 0 => n \in DOMAIN t.refs /\ n \in DOMAIN t.data /\ t.data[n] # NULL
  <2>1. CASE n # 0
    <3>1. n \in Id /\ requests[n] \in Nat /\ CallsWith(calls, AboutStream, n) \in Nat
      BY <2>1, <1>1, CallsWithIsCount DEF NotifyFit
    <3>2. requests[n] > 0
      BY <2>1, <3>1
    <3> QED BY <3>1, <3>2, <1>1, RequestHasData
  <2> QED BY <2>1
<1>3. tables' = u /\ stack' = Append(calls, f) /\ open' = o \cup {s}
  <2> DEFINE named == NameStream(t, s)
             i == IdOf(named, s)
             fresh == DbgAssert(named, i \notin DOMAIN t.win, "notNew")
  <2>1. i \notin DOMAIN t.win /\ CopyStream(named, i, s, n) = u
    BY <1>2, CopyNewStream
  <2>2. fresh = named
    BY <2>1, AssertionHolds
  <2>3. tables' = CopyStream(fresh, i, s, n) /\ stack' = Append(calls, f) /\ open' = open \cup {s}
    BY DEF Announce
  <2> HIDE DEF u, f, fresh, i, named
  <2> QED BY <2>1, <2>2, <2>3
<1>4. /\ Whole(u) /\ StreamsFit(u, o \cup {s}) /\ u.refs = t.refs /\ u.data = t.data
      /\ \A r : HasData(t.win, r) => HasData(u.win, r)
      /\ n # 0 => HasData(u.win, s)
  <2>1. /\ Whole(u) /\ StreamsFit(u, o \cup {s}) /\ u.refs = t.refs /\ u.data = t.data
        /\ \A r : HasData(t.win, r) => HasData(u.win, r)
    BY AnnouncedFits
  <2>2. n \in DOMAIN t.data /\ t.data[n] # NULL => HasData(u.win, s)
    BY AnnouncedFits
  <2> HIDE DEF u
  <2> QED BY <1>2, <2>1, <2>2
<1> HIDE DEF u, f
<1>5. CallsFit(Append(calls, f), o \cup {s}, u.win)
  <2>1. CallsFit(calls, o \cup {s}, u.win)
    <3>1. \A k \in DOMAIN calls : calls[k].kind \in AboutStream =>
             /\ calls[k].stream \in o \cup {s}
             /\ HasData(t.win, calls[k].stream) => HasData(u.win, calls[k].stream)
      BY <1>4 DEF CallsFit
    <3> QED BY <3>1, CallsKept
  <2>2. \A k \in DOMAIN calls : ~(calls[k].kind \in AboutStream /\ calls[k].stream = s)
    BY DEF CallsFit
  <2> QED BY <2>1, <2>2, <1>1, <1>4, CallsPushed DEF AboutStream
<1>6. ASSUME NEW m \in Id
      PROVE  /\ CallsWith(Append(calls, f), {"urlnotify"}, m) = CallsWith(calls, {"urlnotify"}, m)
             /\ CallsWith(Append(calls, f), AboutStream, m) =< requests[m]
  <2>1. /\ CallsWith(Append(calls, f), {"urlnotify"}, m) = CallsWith(calls, {"urlnotify"}, m)
        /\ CallsWith(Append(calls, f), AboutStream, m) = CallsWith(calls, AboutStream, m) + (IF n = m THEN 1 ELSE 0)
        /\ CallsWith(calls, AboutStream, m) \in Nat
    BY <1>1, PushCounts DEF AboutStream
  <2>2. requests[m] \in Nat /\ CallsWith(calls, AboutStream, m) =< requests[m] /\ m # 0
    BY DEF NotifyFit, Id
  <2> QED BY <2>1, <2>2
<1>7. NotifyFit(tables, stack)'
  BY <1>3, <1>4, <1>6 DEF NotifyFit
<1>8. Whole(tables') /\ StreamsFit(tables', open') /\ CallsFit(stack', open', tables'.win)
  BY <1>3, <1>4, <1>5
<1> QED BY <1>7, <1>8 DEF IInv, Whole, StreamsFit, CallsFit, HasData

-----------------------------------------------------------------------------
(***************************************************************************)
(* The browser's steps.                                                    *)
(***************************************************************************)
LEMMA NewStreamFits ==
    ASSUME IInv, NEW s \in Stream, NEW n \in Id \cup {0}, NewStream(s, n)
    PROVE  IInv'
<1>1. /\ ~Active(AboutStream, s)
      /\ n # 0 => CallsWith(stack, AboutStream, n) < requests[n]
  <2>1. ~Active(AboutStream, s) /\ (n # 0 => requests[n] > CallsWith(stack, AboutStream, n))
    BY DEF NewStream, Announcing, AboutStream
  <2>2. n # 0 => requests[n] \in Nat /\ CallsWith(stack, AboutStream, n) \in Nat
    BY CallsWithIsCount DEF IInv, NotifyFit, CallsFit
  <2> QED BY <2>1, <2>2
<1>2. CASE Named(tables, s)
  <2> DEFINE f == [Frame("destroystream", s, n) EXCEPT !.again = TRUE]
  <2>1. s \in open
    BY <1>2, NamedIsOpen DEF IInv
  <2>2. /\ tables' = Known(tables, s) /\ stack' = Append(stack, f)
        /\ UNCHANGED <<open, requests, asked, leaked>>
    BY <1>2 DEF NewStream
  <2>3. Known(tables, s) = tables
    BY <2>1, KnownChangesNothing DEF IInv
  <2>4. f \in Frames /\ f.kind = "destroystream" /\ f.stream = s /\ f.notify = n
    BY DEF Frame, Frames, Kinds
  <2> HIDE DEF f
  <2> QED BY <1>1, <2>1, <2>2, <2>3, <2>4, PushDestroy
<1>3. CASE ~Named(tables, s)
  <2>1. Announce(tables, s, n, stack) /\ UNCHANGED <<requests, asked, leaked>>
    BY <1>3 DEF NewStream
  <2>2. s \notin open
    BY <1>3, NamedIsOpen DEF IInv
  <2> QED BY <1>1, <2>1, <2>2, AnnounceFits DEF IInv
<1> QED BY <1>2, <1>3

LEMMA DestroyStreamFits ==
    ASSUME IInv, NEW s \in Stream, DestroyStream(s)
    PROVE  IInv'
<1> DEFINE f == Frame("destroystream", s, 0)
<1>1. s \in open
  BY NamedIsOpen DEF IInv, DestroyStream
<1>2. Known(tables, s) = tables
  BY <1>1, KnownChangesNothing DEF IInv
<1>3. /\ tables' = tables /\ stack' = Append(stack, f)
      /\ UNCHANGED <<open, requests, asked, leaked>>
      /\ ~Active(AboutStream, s)
  BY <1>2 DEF DestroyStream, Call, AboutStream
<1>4. f \in Frames /\ f.kind = "destroystream" /\ f.stream = s /\ f.notify = 0
  BY DEF Frame, Frames, Kinds
<1> HIDE DEF f
<1> QED BY <1>1, <1>3, <1>4, PushDestroy

LEMMA WriteFits ==
    ASSUME IInv, NEW s \in Stream, Write(s)
    PROVE  IInv'
<1> DEFINE f == Frame("write", s, 0)
<1>1. Known(tables, s) = tables
  BY NamedIsOpen, KnownChangesNothing DEF IInv, Write
<1>2. /\ tables' = tables /\ stack' = Append(stack, f)
      /\ UNCHANGED <<open, requests, asked, leaked>>
  BY <1>1 DEF Write, Call
<1>3. f \in Frames /\ f.kind \notin AboutStream /\ f.kind # "urlnotify"
  BY DEF Frame, Frames, Kinds, AboutStream
<1> HIDE DEF f
<1> QED BY <1>2, <1>3, PushOther

LEMMA EventsFits ==
    ASSUME IInv, Events
    PROVE  IInv'
<1> DEFINE f == Frame("events", NULL, 0)
<1>1. stack' = Append(stack, f) /\ UNCHANGED <<tables, open, requests, asked, leaked>>
  BY DEF Events, Call
<1>2. f \in Frames /\ f.kind \notin AboutStream /\ f.kind # "urlnotify"
  BY DEF Frame, Frames, Kinds, AboutStream
<1> HIDE DEF f
<1> QED BY <1>1, <1>2, PushOther

LEMMA BrowserReturnFits ==
    ASSUME IInv, BrowserReturn
    PROVE  IInv'
BY PopOther DEF BrowserReturn, AboutStream

\* An answer begins: the request is no longer waiting, and its data is in use.
LEMMA UrlNotifyFits ==
    ASSUME IInv, NEW n \in Id, UrlNotify(n)
    PROVE  IInv'
<1> DEFINE f == Frame("urlnotify", NULL, n)
<1>1. stack \in Seq(Frames) /\ CallsWith(stack, AboutStream, n) \in Nat /\ requests[n] \in Nat
  BY CallsWithIsCount DEF IInv, CallsFit, NotifyFit
<1>2. requests[n] > CallsWith(stack, AboutStream, n)
  BY DEF UrlNotify, Announcing, AboutStream
<1>3. n \in DOMAIN tables.refs /\ n \in DOMAIN tables.data
  <2>1. requests[n] > 0
    BY <1>1, <1>2
  <2> QED BY <1>1, <2>1, RequestHasData DEF IInv
<1>4. /\ tables' = tables /\ stack' = Append(stack, f)
      /\ requests' = [requests EXCEPT ![n] = @ - 1]
      /\ UNCHANGED <<open, asked, leaked>>
  BY <1>3, AssertionHolds DEF UrlNotify, Call
<1>5. f \in Frames /\ f.kind = "urlnotify" /\ f.notify = n
  BY DEF Frame, Frames, Kinds
<1> HIDE DEF f
<1>6. CallsFit(stack, open, tables.win)'
  <2>1. CallsFit(Append(stack, f), open, tables.win)
    BY <1>5, CallsPushed DEF IInv, AboutStream
  <2> QED BY <1>4, <2>1
<1>7. ASSUME NEW m \in Id
      PROVE  /\ CallsWith(stack', {"urlnotify"}, m) = CallsWith(stack, {"urlnotify"}, m) + (IF n = m THEN 1 ELSE 0)
             /\ CallsWith(stack, {"urlnotify"}, m) \in Nat
             /\ CallsWith(stack', AboutStream, m) = CallsWith(stack, AboutStream, m)
             /\ CallsWith(stack, AboutStream, m) \in Nat
  <2>1. /\ CallsWith(stack', {"urlnotify"}, m) = CallsWith(stack, {"urlnotify"}, m) + One(f, {"urlnotify"}, m)
        /\ CallsWith(stack', AboutStream, m) = CallsWith(stack, AboutStream, m) + One(f, AboutStream, m)
    BY <1>1, <1>4, <1>5, CallsWithAppend
  <2>2. One(f, {"urlnotify"}, m) = (IF n = m THEN 1 ELSE 0) /\ One(f, AboutStream, m) = 0
    BY <1>5 DEF One, AboutStream
  <2>3. /\ CallsWith(stack, {"urlnotify"}, m) \in Nat
        /\ CallsWith(stack, AboutStream, m) \in Nat
    BY <1>1, CallsWithIsCount
  <2> QED BY <2>1, <2>2, <2>3
<1>8. requests' \in [Id -> Nat] /\ requests'[n] = requests[n] - 1
      /\ \A m \in Id : m # n => requests'[m] = requests[m]
  BY <1>1, <1>2, <1>4 DEF IInv, NotifyFit
<1>9. \A m \in Id : CallsWith(stack', AboutStream, m) =< requests'[m]
  <2>1. ASSUME NEW m \in Id PROVE CallsWith(stack', AboutStream, m) =< requests'[m]
    <3>1. CASE m = n
      BY <3>1, <1>1, <1>2, <1>7, <1>8
    <3>2. CASE m # n
      BY <3>2, <1>7, <1>8 DEF IInv, NotifyFit
    <3> QED BY <3>1, <3>2
  <2> QED BY <2>1
<1>10. \A m \in Id : requests'[m] + CallsWith(stack', {"urlnotify"}, m) + leaked'[m] =
                        IF m \in DOMAIN tables'.refs THEN tables'.refs[m] ELSE 0
  <2>1. ASSUME NEW m \in Id
        PROVE  requests'[m] + CallsWith(stack', {"urlnotify"}, m) =
                 requests[m] + CallsWith(stack, {"urlnotify"}, m)
    <3>1. requests[m] \in Nat
      BY DEF IInv, NotifyFit
    <3> QED BY <3>1, <1>7, <1>8
  <2> QED BY <2>1, <1>4 DEF IInv, NotifyFit
<1>11. NotifyFit(tables, stack)'
  BY <1>4, <1>8, <1>9, <1>10 DEF IInv, NotifyFit
<1> QED BY <1>4, <1>6, <1>11 DEF IInv, Whole, StreamsFit

\* The browser returns from newstream with a stream it has not announced.
LEMMA BrowserNewStreamReturnFits ==
    ASSUME IInv, BrowserNewStreamReturn
    PROVE  IInv'
<1>1. CASE UNCHANGED <<tables, open>>
  BY <1>1, PopOther DEF BrowserNewStreamReturn, AboutStream
<1>2. ASSUME NEW s \in Stream, s \notin open,
             tables' = IF IdOf(NameStream(tables, s), s) \in DOMAIN NameStream(tables, s).win
                       THEN NameStream(tables, s)
                       ELSE CopyStream(NameStream(tables, s), IdOf(NameStream(tables, s), s), s, 0),
             open' = open \cup {s}
      PROVE  IInv'
  <2> DEFINE u == Announced(tables, s, 0)
             rest == Front(stack)
  <2>1. tables' = u
    <3>1. /\ IdOf(NameStream(tables, s), s) \notin DOMAIN tables.win
          /\ CopyStream(NameStream(tables, s), IdOf(NameStream(tables, s), s), s, 0) = u
      BY <1>2, CopyNewStream DEF IInv
    <3>2. NameStream(tables, s).win = tables.win
      BY <1>2, NameNewStream DEF IInv
    <3> QED BY <1>2, <3>1, <3>2
  <2>2. /\ Whole(u) /\ StreamsFit(u, open \cup {s}) /\ u.refs = tables.refs /\ u.data = tables.data
        /\ \A r : HasData(tables.win, r) => HasData(u.win, r)
    BY <1>2, AnnouncedFits, ZenonT(60) DEF IInv
  <2>3. /\ stack # <<>> /\ Last(stack).kind = "create" /\ stack' = rest
        /\ UNCHANGED <<requests, asked, leaked>>
    BY DEF BrowserNewStreamReturn
  <2> HIDE DEF u
  <2>4. CallsFit(rest, open, tables.win)
    BY <2>3, CallsPopped DEF IInv
  <2>5. CallsFit(rest, open \cup {s}, u.win)
    <3>1. \A k \in DOMAIN rest : rest[k].kind \in AboutStream =>
             /\ rest[k].stream \in open \cup {s}
             /\ HasData(tables.win, rest[k].stream) => HasData(u.win, rest[k].stream)
      BY <2>2, <2>4 DEF CallsFit
    <3> HIDE DEF rest
    <3> QED BY <2>4, <3>1, CallsKept
  <2>6. NotifyFit(tables, stack)'
    <3>1. ASSUME NEW n \in Id
          PROVE  /\ CallsWith(stack', {"urlnotify"}, n) = CallsWith(stack, {"urlnotify"}, n)
                 /\ CallsWith(stack', AboutStream, n) =< requests[n]
      <4>1. stack \in Seq(Frames) /\ rest \in Seq(Frames)
        BY <2>3, FrontAndLast DEF IInv, CallsFit
      <4>2. /\ CallsWith(stack, {"urlnotify"}, n) = CallsWith(stack', {"urlnotify"}, n) + 0
            /\ CallsWith(stack, AboutStream, n) = CallsWith(stack', AboutStream, n) + 0
        BY <2>3, <4>1, CallsWithFront DEF One, AboutStream
      <4>3. /\ CallsWith(stack', {"urlnotify"}, n) \in Nat
            /\ CallsWith(stack', AboutStream, n) \in Nat
        BY <2>3, <4>1, CallsWithIsCount
      <4> QED BY <4>2, <4>3 DEF IInv, NotifyFit
    <3> QED BY <2>1, <2>2, <2>3, <3>1, NotifyKept DEF IInv
  <2>7. Whole(tables') /\ StreamsFit(tables', open') /\ CallsFit(stack', open', tables'.win)
    BY <1>2, <2>1, <2>2, <2>3, <2>5
  <2> QED BY <2>6, <2>7 DEF IInv, Whole, StreamsFit, CallsFit, HasData
<1>3. \/ UNCHANGED <<tables, open>>
      \/ \E s \in Stream \ open :
           /\ tables' = IF IdOf(NameStream(tables, s), s) \in DOMAIN NameStream(tables, s).win
                        THEN NameStream(tables, s)
                        ELSE CopyStream(NameStream(tables, s), IdOf(NameStream(tables, s), s), s, 0)
           /\ open' = open \cup {s}
  BY DEF BrowserNewStreamReturn
<1> QED BY <1>1, <1>2, <1>3

-----------------------------------------------------------------------------
(***************************************************************************)
(* The plugin's steps.                                                     *)
(***************************************************************************)
LEMMA PluginNewStreamFits ==
    ASSUME IInv, PluginNewStream
    PROVE  IInv'
<1> DEFINE f == Frame("create", NULL, 0)
<1>1. stack' = Append(stack, f) /\ UNCHANGED <<tables, open, requests, asked, leaked>>
  BY DEF PluginNewStream, Call
<1>2. f \in Frames /\ f.kind \notin AboutStream /\ f.kind # "urlnotify"
  BY DEF Frame, Frames, Kinds, AboutStream
<1> HIDE DEF f
<1> QED BY <1>1, <1>2, PushOther

LEMMA PluginDestroyStreamFits ==
    ASSUME IInv, NEW i \in Id, PluginDestroyStream(i)
    PROVE  IInv'
<1> DEFINE f == Frame("destroy", tables.win[i].stream, 0)
<1>1. i \in DOMAIN tables.lin /\ tables.win[i].stream \in Stream
  BY DEF PluginDestroyStream, IInv, StreamsFit
<1>2. stack' = Append(stack, f) /\ UNCHANGED <<tables, open, requests, asked, leaked>>
  BY <1>1, AssertionHolds DEF PluginDestroyStream, Call
<1>3. f \in Frames /\ f.kind \notin AboutStream /\ f.kind # "urlnotify"
  BY <1>1 DEF Frame, Frames, Kinds, AboutStream
<1> HIDE DEF f
<1> QED BY <1>2, <1>3, PushOther

LEMMA PluginReturnFits ==
    ASSUME IInv, PluginReturn
    PROVE  IInv'
BY PopOther DEF PluginReturn, AboutStream

\* When a call about a stream is over, its request is only waiting.
LEMMA PopAboutStream ==
    ASSUME IInv, stack # <<>>, Last(stack).kind \in AboutStream, NEW n \in Id
    PROVE  /\ CallsWith(Front(stack), {"urlnotify"}, n) = CallsWith(stack, {"urlnotify"}, n)
           /\ CallsWith(Front(stack), AboutStream, n) =< requests[n]
           /\ Last(stack).notify = n => CallsWith(Front(stack), AboutStream, n) < requests[n]
<1> DEFINE rest == Front(stack)
           last == Last(stack)
<1>1. stack \in Seq(Frames) /\ rest \in Seq(Frames)
  BY FrontAndLast DEF IInv, CallsFit
<1>2. /\ CallsWith(stack, {"urlnotify"}, n) = CallsWith(rest, {"urlnotify"}, n) + One(last, {"urlnotify"}, n)
      /\ CallsWith(stack, AboutStream, n) = CallsWith(rest, AboutStream, n) + One(last, AboutStream, n)
  BY <1>1, CallsWithFront
<1>3. One(last, {"urlnotify"}, n) = 0 /\ One(last, AboutStream, n) = IF last.notify = n THEN 1 ELSE 0
  BY DEF One, AboutStream
<1>4. /\ CallsWith(rest, {"urlnotify"}, n) \in Nat
      /\ CallsWith(rest, AboutStream, n) \in Nat
  BY <1>1, CallsWithIsCount
<1>5. requests[n] \in Nat /\ CallsWith(stack, AboutStream, n) =< requests[n]
  BY DEF IInv, NotifyFit
<1> HIDE DEF rest, last
<1>6. /\ CallsWith(rest, {"urlnotify"}, n) = CallsWith(stack, {"urlnotify"}, n)
      /\ CallsWith(rest, AboutStream, n) =< requests[n]
      /\ last.notify = n => CallsWith(rest, AboutStream, n) < requests[n]
  BY <1>2, <1>3, <1>4, <1>5
<1> QED BY <1>6 DEF rest, last

LEMMA ForgetAndPop ==
    ASSUME IInv, stack # <<>>, Last(stack).kind \in AboutStream
    PROVE  LET s == Last(stack).stream
               t == Forgotten(tables, s)
           IN  /\ s \in open
               /\ Whole(t) /\ StreamsFit(t, open \ {s})
               /\ CallsFit(Front(stack), open \ {s}, t.win)
               /\ NotifyFit(t, Front(stack))
               /\ t.refs = tables.refs /\ t.data = tables.data
<1> DEFINE s == Last(stack).stream
           t == Forgotten(tables, s)
           rest == Front(stack)
<1>1. /\ CallsFit(rest, open, tables.win) /\ s \in open
      /\ \A k \in DOMAIN rest : rest[k].kind \in AboutStream => rest[k].stream # s
  BY CallsPopped DEF IInv
<1> HIDE DEF s, t
<1>2. /\ Whole(t) /\ StreamsFit(t, open \ {s}) /\ t.refs = tables.refs /\ t.data = tables.data
      /\ \A r \in open \ {s} : HasData(tables.win, r) => HasData(t.win, r)
  BY <1>1, ForgetFits DEF IInv, t
<1>3. CallsFit(rest, open \ {s}, t.win)
  <2>1. \A k \in DOMAIN rest : rest[k].kind \in AboutStream =>
           /\ rest[k].stream \in open \ {s}
           /\ HasData(tables.win, rest[k].stream) => HasData(t.win, rest[k].stream)
    BY <1>1, <1>2 DEF CallsFit
  <2> HIDE DEF rest
  <2> QED BY <1>1, <2>1, CallsKept
<1>4. \A n \in Id : /\ CallsWith(rest, {"urlnotify"}, n) = CallsWith(stack, {"urlnotify"}, n)
                    /\ CallsWith(rest, AboutStream, n) =< requests[n]
  BY PopAboutStream
<1>5. NotifyFit(t, rest)
  BY <1>2, <1>4 DEF IInv, NotifyFit
<1> QED BY <1>1, <1>2, <1>3, <1>5 DEF s, t

LEMMA NewStreamReturnFits ==
    ASSUME IInv, NewStreamReturn
    PROVE  IInv'
<1> DEFINE s == Last(stack).stream
           t == Forgotten(tables, s)
<1>1. /\ stack # <<>> /\ Last(stack).kind \in AboutStream /\ stack' = Front(stack)
      /\ UNCHANGED <<requests, asked, leaked>>
  BY DEF NewStreamReturn, AboutStream
<1>2. CASE UNCHANGED <<tables, open>>
  <2>1. CallsFit(Front(stack), open, tables.win)
    BY <1>1, CallsPopped DEF IInv
  <2>2. NotifyFit(tables, stack)'
    BY <1>1, <1>2, PopAboutStream, NotifyKept DEF IInv
  <2> QED BY <1>1, <1>2, <2>1, <2>2 DEF IInv, Whole, StreamsFit
<1>3. CASE tables' = t /\ open' = open \ {s}
  <2>1. /\ Whole(t) /\ StreamsFit(t, open \ {s}) /\ CallsFit(Front(stack), open \ {s}, t.win)
        /\ NotifyFit(t, Front(stack))
    BY <1>1, ForgetAndPop
  <2> HIDE DEF s, t
  <2>2. Whole(tables') /\ StreamsFit(tables', open') /\ CallsFit(stack', open', tables'.win)
    BY <1>1, <1>3, <2>1
  <2>3. NotifyFit(tables, stack)'
    BY <1>1, <1>3, <2>1 DEF NotifyFit
  <2> QED BY <2>2, <2>3 DEF IInv, Whole, StreamsFit, CallsFit, HasData
<1>4. UNCHANGED <<tables, open>> \/ (tables' = t /\ open' = open \ {s})
  BY DEF NewStreamReturn, Forgotten
<1> QED BY <1>2, <1>3, <1>4

\* The stream that was destroyed may be announced again at once.
LEMMA DestroyStreamReturnFits ==
    ASSUME IInv, DestroyStreamReturn
    PROVE  IInv'
<1> DEFINE f == Last(stack)
           s == f.stream
           t == Forgotten(tables, s)
           rest == Front(stack)
<1>1. /\ stack # <<>> /\ f.kind = "destroystream"
      /\ UNCHANGED <<requests, asked, leaked>>
  BY DEF DestroyStreamReturn
<1>2. /\ s \in open /\ Whole(t) /\ StreamsFit(t, open \ {s})
      /\ CallsFit(rest, open \ {s}, t.win) /\ NotifyFit(t, rest)
  BY <1>1, ForgetAndPop DEF AboutStream
<1>3. f \in Frames
  BY <1>1, CallsPopped DEF IInv
<1>4. IF f.again /\ t.fault = "none"
      THEN Announce(t, s, f.notify, rest)
      ELSE tables' = t /\ open' = open \ {s} /\ stack' = rest
  BY DEF DestroyStreamReturn, Forgotten
<1>5. f.notify # 0 => CallsWith(rest, AboutStream, f.notify) < requests[f.notify]
  <2>1. f.notify # 0 => f.notify \in Id
    BY <1>3 DEF Frames
  <2> QED BY <1>1, <2>1, PopAboutStream DEF AboutStream
<1>6. s \in Stream /\ f.notify \in Id \cup {0}
  BY <1>2, <1>3 DEF IInv, StreamsFit, Frames
<1> HIDE DEF f, s, t, rest
<1>7. CASE f.again /\ t.fault = "none"
  <2>1. open \cup {s} = (open \ {s}) \cup {s}
    OBVIOUS
  <2>2. Announce(t, s, f.notify, rest)
    BY <1>4, <1>7
  <2> QED BY <1>1, <1>2, <1>5, <1>6, <2>1, <2>2, AnnounceFits
<1>8. CASE ~(f.again /\ t.fault = "none")
  <2>1. tables' = t /\ open' = open \ {s} /\ stack' = rest
    BY <1>4, <1>8
  <2>2. Whole(tables') /\ StreamsFit(tables', open') /\ CallsFit(stack', open', tables'.win)
    BY <1>2, <2>1
  <2>3. NotifyFit(tables, stack)'
    BY <1>1, <1>2, <2>1 DEF NotifyFit
  <2> QED BY <2>2, <2>3 DEF IInv, Whole, StreamsFit, CallsFit, HasData
<1> QED BY <1>7, <1>8

\* There is an ID for notify data that has none.
LEMMA RoomForData ==
    ASSUME NEW t, NEW calls, NotifyFit(t, calls), NEW d \in Data,
           \A n \in DOMAIN t.data : t.data[n] # d
    PROVE  GetFreeID(DOMAIN t.data) \in Id \ DOMAIN t.data
<1> DEFINE used == DOMAIN t.data
           f == [n \in used |-> t.data[n]]
<1>1. used \in SUBSET Id
  BY DEF NotifyFit
<1>2. SUFFICES ASSUME used = Id PROVE FALSE
  BY <1>1, GetFreeIDFresh
<1>3. f \in Injection(used, Data \ {d})
  <2>1. \A n \in used : t.data[n] \in Data \ {d}
    BY DEF NotifyFit
  <2>2. f \in [used -> Data \ {d}]
    BY <2>1
  <2>3. \A m, n \in used : f[m] = f[n] => m = n
    BY DEF NotifyFit
  <2> QED BY <2>2, <2>3 DEF Injection, IsInjective
<1>4. /\ IsFiniteSet(Data \ {d}) /\ Cardinality(Data \ {d}) = Cardinality(Data) - 1
      /\ Cardinality(Data) \in Nat
  BY EnoughIdsAssumption, FS_RemoveElement, FS_CardinalityType
<1>5. Cardinality(used) =< Cardinality(Data \ {d})
  <2> HIDE DEF f, used
  <2> QED BY <1>3, <1>4, FS_Injection
<1>6. Cardinality(used) = MaxId /\ MaxId \in Nat
  <2>1. Cardinality(1 .. MaxId) = MaxId /\ MaxId \in Nat
    BY MaxIdAssumption, FS_Interval
  <2> HIDE DEF used
  <2> QED BY <1>2, <2>1 DEF Id
<1> QED BY <1>4, <1>5, <1>6, EnoughIdsAssumption

\* The ID of a pointer: the one it has, or a new one.
DataId(t, d) ==
    LET known == {n \in DOMAIN t.data : t.data[n] = d}
    IN  IF known # {} THEN Min(known) ELSE GetFreeID(DOMAIN t.data)

LEMMA DataIdFits ==
    ASSUME NEW t, NEW calls, NotifyFit(t, calls), NEW d \in Data
    PROVE  /\ DataId(t, d) \in Id
           /\ DataId(t, d) \in DOMAIN t.data => t.data[DataId(t, d)] = d
           /\ \A n \in DOMAIN t.data : t.data[n] = d => n = DataId(t, d)
<1> DEFINE known == {n \in DOMAIN t.data : t.data[n] = d}
<1>1. CASE known # {}
  <2>1. known \in SUBSET Nat /\ known \subseteq Id
    BY DEF NotifyFit, Id
  <2>2. Min(known) \in known
    <3> HIDE DEF known
    <3> QED BY <1>1, <2>1, MinProperties
  <2>3. DataId(t, d) = Min(known)
    BY <1>1 DEF DataId
  <2> QED BY <2>1, <2>2, <2>3 DEF NotifyFit
<1>2. CASE known = {}
  <2>1. DataId(t, d) = GetFreeID(DOMAIN t.data)
    BY <1>2 DEF DataId
  <2>2. \A n \in DOMAIN t.data : t.data[n] # d
    BY <1>2
  <2>3. GetFreeID(DOMAIN t.data) \in Id \ DOMAIN t.data
    BY <2>2, RoomForData
  <2> QED BY <2>1, <2>2, <2>3
<1> QED BY <1>1, <1>2

\* A request is counted before the browser is asked.
LEMMA GetUrlNotifyFits ==
    ASSUME IInv, NEW d \in Data, GetUrlNotify(d)
    PROVE  IInv'
<1> DEFINE n == DataId(tables, d)
           f == Frame("geturl", NULL, n)
           named == [tables EXCEPT !.data = Insert(@, n, d)]
           count == (IF n \in DOMAIN tables.refs THEN tables.refs[n] ELSE 0) + 1
           u == [lin |-> tables.lin, win |-> tables.win, refs |-> Insert(tables.refs, n, count),
                 data |-> Insert(tables.data, n, d), fault |-> "none"]
<1>1. /\ n \in Id /\ n # 0
      /\ n \in DOMAIN tables.data => tables.data[n] = d
      /\ \A m \in DOMAIN tables.data : tables.data[m] = d => m = n
  BY DataIdFits DEF IInv, Id
<1>2. /\ tables' = CountRequest(DbgAssert(named, n # 0, "noFreeId"), n)
      /\ asked' = [asked EXCEPT ![n] = d]
      /\ \/ requests' = [requests EXCEPT ![n] = @ + 1] /\ leaked' = leaked
         \/ leaked' = [leaked EXCEPT ![n] = @ + 1] /\ requests' = requests
      /\ stack' = Append(stack, f) /\ open' = open
  BY DEF GetUrlNotify, Call, DataId
<1> HIDE DEF n
<1>3. tables' = u
  <2>1. named = [lin |-> tables.lin, win |-> tables.win, refs |-> tables.refs,
                 data |-> Insert(tables.data, n, d), fault |-> "none"]
    BY DEF IInv, Whole
  <2> DEFINE refs == Insert(tables.refs, n, count)
  <2>2. CountRequest(named, n) = u
    <3>1. Insert(named.refs, n, (IF n \in DOMAIN named.refs THEN named.refs[n] ELSE 0) + 1) = refs
      BY <2>1
    <3>2. CountRequest(named, n) = [named EXCEPT !.refs = refs]
      <4> HIDE DEF named, refs
      <4> QED BY <3>1 DEF CountRequest
    <3>3. u = [lin |-> tables.lin, win |-> tables.win, refs |-> refs,
               data |-> Insert(tables.data, n, d), fault |-> "none"]
      OBVIOUS
    <3> HIDE DEF named, refs, u
    <3> QED BY <2>1, <3>2, <3>3
  <2>3. DbgAssert(named, n # 0, "noFreeId") = named
    BY <1>1, AssertionHolds
  <2> QED BY <1>2, <2>2, <2>3
<1>4. f \in Frames /\ f.kind \notin AboutStream /\ f.kind # "urlnotify"
  BY <1>1 DEF Frame, Frames, Kinds, AboutStream
<1> HIDE DEF f, u, named
<1>5. CallsFit(stack, open, tables.win)'
  <2>1. CallsFit(Append(stack, f), open, tables.win)
    BY <1>4, CallsPushed DEF IInv, AboutStream
  <2>2. tables'.win = tables.win
    BY <1>3 DEF u
  <2>3. CallsFit(stack', open', tables'.win)
    BY <1>2, <2>1, <2>2
  <2> QED BY <2>3 DEF CallsFit, HasData
<1>6. ASSUME NEW m \in Id
      PROVE  /\ CallsWith(stack', {"urlnotify"}, m) = CallsWith(stack, {"urlnotify"}, m)
             /\ CallsWith(stack', AboutStream, m) = CallsWith(stack, AboutStream, m)
             /\ CallsWith(stack, {"urlnotify"}, m) \in Nat
             /\ CallsWith(stack, AboutStream, m) \in Nat
  <2>1. stack \in Seq(Frames)
    BY DEF IInv, CallsFit
  <2>2. /\ CallsWith(stack', {"urlnotify"}, m) = CallsWith(stack, {"urlnotify"}, m) + 0
        /\ CallsWith(stack', AboutStream, m) = CallsWith(stack, AboutStream, m) + 0
    BY <1>2, <1>4, <2>1, CallsWithAppend DEF One
  <2>3. /\ CallsWith(stack, {"urlnotify"}, m) \in Nat
        /\ CallsWith(stack, AboutStream, m) \in Nat
    BY <2>1, CallsWithIsCount
  <2> QED BY <2>2, <2>3
<1>7. requests \in [Id -> Nat] /\ leaked \in [Id -> Nat]
  BY DEF IInv, NotifyFit
<1>8. /\ requests' \in [Id -> Nat] /\ leaked' \in [Id -> Nat]
      /\ requests'[n] + leaked'[n] = requests[n] + leaked[n] + 1
      /\ requests'[n] >= requests[n]
      /\ \A m \in Id : m # n => requests'[m] = requests[m] /\ leaked'[m] = leaked[m]
  <2>1. requests[n] \in Nat /\ leaked[n] \in Nat
    BY <1>1, <1>7
  <2>2. CASE requests' = [requests EXCEPT ![n] = @ + 1] /\ leaked' = leaked
    BY <2>1, <2>2, <1>1, <1>7
  <2>3. CASE leaked' = [leaked EXCEPT ![n] = @ + 1] /\ requests' = requests
    BY <2>1, <2>3, <1>1, <1>7
  <2> QED BY <1>2, <2>2, <2>3
<1>9. /\ DOMAIN tables'.refs = DOMAIN tables.refs \cup {n} /\ tables'.refs[n] = count
      /\ \A m \in DOMAIN tables.refs : m # n => tables'.refs[m] = tables.refs[m]
      /\ DOMAIN tables'.data = DOMAIN tables.data \cup {n} /\ tables'.data[n] = d
      /\ \A m \in DOMAIN tables.data : m # n => tables'.data[m] = tables.data[m]
  <2> HIDE DEF count
  <2> QED BY <1>3 DEF u, Insert
<1>10. \A m \in Id : requests'[m] + CallsWith(stack', {"urlnotify"}, m) + leaked'[m] =
                        IF m \in DOMAIN tables'.refs THEN tables'.refs[m] ELSE 0
  <2>1. ASSUME NEW m \in Id
        PROVE  requests'[m] + CallsWith(stack', {"urlnotify"}, m) + leaked'[m] =
                  IF m \in DOMAIN tables'.refs THEN tables'.refs[m] ELSE 0
    <3>1. /\ requests[m] \in Nat /\ leaked[m] \in Nat /\ requests'[m] \in Nat /\ leaked'[m] \in Nat
          /\ CallsWith(stack, {"urlnotify"}, m) \in Nat
          /\ CallsWith(stack', {"urlnotify"}, m) = CallsWith(stack, {"urlnotify"}, m)
          /\ requests[m] + CallsWith(stack, {"urlnotify"}, m) + leaked[m] =
                IF m \in DOMAIN tables.refs THEN tables.refs[m] ELSE 0
      BY <1>6, <1>7, <1>8 DEF IInv, NotifyFit
    <3>2. CASE m = n
      <4>1. requests'[m] + CallsWith(stack', {"urlnotify"}, m) + leaked'[m] = count
        BY <3>1, <3>2, <1>8
      <4> QED BY <4>1, <3>2, <1>9
    <3>3. CASE m # n
      <4>1. requests'[m] + CallsWith(stack', {"urlnotify"}, m) + leaked'[m] =
              IF m \in DOMAIN tables.refs THEN tables.refs[m] ELSE 0
        BY <3>1, <3>3, <1>8
      <4> QED BY <4>1, <3>3, <1>9
    <3> QED BY <3>2, <3>3
  <2> QED BY <2>1
<1>11. \A m \in Id : CallsWith(stack', AboutStream, m) =< requests'[m]
  <2>1. ASSUME NEW m \in Id PROVE CallsWith(stack', AboutStream, m) =< requests'[m]
    <3>1. /\ requests[m] \in Nat /\ requests'[m] \in Nat /\ requests'[m] >= requests[m]
          /\ CallsWith(stack, AboutStream, m) \in Nat
          /\ CallsWith(stack', AboutStream, m) = CallsWith(stack, AboutStream, m)
          /\ CallsWith(stack, AboutStream, m) =< requests[m]
      BY <1>6, <1>7, <1>8 DEF IInv, NotifyFit
    <3> QED BY <3>1
  <2> QED BY <2>1
<1>12. /\ DOMAIN tables'.refs \subseteq Id /\ DOMAIN tables'.data = DOMAIN tables'.refs
       /\ DOMAIN asked' = Id
       /\ \A m \in DOMAIN tables'.data : tables'.data[m] \in Data /\ tables'.data[m] = asked'[m]
  <2>1. DOMAIN asked = Id /\ DOMAIN tables.refs \subseteq Id /\ DOMAIN tables.data = DOMAIN tables.refs
        /\ \A m \in DOMAIN tables.data : tables.data[m] \in Data /\ tables.data[m] = asked[m]
    BY DEF IInv, NotifyFit
  <2>2. DOMAIN asked' = Id /\ asked'[n] = d /\ \A m \in Id : m # n => asked'[m] = asked[m]
    BY <1>1, <1>2, <2>1
  <2>3. ASSUME NEW m \in DOMAIN tables'.data
        PROVE  tables'.data[m] \in Data /\ tables'.data[m] = asked'[m]
    <3>1. CASE m = n
      BY <3>1, <1>9, <2>2
    <3>2. CASE m # n
      BY <3>2, <1>9, <2>1, <2>2
    <3> QED BY <3>1, <3>2
  <2>4. DOMAIN tables'.refs \subseteq Id /\ DOMAIN tables'.data = DOMAIN tables'.refs
    BY <1>1, <1>9, <2>1
  <2> QED BY <2>2, <2>3, <2>4
<1>13. ASSUME NEW k \in DOMAIN tables'.data, NEW m \in DOMAIN tables'.data,
              tables'.data[k] = tables'.data[m]
       PROVE  k = m
  <2>1. CASE k = n \/ m = n
    BY <2>1, <1>1, <1>9, <1>13
  <2>2. CASE k # n /\ m # n
    <3>1. k \in DOMAIN tables.data /\ m \in DOMAIN tables.data /\ tables.data[k] = tables.data[m]
      BY <2>2, <1>9, <1>13
    <3> QED BY <3>1 DEF IInv, NotifyFit
  <2> QED BY <2>1, <2>2
<1>14. NotifyFit(tables, stack)'
  BY <1>8, <1>10, <1>11, <1>12, <1>13 DEF NotifyFit
<1>15. /\ tables'.lin = tables.lin /\ tables'.win = tables.win
       /\ Whole(tables')
  BY <1>3 DEF u, Whole
<1>16. StreamsFit(tables', open')
  BY <1>2, <1>15 DEF IInv, StreamsFit
<1> QED BY <1>5, <1>14, <1>15, <1>16 DEF IInv, Whole, StreamsFit

\* The answer has been given; with the last one the data goes.
LEMMA UrlNotifyReturnFits ==
    ASSUME IInv, UrlNotifyReturn
    PROVE  IInv'
<1> DEFINE f == Last(stack)
           n == f.notify
           rest == Front(stack)
           live == DbgAssert(tables, n \in DOMAIN tables.refs /\ tables.refs[n] > 0, "zeroCount")
<1>1. /\ stack # <<>> /\ f.kind = "urlnotify" /\ stack' = rest
      /\ UNCHANGED <<open, requests, asked, leaked>>
      /\ tables' = IF live.fault # "none" THEN live
                   ELSE IF tables.refs[n] > 1 THEN [tables EXCEPT !.refs[n] = @ - 1]
                   ELSE DbgAssert([tables EXCEPT !.refs = Erase(@, n), !.data = Erase(@, n)],
                                  n \in DOMAIN tables.data, "unknown")
  BY DEF UrlNotifyReturn
<1>2. /\ CallsFit(rest, open, tables.win) /\ n \in Id
      /\ stack \in Seq(Frames) /\ rest \in Seq(Frames)
  <2>1. CallsFit(stack, open, tables.win) /\ stack # <<>> /\ stack \in Seq(Frames)
    BY <1>1 DEF IInv, CallsFit
  <2>2. CallsFit(rest, open, tables.win) /\ n \in Id
    BY <1>1, <2>1, CallsPopped
  <2>3. rest \in Seq(Frames)
    BY <2>1, FrontAndLast
  <2> QED BY <2>1, <2>2, <2>3
<1>3. ASSUME NEW m \in Id
      PROVE  /\ CallsWith(stack, {"urlnotify"}, m) = CallsWith(rest, {"urlnotify"}, m) + (IF n = m THEN 1 ELSE 0)
             /\ CallsWith(rest, {"urlnotify"}, m) \in Nat
             /\ CallsWith(rest, AboutStream, m) = CallsWith(stack, AboutStream, m)
             /\ CallsWith(rest, AboutStream, m) \in Nat
  <2>1. /\ CallsWith(stack, {"urlnotify"}, m) = CallsWith(rest, {"urlnotify"}, m) + One(f, {"urlnotify"}, m)
        /\ CallsWith(stack, AboutStream, m) = CallsWith(rest, AboutStream, m) + One(f, AboutStream, m)
    BY <1>1, <1>2, CallsWithFront
  <2>2. One(f, {"urlnotify"}, m) = (IF n = m THEN 1 ELSE 0) /\ One(f, AboutStream, m) = 0
    BY <1>1 DEF One, AboutStream
  <2>3. /\ CallsWith(rest, {"urlnotify"}, m) \in Nat
        /\ CallsWith(rest, AboutStream, m) \in Nat
    BY <1>2, CallsWithIsCount
  <2> QED BY <2>1, <2>2, <2>3
<1> HIDE DEF n, rest, f
<1>4. ASSUME NEW m \in Id
      PROVE  /\ requests[m] \in Nat /\ leaked[m] \in Nat
             /\ CallsWith(stack, AboutStream, m) =< requests[m]
             /\ requests[m] + CallsWith(stack, {"urlnotify"}, m) + leaked[m] =
                  IF m \in DOMAIN tables.refs THEN tables.refs[m] ELSE 0
  BY DEF IInv, NotifyFit
<1>5. /\ n \in DOMAIN tables.refs /\ n \in DOMAIN tables.data
      /\ tables.refs[n] = requests[n] + CallsWith(rest, {"urlnotify"}, n) + 1 + leaked[n]
      /\ tables.refs[n] \in Nat /\ tables.refs[n] > 0
  <2>1. requests[n] + CallsWith(rest, {"urlnotify"}, n) + 1 + leaked[n] =
           IF n \in DOMAIN tables.refs THEN tables.refs[n] ELSE 0
    <3>1. /\ CallsWith(stack, {"urlnotify"}, n) = CallsWith(rest, {"urlnotify"}, n) + 1
          /\ CallsWith(rest, {"urlnotify"}, n) \in Nat
      BY <1>2, <1>3
    <3>2. /\ requests[n] \in Nat /\ leaked[n] \in Nat
          /\ requests[n] + CallsWith(stack, {"urlnotify"}, n) + leaked[n] =
                IF n \in DOMAIN tables.refs THEN tables.refs[n] ELSE 0
      BY <1>2, <1>4
    <3>3. requests[n] + CallsWith(stack, {"urlnotify"}, n) + leaked[n] =
            requests[n] + CallsWith(rest, {"urlnotify"}, n) + 1 + leaked[n]
      BY <3>1, <3>2
    <3> QED BY <3>2, <3>3
  <2>2. n \in DOMAIN tables.refs
    BY <1>2, <1>3, <1>4, <2>1
  <2>3. n \in DOMAIN tables.data
    BY <2>2 DEF IInv, NotifyFit
  <2> QED BY <1>2, <1>3, <1>4, <2>1, <2>2, <2>3, SMTT(60)
<1>6. live = tables /\ tables.fault = "none"
  <2>1. tables.refs[n] > 0
    BY <1>5
  <2>2. live = tables
    BY <1>5, <2>1, AssertionHolds
  <2> QED BY <2>2 DEF IInv, Whole
<1> HIDE DEF live
<1>7. \A m \in Id : CallsWith(rest, AboutStream, m) =< requests[m]
  BY <1>3, <1>4
<1>8. CASE tables.refs[n] > 1
  <2> DEFINE fewer == [tables.refs EXCEPT ![n] = @ - 1]
             u == [lin |-> tables.lin, win |-> tables.win, refs |-> fewer,
                   data |-> tables.data, fault |-> "none"]
  <2>1. tables' = [tables EXCEPT !.refs = fewer]
    BY <1>1, <1>6, <1>8
  <2>2. DOMAIN fewer = DOMAIN tables.refs /\ fewer[n] = tables.refs[n] - 1
        /\ \A m \in DOMAIN tables.refs : m # n => fewer[m] = tables.refs[m]
    BY <1>5
  <2> HIDE DEF fewer
  <2>3. tables' = u
    BY <2>1 DEF IInv, Whole
  <2> HIDE DEF u
  <2>4. /\ tables'.lin = tables.lin /\ tables'.win = tables.win
        /\ tables'.refs = fewer /\ tables'.data = tables.data /\ Whole(tables')
    BY <2>3 DEF u, Whole
  <2>5. ASSUME NEW m \in Id
        PROVE  requests[m] + CallsWith(rest, {"urlnotify"}, m) + leaked[m] =
                 IF m \in DOMAIN fewer THEN fewer[m] ELSE 0
    <3>1. CASE m = n
      BY <3>1, <1>2, <1>3, <1>4, <1>5, <2>2, SMTT(60)
    <3>2. CASE m # n
      BY <3>2, <1>3, <1>4, <2>2
    <3> QED BY <3>1, <3>2
  <2>6. NotifyFit(tables, stack)'
    BY <1>1, <1>7, <2>2, <2>4, <2>5 DEF IInv, NotifyFit
  <2>7. StreamsFit(tables', open') /\ CallsFit(stack', open', tables'.win)
    BY <1>1, <1>2, <2>4, SMTT(60) DEF IInv, StreamsFit
  <2> QED BY <2>4, <2>6, <2>7 DEF IInv, Whole, StreamsFit, CallsFit, HasData
<1>9. CASE ~(tables.refs[n] > 1)
  <2> DEFINE u == [lin |-> tables.lin, win |-> tables.win, refs |-> Erase(tables.refs, n),
                   data |-> Erase(tables.data, n), fault |-> "none"]
  <2>1. tables' = DbgAssert([tables EXCEPT !.refs = Erase(@, n), !.data = Erase(@, n)],
                            n \in DOMAIN tables.data, "unknown")
    BY <1>1, <1>6, <1>9
  <2>2. [tables EXCEPT !.refs = Erase(@, n), !.data = Erase(@, n)] = u
    <3> DEFINE fewer == Erase(tables.refs, n)
               rather == Erase(tables.data, n)
    <3>1. tables = [lin |-> tables.lin, win |-> tables.win, refs |-> tables.refs,
                    data |-> tables.data, fault |-> "none"]
      BY DEF IInv, Whole
    <3> HIDE DEF fewer, rather
    <3>2. [tables EXCEPT !.refs = fewer] =
            [lin |-> tables.lin, win |-> tables.win, refs |-> fewer, data |-> tables.data, fault |-> "none"]
      BY <3>1
    <3> DEFINE half == [tables EXCEPT !.refs = fewer]
    <3>3. [tables EXCEPT !.refs = fewer, !.data = rather] = [half EXCEPT !.data = rather]
      BY <3>1
    <3> HIDE DEF half
    <3>4. [half EXCEPT !.data = rather] =
            [lin |-> tables.lin, win |-> tables.win, refs |-> fewer, data |-> rather, fault |-> "none"]
      <4>1. half = [lin |-> tables.lin, win |-> tables.win, refs |-> fewer, data |-> tables.data, fault |-> "none"]
        BY <3>2 DEF half
      <4> QED BY <4>1
    <3> QED BY <3>3, <3>4 DEF fewer, rather
  <2>3. tables' = u
    BY <1>5, <2>1, <2>2, AssertionHolds
  <2> HIDE DEF u
  <2>4. /\ tables'.lin = tables.lin /\ tables'.win = tables.win
        /\ tables'.refs = Erase(tables.refs, n) /\ tables'.data = Erase(tables.data, n)
        /\ Whole(tables')
    BY <2>3 DEF u, Whole
  <2>5. /\ DOMAIN tables'.refs = DOMAIN tables.refs \ {n}
        /\ DOMAIN tables'.data = DOMAIN tables.data \ {n}
        /\ \A m \in DOMAIN tables'.refs : tables'.refs[m] = tables.refs[m]
        /\ \A m \in DOMAIN tables'.data : tables'.data[m] = tables.data[m]
    BY <2>4 DEF Erase
  <2>6. tables.refs[n] = 1 /\ requests[n] + CallsWith(rest, {"urlnotify"}, n) + leaked[n] = 0
    BY <1>2, <1>3, <1>4, <1>5, <1>9
  <2>7. ASSUME NEW m \in Id
        PROVE  requests[m] + CallsWith(rest, {"urlnotify"}, m) + leaked[m] =
                 IF m \in DOMAIN tables'.refs THEN tables'.refs[m] ELSE 0
    <3>1. CASE m = n
      BY <3>1, <2>5, <2>6
    <3>2. CASE m # n
      BY <3>2, <1>3, <1>4, <2>5
    <3> QED BY <3>1, <3>2
  <2>8. NotifyFit(tables, stack)'
    <3>1. /\ DOMAIN tables'.refs \subseteq Id /\ DOMAIN tables'.data = DOMAIN tables'.refs
          /\ \A m \in DOMAIN tables'.data : tables'.data[m] \in Data /\ tables'.data[m] = asked[m]
          /\ \A k, m \in DOMAIN tables'.data : tables'.data[k] = tables'.data[m] => k = m
      BY <2>5 DEF IInv, NotifyFit
    <3>2. requests \in [Id -> Nat] /\ leaked \in [Id -> Nat] /\ DOMAIN asked = Id
      BY DEF IInv, NotifyFit
    <3> QED BY <1>1, <1>7, <2>7, <3>1, <3>2 DEF NotifyFit
  <2>9. StreamsFit(tables', open') /\ CallsFit(stack', open', tables'.win)
    BY <1>1, <1>2, <2>4, SMTT(60) DEF IInv, StreamsFit
  <2> QED BY <2>4, <2>8, <2>9 DEF IInv, Whole, StreamsFit, CallsFit, HasData
<1> QED BY <1>8, <1>9

-----------------------------------------------------------------------------
LEMMA InitFits == Init => IInv
<1> SUFFICES ASSUME Init PROVE IInv
  OBVIOUS
<1>1. Whole(tables) /\ StreamsFit(tables, open)
  BY DEF Init, Empty, Whole, StreamsFit
<1>2. CallsFit(stack, open, tables.win)
  BY DEF Init, CallsFit
<1>3. ASSUME NEW K, NEW n PROVE CallsWith(stack, K, n) = 0
  <2>1. {k \in DOMAIN stack : stack[k].kind \in K /\ stack[k].notify = n} = {}
    BY DEF Init
  <2> QED BY <2>1, FS_EmptySet DEF CallsWith
<1>4. NotifyFit(tables, stack)
  BY <1>3 DEF Init, Empty, NotifyFit
<1> QED BY <1>1, <1>2, <1>4 DEF IInv

LEMMA IInvInductive == IInv /\ [Next]_vars => IInv'
<1> SUFFICES ASSUME IInv, [Next]_vars PROVE IInv'
  OBVIOUS
<1>1. ASSUME NEW s \in Stream, NEW n \in Id \cup {0}, NewStream(s, n) PROVE IInv'
  BY <1>1, NewStreamFits
<1>2. ASSUME NEW s \in Stream, DestroyStream(s) PROVE IInv'
  BY <1>2, DestroyStreamFits
<1>3. ASSUME NEW s \in Stream, Write(s) PROVE IInv'
  BY <1>3, WriteFits
<1>4. ASSUME NEW n \in Id, UrlNotify(n) PROVE IInv'
  BY <1>4, UrlNotifyFits
<1>5. ASSUME NEW d \in Data, GetUrlNotify(d) PROVE IInv'
  BY <1>5, GetUrlNotifyFits
<1>6. ASSUME NEW i \in Id, PluginDestroyStream(i) PROVE IInv'
  BY <1>6, PluginDestroyStreamFits
<1>7. Events \/ BrowserReturn \/ BrowserNewStreamReturn => IInv'
  BY EventsFits, BrowserReturnFits, BrowserNewStreamReturnFits
<1>8. PluginNewStream \/ PluginReturn => IInv'
  BY PluginNewStreamFits, PluginReturnFits
<1>9. NewStreamReturn \/ DestroyStreamReturn \/ UrlNotifyReturn => IInv'
  BY NewStreamReturnFits, DestroyStreamReturnFits, UrlNotifyReturnFits
<1>10. CASE UNCHANGED vars
  BY <1>10 DEF vars, IInv, Whole, StreamsFit, CallsFit, HasData, NotifyFit, CallsWith
<1> QED BY <1>1, <1>2, <1>3, <1>4, <1>5, <1>6, <1>7, <1>8, <1>9, <1>10 DEF Next, Browser, Plugin

LEMMA IInvAlways == Spec => []IInv
BY InitFits, IInvInductive, PTL DEF Spec

\* No assertion fires, whatever the browser and the plugin do in nested calls.
THEOREM AssertionsNeverFail == Spec => []NoAssertionFails
<1>1. IInv => NoAssertionFails
  BY DEF IInv, Whole, NoAssertionFails
<1> QED BY <1>1, IInvAlways, PTL

\* Both sides always know the same streams, namely those the browser has open.
THEOREM StreamsAlwaysAgree == Spec => []StreamsAgree
<1>1. IInv => StreamsAgree
  BY DEF IInv, StreamsFit, StreamsAgree
<1> QED BY <1>1, IInvAlways, PTL

\* Notify data always lives exactly as long as something refers to it.
THEOREM NotifyAlwaysBalances == Spec => []NotifyCountsBalance
<1>1. IInv => NotifyCountsBalance
  BY DEF IInv, NotifyFit, NotifyCountsBalance, InCall
<1> QED BY <1>1, IInvAlways, PTL

\* What the plugin gets back is always the pointer it made the request with.
THEOREM DataAlwaysIntact == Spec => []DataIntact
<1>1. IInv => DataIntact
  <2> SUFFICES ASSUME IInv PROVE DataIntact
    OBVIOUS
  <2>1. ASSUME NEW n \in Id, requests[n] + InCall(n) > 0
        PROVE  n \in DOMAIN tables.data /\ tables.data[n] = asked[n]
    <3>1. stack \in Seq(Frames)
      BY DEF IInv, CallsFit
    <3>2. InCall(n) \in Nat /\ requests[n] \in Nat /\ leaked[n] \in Nat
      BY <3>1, CallsWithIsCount DEF IInv, NotifyFit, InCall
    <3>3. requests[n] + InCall(n) + leaked[n] =
            IF n \in DOMAIN tables.refs THEN tables.refs[n] ELSE 0
      BY DEF IInv, NotifyFit, InCall
    <3>4. n \in DOMAIN tables.refs
      BY <2>1, <3>2, <3>3
    <3> QED BY <3>4 DEF IInv, NotifyFit
  <2>2. ASSUME NEW k \in DOMAIN stack, stack[k].kind = "newstream", stack[k].notify # 0
        PROVE  \E i \in DOMAIN tables.win :
                  /\ tables.win[i].stream = stack[k].stream
                  /\ tables.win[i].data # NULL
    BY <2>2 DEF IInv, CallsFit, HasData
  <2> QED BY <2>1, <2>2 DEF DataIntact
<1> QED BY <1>1, IInvAlways, PTL
=============================================================================

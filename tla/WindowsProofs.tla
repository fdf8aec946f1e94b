---------------------------- MODULE WindowsProofs ----------------------------
(***************************************************************************)
(* What a plugin asks to have drawn again is never forgotten, it paints in *)
(* the right place, and its window is what it was once its events have     *)
(* been handled, for any number of instances, drawables, positions and     *)
(* nested handlers.                                                        *)
(***************************************************************************)
EXTENDS Windows, SequenceTheorems, TLAPS

Browsers  == {None} \cup UNION {Position[i] : i \in Instance}
Drawables == {None} \cup UNION {Drawable[i] : i \in Instance}
Held      == {"hWnd", "GetDC", "BeginPaint", "hDC", None}

FrameRecord ==
    [kind : {"plain", "destroy", "show", "setwindow", "paint", "input", "mouse", "process"},
     of : Instance \cup {None}, was : Held, browser : Browsers, fresh : BOOLEAN]

DCRecord == [held : Int, drawable : Drawables, rect : Browsers, refused : BOOLEAN]

TypeOK ==
    /\ mode \in {"windowed", "windowless", "linux"}
    /\ data \in [Instance -> NetscapeData \cup {None}]
    /\ pendingInvalidateLinuxWindowless \in BOOLEAN
    /\ frames \in Seq(FrameRecord)
    /\ wine \in [Instance -> DCRecord]
    /\ asked \in [Instance -> SUBSET Everything]

-----------------------------------------------------------------------------
LEMMA AppendProperty ==
    ASSUME NEW S, NEW s \in Seq(S), NEW e
    PROVE  /\ Len(s) \in Nat /\ Len(Append(s, e)) = Len(s) + 1
           /\ Append(s, e)[Len(s) + 1] = e
           /\ \A n \in 1 .. Len(s) : Append(s, e)[n] = s[n]
OBVIOUS

LEMMA PushProperties ==
    ASSUME NEW S, NEW s \in Seq(S), NEW e \in S
    PROVE  /\ Append(s, e) \in Seq(S) /\ Len(Append(s, e)) = Len(s) + 1
           /\ Append(s, e)[Len(s) + 1] = e
           /\ \A n \in 1 .. Len(s) : Append(s, e)[n] = s[n]
OBVIOUS

LEMMA FunctionIsSequence ==
    ASSUME NEW S, NEW n \in Nat, NEW f \in [1 .. n -> S] PROVE f \in Seq(S) /\ Len(f) = n
OBVIOUS

LEMMA PopProperties ==
    ASSUME NEW S, NEW s \in Seq(S), s # <<>>
    PROVE  /\ Len(s) \in Nat \ {0} /\ s[Len(s)] \in S
           /\ SubSeq(s, 1, Len(s) - 1) \in Seq(S) /\ Len(SubSeq(s, 1, Len(s) - 1)) = Len(s) - 1
           /\ \A n \in 1 .. Len(s) - 1 : SubSeq(s, 1, Len(s) - 1)[n] = s[n]
<1> DEFINE last == Len(s) - 1
           short == SubSeq(s, 1, last)
<1>1. Len(s) \in Nat \ {0} /\ last \in Nat
  OBVIOUS
<1>2. s[Len(s)] \in S /\ \A n \in 1 .. last : s[n] \in S
  BY <1>1
<1>3. short = [n \in 1 .. last |-> s[n]]
  BY <1>1
<1> HIDE DEF short, last
<1>4. short \in [1 .. last -> S]
  BY <1>2, <1>3
<1>5. short \in Seq(S) /\ Len(short) = last
  BY <1>1, <1>4, FunctionIsSequence
<1> QED BY <1>1, <1>2, <1>3, <1>5 DEF short, last

\* e is NetscapeData again, with the same request to draw again as d.
SameRequest(d, e) ==
    e \in NetscapeData /\ e.invalidate = d.invalidate /\ e.invalidateRect = d.invalidateRect

LEMMA DataTypes ==
    ASSUME NEW d \in NetscapeData
    PROVE  /\ SameRequest(d, WithWindow(d))
           /\ \A v \in BOOLEAN : /\ SameRequest(d, [d EXCEPT !.windowlessMode = v])
                                 /\ SameRequest(d, WithWindow([d EXCEPT !.windowlessMode = v]))
           /\ \A w \in Held : SameRequest(d, [d EXCEPT !.window = w])
           /\ \A b \in Browsers :
                 /\ SameRequest(d, [d EXCEPT !.browser = b])
                 /\ SameRequest(d, [d EXCEPT !.browser = b, !.hWnd = TRUE])
                 /\ SameRequest(d, [d EXCEPT !.browser = b, !.hDC = TRUE, !.window = "hDC", !.type = "Drawable"])
           /\ \A x \in Drawables : SameRequest(d, [d EXCEPT !.lastDrawableDC = x])
BY ZenonT(60) DEF NetscapeData, WithWindow, Held, Browsers, Drawables, SameRequest

LEMMA RequestTypes ==
    ASSUME NEW d \in NetscapeData
    PROVE  /\ [d EXCEPT !.invalidate = "nothing"] \in NetscapeData
           /\ [d EXCEPT !.invalidate = "everything"] \in NetscapeData
           /\ \A r \in Rect : /\ [d EXCEPT !.invalidate = "rect", !.invalidateRect = r] \in NetscapeData
                              /\ [d EXCEPT !.invalidateRect = r] \in NetscapeData
BY DEF NetscapeData

LEMMA FrameTypes ==
    ASSUME NEW i \in Instance \cup {None},
           NEW kind \in {"plain", "destroy", "show", "setwindow", "paint", "input", "mouse", "process"}
    PROVE  /\ Frame(kind, i) \in FrameRecord
           /\ \A w \in Held : [Frame(kind, i) EXCEPT !.was = w] \in FrameRecord
           /\ \A b \in Browsers : [Frame(kind, i) EXCEPT !.browser = b] \in FrameRecord
BY DEF Frame, FrameRecord, Held, Browsers

LEMMA DCTypes ==
    ASSUME NEW dc \in DCRecord
    PROVE  /\ \A h \in Int : [dc EXCEPT !.held = h] \in DCRecord
           /\ \A x \in Drawables, b \in Browsers :
                 [dc EXCEPT !.drawable = x, !.rect = b, !.refused = FALSE] \in DCRecord
           /\ [dc EXCEPT !.refused = TRUE] \in DCRecord
BY DEF DCRecord

LEMMA RectPoints == ASSUME NEW r \in Rect PROVE Points(r) \subseteq Everything
BY SizeAssumption DEF Rect, Points, Everything

LEMMA MergeCovers ==
    ASSUME NEW old \in Rect, NEW r \in Rect
    PROVE  /\ Merge(old, r) \in Rect
           /\ Points(old) \cup Points(r) \subseteq Points(Merge(old, r))
BY SizeAssumption DEF Rect, Points, Merge, Lesser, Greater

-----------------------------------------------------------------------------
\* What is on the stack belongs to instances that are there, and below the
\* handler that destroys an instance there is nothing of it.
StackOK ==
    /\ \A f \in 1 .. Len(frames) : frames[f].kind # "process" => frames[f].of \in Instance /\ Alive(frames[f].of)
    /\ \A f, g \in 1 .. Len(frames) : f < g /\ frames[g].kind = "destroy" => frames[f].of # frames[g].of

\* The ways a step changes the stack: not at all, a handler begins, one ends,
\* or FUNCTION_NPP_SET_WINDOW has shown the window.
Begins(frame) ==
    /\ Push(frame) /\ frame \in FrameRecord
    /\ frame.kind # "process" => frame.of \in Instance /\ data'[frame.of] # None
    /\ frame.kind = "destroy" => \A f \in 1 .. Len(frames) : frames[f].of # frame.of

Ends == frames # <<>> /\ frames' = Pop

Shown == /\ frames # <<>> /\ Top.kind = "show"
         /\ frames' = Append(Pop, [Top EXCEPT !.kind = "setwindow"])

StackMoves == UNCHANGED frames \/ (\E frame : Begins(frame)) \/ Ends \/ Shown

LEMMA TopAndPop ==
    ASSUME frames \in Seq(FrameRecord), frames # <<>>
    PROVE  /\ Top = frames[Len(frames)] /\ Top \in FrameRecord /\ Len(frames) \in Nat \ {0}
           /\ Pop \in Seq(FrameRecord) /\ Len(Pop) = Len(frames) - 1
           /\ \A n \in 1 .. Len(Pop) : Pop[n] = frames[n]
BY PopProperties DEF Top, Pop

LEMMA StackStep ==
    ASSUME frames \in Seq(FrameRecord), StackOK, StackMoves,
           \A j \in Instance : Alive(j) => Alive(j)'
    PROVE  frames' \in Seq(FrameRecord) /\ StackOK'
<1>1. CASE UNCHANGED frames
  BY <1>1 DEF StackOK, Alive
<1>2. ASSUME NEW frame, Begins(frame) PROVE frames' \in Seq(FrameRecord) /\ StackOK'
  <2>1. /\ frames' \in Seq(FrameRecord) /\ Len(frames) \in Nat /\ Len(frames') = Len(frames) + 1
        /\ frames'[Len(frames) + 1] = frame
        /\ \A n \in 1 .. Len(frames) : frames'[n] = frames[n]
    BY <1>2, PushProperties DEF Begins, Push
  <2>2. \A n \in 1 .. Len(frames') : n \in 1 .. Len(frames) \/ n = Len(frames) + 1
    BY <2>1
  <2>3. ASSUME NEW f \in 1 .. Len(frames'), frames'[f].kind # "process"
        PROVE  frames'[f].of \in Instance /\ data'[frames'[f].of] # None
    BY <1>2, <2>1, <2>2, <2>3 DEF StackOK, Begins, Alive
  <2>4. ASSUME NEW f \in 1 .. Len(frames'), NEW g \in 1 .. Len(frames'), f < g, frames'[g].kind = "destroy"
        PROVE  frames'[f].of # frames'[g].of
    <3>1. f \in 1 .. Len(frames)
      BY <2>1, <2>4
    <3> QED BY <1>2, <2>1, <2>2, <2>4, <3>1 DEF StackOK, Begins
  <2> QED BY <2>1, <2>3, <2>4 DEF StackOK, Alive
<1>3. CASE Ends
  <2>1. /\ frames' \in Seq(FrameRecord) /\ \A n \in 1 .. Len(frames') : n \in 1 .. Len(frames)
        /\ \A n \in 1 .. Len(frames') : frames'[n] = frames[n]
    BY <1>3, TopAndPop DEF Ends
  <2> QED BY <2>1 DEF StackOK, Alive
<1>4. CASE Shown
  <2> DEFINE frame == [Top EXCEPT !.kind = "setwindow"]
  <2>1. frame \in FrameRecord /\ frame.of = Top.of /\ frame.kind = "setwindow"
    BY <1>4, TopAndPop DEF Shown, FrameRecord
  <2>2. /\ frames' \in Seq(FrameRecord) /\ Len(frames) \in Nat /\ Len(frames') = Len(frames)
        /\ frames'[Len(frames)] = frame
        /\ \A n \in 1 .. Len(frames) - 1 : frames'[n] = frames[n]
    BY <1>4, <2>1, TopAndPop, PushProperties DEF Shown
  <2>3. /\ \A n \in 1 .. Len(frames) : frames'[n].of = frames[n].of
        /\ \A n \in 1 .. Len(frames) : frames'[n].kind \in {frames[n].kind, "setwindow"}
        /\ \A n \in 1 .. Len(frames) : frames[n].kind = "process" => frames'[n].kind = "process"
    BY <1>4, <2>1, <2>2, TopAndPop DEF Shown
  <2> QED BY <2>2, <2>3 DEF StackOK, Alive
<1> QED BY <1>1, <1>2, <1>3, <1>4 DEF StackMoves

\* A handler of instance i may begin with these frames.
LEMMA MayBegin ==
    ASSUME NEW i \in Instance, data'[i] # None,
           NEW kind \in {"plain", "destroy", "show", "setwindow", "paint", "input", "mouse"},
           kind = "destroy" => \A f \in 1 .. Len(frames) : frames[f].of # i
    PROVE  /\ Push(Frame(kind, i)) => StackMoves
           /\ \A w \in Held : Push([Frame(kind, i) EXCEPT !.was = w]) => StackMoves
           /\ \A b \in Browsers : Push([Frame(kind, i) EXCEPT !.browser = b]) => StackMoves
<1>1. ASSUME NEW frame \in FrameRecord, frame.of = i, frame.kind = kind, Push(frame)
      PROVE  StackMoves
  BY <1>1 DEF StackMoves, Begins
<1>2. /\ Frame(kind, i).of = i /\ Frame(kind, i).kind = kind
      /\ \A w : [Frame(kind, i) EXCEPT !.was = w].of = i /\ [Frame(kind, i) EXCEPT !.was = w].kind = kind
      /\ \A b : /\ [Frame(kind, i) EXCEPT !.browser = b].of = i
                /\ [Frame(kind, i) EXCEPT !.browser = b].kind = kind
  BY DEF Frame
<1> QED BY <1>1, <1>2, FrameTypes

-----------------------------------------------------------------------------
\* With what is needed of the rectangle: there is one if there is said to be.
IInv ==
    /\ TypeOK
    /\ StackOK
    /\ \A i \in Instance : Alive(i) /\ data[i].invalidate = "rect" => data[i].invalidateRect \in Rect
    /\ InvalidationsCovered

LEMMA InitRight == Init => IInv
<1> SUFFICES ASSUME Init PROVE IInv
  OBVIOUS
<1>1. NoDC \in DCRecord
  BY DEF NoDC, DCRecord, Drawables, Browsers
<1>2. frames \in Seq(FrameRecord) /\ Len(frames) = 0
  BY DEF Init
<1>3. wine \in [Instance -> DCRecord]
  BY <1>1 DEF Init
<1>4. asked \in [Instance -> SUBSET Everything] /\ data \in [Instance -> NetscapeData \cup {None}]
  BY DEF Init
<1>5. TypeOK
  BY <1>2, <1>3, <1>4 DEF Init, TypeOK
<1> QED BY <1>2, <1>5 DEF Init, IInv, InvalidationsCovered, Alive, StackOK

\* A handler of instance i that leaves all requests alone.
LEMMA RequestsKept ==
    ASSUME IInv, mode' = mode, asked' = asked,
           pendingInvalidateLinuxWindowless' = pendingInvalidateLinuxWindowless,
           StackMoves, wine' \in [Instance -> DCRecord],
           NEW i \in Instance, Alive(i),
           NEW d, SameRequest(data[i], d), data' = [data EXCEPT ![i] = d]
    PROVE  IInv'
<1>1. data' \in [Instance -> NetscapeData \cup {None}]
  BY DEF IInv, TypeOK, SameRequest
<1>2. \A j \in Instance : /\ Alive(j)' <=> Alive(j)
                          /\ Alive(j) => /\ data'[j].invalidate = data[j].invalidate
                                         /\ data'[j].invalidateRect = data[j].invalidateRect
  <2>1. data'[i] = d /\ d # None
    BY NoneAssumption DEF IInv, TypeOK, SameRequest
  <2>2. \A j \in Instance \ {i} : data'[j] = data[j]
    BY DEF IInv, TypeOK
  <2> QED BY <2>1, <2>2 DEF Alive, SameRequest
<1>3. \A j \in Instance : Told(j)' = Told(j)
  <2>1. \A j \in Instance : Alive(j) => data[j].invalidate \in {"nothing", "rect", "everything"}
    BY DEF IInv, TypeOK, Alive, NetscapeData
  <2> QED BY <1>2, <2>1 DEF Told
<1>4. frames' \in Seq(FrameRecord) /\ StackOK'
  BY <1>2, StackStep DEF IInv, TypeOK
<1>5. TypeOK'
  BY <1>1, <1>4 DEF IInv, TypeOK
<1> QED BY <1>2, <1>3, <1>4, <1>5 DEF IInv, InvalidationsCovered

\* A step that changes only the stack and what the DCs draw to.
LEMMA DataKept ==
    ASSUME IInv, UNCHANGED <<mode, data, pendingInvalidateLinuxWindowless, asked>>,
           StackMoves, wine' \in [Instance -> DCRecord]
    PROVE  IInv'
<1>1. frames' \in Seq(FrameRecord) /\ StackOK'
  BY StackStep DEF IInv, TypeOK, Alive
<1> QED BY <1>1 DEF IInv, TypeOK, InvalidationsCovered, Alive, Told

\* A request to draw points again becomes d, which covers what was asked for
\* before, and them.
LEMMA RequestAdded ==
    ASSUME IInv, NEW i \in Instance, Alive(i),
           NEW points \in SUBSET Everything,
           NEW d \in NetscapeData, Ask(i, points, d),
           \/ d.invalidate = "everything"
           \/ /\ d.invalidate = "rect" /\ d.invalidateRect \in Rect
              /\ asked[i] \cup points \subseteq Points(d.invalidateRect)
    PROVE  IInv'
<1>1. data' \in [Instance -> NetscapeData \cup {None}] /\ asked' \in [Instance -> SUBSET Everything]
  BY DEF IInv, TypeOK, Ask
<1>2. /\ data'[i] = d /\ d # None /\ asked'[i] = asked[i] \cup points
      /\ \A j \in Instance \ {i} : data'[j] = data[j] /\ asked'[j] = asked[j]
  BY NoneAssumption DEF IInv, TypeOK, Ask
<1>3. \A j \in Instance : Alive(j)' <=> Alive(j)
  BY <1>2 DEF Alive
<1>4. TypeOK' /\ StackOK'
  BY <1>1, <1>3, StackStep DEF IInv, TypeOK, Ask, StackMoves
<1>5. asked'[i] \subseteq Told(i)'
  BY <1>1, <1>2 DEF Told, Alive
<1>6. \A j \in Instance \ {i} : Told(j)' = Told(j)
  <2>1. \A j \in Instance : Alive(j) => data[j].invalidate \in {"nothing", "rect", "everything"}
    BY DEF IInv, TypeOK, Alive, NetscapeData
  <2> QED BY <1>2, <2>1 DEF Told, Alive
<1> QED BY <1>2, <1>3, <1>4, <1>5, <1>6 DEF IInv, InvalidationsCovered, Alive, Ask

LEMMA StepRight == ASSUME IInv, [Next]_vars PROVE IInv'
<1> USE NoneAssumption
<1>0. TypeOK /\ frames \in Seq(FrameRecord) /\ wine \in [Instance -> DCRecord]
  BY DEF IInv, TypeOK
<1>1. ASSUME NEW i \in Instance
      PROVE  /\ data[i] \in NetscapeData \cup {None} /\ (Alive(i) => data[i] \in NetscapeData)
             /\ wine[i] \in DCRecord /\ asked[i] \in SUBSET Everything
  BY <1>0 DEF TypeOK, Alive
<1>3. ASSUME NEW i \in Instance, New(i) PROVE IInv'
  <2>1. NewData \in NetscapeData
    BY <1>0 DEF TypeOK, NewData, NetscapeData
  <2>2. /\ data'[i] = NewData
        /\ data' \in [Instance -> NetscapeData \cup {None}]
        /\ \A j \in Instance \ {i} : data'[j] = data[j]
    BY <1>0, <1>3, <2>1 DEF New, TypeOK
  <2>6. asked[i] = {}
    <3>1. ~Alive(i) => Told(i) = {}
      BY DEF Told
    <3> QED BY <1>3, <3>1 DEF New, IInv, InvalidationsCovered
  <2>3. StackMoves
    BY <1>3, <2>1, <2>2, MayBegin DEF New
  <2>4. frames' \in Seq(FrameRecord) /\ StackOK'
    BY <1>0, <2>1, <2>2, <2>3, StackStep DEF IInv, Alive
  <2>5. TypeOK'
    BY <1>0, <1>3, <2>2, <2>4 DEF New, TypeOK
  <2> QED BY <1>3, <2>1, <2>2, <2>4, <2>5, <2>6 DEF New, IInv, InvalidationsCovered, Alive, Told, NewData
<1>4. ASSUME NEW i \in Instance, BeginDestroy(i) PROVE IInv'
  <2>1. StackMoves
    BY <1>4, MayBegin DEF BeginDestroy, Alive
  <2> QED BY <1>0, <1>4, <2>1, DataKept DEF BeginDestroy
<1>5. ASSUME NEW i \in Instance, EndDestroy(i) PROVE IInv'
  <2>1. /\ data'[i] = None /\ asked'[i] = {}
        /\ data' \in [Instance -> NetscapeData \cup {None}]
        /\ asked' \in [Instance -> SUBSET Everything]
        /\ \A j \in Instance \ {i} : data'[j] = data[j] /\ asked'[j] = asked[j]
    BY <1>0, <1>5 DEF EndDestroy, TypeOK
  <2>2. wine' \in [Instance -> DCRecord]
    <3>1. NoDC \in DCRecord
      BY DEF NoDC, DCRecord, Drawables, Browsers
    <3>2. wine[i].held \in Int /\ Released(i) \in Int
      BY <1>1 DEF DCRecord, Released
    <3>3. PICK n \in Int : wine' = [wine EXCEPT ![i] = [NoDC EXCEPT !.held = n]]
      BY <1>5, <3>2 DEF EndDestroy
    <3> QED BY <1>0, <3>1, <3>3, DCTypes
  <2>3. /\ frames' = Pop /\ frames' \in Seq(FrameRecord)
        /\ \A n \in 1 .. Len(frames') : n \in 1 .. Len(frames) /\ frames'[n] = frames[n] /\ frames[n].of # i
    BY <1>0, <1>5, TopAndPop DEF EndDestroy, IInv, StackOK
  <2>4. StackOK'
    BY <2>1, <2>3 DEF IInv, StackOK, Alive
  <2>5. TypeOK'
    BY <1>0, <1>5, <2>1, <2>2, <2>3 DEF EndDestroy, TypeOK
  <2> QED BY <1>5, <2>1, <2>4, <2>5 DEF EndDestroy, IInv, InvalidationsCovered, Alive, Told
<1>6. ASSUME NEW i \in Instance, NEW browser \in Position[i], BeginSetWindow(i, browser) PROVE IInv'
  <2>1. browser \in Browsers /\ Alive(i) /\ data[i] \in NetscapeData
    BY <1>1, <1>6 DEF Browsers, BeginSetWindow
  <2>2. PICK d : SameRequest(data[i], d) /\ data' = [data EXCEPT ![i] = d]
    BY <1>6, <2>1, DataTypes DEF BeginSetWindow
  <2>3. data'[i] # None
    BY <1>0, <2>2 DEF TypeOK, SameRequest
  <2>4. StackMoves
    <3> DEFINE frame == [Frame("setwindow", i) EXCEPT !.browser = browser]
               show(b) == [frame EXCEPT !.kind = "show", !.fresh = b]
    <3>1. frame \in FrameRecord /\ frame.of = i /\ frame.kind = "setwindow"
      BY <2>1, FrameTypes DEF Frame
    <3>2. \A b \in BOOLEAN : show(b) \in FrameRecord /\ show(b).of = i /\ show(b).kind = "show"
      BY <3>1 DEF FrameRecord
    <3>3. UNCHANGED frames \/ Push(frame) \/ Push(show(~data[i].hWnd))
      BY <1>6 DEF BeginSetWindow
    <3>4. (~data[i].hWnd) \in BOOLEAN
      OBVIOUS
    <3> QED BY <2>3, <3>1, <3>2, <3>3, <3>4 DEF StackMoves, Begins
  <2> QED BY <1>0, <1>6, <2>1, <2>2, <2>4, RequestsKept DEF BeginSetWindow
<1>7. ASSUME NEW i \in Instance, EndShow(i) PROVE IInv'
  <2>1. Alive(i) /\ StackMoves
    BY <1>0, <1>7, TopAndPop DEF EndShow, IInv, StackOK, StackMoves, Shown
  <2>2. wine' \in [Instance -> DCRecord]
    <3>1. wine[i].held \in Int
      BY <1>1 DEF DCRecord
    <3>2. \A n \in Int : [wine[i] EXCEPT !.held = n] \in DCRecord
      BY <1>1, DCTypes
    <3>3. wine' = wine \/ \E n \in Int : wine' = [wine EXCEPT ![i] = [wine[i] EXCEPT !.held = n]]
      <4>1. wine[i].held + 1 \in Int /\ wine[i].held + 0 \in Int
        BY <3>1
      <4> QED BY <1>7, <4>1 DEF EndShow
    <3> QED BY <1>0, <3>2, <3>3
  <2>3. CASE Top.fresh
    <3>1. SameRequest(data[i], WithWindow(data[i]))
      BY <1>1, <2>1, DataTypes
    <3>2. data' = [data EXCEPT ![i] = WithWindow(data[i])]
      BY <1>7, <2>3 DEF EndShow
    <3> QED BY <1>7, <2>1, <2>2, <3>1, <3>2, RequestsKept DEF EndShow
  <2>4. CASE ~Top.fresh
    BY <1>7, <2>1, <2>2, <2>4, DataKept DEF EndShow
  <2> QED BY <2>3, <2>4
<1>8. ASSUME NEW i \in Instance, EndSetWindow(i) PROVE IInv'
  <2>1. Alive(i) /\ StackMoves /\ Top \in FrameRecord
    BY <1>0, <1>8, TopAndPop DEF EndSetWindow, IInv, StackOK, StackMoves, Ends
  <2>2. wine' \in [Instance -> DCRecord]
    <3>1. Top.browser \in Browsers /\ data[i].lastDrawableDC \in Drawables
      BY <1>1, <2>1 DEF FrameRecord, NetscapeData, Drawables
    <3>2. PICK dc \in DCRecord : wine' = wine \/ wine' = [wine EXCEPT ![i] = dc]
      BY <1>1, <1>8, <3>1, DCTypes DEF EndSetWindow, Moved
    <3> QED BY <1>0, <3>2
  <2> QED BY <1>8, <2>1, <2>2, DataKept DEF EndSetWindow
<1>9. ASSUME NEW i \in Instance, NEW windowless \in BOOLEAN, SetValue(i, windowless) PROVE IInv'
  <2> DEFINE d == [data[i] EXCEPT !.windowlessMode = windowless]
  <2>1. Alive(i) /\ SameRequest(data[i], d) /\ SameRequest(data[i], WithWindow(d))
    BY <1>1, <1>9, DataTypes DEF SetValue
  <2>2. wine' \in [Instance -> DCRecord]
    <3>1. wine[i].held \in Int /\ Released(i) \in Int
      BY <1>1 DEF DCRecord, Released
    <3>2. \A n \in Int : [wine[i] EXCEPT !.held = n] \in DCRecord
      BY <1>1, DCTypes
    <3>3. wine' = wine \/ \E n \in Int : wine' = [wine EXCEPT ![i] = [wine[i] EXCEPT !.held = n]]
      BY <1>9, <3>1 DEF SetValue
    <3> QED BY <1>0, <3>2, <3>3
  <2>3. CASE data[i].hWnd
    <3>1. data' = [data EXCEPT ![i] = WithWindow(d)] /\ Push(Frame("plain", i))
      BY <1>9, <2>3 DEF SetValue
    <3>2. data'[i] # None
      BY <1>0, <2>1, <3>1 DEF TypeOK, SameRequest
    <3>3. StackMoves
      BY <3>1, <3>2, MayBegin
    <3> QED BY <1>9, <2>1, <2>2, <3>1, <3>3, RequestsKept DEF SetValue
  <2>4. CASE ~data[i].hWnd
    <3>1. data' = [data EXCEPT ![i] = d] /\ StackMoves
      BY <1>9, <2>4 DEF SetValue, StackMoves
    <3> QED BY <1>9, <2>1, <2>2, <3>1, RequestsKept DEF SetValue
  <2> QED BY <2>3, <2>4
<1>10. ASSUME NEW i \in Instance, PaintMessage(i) PROVE IInv'
  <2>1. Alive(i) /\ data[i].window \in Held /\ SameRequest(data[i], [data[i] EXCEPT !.window = "BeginPaint"])
    BY <1>1, <1>10, DataTypes DEF PaintMessage, Receives, NetscapeData, Held
  <2>2. data'[i] # None
    BY <1>0, <1>10, <2>1 DEF PaintMessage, TypeOK, SameRequest
  <2>3. StackMoves
    BY <1>10, <2>1, <2>2, MayBegin DEF PaintMessage
  <2> QED BY <1>0, <1>10, <2>1, <2>3, RequestsKept DEF PaintMessage
<1>11. ASSUME NEW i \in Instance, InputMessage(i) PROVE IInv'
  <2>1. Alive(i) /\ data[i].window \in Held /\ SameRequest(data[i], [data[i] EXCEPT !.window = None])
    BY <1>1, <1>11, DataTypes DEF InputMessage, Receives, NetscapeData, Held
  <2>2. data'[i] # None
    BY <1>0, <1>11, <2>1 DEF InputMessage, TypeOK, SameRequest
  <2>3. StackMoves
    BY <1>11, <2>1, <2>2, MayBegin DEF InputMessage
  <2> QED BY <1>0, <1>11, <2>1, <2>3, RequestsKept DEF InputMessage
<1>12. ASSUME NEW i \in Instance, OtherMessage(i) PROVE IInv'
  <2>1. StackMoves
    BY <1>12, MayBegin DEF OtherMessage, Receives, Alive
  <2> QED BY <1>0, <1>12, <2>1, DataKept DEF OtherMessage
<1>13. ASSUME NEW i \in Instance, MouseEvent(i) PROVE IInv'
  <2>1. Alive(i) /\ data[i].window \in Held /\ SameRequest(data[i], [data[i] EXCEPT !.window = None])
    BY <1>1, <1>13, DataTypes DEF MouseEvent, NetscapeData, Held
  <2>2. data'[i] # None
    BY <1>0, <1>13, <2>1 DEF MouseEvent, TypeOK, SameRequest
  <2>3. StackMoves
    BY <1>13, <2>1, <2>2, MayBegin DEF MouseEvent
  <2> QED BY <1>0, <1>13, <2>1, <2>3, RequestsKept DEF MouseEvent
<1>14. ASSUME NEW i \in Instance, EndEvent(i) PROVE IInv'
  <2>1. Alive(i) /\ StackMoves /\ Top.was \in Held
    BY <1>0, <1>14, TopAndPop DEF EndEvent, IInv, StackOK, StackMoves, Ends, FrameRecord
  <2>2. CASE data' = data
    BY <1>0, <1>14, <2>1, <2>2, DataKept DEF EndEvent
  <2>3. CASE data' = [data EXCEPT ![i] = [data[i] EXCEPT !.window = Top.was]]
    <3>1. SameRequest(data[i], [data[i] EXCEPT !.window = Top.was])
      BY <1>1, <2>1, DataTypes
    <3> QED BY <1>0, <1>14, <2>1, <2>3, <3>1, RequestsKept DEF EndEvent
  <2> QED BY <1>14, <2>2, <2>3 DEF EndEvent
<1>15. ASSUME NEW i \in Instance, NEW drawable \in Drawable[i], PaintEvent(i, drawable) PROVE IInv'
  <2>1. Alive(i) /\ drawable \in Drawables /\ data[i].browser \in Browsers
    BY <1>1, <1>15 DEF PaintEvent, Drawables, NetscapeData, Browsers
  <2>2. SameRequest(data[i], [data[i] EXCEPT !.lastDrawableDC = drawable])
    BY <1>1, <2>1, DataTypes
  <2>3. data'[i] # None
    BY <1>0, <1>15, <2>1, <2>2 DEF PaintEvent, TypeOK, SameRequest, Alive
  <2>4. StackMoves
    BY <1>15, <2>1, <2>3, MayBegin DEF PaintEvent
  <2>5. CASE UNCHANGED <<wine, data>>
    BY <1>0, <1>15, <2>4, <2>5, DataKept DEF PaintEvent
  <2>6. CASE wine' = Moved(i, drawable, data[i].browser) /\ data' = [data EXCEPT ![i].lastDrawableDC = drawable]
    <3>1. wine' \in [Instance -> DCRecord]
      <4>1. [wine[i] EXCEPT !.drawable = drawable, !.rect = data[i].browser, !.refused = FALSE] \in DCRecord
        BY <1>1, <2>1, DCTypes
      <4> QED BY <1>0, <2>6, <4>1 DEF Moved
    <3> QED BY <1>15, <2>1, <2>2, <2>4, <2>6, <3>1, RequestsKept DEF PaintEvent
  <2> QED BY <1>15, <2>5, <2>6 DEF PaintEvent
<1>16. ASSUME NEW i \in Instance, NEW rect \in Area[i], InvalidateRect(i, rect) PROVE IInv'
  <2>1. Alive(i) /\ rect \in Rect /\ data[i] \in NetscapeData
    BY <1>1, <1>16, AreaAssumption DEF InvalidateRect, Ask
  <2>2. asked[i] \subseteq Told(i) /\ Points(rect) \in SUBSET Everything
    BY <2>1, RectPoints DEF IInv, InvalidationsCovered
  <2>3. CASE data[i].invalidate = "nothing"
    <3> DEFINE d == [data[i] EXCEPT !.invalidate = "rect", !.invalidateRect = rect]
    <3>1. Ask(i, Points(rect), d)
      BY <1>16, <2>3 DEF InvalidateRect
    <3>2. d \in NetscapeData /\ d.invalidate = "rect" /\ d.invalidateRect = rect
      BY <2>1, RequestTypes DEF NetscapeData
    <3>3. asked[i] = {}
      BY <2>1, <2>2, <2>3 DEF Told
    <3> QED BY <2>1, <2>2, <3>1, <3>2, <3>3, RequestAdded
  <2>4. CASE data[i].invalidate = "rect"
    <3> DEFINE old == data[i].invalidateRect
               d == [data[i] EXCEPT !.invalidateRect = Merge(old, rect)]
    <3>1. Ask(i, Points(rect), d)
      BY <1>16, <2>4 DEF InvalidateRect
    <3>2. old \in Rect /\ asked[i] \subseteq Points(old)
      BY <2>1, <2>2, <2>4 DEF IInv, Told
    <3>3. /\ Merge(old, rect) \in Rect
          /\ Points(old) \cup Points(rect) \subseteq Points(Merge(old, rect))
      BY <2>1, <3>2, MergeCovers
    <3>4. d \in NetscapeData /\ d.invalidate = "rect" /\ d.invalidateRect = Merge(old, rect)
      BY <2>1, <2>4, <3>3, RequestTypes DEF NetscapeData
    <3> QED BY <2>1, <2>2, <3>1, <3>2, <3>3, <3>4, RequestAdded
  <2>5. CASE data[i].invalidate = "everything"
    <3>1. Ask(i, Points(rect), data[i])
      BY <1>16, <2>5 DEF InvalidateRect
    <3> QED BY <2>1, <2>2, <2>5, <3>1, RequestAdded
  <2> QED BY <2>1, <2>3, <2>4, <2>5 DEF NetscapeData
<1>17. ASSUME NEW i \in Instance, InvalidateAll(i) PROVE IInv'
  <2> DEFINE d == [data[i] EXCEPT !.invalidate = "everything"]
  <2>1. Alive(i) /\ data[i] \in NetscapeData
    BY <1>1, <1>17 DEF InvalidateAll, Ask
  <2>2. d \in NetscapeData /\ d.invalidate = "everything"
    BY <2>1, RequestTypes DEF NetscapeData
  <2> QED BY <1>17, <2>1, <2>2, RequestAdded DEF InvalidateAll
<1>18. ASSUME NEW i \in Instance, Callback(i) PROVE IInv'
  <2>1. StackMoves
    BY <1>18, MayBegin DEF Callback, Alive
  <2> QED BY <1>0, <1>18, <2>1, DataKept DEF Callback
<1>19. CASE BeginProcess
  <2>1. Frame("process", None) \in FrameRecord /\ Frame("process", None).kind = "process"
    BY FrameTypes DEF Frame
  <2>2. StackMoves
    BY <1>19, <2>1 DEF BeginProcess, StackMoves, Begins
  <2> QED BY <1>0, <1>19, <2>2, DataKept DEF BeginProcess
<1>20. CASE EndProcess
  <2>1. StackMoves
    BY <1>20 DEF EndProcess, StackMoves, Ends
  <2>2. CASE mode = "linux" /\ pendingInvalidateLinuxWindowless
    <3>1. \A i \in Instance : IF Alive(i) THEN /\ data'[i] \in NetscapeData
                                               /\ data'[i].invalidate = "nothing"
                              ELSE data'[i] = None
      <4>1. ASSUME NEW d \in NetscapeData
            PROVE  /\ [d EXCEPT !.invalidate = "nothing"] \in NetscapeData
                   /\ [d EXCEPT !.invalidate = "nothing"].invalidate = "nothing"
        BY RequestTypes DEF NetscapeData
      <4>2. \A i \in Instance : data'[i] = IF Alive(i) THEN [data[i] EXCEPT !.invalidate = "nothing"] ELSE data[i]
        BY <1>20, <2>2 DEF EndProcess
      <4> QED BY <1>1, <4>1, <4>2 DEF Alive
    <3>2. data' \in [Instance -> NetscapeData \cup {None}]
      BY <1>20, <2>2, <3>1 DEF EndProcess
    <3>3. \A i \in Instance : asked'[i] = {}
      BY <1>20, <2>2 DEF EndProcess, IInv, InvalidationsCovered
    <3>4. asked' \in [Instance -> SUBSET Everything]
      BY <1>20, <2>2, <3>3 DEF EndProcess
    <3>5. frames' \in Seq(FrameRecord) /\ StackOK'
      BY <1>0, <2>1, <3>1, StackStep DEF IInv, Alive
    <3>6. TypeOK'
      BY <1>0, <1>20, <2>2, <3>2, <3>4, <3>5 DEF EndProcess, TypeOK
    <3> QED BY <3>1, <3>3, <3>5, <3>6 DEF IInv, InvalidationsCovered, Alive
  <2>3. CASE ~(mode = "linux" /\ pendingInvalidateLinuxWindowless)
    BY <1>0, <1>20, <2>1, <2>3, DataKept DEF EndProcess
  <2> QED BY <2>2, <2>3
<1>21. CASE Return
  <2>1. StackMoves
    BY <1>21 DEF Return, StackMoves, Ends
  <2> QED BY <1>0, <1>21, <2>1, DataKept DEF Return
<1>22. CASE UNCHANGED vars
  BY <1>0, <1>22, DataKept DEF vars, StackMoves
<1> QED BY <1>3, <1>4, <1>5, <1>6, <1>7, <1>8, <1>9, <1>10, <1>11, <1>12, <1>13, <1>14,
           <1>15, <1>16, <1>17, <1>18, <1>19, <1>20, <1>21, <1>22 DEF Next

\* For any instances and rectangles, however requests and handlers nest: what a
\* plugin asked to have drawn again is in what the next PROCESS_WINDOW_EVENTS
\* reports (NPN_InvalidateRect, NPN_InvalidateRegion).
THEOREM InvalidationsAlwaysCovered == Spec => []InvalidationsCovered
<1>1. Init => IInv
  BY InitRight
<1>2. IInv /\ [Next]_vars => IInv'
  BY StepRight
<1>3. IInv => InvalidationsCovered
  BY DEF IInv
<1> QED BY <1>1, <1>2, <1>3, PTL DEF Spec

-----------------------------------------------------------------------------
(***************************************************************************)
(* Where the DC of a window draws to, and what the handlers of             *)
(* FUNCTION_NPP_SET_WINDOW on the stack say of it: there is at most one    *)
(* for an instance, it knows the latest place, and only inside it, or if   *)
(* the driver has refused to move it, may the DC be elsewhere.             *)
(***************************************************************************)
Placed(i) == data[i].hDC /\ data[i].lastDrawableDC # None

AtPlace(i) == wine[i].rect = data[i].browser \/ wine[i].refused

Setting(f, i) == frames[f].kind = "setwindow" /\ frames[f].of = i

DCInPlace ==
    /\ mode # "linux" => \A i \in Instance : Alive(i) => ~data[i].hDC
    /\ \A i \in Instance : Alive(i) /\ ~data[i].hDC => data[i].lastDrawableDC = None
    /\ \A i \in Instance : Alive(i) /\ Placed(i) =>
          wine[i].drawable = data[i].lastDrawableDC /\ (Within(i, {"setwindow"}) \/ AtPlace(i))
    /\ mode = "linux" =>
          /\ \A f \in 1 .. Len(frames) : frames[f].kind # "show"
          /\ \A i \in Instance : \A f \in 1 .. Len(frames) :
                Setting(f, i) => frames[f].browser = data[i].browser
          /\ \A i \in Instance : \A f, g \in 1 .. Len(frames) : Setting(f, i) /\ Setting(g, i) => f = g

LEMMA InitInPlace == Init => DCInPlace
<1> SUFFICES ASSUME Init PROVE DCInPlace
  OBVIOUS
<1>1. Len(frames) = 0
  BY DEF Init
<1> QED BY <1>1 DEF Init, DCInPlace, Alive

\* Handlers begin, but not FUNCTION_NPP_SET_WINDOW, or others end.
OthersMove ==
    \/ UNCHANGED frames
    \/ \E frame : Push(frame) /\ frame.kind \notin {"show", "setwindow"}
    \/ Ends /\ Top.kind # "setwindow"

SamePlace(i) ==
    /\ data'[i] # None <=> Alive(i)
    /\ Alive(i) => /\ data'[i].hDC = data[i].hDC /\ data'[i].browser = data[i].browser
                   /\ data'[i].lastDrawableDC = data[i].lastDrawableDC
    /\ wine'[i].drawable = wine[i].drawable /\ wine'[i].rect = wine[i].rect
    /\ wine'[i].refused = wine[i].refused

\* The handlers of FUNCTION_NPP_SET_WINDOW are what they were.
LEMMA SettingsKept ==
    ASSUME frames \in Seq(FrameRecord), OthersMove
    PROVE  /\ \A i \in Instance : Within(i, {"setwindow"})' <=> Within(i, {"setwindow"})
           /\ \A f \in 1 .. Len(frames') : frames'[f].kind \in {"show", "setwindow"} =>
                 f \in 1 .. Len(frames) /\ frames'[f] = frames[f]
<1>1. CASE UNCHANGED frames
  BY <1>1 DEF Within
<1>2. ASSUME NEW frame, Push(frame), frame.kind \notin {"show", "setwindow"}
      PROVE  /\ \A f \in 1 .. Len(frames) : f \in 1 .. Len(frames') /\ frames'[f] = frames[f]
             /\ \A f \in 1 .. Len(frames') : frames'[f].kind \in {"show", "setwindow"} =>
                   f \in 1 .. Len(frames) /\ frames'[f] = frames[f]
  <2>1. /\ Len(frames) \in Nat /\ Len(frames') = Len(frames) + 1 /\ frames'[Len(frames) + 1] = frame
        /\ \A n \in 1 .. Len(frames) : frames'[n] = frames[n]
    BY <1>2, AppendProperty DEF Push
  <2>2. \A n \in 1 .. Len(frames') : n \in 1 .. Len(frames) \/ n = Len(frames) + 1
    BY <2>1
  <2>3. \A n \in 1 .. Len(frames) : n \in 1 .. Len(frames')
    BY <2>1
  <2> QED BY <1>2, <2>1, <2>2, <2>3
<1>3. CASE Ends /\ Top.kind # "setwindow"
  <2>1. /\ Top = frames[Len(frames)] /\ Len(frames) \in Nat \ {0} /\ Len(frames') = Len(frames) - 1
        /\ \A n \in 1 .. Len(frames') : frames'[n] = frames[n]
    BY <1>3, TopAndPop DEF Ends
  <2>2. /\ \A n \in 1 .. Len(frames') : n \in 1 .. Len(frames)
        /\ \A n \in 1 .. Len(frames) : n \in 1 .. Len(frames') \/ n = Len(frames)
    BY <2>1
  <2> QED BY <1>3, <2>1, <2>2 DEF Within
<1> QED BY <1>1, <1>2, <1>3 DEF OthersMove, Within

LEMMA PlaceKept ==
    ASSUME IInv, DCInPlace, mode' = mode, mode = "linux" => OthersMove,
           \A i \in Instance : SamePlace(i)
    PROVE  DCInPlace'
<1>0. frames \in Seq(FrameRecord)
  BY DEF IInv, TypeOK
<1>1. CASE mode # "linux"
  BY <1>1 DEF DCInPlace, SamePlace, Alive, Placed
<1>2. CASE mode = "linux"
  BY <1>0, <1>2, SettingsKept, SMTT(60) DEF DCInPlace, SamePlace, Alive, Placed, AtPlace, Setting
<1> QED BY <1>1, <1>2

\* Only an instance that is there has a handler on the stack.
LEMMA DeadHaveNoHandlers ==
    ASSUME IInv, NEW i \in Instance, ~Alive(i) PROVE \A f \in 1 .. Len(frames) : ~Setting(f, i)
BY DEF IInv, StackOK, Setting

SameFields(d, e) == e.hDC = d.hDC /\ e.browser = d.browser /\ e.lastDrawableDC = d.lastDrawableDC

LEMMA FieldsKept ==
    ASSUME NEW d \in NetscapeData
    PROVE  /\ SameFields(d, WithWindow(d))
           /\ \A v \in BOOLEAN : /\ SameFields(d, [d EXCEPT !.windowlessMode = v])
                                 /\ SameFields(d, WithWindow([d EXCEPT !.windowlessMode = v]))
           /\ \A w : SameFields(d, [d EXCEPT !.window = w])
           /\ \A v, r : SameFields(d, [d EXCEPT !.invalidate = v, !.invalidateRect = r])
           /\ \A v : SameFields(d, [d EXCEPT !.invalidate = v])
           /\ \A v : SameFields(d, [d EXCEPT !.invalidateRect = v])
           /\ \A b : LET e == [d EXCEPT !.browser = b]
                         shown == [d EXCEPT !.browser = b, !.hWnd = TRUE]
                     IN  /\ e.hDC = d.hDC /\ e.lastDrawableDC = d.lastDrawableDC
                         /\ shown.hDC = d.hDC /\ shown.lastDrawableDC = d.lastDrawableDC
BY DEF NetscapeData, WithWindow, SameFields

\* A step that changes in one instance nothing of what matters here.
LEMMA OneKept ==
    ASSUME IInv, DCInPlace, mode' = mode, wine' = wine, mode = "linux" => OthersMove,
           NEW i \in Instance, Alive(i),
           NEW d \in NetscapeData, SameFields(data[i], d), data' = [data EXCEPT ![i] = d]
    PROVE  DCInPlace'
<1>1. data'[i] = d /\ d # None /\ \A j \in Instance \ {i} : data'[j] = data[j]
  BY NoneAssumption DEF IInv, TypeOK
<1>2. \A j \in Instance : SamePlace(j)
  BY <1>1 DEF SamePlace, SameFields, Alive
<1> QED BY <1>2, PlaceKept

LEMMA PlaceStep == ASSUME Nested = {}, IInv, DCInPlace, [Next]_vars PROVE DCInPlace'
<1> USE NoneAssumption
<1>0. /\ TypeOK /\ frames \in Seq(FrameRecord) /\ wine \in [Instance -> DCRecord] /\ Len(frames) \in Nat
      /\ \A i \in Instance : wine[i] \in DCRecord /\ (Alive(i) => data[i] \in NetscapeData)
      /\ TypeOK' /\ \A i \in Instance : data'[i] = None \/ data'[i] \in NetscapeData
  BY StepRight DEF IInv, TypeOK, Alive
<1> USE DEF SamePlace, OthersMove
<1>1. ASSUME NEW i \in Instance, New(i) PROVE DCInPlace'
  <2>1. /\ data'[i].hDC = FALSE /\ data'[i].lastDrawableDC = None /\ wine' = wine /\ mode' = mode
        /\ \A j \in Instance \ {i} : data'[j] = data[j]
    BY <1>0, <1>1 DEF New, NewData, TypeOK
  <2>2. OthersMove
    BY <1>1 DEF New, Frame
  <2>3. \A f \in 1 .. Len(frames') : frames'[f].kind \in {"show", "setwindow"} =>
           f \in 1 .. Len(frames) /\ frames'[f] = frames[f]
    BY <1>0, <2>2, SettingsKept
  <2>4. \A j \in Instance : Within(j, {"setwindow"})' <=> Within(j, {"setwindow"})
    BY <1>0, <2>2, SettingsKept
  <2>5. \A f \in 1 .. Len(frames) : ~Setting(f, i)
    BY <1>1, DeadHaveNoHandlers DEF New
  <2> QED BY <2>1, <2>3, <2>4, <2>5 DEF DCInPlace, Alive, Placed, AtPlace, Setting
<1>2. ASSUME NEW i \in Instance, BeginDestroy(i) PROVE DCInPlace'
  BY <1>2, PlaceKept DEF BeginDestroy, Frame, Alive
<1>3. ASSUME NEW i \in Instance, EndDestroy(i) PROVE DCInPlace'
  <2>1. /\ data'[i] = None /\ mode' = mode
        /\ \A j \in Instance \ {i} : data'[j] = data[j] /\ wine'[j] = wine[j]
    BY <1>0, <1>3 DEF EndDestroy, TypeOK
  <2>2. OthersMove
    BY <1>3 DEF EndDestroy, Ends
  <2>3. \A f \in 1 .. Len(frames') : frames'[f].kind \in {"show", "setwindow"} =>
           f \in 1 .. Len(frames) /\ frames'[f] = frames[f]
    BY <1>0, <2>2, SettingsKept
  <2>4. \A j \in Instance : Within(j, {"setwindow"})' <=> Within(j, {"setwindow"})
    BY <1>0, <2>2, SettingsKept
  <2>5. \A f \in 1 .. Len(frames') : frames[f].of # i
    <3>1. /\ \A f \in 1 .. Len(frames') : f \in 1 .. Len(frames) /\ f < Len(frames)
          /\ Len(frames) \in 1 .. Len(frames)
          /\ frames[Len(frames)].kind = "destroy" /\ frames[Len(frames)].of = i
      BY <1>0, <1>3, TopAndPop DEF EndDestroy
    <3> QED BY <3>1 DEF IInv, StackOK
  <2> QED BY <2>1, <2>3, <2>4, <2>5 DEF DCInPlace, Alive, Placed, AtPlace, Setting
<1>4. ASSUME NEW i \in Instance, NEW browser \in Position[i], BeginSetWindow(i, browser) PROVE DCInPlace'
  <2>1. CASE mode = "linux"
    <3> DEFINE frame == [Frame("setwindow", i) EXCEPT !.browser = browser]
    <3>1. /\ Push(frame) /\ mode' = mode /\ wine' = wine
          /\ data' = [data EXCEPT ![i] =
                         [data[i] EXCEPT !.browser = browser, !.hDC = TRUE, !.window = "hDC", !.type = "Drawable"]]
          /\ \A f \in 1 .. Len(frames) : ~Setting(f, i)
      BY <1>4, <2>1 DEF BeginSetWindow, ResizeAllowed, Within, Setting
    <3>2. /\ Len(frames') = Len(frames) + 1 /\ frames'[Len(frames) + 1] = frame
          /\ \A n \in 1 .. Len(frames) : frames'[n] = frames[n]
      BY <1>0, <3>1, AppendProperty DEF Push
    <3>3. \A n \in 1 .. Len(frames') : n \in 1 .. Len(frames) \/ n = Len(frames) + 1
      BY <1>0, <3>2
    <3>4. frame.kind = "setwindow" /\ frame.of = i /\ frame.browser = browser
      BY DEF Frame
    <3>5. data'[i].browser = browser /\ \A j \in Instance \ {i} : data'[j] = data[j]
      BY <1>0, <1>4, <3>1 DEF BeginSetWindow, TypeOK, NetscapeData
    <3>6. Len(frames) + 1 \in 1 .. Len(frames') /\ \A n \in 1 .. Len(frames) : n \in 1 .. Len(frames')
      BY <1>0, <3>2
    <3>7. Within(i, {"setwindow"})' /\ \A j \in Instance : Within(j, {"setwindow"}) => Within(j, {"setwindow"})'
      BY <3>2, <3>4, <3>6 DEF Within
    <3>8. ASSUME NEW j \in Instance, data'[j] # None
          PROVE  /\ ~data'[j].hDC => data'[j].lastDrawableDC = None
                 /\ Placed(j)' => /\ wine'[j].drawable = data'[j].lastDrawableDC
                                  /\ Within(j, {"setwindow"})' \/ AtPlace(j)'
      <4>1. CASE j = i
        <5>1. data'[i].hDC /\ data'[i].lastDrawableDC = data[i].lastDrawableDC /\ Alive(i)
          BY <1>0, <1>4, <3>1 DEF BeginSetWindow, TypeOK, NetscapeData
        <5>2. Placed(i)' => Placed(i)
          BY <5>1 DEF DCInPlace, Placed
        <5> QED BY <3>1, <3>7, <4>1, <5>1, <5>2 DEF DCInPlace
      <4>2. CASE j # i
        BY <3>1, <3>5, <3>7, <3>8, <4>2 DEF DCInPlace, Alive, Placed, AtPlace
      <4> QED BY <4>1, <4>2
    <3>9. ASSUME NEW f \in 1 .. Len(frames')
          PROVE  /\ frames'[f].kind # "show"
                 /\ \A j \in Instance : Setting(f, j)' => frames'[f].browser = data'[j].browser
      <4>1. CASE f = Len(frames) + 1
        <5>1. frames'[f].kind = "setwindow" /\ frames'[f].of = i /\ frames'[f].browser = browser
          BY <3>2, <3>4, <4>1
        <5> QED BY <3>5, <5>1 DEF Setting
      <4>2. CASE f \in 1 .. Len(frames)
        <5>1. frames'[f] = frames[f] /\ frames[f].kind # "show" /\ ~Setting(f, i)
          BY <2>1, <3>1, <3>2, <4>2 DEF DCInPlace
        <5>2. \A j \in Instance \ {i} : Setting(f, j) => frames[f].browser = data'[j].browser
          BY <2>1, <3>5, <4>2 DEF DCInPlace
        <5> QED BY <5>1, <5>2 DEF Setting
      <4> QED BY <3>3, <4>1, <4>2
    <3>10. ASSUME NEW j \in Instance, NEW f \in 1 .. Len(frames'), NEW g \in 1 .. Len(frames'),
                  Setting(f, j)', Setting(g, j)'
           PROVE  f = g
      <4>1. CASE j = i
        BY <3>1, <3>2, <3>3, <3>10, <4>1 DEF Setting
      <4>2. CASE j # i
        <5>1. f \in 1 .. Len(frames) /\ g \in 1 .. Len(frames) /\ Setting(f, j) /\ Setting(g, j)
          BY <3>2, <3>3, <3>4, <3>10, <4>2 DEF Setting
        <5> QED BY <2>1, <5>1 DEF DCInPlace
      <4> QED BY <4>1, <4>2
    <3> QED BY <2>1, <3>1, <3>8, <3>9, <3>10 DEF DCInPlace, Alive
  <2>2. CASE mode # "linux"
    <3>1. /\ data'[i].hDC = data[i].hDC /\ data'[i].lastDrawableDC = data[i].lastDrawableDC
          /\ Alive(i) /\ mode' = mode
      <4>1. \E d : /\ data' = [data EXCEPT ![i] = d]
                  /\ d.hDC = data[i].hDC /\ d.lastDrawableDC = data[i].lastDrawableDC
        <5> DEFINE shown == [data[i] EXCEPT !.browser = browser, !.hWnd = TRUE]
                   none  == [data[i] EXCEPT !.browser = browser]
        <5>1. data' = [data EXCEPT ![i] = shown] \/ data' = [data EXCEPT ![i] = none]
          BY <1>4, <2>2 DEF BeginSetWindow
        <5>2. /\ shown.hDC = data[i].hDC /\ none.hDC = data[i].hDC
              /\ shown.lastDrawableDC = data[i].lastDrawableDC /\ none.lastDrawableDC = data[i].lastDrawableDC
          BY <1>0, <1>4, FieldsKept DEF BeginSetWindow
        <5> QED BY <5>1, <5>2
      <4> QED BY <1>0, <1>4, <4>1 DEF BeginSetWindow, TypeOK
    <3>2. \A j \in Instance \ {i} : data'[j] = data[j]
      BY <1>0, <1>4, <2>2 DEF BeginSetWindow, TypeOK
    <3> QED BY <2>2, <3>1, <3>2 DEF DCInPlace, Alive, Placed
  <2> QED BY <2>1, <2>2
<1>5. ASSUME NEW i \in Instance, EndShow(i) PROVE DCInPlace'
  <2>1. mode # "linux" /\ Alive(i)
    <3>1. Len(frames) \in 1 .. Len(frames) /\ frames[Len(frames)].kind = "show" /\ frames[Len(frames)].of = i
      BY <1>0, <1>5, TopAndPop DEF EndShow
    <3> QED BY <3>1 DEF DCInPlace, IInv, StackOK
  <2>2. data'[i].hDC = data[i].hDC /\ data'[i].lastDrawableDC = data[i].lastDrawableDC /\ mode' = mode
    <3>1. data' = data \/ \E d : data' = [data EXCEPT ![i] = d] /\ SameFields(data[i], d)
      BY <1>0, <1>5, <2>1, FieldsKept DEF EndShow
    <3> QED BY <1>0, <1>5, <3>1 DEF EndShow, TypeOK, SameFields
  <2>3. \A j \in Instance \ {i} : data'[j] = data[j]
    BY <1>0, <1>5 DEF EndShow, TypeOK
  <2> QED BY <2>1, <2>2, <2>3 DEF DCInPlace, Alive, Placed
<1>6. ASSUME NEW i \in Instance, EndSetWindow(i) PROVE DCInPlace'
  <2>1. /\ frames # <<>> /\ Top.kind = "setwindow" /\ Top.of = i /\ frames' = Pop
        /\ data' = data /\ mode' = mode
        /\ \A j \in Instance \ {i} : wine'[j] = wine[j]
        /\ Alive(i) /\ Placed(i) =>
              \/ wine'[i].drawable = data[i].lastDrawableDC /\ wine'[i].rect = Top.browser
              \/ wine'[i].drawable = wine[i].drawable /\ wine'[i].refused
    <3> DEFINE moved == [wine[i] EXCEPT !.drawable = data[i].lastDrawableDC, !.rect = Top.browser,
                                        !.refused = FALSE]
               stays == [wine[i] EXCEPT !.refused = TRUE]
    <3>1. \/ ~Placed(i) /\ wine' = wine
          \/ wine' = [wine EXCEPT ![i] = moved] \/ wine' = [wine EXCEPT ![i] = stays]
      BY <1>6 DEF EndSetWindow, Moved, Placed
    <3>2. /\ moved.drawable = data[i].lastDrawableDC /\ moved.rect = Top.browser
          /\ stays.drawable = wine[i].drawable /\ stays.refused
      BY <1>0 DEF DCRecord
    <3> QED BY <1>0, <1>6, <3>1, <3>2 DEF EndSetWindow
  <2>2. /\ Top = frames[Len(frames)] /\ Len(frames) \in Nat \ {0} /\ Len(frames') = Len(frames) - 1
        /\ \A n \in 1 .. Len(frames') : frames'[n] = frames[n]
    BY <1>0, <2>1, TopAndPop
  <2>3. /\ \A n \in 1 .. Len(frames') : n \in 1 .. Len(frames)
        /\ \A n \in 1 .. Len(frames) : n \in 1 .. Len(frames') \/ n = Len(frames)
        /\ Len(frames) \in 1 .. Len(frames)
    BY <2>2
  <2>4. \A j \in Instance \ {i} : Within(j, {"setwindow"})' <=> Within(j, {"setwindow"})
    <3> TAKE j \in Instance \ {i}
    <3>1. ASSUME NEW f \in 1 .. Len(frames), frames[f].of = j
          PROVE  f \in 1 .. Len(frames') /\ frames'[f] = frames[f]
      BY <2>1, <2>2, <2>3, <3>1
    <3>2. Within(j, {"setwindow"}) => Within(j, {"setwindow"})'
      BY <3>1 DEF Within
    <3>3. Within(j, {"setwindow"})' => Within(j, {"setwindow"})
      BY <2>2, <2>3 DEF Within
    <3> QED BY <3>2, <3>3
  <2>5. mode = "linux" => Top.browser = data[i].browser
    BY <2>1, <2>2, <2>3 DEF DCInPlace, Setting
  <2>6. ASSUME NEW j \in Instance, Alive(j), Placed(j)
        PROVE  wine'[j].drawable = data[j].lastDrawableDC /\ (Within(j, {"setwindow"})' \/ AtPlace(j)')
    <3>1. CASE j = i
      <4>1. mode = "linux"
        BY <2>6 DEF DCInPlace, Placed
      <4> QED BY <2>1, <2>5, <2>6, <3>1, <4>1 DEF DCInPlace, AtPlace
    <3>2. CASE j # i
      BY <2>1, <2>4, <2>6, <3>2 DEF DCInPlace, AtPlace
    <3> QED BY <3>1, <3>2
  <2>7. ASSUME mode = "linux"
        PROVE  /\ \A f \in 1 .. Len(frames') : frames'[f].kind # "show"
               /\ \A j \in Instance : \A f \in 1 .. Len(frames') :
                     Setting(f, j)' => frames'[f].browser = data'[j].browser
               /\ \A j \in Instance : \A f, g \in 1 .. Len(frames') : Setting(f, j)' /\ Setting(g, j)' => f = g
    <3>1. \A f \in 1 .. Len(frames') : f \in 1 .. Len(frames) /\ frames'[f] = frames[f]
      BY <2>2, <2>3
    <3>2. \A f \in 1 .. Len(frames'), j \in Instance : Setting(f, j)' <=> Setting(f, j)
      BY <3>1 DEF Setting
    <3> QED BY <2>1, <2>7, <3>1, <3>2 DEF DCInPlace
  <2>8. mode # "linux" => \A j \in Instance : Alive(j) => ~data[j].hDC
    BY DEF DCInPlace
  <2> QED BY <2>1, <2>6, <2>7, <2>8 DEF DCInPlace, Alive, Placed
<1>7. ASSUME NEW i \in Instance, NEW windowless \in BOOLEAN, SetValue(i, windowless) PROVE DCInPlace'
  <2>1. mode # "linux" /\ Alive(i) /\ mode' = mode
    BY <1>7 DEF SetValue
  <2>2. data'[i].hDC = data[i].hDC /\ data'[i].lastDrawableDC = data[i].lastDrawableDC
    <3>1. data' = data \/ \E d : data' = [data EXCEPT ![i] = d] /\ SameFields(data[i], d)
      BY <1>0, <1>7, <2>1, FieldsKept DEF SetValue
    <3> QED BY <1>0, <3>1 DEF TypeOK, SameFields
  <2>3. \A j \in Instance \ {i} : data'[j] = data[j]
    BY <1>0, <1>7 DEF SetValue, TypeOK
  <2> QED BY <2>1, <2>2, <2>3 DEF DCInPlace, Alive, Placed
<1>8. ASSUME NEW i \in Instance, PaintMessage(i) PROVE DCInPlace'
  <2> DEFINE d == [data[i] EXCEPT !.window = "BeginPaint"]
  <2>1. Alive(i) /\ d \in NetscapeData /\ SameFields(data[i], d)
    BY <1>0, <1>8, DataTypes, FieldsKept DEF PaintMessage, Receives, Held, SameRequest
  <2>2. mode # "linux" /\ mode' = mode /\ wine' = wine /\ data' = [data EXCEPT ![i] = d]
    BY <1>8 DEF PaintMessage, Receives, Messages
  <2> QED BY <2>1, <2>2, OneKept
<1>9. ASSUME NEW i \in Instance, InputMessage(i) PROVE DCInPlace'
  <2> DEFINE d == [data[i] EXCEPT !.window = None]
  <2>1. Alive(i) /\ d \in NetscapeData /\ SameFields(data[i], d)
    BY <1>0, <1>9, DataTypes, FieldsKept DEF InputMessage, Receives, Held, SameRequest
  <2>2. mode # "linux" /\ mode' = mode /\ wine' = wine /\ data' = [data EXCEPT ![i] = d]
    BY <1>9 DEF InputMessage, Receives, Messages
  <2> QED BY <2>1, <2>2, OneKept
<1>10. ASSUME NEW i \in Instance, OtherMessage(i) PROVE DCInPlace'
  BY <1>10, PlaceKept DEF OtherMessage, Frame, Alive
<1>11. ASSUME NEW i \in Instance, MouseEvent(i) PROVE DCInPlace'
  <2> DEFINE d == [data[i] EXCEPT !.window = None]
  <2>1. Alive(i) /\ d \in NetscapeData /\ SameFields(data[i], d)
    BY <1>0, <1>11, DataTypes, FieldsKept DEF MouseEvent, Held, SameRequest
  <2>2. mode' = mode /\ wine' = wine /\ data' = [data EXCEPT ![i] = d]
    BY <1>11 DEF MouseEvent
  <2>3. OthersMove
    BY <1>11 DEF MouseEvent, Frame
  <2> QED BY <2>1, <2>2, <2>3, OneKept
<1>12. ASSUME NEW i \in Instance, EndEvent(i) PROVE DCInPlace'
  <2> DEFINE d == [data[i] EXCEPT !.window = Top.was]
  <2>1. Alive(i) /\ Top.was \in Held /\ OthersMove /\ mode' = mode /\ wine' = wine
    BY <1>0, <1>12, TopAndPop DEF EndEvent, IInv, StackOK, Ends, FrameRecord
  <2>2. d \in NetscapeData /\ SameFields(data[i], d)
    BY <1>0, <2>1, DataTypes, FieldsKept DEF SameRequest
  <2>3. data' = data \/ data' = [data EXCEPT ![i] = d]
    BY <1>12 DEF EndEvent
  <2>4. CASE data' = data
    BY <2>1, <2>4, PlaceKept DEF Alive
  <2>5. CASE data' = [data EXCEPT ![i] = d]
    BY <2>1, <2>2, <2>5, OneKept
  <2> QED BY <2>3, <2>4, <2>5
<1>13. ASSUME NEW i \in Instance, NEW drawable \in Drawable[i], PaintEvent(i, drawable) PROVE DCInPlace'
  <2>1. OthersMove /\ mode' = mode /\ Alive(i)
    BY <1>13 DEF PaintEvent, Frame
  <2>2. CASE UNCHANGED <<wine, data>>
    BY <2>1, <2>2, PlaceKept DEF Alive
  <2>3. CASE /\ wine' = Moved(i, drawable, data[i].browser)
             /\ data' = [data EXCEPT ![i].lastDrawableDC = drawable]
    <3>1. /\ wine' = [wine EXCEPT ![i] = [wine[i] EXCEPT !.drawable = drawable, !.rect = data[i].browser,
                                                          !.refused = FALSE]]
          /\ data' = [data EXCEPT ![i] = [data[i] EXCEPT !.lastDrawableDC = drawable]] /\ data[i].hDC
      BY <1>13, <2>3 DEF PaintEvent, Moved
    <3>2. \A d \in NetscapeData : \A b : LET e == [d EXCEPT !.lastDrawableDC = b]
                                          IN  e.hDC = d.hDC /\ e.browser = d.browser /\ e.lastDrawableDC = b
      BY DEF NetscapeData
    <3>3. /\ data'[i].hDC = data[i].hDC /\ data'[i].browser = data[i].browser /\ data'[i].lastDrawableDC = drawable
          /\ \A j \in Instance \ {i} : data'[j] = data[j] /\ wine'[j] = wine[j]
      <4>1. data'[i] = [data[i] EXCEPT !.lastDrawableDC = drawable]
        BY <1>0, <3>1 DEF TypeOK
      <4>2. \A j \in Instance \ {i} : data'[j] = data[j] /\ wine'[j] = wine[j]
        BY <1>0, <3>1 DEF TypeOK
      <4> QED BY <1>0, <2>1, <3>2, <4>1, <4>2
    <3>4. wine'[i].drawable = drawable /\ wine'[i].rect = data[i].browser
      BY <1>0, <3>1 DEF DCRecord
    <3>5. /\ \A j \in Instance : Within(j, {"setwindow"})' <=> Within(j, {"setwindow"})
          /\ \A f \in 1 .. Len(frames') : frames'[f].kind \in {"show", "setwindow"} =>
                f \in 1 .. Len(frames) /\ frames'[f] = frames[f]
      BY <1>0, <2>1, SettingsKept
    <3>6. \A j \in Instance : data'[j] # None =>
             /\ ~data'[j].hDC => data'[j].lastDrawableDC = None
             /\ Placed(j)' => /\ wine'[j].drawable = data'[j].lastDrawableDC
                              /\ Within(j, {"setwindow"})' \/ AtPlace(j)'
      BY <3>1, <3>3, <3>4, <3>5 DEF DCInPlace, Alive, Placed, AtPlace
    <3>7. mode = "linux" =>
          /\ \A f \in 1 .. Len(frames') : frames'[f].kind # "show"
          /\ \A j \in Instance : \A f \in 1 .. Len(frames') :
                Setting(f, j)' => frames'[f].browser = data'[j].browser
          /\ \A j \in Instance : \A f, g \in 1 .. Len(frames') : Setting(f, j)' /\ Setting(g, j)' => f = g
      BY <3>3, <3>5 DEF DCInPlace, Setting
    <3>8. mode # "linux" => \A j \in Instance : data'[j] # None => ~data'[j].hDC
      BY <2>1, <3>3 DEF DCInPlace, Alive
    <3> QED BY <2>1, <3>6, <3>7, <3>8 DEF DCInPlace, Alive
  <2> QED BY <1>13, <2>2, <2>3 DEF PaintEvent
<1>14. ASSUME NEW i \in Instance, NEW rect \in Area[i], InvalidateRect(i, rect) PROVE DCInPlace'
  <2>1. Alive(i) /\ rect \in Rect /\ mode' = mode /\ wine' = wine /\ OthersMove
    BY <1>14, AreaAssumption DEF InvalidateRect, Ask
  <2>2. PICK d : d \in NetscapeData /\ SameFields(data[i], d) /\ data' = [data EXCEPT ![i] = d]
    <3> DEFINE first  == [data[i] EXCEPT !.invalidate = "rect", !.invalidateRect = rect]
               merged == [data[i] EXCEPT !.invalidateRect = Merge(data[i].invalidateRect, rect)]
    <3>1. data[i] \in NetscapeData /\ (data[i].invalidate = "rect" => data[i].invalidateRect \in Rect)
      BY <1>0, <2>1 DEF IInv
    <3>2. first \in NetscapeData /\ SameFields(data[i], first)
      BY <2>1, <3>1, RequestTypes, FieldsKept
    <3>3. data[i].invalidate = "rect" => merged \in NetscapeData /\ SameFields(data[i], merged)
      BY <2>1, <3>1, MergeCovers, RequestTypes, FieldsKept
    <3>4. CASE data[i].invalidate = "nothing"
      BY <1>14, <3>2, <3>4 DEF InvalidateRect, Ask
    <3>5. CASE data[i].invalidate = "rect"
      BY <1>14, <3>3, <3>5 DEF InvalidateRect, Ask
    <3>6. CASE data[i].invalidate = "everything"
      BY <1>14, <3>1, <3>6 DEF InvalidateRect, Ask, SameFields
    <3> QED BY <3>1, <3>4, <3>5, <3>6 DEF NetscapeData
  <2> QED BY <2>1, <2>2, OneKept
<1>15. ASSUME NEW i \in Instance, InvalidateAll(i) PROVE DCInPlace'
  <2> DEFINE d == [data[i] EXCEPT !.invalidate = "everything"]
  <2>1. Alive(i) /\ mode' = mode /\ wine' = wine /\ OthersMove /\ data' = [data EXCEPT ![i] = d]
    BY <1>15 DEF InvalidateAll, Ask
  <2>2. d \in NetscapeData /\ SameFields(data[i], d)
    BY <1>0, <2>1, RequestTypes, FieldsKept
  <2> QED BY <2>1, <2>2, OneKept
<1>16. ASSUME NEW i \in Instance, Callback(i) PROVE DCInPlace'
  BY <1>16, PlaceKept DEF Callback, Frame, Alive
<1>17. CASE BeginProcess
  BY <1>17, PlaceKept DEF BeginProcess, Frame, Alive
<1>18. CASE EndProcess
  <2>1. OthersMove /\ mode' = mode /\ wine' = wine
    BY <1>18 DEF EndProcess, Ends
  <2>2. CASE data' = data
    BY <2>1, <2>2, PlaceKept DEF Alive
  <2>3. CASE data' = [i \in Instance |->
                        IF Alive(i) THEN [data[i] EXCEPT !.invalidate = "nothing"] ELSE data[i]]
    <3>1. \A d \in NetscapeData : LET e == [d EXCEPT !.invalidate = "nothing"]
                                  IN  e \in NetscapeData /\ SameFields(d, e)
      BY RequestTypes, FieldsKept
    <3>2. \A i \in Instance : SamePlace(i)
      BY <1>0, <2>1, <2>3, <3>1 DEF Alive, SameFields
    <3> QED BY <2>1, <3>2, PlaceKept
  <2> QED BY <1>18, <2>2, <2>3 DEF EndProcess
<1>19. CASE Return
  BY <1>19, PlaceKept DEF Return, Ends, Alive
<1>20. CASE UNCHANGED vars
  BY <1>20, PlaceKept DEF vars, Alive
<1> QED BY <1>1, <1>2, <1>3, <1>4, <1>5, <1>6, <1>7, <1>8, <1>9, <1>10, <1>11, <1>12, <1>13, <1>14,
           <1>15, <1>16, <1>17, <1>18, <1>19, <1>20 DEF Next

LEMMA PaintStep ==
    ASSUME IInv, DCInPlace, NEW i \in Instance, NEW drawable \in Drawable[i],
           PaintEvent(i, drawable), data'[i].lastDrawableDC = drawable
    PROVE  wine'[i].drawable = drawable /\ (AtPlace(i)' \/ Within(i, {"setwindow"}))
<1> USE NoneAssumption
<1>1. Alive(i) /\ data[i].hDC /\ data[i] \in NetscapeData /\ wine[i] \in DCRecord
  BY DEF PaintEvent, IInv, TypeOK, Alive
<1>2. CASE UNCHANGED <<wine, data>>
  <2>1. drawable = data[i].lastDrawableDC /\ Placed(i) /\ (AtPlace(i)' <=> AtPlace(i))
    BY <1>1, <1>2, DrawableAssumption DEF Placed, AtPlace
  <2> QED BY <1>1, <1>2, <2>1 DEF DCInPlace
<1>3. CASE wine' = Moved(i, drawable, data[i].browser) /\ data' = [data EXCEPT ![i].lastDrawableDC = drawable]
  <2>1. wine'[i].drawable = drawable /\ wine'[i].rect = data[i].browser
    BY <1>1, <1>3 DEF Moved, IInv, TypeOK, DCRecord
  <2>2. [data[i] EXCEPT !.lastDrawableDC = drawable].browser = data[i].browser
    BY <1>1 DEF NetscapeData
  <2>3. data'[i].browser = data[i].browser
    BY <1>3, <2>2 DEF IInv, TypeOK
  <2> QED BY <2>1, <2>3 DEF AtPlace
<1> QED BY <1>2, <1>3 DEF PaintEvent

\* For any instances, drawables and places, if plugins do not let the browser set
\* their window inside an event: when the code takes the DC for one that draws to
\* the drawable of a paint event, it does (FUNCTION_NPP_HANDLE_EVENT), and at the
\* place the browser has given last, unless the driver has refused the move at the
\* end of FUNCTION_NPP_SET_WINDOW since, or the paint is nested in the setwindow
\* of the same instance, before that move.
THEOREM AlwaysPaintsInPlace == ASSUME Nested = {} PROVE Spec => PaintsInPlace
<1> DEFINE Inv == IInv /\ DCInPlace
           InPlace == \A i \in Instance : \A drawable \in Drawable[i] :
                         PaintEvent(i, drawable) /\ data'[i].lastDrawableDC = drawable =>
                            /\ wine'[i].drawable = drawable
                            /\ \/ wine'[i].rect = data'[i].browser
                               \/ wine'[i].refused
                               \/ Within(i, {"setwindow"})
<1>1. Init => Inv
  BY InitRight, InitInPlace
<1>2. Inv /\ [Next]_vars => Inv'
  BY StepRight, PlaceStep
<1>3. Inv /\ [Next]_vars => [InPlace]_vars
  BY PaintStep DEF AtPlace
<1>4. Spec => [][InPlace]_vars
  BY <1>1, <1>2, <1>3, PTL DEF Spec
<1> QED BY <1>4 DEF PaintsInPlace

-----------------------------------------------------------------------------
(***************************************************************************)
(* The window and the DC of each instance, and what the handlers of its    *)
(* events on the stack will put back.  Only the outermost matters: it has  *)
(* saved the lasting window, the others what they found.                   *)
(***************************************************************************)
Event(f, i) == frames[f].of = i /\ frames[f].kind \in {"paint", "input", "mouse"}
Shows(f, i) == frames[f].of = i /\ frames[f].kind = "show"

Outermost(f, i) == Event(f, i) /\ \A g \in 1 .. Len(frames) : Event(g, i) => f <= g

\* FUNCTION_NPP_SET_WINDOW shows a window that has no DC yet.
Fresh(i) == \E f \in 1 .. Len(frames) : Shows(f, i) /\ frames[f].fresh

LastingWindow(d) == IF d.hDC THEN "hDC" ELSE IF d.windowlessMode THEN "GetDC" ELSE "hWnd"
LastingType(d)   == IF d.hDC \/ d.windowlessMode THEN "Drawable" ELSE "Window"
LastingHeld(d)   == IF d.windowlessMode /\ ~d.hDC THEN 1 ELSE 0

\* The type of an NPWindow is set once it has a window or DC, and from then
\* on it is complete.
WindowRight(d, held, fresh, handling) ==
    /\ d.hDC => mode = "linux" /\ d.type # None
    /\ d.hWnd => mode # "linux"
    /\ fresh => d.hWnd /\ d.type = None
    /\ d.hWnd /\ ~fresh => d.type # None
    /\ d.type = None => held = 0 /\ ~handling
    /\ d.type # None => /\ d.hDC \/ d.hWnd
                        /\ d.type = LastingType(d) /\ held = LastingHeld(d)
                        /\ ~handling => d.window = LastingWindow(d)

Saved(i) ==
    /\ \A f \in 1 .. Len(frames) : Outermost(f, i) => frames[f].was = LastingWindow(data[i])
    /\ \A f, g \in 1 .. Len(frames) : Shows(f, i) /\ Shows(g, i) => f = g

RightAt(i) ==
    IF Alive(i) THEN WindowRight(data[i], wine[i].held, Fresh(i), Handling(i)) /\ Saved(i)
    ELSE wine[i].held = 0

WindowsRight == \A i \in Instance : RightAt(i)

LEMMA InitWindows == Init => WindowsRight
BY DEF Init, WindowsRight, RightAt, Alive, NoDC

LEMMA RightIsRestored == ASSUME IInv, WindowsRight PROVE WindowRestored
<1> SUFFICES ASSUME NEW i \in Instance, Alive(i), ~Handling(i),
                    ~\E f \in 1 .. Len(frames) : frames[f].of = i /\ frames[f].fresh /\ frames[f].kind = "show"
             PROVE  /\ data[i].hDC => data[i].window = "hDC" /\ data[i].type = "Drawable"
                    /\ data[i].hWnd => WithWindow(data[i]) = data[i]
                    /\ wine[i].held = IF data[i].hWnd /\ data[i].windowlessMode THEN 1 ELSE 0
  BY DEF WindowRestored, WindowsRight, RightAt
<1>1. ~Fresh(i)
  BY DEF Fresh, Shows
<1>2. WindowRight(data[i], wine[i].held, Fresh(i), Handling(i)) /\ data[i] \in NetscapeData
  BY DEF WindowsRight, RightAt, IInv, TypeOK, Alive
<1> DEFINE d == data[i]
<1>3. /\ d.hDC => d.window = "hDC" /\ d.type = "Drawable"
      /\ wine[i].held = IF d.hWnd /\ d.windowlessMode THEN 1 ELSE 0
  BY <1>1, <1>2 DEF WindowRight, LastingWindow, LastingType, LastingHeld, NetscapeData
<1>4. d.hWnd => /\ d.window = IF d.windowlessMode THEN "GetDC" ELSE "hWnd"
                /\ d.type = IF d.windowlessMode THEN "Drawable" ELSE "Window"
  BY <1>1, <1>2 DEF WindowRight, LastingWindow, LastingType, LastingHeld, NetscapeData
<1>5. d.hWnd => WithWindow(d) = d
  BY <1>2, <1>4 DEF WithWindow, NetscapeData
<1> QED BY <1>3, <1>5

\* The handlers of events and the shown windows of instance i are what they
\* were.
Marked == {"paint", "input", "mouse", "show"}

SameMarks(i) ==
    /\ \A f \in 1 .. Len(frames') : frames'[f].of = i /\ frames'[f].kind \in Marked =>
          f \in 1 .. Len(frames) /\ frames'[f] = frames[f]
    /\ \A f \in 1 .. Len(frames) : frames[f].of = i /\ frames[f].kind \in Marked =>
          f \in 1 .. Len(frames') /\ frames'[f] = frames[f]

LEMMA MarksAfter ==
    ASSUME frames \in Seq(FrameRecord), NEW i \in Instance
    PROVE  /\ UNCHANGED frames => SameMarks(i)
           /\ \A frame : Push(frame) /\ (frame.of # i \/ frame.kind \notin Marked) => SameMarks(i)
           /\ Ends /\ (Top.of # i \/ Top.kind \notin Marked) => SameMarks(i)
           /\ Shown /\ Top.of # i => SameMarks(i)
<1>1. UNCHANGED frames => SameMarks(i)
  BY DEF SameMarks
<1>2. ASSUME NEW frame, Push(frame), frame.of # i \/ frame.kind \notin Marked PROVE SameMarks(i)
  <2>1. /\ Len(frames) \in Nat /\ Len(frames') = Len(frames) + 1 /\ frames'[Len(frames) + 1] = frame
        /\ \A n \in 1 .. Len(frames) : frames'[n] = frames[n]
    BY <1>2, AppendProperty DEF Push
  <2>2. \A n \in 1 .. Len(frames') : n \in 1 .. Len(frames) \/ n = Len(frames) + 1
    BY <2>1
  <2>3. \A n \in 1 .. Len(frames) : n \in 1 .. Len(frames')
    BY <2>1
  <2> QED BY <1>2, <2>1, <2>2, <2>3 DEF SameMarks
<1>3. ASSUME Ends, Top.of # i \/ Top.kind \notin Marked PROVE SameMarks(i)
  <2>1. /\ Top = frames[Len(frames)] /\ Len(frames) \in Nat \ {0} /\ Len(frames') = Len(frames) - 1
        /\ \A n \in 1 .. Len(frames') : frames'[n] = frames[n]
    BY <1>3, TopAndPop DEF Ends
  <2>2. /\ \A n \in 1 .. Len(frames') : n \in 1 .. Len(frames)
        /\ \A n \in 1 .. Len(frames) : n \in 1 .. Len(frames') \/ n = Len(frames)
    BY <2>1
  <2> QED BY <1>3, <2>1, <2>2 DEF SameMarks
<1>4. ASSUME Shown, Top.of # i PROVE SameMarks(i)
  <2> DEFINE frame == [Top EXCEPT !.kind = "setwindow"]
  <2>1. frame.of = Top.of /\ Top = frames[Len(frames)] /\ Len(frames) \in Nat \ {0}
    BY <1>4, TopAndPop DEF Shown, FrameRecord
  <2>2. /\ Len(frames') = Len(frames) /\ frames'[Len(frames)] = frame
        /\ \A n \in 1 .. Len(frames) - 1 : frames'[n] = frames[n]
    BY <1>4, <2>1, TopAndPop, AppendProperty DEF Shown
  <2>3. \A n \in 1 .. Len(frames) : n = Len(frames) \/ n \in 1 .. Len(frames) - 1
    BY <2>1
  <2> QED BY <1>4, <2>1, <2>2, <2>3 DEF SameMarks
<1> QED BY <1>1, <1>2, <1>3, <1>4

LEMMA MarksMean ==
    ASSUME NEW i \in Instance, SameMarks(i)
    PROVE  /\ Fresh(i)' <=> Fresh(i)
           /\ Handling(i)' <=> Handling(i)
           /\ \A f \in 1 .. Len(frames') : Outermost(f, i)' => f \in 1 .. Len(frames) /\ frames'[f] = frames[f]
                                                                 /\ Outermost(f, i)
           /\ \A f \in 1 .. Len(frames') : Shows(f, i)' => f \in 1 .. Len(frames) /\ Shows(f, i)
<1>1. /\ \A f \in 1 .. Len(frames') : Event(f, i)' => f \in 1 .. Len(frames) /\ frames'[f] = frames[f] /\ Event(f, i)
      /\ \A f \in 1 .. Len(frames) : Event(f, i) => f \in 1 .. Len(frames') /\ frames'[f] = frames[f] /\ Event(f, i)'
  BY DEF SameMarks, Event, Marked
<1>2. /\ \A f \in 1 .. Len(frames') : Shows(f, i)' => f \in 1 .. Len(frames) /\ frames'[f] = frames[f] /\ Shows(f, i)
      /\ \A f \in 1 .. Len(frames) : Shows(f, i) => f \in 1 .. Len(frames') /\ frames'[f] = frames[f] /\ Shows(f, i)'
  BY DEF SameMarks, Shows, Marked
<1>3. Fresh(i)' <=> Fresh(i)
  BY <1>2 DEF Fresh
<1>4. Handling(i)' <=> Handling(i)
  BY <1>1 DEF Handling, Within, Event
<1>5. ASSUME NEW f \in 1 .. Len(frames'), Outermost(f, i)'
      PROVE  f \in 1 .. Len(frames) /\ frames'[f] = frames[f] /\ Outermost(f, i)
  BY <1>1, <1>5 DEF Outermost
<1> QED BY <1>2, <1>3, <1>4, <1>5

SameWindow(d, e) ==
    /\ e.hWnd = d.hWnd /\ e.hDC = d.hDC /\ e.windowlessMode = d.windowlessMode
    /\ e.window = d.window /\ e.type = d.type

LEMMA WindowKept ==
    ASSUME NEW i \in Instance, RightAt(i), mode' = mode, SameMarks(i),
           data'[i] # None <=> Alive(i), Alive(i) => SameWindow(data[i], data'[i]),
           wine'[i].held = wine[i].held
    PROVE  RightAt(i)'
<1>1. CASE ~Alive(i)
  BY <1>1 DEF RightAt, Alive
<1>2. CASE Alive(i)
  <2>1. WindowRight(data[i], wine[i].held, Fresh(i), Handling(i)) /\ Saved(i)
    BY <1>2 DEF RightAt
  <2>2. LastingWindow(data'[i]) = LastingWindow(data[i]) /\ LastingType(data'[i]) = LastingType(data[i])
        /\ LastingHeld(data'[i]) = LastingHeld(data[i])
    BY <1>2 DEF SameWindow, LastingWindow, LastingType, LastingHeld
  <2>3. (Fresh(i)' <=> Fresh(i)) /\ (Handling(i)' <=> Handling(i))
    BY MarksMean
  <2>4. WindowRight(data[i], wine[i].held, Fresh(i), Handling(i))'
    BY <1>2, <2>1, <2>2, <2>3 DEF WindowRight, SameWindow
  <2>5. Saved(i)'
    BY <2>1, <2>2, MarksMean DEF Saved
  <2> QED BY <1>2, <2>4, <2>5 DEF RightAt, Alive
<1> QED BY <1>1, <1>2

\* A step of instance i.
LEMMA OthersKept ==
    ASSUME WindowsRight, mode' = mode, NEW i \in Instance,
           \A j \in Instance \ {i} : data'[j] = data[j] /\ wine'[j].held = wine[j].held /\ SameMarks(j),
           RightAt(i)'
    PROVE  WindowsRight'
<1>1. ASSUME NEW j \in Instance \ {i} PROVE RightAt(j)'
  <2>1. RightAt(j) /\ data'[j] = data[j] /\ wine'[j].held = wine[j].held /\ SameMarks(j)
    BY DEF WindowsRight
  <2> QED BY <2>1, WindowKept DEF Alive, SameWindow
<1> QED BY <1>1 DEF WindowsRight

\* A step that matters to no window.
LEMMA AllKept ==
    ASSUME WindowsRight, mode' = mode,
           \A j \in Instance : /\ data'[j] # None <=> Alive(j)
                               /\ Alive(j) => SameWindow(data[j], data'[j])
                               /\ wine'[j].held = wine[j].held /\ SameMarks(j)
    PROVE  WindowsRight'
BY WindowKept DEF WindowsRight

LEMMA WindowChanged ==
    ASSUME NEW d \in NetscapeData, NEW w \in Held
    PROVE  /\ [d EXCEPT !.window = w] # None /\ [d EXCEPT !.window = w].window = w
           /\ [d EXCEPT !.window = w].hWnd = d.hWnd /\ [d EXCEPT !.window = w].hDC = d.hDC
           /\ [d EXCEPT !.window = w].type = d.type
           /\ [d EXCEPT !.window = w].windowlessMode = d.windowlessMode
<1>1. [d EXCEPT !.window = w] \in NetscapeData
  BY DataTypes DEF SameRequest
<1> QED BY <1>1, NoneAssumption DEF NetscapeData

\* The handler of an event begins.
LEMMA EventBegins ==
    ASSUME IInv, WindowsRight, NEW i \in Instance, Alive(i), data[i].type # None,
           NEW w \in Held, data' = [data EXCEPT ![i].window = w], wine' = wine, mode' = mode,
           NEW kind \in {"paint", "input", "mouse"},
           Push([Frame(kind, i) EXCEPT !.was = data[i].window])
    PROVE  WindowsRight'
<1> DEFINE frame == [Frame(kind, i) EXCEPT !.was = data[i].window]
<1>0. frames \in Seq(FrameRecord) /\ data[i] \in NetscapeData
      /\ WindowRight(data[i], wine[i].held, Fresh(i), Handling(i)) /\ Saved(i)
  BY DEF IInv, TypeOK, Alive, WindowsRight, RightAt
<1>1. frame.kind = kind /\ frame.of = i /\ frame.was = data[i].window
  BY DEF Frame
<1>2. /\ \A j \in Instance \ {i} : data'[j] = data[j]
      /\ data'[i] = [data[i] EXCEPT !.window = w]
  BY DEF IInv, TypeOK
<1>3. \A j \in Instance \ {i} : SameMarks(j)
  BY <1>0, <1>1, MarksAfter
<1>4. PICK n \in Nat : /\ Len(frames) \in Nat /\ n = Len(frames) + 1
                       /\ Len(frames') = n /\ frames'[n] = frame
                       /\ \A f \in 1 .. Len(frames) : frames'[f] = frames[f]
  BY <1>0, AppendProperty DEF Push
<1>5. /\ \A f \in 1 .. Len(frames') : f \in 1 .. Len(frames) \/ f = n
      /\ \A f \in 1 .. Len(frames) : f \in 1 .. Len(frames') /\ f < n
      /\ n \in 1 .. Len(frames')
  BY <1>4
<1>6. /\ data'[i].hWnd = data[i].hWnd /\ data'[i].hDC = data[i].hDC /\ data'[i].type = data[i].type
      /\ data'[i].windowlessMode = data[i].windowlessMode /\ data'[i] # None
  BY <1>0, <1>2, WindowChanged
<1> HIDE DEF frame
<1>7. LastingWindow(data'[i]) = LastingWindow(data[i]) /\ LastingType(data'[i]) = LastingType(data[i])
      /\ LastingHeld(data'[i]) = LastingHeld(data[i])
  BY <1>6 DEF LastingWindow, LastingType, LastingHeld
<1>8. /\ ~Shows(n, i)' /\ Event(n, i)'
      /\ \A f \in 1 .. Len(frames) : (Shows(f, i)' <=> Shows(f, i)) /\ (Event(f, i)' <=> Event(f, i))
  BY <1>1, <1>4 DEF Shows, Event
<1>9. (Fresh(i)' <=> Fresh(i)) /\ Handling(i)'
  BY <1>4, <1>5, <1>8 DEF Fresh, Handling, Within, Event
<1>10. WindowRight(data[i], wine[i].held, Fresh(i), Handling(i))'
  BY <1>0, <1>6, <1>7, <1>9 DEF WindowRight
<1>11. ASSUME NEW f \in 1 .. Len(frames'), Outermost(f, i)' PROVE frames'[f].was = LastingWindow(data[i])
  <2>1. CASE f = n
    <3>1. ~Handling(i)
      BY <1>4, <1>5, <1>8, <1>11, <2>1 DEF Outermost, Handling, Within, Event
    <3> QED BY <1>0, <1>1, <1>4, <2>1, <3>1 DEF WindowRight
  <2>2. CASE f \in 1 .. Len(frames)
    <3>1. Outermost(f, i)
      BY <1>5, <1>8, <1>11, <2>2 DEF Outermost
    <3> QED BY <1>0, <1>4, <2>2, <3>1 DEF Saved
  <2> QED BY <1>5, <2>1, <2>2
<1>12. Saved(i)'
  BY <1>0, <1>5, <1>7, <1>8, <1>11 DEF Saved
<1>13. RightAt(i)'
  BY <1>6, <1>10, <1>12 DEF RightAt, Alive
<1> QED BY <1>2, <1>3, <1>13, OthersKept

\* It ends, and puts back what it found.
LEMMA EventEnds ==
    ASSUME IInv, WindowsRight, NEW i \in Instance, EndEvent(i)
    PROVE  WindowsRight'
<1> PICK n : n = Len(frames)
  OBVIOUS
<1>0. /\ frames \in Seq(FrameRecord) /\ Ends /\ Alive(i) /\ data[i] \in NetscapeData
      /\ Event(n, i) /\ Top = frames[n]
      /\ WindowRight(data[i], wine[i].held, Fresh(i), Handling(i)) /\ Saved(i)
  <2>1. Alive(i)
    BY TopAndPop DEF IInv, TypeOK, StackOK, EndEvent
  <2> QED BY <2>1, TopAndPop DEF IInv, TypeOK, Alive, WindowsRight, RightAt, EndEvent, Event, Ends, Top
<1>1. /\ n \in Nat \ {0} /\ Len(frames') = n - 1
      /\ \A f \in 1 .. Len(frames') : frames'[f] = frames[f]
  BY <1>0, TopAndPop DEF Ends
<1>2. /\ \A f \in 1 .. Len(frames') : f \in 1 .. n /\ f < n
      /\ \A f \in 1 .. n : f \in 1 .. Len(frames') \/ f = n
      /\ n \in 1 .. n /\ \A f \in 1 .. n : f <= n
  BY <1>1
<1>3. Handling(i) /\ data[i].type # None
  BY <1>0, <1>2 DEF Handling, Within, Event, WindowRight
<1>4. PICK w \in Held : data'[i] = [data[i] EXCEPT !.window = w] /\ (Top.was # None => w = Top.was)
  <2>1. data[i] = [data[i] EXCEPT !.window = data[i].window]
    BY <1>0 DEF NetscapeData
  <2>2. Top.was \in Held /\ data[i].window \in Held
    BY <1>0, TopAndPop DEF Ends, FrameRecord, NetscapeData, Held
  <2> QED BY <1>0, <2>1, <2>2 DEF EndEvent, IInv, TypeOK
<1>5. wine' = wine /\ mode' = mode /\ \A j \in Instance \ {i} : data'[j] = data[j]
  BY DEF EndEvent, IInv, TypeOK
<1>6. \A j \in Instance \ {i} : SameMarks(j)
  BY <1>0, MarksAfter DEF EndEvent
<1>7. /\ data'[i].hWnd = data[i].hWnd /\ data'[i].hDC = data[i].hDC /\ data'[i].type = data[i].type
      /\ data'[i].windowlessMode = data[i].windowlessMode /\ data'[i].window = w /\ data'[i] # None
  BY <1>0, <1>4, WindowChanged
<1>8. LastingWindow(data'[i]) = LastingWindow(data[i]) /\ LastingType(data'[i]) = LastingType(data[i])
      /\ LastingHeld(data'[i]) = LastingHeld(data[i])
  BY <1>7 DEF LastingWindow, LastingType, LastingHeld
<1>9. /\ ~Shows(n, i)
      /\ \A f \in 1 .. Len(frames') : (Shows(f, i)' <=> Shows(f, i)) /\ (Event(f, i)' <=> Event(f, i))
  BY <1>0, <1>1 DEF Shows, Event
<1>10. Fresh(i)' <=> Fresh(i)
  BY <1>1, <1>2, <1>9 DEF Fresh
<1>11. ~Handling(i)' => w = LastingWindow(data[i])
  <2>1. ~Handling(i)' => \A f \in 1 .. Len(frames') : ~Event(f, i)
    BY <1>9 DEF Handling, Within, Event
  <2>2. ~Handling(i)' => Outermost(n, i)
    BY <1>0, <1>2, <2>1 DEF Outermost
  <2>3. LastingWindow(data[i]) # None
    BY NullAssumption DEF LastingWindow
  <2> QED BY <1>0, <1>2, <1>4, <2>2, <2>3 DEF Saved
<1>12. WindowRight(data[i], wine[i].held, Fresh(i), Handling(i))'
  BY <1>0, <1>3, <1>5, <1>7, <1>8, <1>10, <1>11 DEF WindowRight
<1>13. Saved(i)'
  <2>1. ASSUME NEW f \in 1 .. Len(frames'), Outermost(f, i)' PROVE Outermost(f, i)
    <3>1. Event(f, i) /\ \A g \in 1 .. n : Event(g, i) => f <= g
      BY <1>2, <1>9, <2>1 DEF Outermost
    <3> QED BY <3>1 DEF Outermost
  <2> QED BY <1>0, <1>1, <1>2, <1>8, <1>9, <2>1 DEF Saved
<1>14. RightAt(i)'
  BY <1>7, <1>12, <1>13 DEF RightAt, Alive
<1> QED BY <1>5, <1>6, <1>14, OthersKept DEF EndEvent

\* A handler begins or ends that neither handles an event nor shows a window.
LEMMA PlainStep ==
    ASSUME frames \in Seq(FrameRecord), NEW i \in Instance,
           \/ UNCHANGED frames
           \/ Ends /\ Top.kind \notin Marked
           \/ \E kind \in {"plain", "destroy", "setwindow", "process"} : \E j, w, b :
                 \/ Push(Frame(kind, j)) \/ Push([Frame(kind, j) EXCEPT !.was = w])
                 \/ Push([Frame(kind, j) EXCEPT !.browser = b])
    PROVE  SameMarks(i)
<1>1. ASSUME NEW kind \in {"plain", "destroy", "setwindow", "process"}, NEW j, NEW w, NEW b
      PROVE  /\ Frame(kind, j).kind \notin Marked /\ [Frame(kind, j) EXCEPT !.was = w].kind \notin Marked
             /\ [Frame(kind, j) EXCEPT !.browser = b].kind \notin Marked
  BY DEF Frame, Marked
<1> QED BY <1>1, MarksAfter

LEMMA SameWindows ==
    ASSUME NEW d \in NetscapeData
    PROVE  /\ \A b : SameWindow(d, [d EXCEPT !.browser = b])
           /\ \A b : SameWindow(d, [d EXCEPT !.lastDrawableDC = b])
           /\ \A v : SameWindow(d, [d EXCEPT !.invalidate = v])
           /\ \A v : SameWindow(d, [d EXCEPT !.invalidateRect = v])
           /\ \A v, r : SameWindow(d, [d EXCEPT !.invalidate = v, !.invalidateRect = r])
           /\ SameWindow(d, d)
BY DEF NetscapeData, SameWindow

\* A step of instance i that changes nothing of its window.
LEMMA WindowUntouched ==
    ASSUME IInv, WindowsRight, mode' = mode, NEW i \in Instance, Alive(i),
           NEW d \in NetscapeData, SameWindow(data[i], d), data' = [data EXCEPT ![i] = d],
           \A j \in Instance : wine'[j].held = wine[j].held /\ SameMarks(j)
    PROVE  WindowsRight'
<1>1. data'[i] = d /\ d # None /\ \A j \in Instance \ {i} : data'[j] = data[j]
  BY NoneAssumption DEF IInv, TypeOK
<1>2. \A j \in Instance : /\ data'[j] # None <=> Alive(j)
                          /\ Alive(j) => SameWindow(data[j], data'[j])
  BY <1>1 DEF Alive, SameWindow
<1> QED BY <1>2, AllKept

\* FUNCTION_NPP_SET_WINDOW shows the window, which has no DC yet if it is new.
LEMMA ShowBegins ==
    ASSUME IInv, WindowsRight, NEW i \in Instance, Alive(i), mode # "linux", mode' = mode, wine' = wine,
           ~Handling(i), ~Within(i, {"show", "setwindow"}), NEW browser \in Browsers,
           data' = [data EXCEPT ![i] = [data[i] EXCEPT !.browser = browser, !.hWnd = TRUE]],
           NEW frame, frame.of = i, frame.kind = "show", frame.fresh = ~data[i].hWnd, Push(frame)
    PROVE  WindowsRight'
<1>0. frames \in Seq(FrameRecord) /\ data[i] \in NetscapeData
      /\ WindowRight(data[i], wine[i].held, Fresh(i), Handling(i)) /\ Saved(i)
  BY DEF IInv, TypeOK, Alive, WindowsRight, RightAt
<1>1. /\ \A j \in Instance \ {i} : data'[j] = data[j] /\ SameMarks(j)
      /\ data'[i] = [data[i] EXCEPT !.browser = browser, !.hWnd = TRUE]
  BY <1>0, MarksAfter DEF IInv, TypeOK
<1>2. /\ data'[i].hWnd /\ data'[i].hDC = data[i].hDC /\ data'[i].type = data[i].type /\ data'[i] # None
      /\ data'[i].windowlessMode = data[i].windowlessMode /\ data'[i].window = data[i].window
  <2>1. \A d \in NetscapeData : LET e == [d EXCEPT !.browser = browser, !.hWnd = TRUE]
                                IN  /\ e.hWnd /\ e.hDC = d.hDC /\ e.type = d.type
                                    /\ e.windowlessMode = d.windowlessMode /\ e.window = d.window
    BY DEF NetscapeData
  <2>2. [data[i] EXCEPT !.browser = browser, !.hWnd = TRUE] \in NetscapeData
    BY <1>0, DataTypes DEF SameRequest
  <2> QED BY <1>0, <1>1, <2>1, <2>2, NoneAssumption, ZenonT(60)
<1>3. LastingWindow(data'[i]) = LastingWindow(data[i]) /\ LastingType(data'[i]) = LastingType(data[i])
      /\ LastingHeld(data'[i]) = LastingHeld(data[i])
  BY <1>2 DEF LastingWindow, LastingType, LastingHeld
<1>4. PICK n \in Nat : /\ Len(frames) \in Nat /\ n = Len(frames) + 1
                       /\ Len(frames') = n /\ frames'[n] = frame
                       /\ \A f \in 1 .. Len(frames) : frames'[f] = frames[f]
  BY <1>0, AppendProperty DEF Push
<1>5. (\A f \in 1 .. Len(frames') : f \in 1 .. Len(frames) \/ f = n) /\ n \in 1 .. Len(frames')
  BY <1>4
<1>6. \A f \in 1 .. Len(frames) : ~Shows(f, i) /\ ~Event(f, i)
  BY DEF Handling, Within, Shows, Event
<1>7. \A f \in 1 .. Len(frames') : ~Event(f, i)' /\ (Shows(f, i)' <=> f = n)
  BY <1>4, <1>5, <1>6 DEF Shows, Event
<1>8. ~Fresh(i) /\ ~Handling(i)' /\ (Fresh(i)' <=> ~data[i].hWnd)
  <2>1. ~Fresh(i)
    BY <1>6 DEF Fresh
  <2>2. ~Handling(i)'
    BY <1>7 DEF Handling, Within, Event
  <2>3. Fresh(i)' <=> ~data[i].hWnd
    BY <1>4, <1>5, <1>7 DEF Fresh
  <2> QED BY <2>1, <2>2, <2>3
<1>9. WindowRight(data[i], wine[i].held, Fresh(i), Handling(i))'
  BY <1>0, <1>2, <1>3, <1>8 DEF WindowRight
<1>10. Saved(i)'
  BY <1>7 DEF Saved, Outermost
<1>11. RightAt(i)'
  BY <1>2, <1>9, <1>10 DEF RightAt, Alive
<1> QED BY <1>1, <1>11, OthersKept

\* Once it is shown it has its DC.
LEMMA ShowEnds ==
    ASSUME IInv, WindowsRight, NEW i \in Instance, EndShow(i)
    PROVE  WindowsRight'
<1> PICK n : n = Len(frames)
  OBVIOUS
<1>0. /\ frames \in Seq(FrameRecord) /\ Shown /\ Alive(i) /\ data[i] \in NetscapeData /\ wine[i] \in DCRecord
      /\ Shows(n, i) /\ Top = frames[n] /\ n \in Nat \ {0} /\ n \in 1 .. Len(frames)
      /\ WindowRight(data[i], wine[i].held, Fresh(i), Handling(i)) /\ Saved(i)
  <2>1. Alive(i)
    BY TopAndPop DEF IInv, TypeOK, StackOK, EndShow
  <2>2. n \in Nat \ {0} /\ n \in 1 .. Len(frames)
    BY TopAndPop DEF IInv, TypeOK, EndShow
  <2> QED BY <2>1, <2>2, TopAndPop DEF IInv, TypeOK, Alive, WindowsRight, RightAt, EndShow, Shows, Shown, Top
<1>1. /\ Len(frames') = n /\ frames'[n] = [Top EXCEPT !.kind = "setwindow"]
      /\ \A f \in 1 .. n - 1 : frames'[f] = frames[f]
  <2>1. Pop \in Seq(FrameRecord) /\ Len(Pop) = n - 1 /\ \A f \in 1 .. n - 1 : Pop[f] = frames[f]
    BY <1>0, TopAndPop DEF Shown
  <2> QED BY <1>0, <2>1, AppendProperty DEF Shown
<1>2. frames'[n].of = i /\ frames'[n].kind = "setwindow"
  BY <1>0, <1>1, TopAndPop DEF Shown, FrameRecord, Shows
<1>3. \A f \in 1 .. n : f = n \/ f \in 1 .. n - 1
  BY <1>0
<1>4. ASSUME NEW f \in 1 .. n PROVE (Event(f, i)' <=> Event(f, i)) /\ ~Shows(f, i)'
  <2>1. CASE f = n
    BY <1>0, <1>2, <2>1 DEF Event, Shows
  <2>2. CASE f \in 1 .. n - 1
    <3>1. frames'[f] = frames[f] /\ f # n /\ f \in 1 .. Len(frames)
      BY <1>0, <1>1, <2>2
    <3>2. ~Shows(f, i)
      BY <1>0, <3>1 DEF Saved
    <3> QED BY <3>1, <3>2 DEF Event, Shows
  <2> QED BY <1>3, <2>1, <2>2
<1>5. /\ ~Fresh(i)' /\ (Handling(i)' <=> Handling(i)) /\ (Fresh(i) <=> Top.fresh)
  <2>1. ~Fresh(i)'
    BY <1>1, <1>4 DEF Fresh
  <2>2. Handling(i)' <=> Handling(i)
    BY <1>1, <1>4 DEF Handling, Within, Event
  <2>3. Fresh(i) <=> Top.fresh
    BY <1>0 DEF Fresh, Saved
  <2> QED BY <2>1, <2>2, <2>3
<1>6. \A j \in Instance \ {i} : data'[j] = data[j] /\ wine'[j].held = wine[j].held /\ SameMarks(j)
  BY <1>0, MarksAfter DEF EndShow, IInv, TypeOK
<1>7. \A f \in 1 .. n : Outermost(f, i)' => Outermost(f, i) /\ frames'[f] = frames[f]
  <2>1. \A f \in 1 .. n : Outermost(f, i)' => Outermost(f, i)
    BY <1>1, <1>4 DEF Outermost
  <2>2. ~Event(n, i)
    BY <1>0 DEF Event, Shows
  <2> QED BY <1>1, <1>3, <2>1, <2>2 DEF Outermost
<1>8. CASE ~Top.fresh
  <2>1. data' = data /\ wine' = wine /\ mode' = mode
    BY <1>8 DEF EndShow
  <2>2. WindowRight(data[i], wine[i].held, Fresh(i), Handling(i))'
    BY <1>0, <1>5, <1>8, <2>1 DEF WindowRight
  <2>3. Saved(i)'
    BY <1>0, <1>1, <1>4, <1>7, <2>1 DEF Saved
  <2>4. RightAt(i)'
    BY <1>0, <2>1, <2>2, <2>3 DEF RightAt, Alive
  <2> QED BY <1>6, <2>1, <2>4, OthersKept
<1>9. CASE Top.fresh
  <2>1. /\ data'[i] = WithWindow(data[i]) /\ mode' = mode
        /\ wine'[i].held = wine[i].held + IF data[i].windowlessMode THEN 1 ELSE 0
    BY <1>0, <1>9 DEF EndShow, IInv, TypeOK, DCRecord
  <2>2. /\ data[i].hWnd /\ ~data[i].hDC /\ data[i].type = None /\ wine[i].held = 0 /\ ~Handling(i)
        /\ mode # "linux"
    BY <1>0, <1>5, <1>9 DEF WindowRight
  <2>3. data'[i] # None
    <3>1. WithWindow(data[i]) \in NetscapeData
      BY <1>0, DataTypes DEF SameRequest
    <3> QED BY <2>1, <3>1, NoneAssumption
  <2>4. \A d \in NetscapeData : LET e == WithWindow(d)
                                IN  /\ e.hWnd = d.hWnd /\ e.hDC = d.hDC /\ e.windowlessMode = d.windowlessMode
                                    /\ ~d.hDC => e.window = LastingWindow(d) /\ e.type = LastingType(d)
    BY DEF WithWindow, NetscapeData, LastingWindow, LastingType
  <2>5. /\ data'[i].hWnd /\ ~data'[i].hDC
        /\ data'[i].window = LastingWindow(data'[i]) /\ data'[i].type = LastingType(data'[i])
        /\ wine'[i].held = LastingHeld(data'[i])
    <3>1. /\ data'[i].hWnd /\ ~data'[i].hDC /\ data'[i].windowlessMode = data[i].windowlessMode
          /\ data'[i].window = LastingWindow(data[i]) /\ data'[i].type = LastingType(data[i])
      BY <1>0, <2>1, <2>2, <2>4
    <3> QED BY <2>1, <2>2, <3>1 DEF LastingWindow, LastingType, LastingHeld
  <2>6. LastingType(data'[i]) # None
    BY NullAssumption DEF LastingType
  <2>7. WindowRight(data[i], wine[i].held, Fresh(i), Handling(i))'
    BY <1>5, <2>1, <2>2, <2>5, <2>6 DEF WindowRight
  <2>8. \A f \in 1 .. n : ~Event(f, i)'
    BY <1>4, <2>2 DEF Handling, Within, Event
  <2>9. Saved(i)'
    BY <1>1, <1>4, <2>8 DEF Saved, Outermost
  <2>10. RightAt(i)'
    BY <2>3, <2>7, <2>9 DEF RightAt, Alive
  <2> QED BY <1>6, <2>1, <2>10, OthersKept
<1> QED BY <1>8, <1>9

\* FUNCTION_NPP_SET_WINDOW in linuxWindowlessMode makes the DC the window
\* again, also inside an event.
LEMMA DCSet ==
    ASSUME IInv, WindowsRight, NEW i \in Instance, Alive(i), mode = "linux", mode' = mode, wine' = wine,
           NEW browser \in Browsers, \A j \in Instance : SameMarks(j),
           data' = [data EXCEPT ![i] =
                      [data[i] EXCEPT !.browser = browser, !.hDC = TRUE, !.window = "hDC", !.type = "Drawable"]]
    PROVE  WindowsRight'
<1> DEFINE d == [data[i] EXCEPT !.browser = browser, !.hDC = TRUE, !.window = "hDC", !.type = "Drawable"]
<1>0. data[i] \in NetscapeData /\ WindowRight(data[i], wine[i].held, Fresh(i), Handling(i)) /\ Saved(i)
  BY DEF IInv, TypeOK, Alive, WindowsRight, RightAt
<1>1. d \in NetscapeData
  BY <1>0, DataTypes DEF SameRequest
<1>2. data'[i] = d /\ d # None /\ \A j \in Instance \ {i} : data'[j] = data[j]
  BY <1>1, NoneAssumption DEF IInv, TypeOK
<1>3. /\ d.hDC /\ d.window = "hDC" /\ d.type = "Drawable" /\ d.hWnd = data[i].hWnd
      /\ LastingWindow(d) = "hDC" /\ LastingType(d) = "Drawable" /\ LastingHeld(d) = 0
  BY <1>0 DEF NetscapeData, LastingWindow, LastingType, LastingHeld
<1> HIDE DEF d
<1>4. /\ ~data[i].hWnd /\ wine[i].held = 0
      /\ data[i].hDC \/ ~Handling(i)
  BY <1>0 DEF WindowRight, LastingHeld
<1>5. (Fresh(i)' <=> Fresh(i)) /\ (Handling(i)' <=> Handling(i))
  BY MarksMean
<1>6. WindowRight(data[i], wine[i].held, Fresh(i), Handling(i))'
  <2>1. d.type # None /\ ~Fresh(i)
    BY <1>0, <1>3, <1>4, NullAssumption DEF WindowRight
  <2> QED BY <1>2, <1>3, <1>4, <1>5, <2>1 DEF WindowRight
<1>7. \A f \in 1 .. Len(frames) : Outermost(f, i) => frames[f].was = "hDC"
  <2>1. CASE data[i].hDC
    BY <1>0, <2>1 DEF Saved, LastingWindow
  <2>2. CASE ~Handling(i)
    BY <2>2 DEF Outermost, Handling, Within, Event
  <2> QED BY <1>4, <2>1, <2>2
<1>8. Saved(i)'
  BY <1>0, <1>2, <1>3, <1>7, MarksMean DEF Saved
<1>9. RightAt(i)'
  BY <1>2, <1>6, <1>8 DEF RightAt, Alive
<1> QED BY <1>2, <1>9, OthersKept

\* NPN_SetValue gives the DC back and takes one if it needs one, outside the
\* handlers of events.
LEMMA ModeSet ==
    ASSUME Nested = {}, IInv, WindowsRight, NEW i \in Instance, NEW windowless \in BOOLEAN,
           SetValue(i, windowless)
    PROVE  WindowsRight'
<1> DEFINE changed == [data[i] EXCEPT !.windowlessMode = windowless]
<1>0. /\ Alive(i) /\ mode # "linux" /\ mode' = mode /\ data[i] \in NetscapeData /\ wine[i] \in DCRecord
      /\ frames \in Seq(FrameRecord) /\ ~Handling(i) /\ ~Within(i, {"show"})
      /\ WindowRight(data[i], wine[i].held, Fresh(i), Handling(i)) /\ Saved(i)
  BY DEF IInv, TypeOK, Alive, WindowsRight, RightAt, SetValue, SwitchAllowed
<1>1. ~Fresh(i) /\ ~data[i].hDC
  BY <1>0 DEF WindowRight, Fresh, Within, Shows
<1>2. \A j \in Instance : SameMarks(j)
  BY <1>0, PlainStep DEF SetValue
<1>3. ~Fresh(i)' /\ ~Handling(i)' /\ Saved(i)'
  <2>1. ~Fresh(i)' /\ ~Handling(i)'
    BY <1>0, <1>1, <1>2, MarksMean
  <2>2. \A f \in 1 .. Len(frames') : ~Outermost(f, i)'
    BY <2>1 DEF Outermost, Handling, Within, Event
  <2>3. Saved(i)'
    BY <1>0, <1>2, <2>2, MarksMean DEF Saved
  <2> QED BY <2>1, <2>3
<1>4. /\ changed \in NetscapeData /\ changed # None
      /\ changed.windowlessMode = windowless /\ changed.hWnd = data[i].hWnd /\ ~changed.hDC
      /\ changed.type = data[i].type
  <2>1. changed \in NetscapeData
    BY <1>0, DataTypes DEF SameRequest
  <2> QED BY <1>0, <1>1, <2>1, NoneAssumption DEF NetscapeData
<1>5. CASE ~data[i].hWnd
  <2>1. /\ data'[i] = changed /\ wine' = wine
        /\ \A j \in Instance \ {i} : data'[j] = data[j]
    BY <1>0, <1>5 DEF SetValue, IInv, TypeOK
  <2>2. WindowRight(data[i], wine[i].held, Fresh(i), Handling(i))'
    BY <1>0, <1>1, <1>3, <1>4, <1>5, <2>1 DEF WindowRight
  <2>3. RightAt(i)'
    BY <1>3, <1>4, <2>1, <2>2 DEF RightAt, Alive
  <2> QED BY <1>0, <1>2, <2>1, <2>3, OthersKept
<1>6. CASE data[i].hWnd
  <2> DEFINE kept == IF data[i].type = "Drawable" THEN Released(i) ELSE wine[i].held
  <2>1. kept = 0
    <3>1. /\ data[i].type = LastingType(data[i]) /\ wine[i].held = LastingHeld(data[i])
          /\ data[i].window = LastingWindow(data[i])
      BY <1>0, <1>1, <1>6 DEF WindowRight
    <3>2. CASE data[i].windowlessMode
      BY <1>1, <3>1, <3>2 DEF Released, LastingType, LastingHeld, LastingWindow
    <3>3. CASE ~data[i].windowlessMode
      BY <1>1, <3>1, <3>3 DEF LastingType, LastingHeld
    <3> QED BY <3>2, <3>3
  <2>2. /\ data'[i] = WithWindow(changed)
        /\ \A j \in Instance \ {i} : data'[j] = data[j] /\ wine'[j] = wine[j]
    BY <1>0, <1>6 DEF SetValue, IInv, TypeOK
  <2>3. wine'[i].held = IF windowless THEN 1 ELSE 0
    <3>1. wine' = [wine EXCEPT ![i].held = kept + IF windowless THEN 1 ELSE 0]
      BY <1>6 DEF SetValue
    <3>2. \A n : [wine[i] EXCEPT !.held = n].held = n
      BY <1>0 DEF DCRecord
    <3> QED BY <2>1, <3>1, <3>2 DEF IInv, TypeOK
  <2> HIDE DEF kept, changed
  <2>4. WithWindow(changed) \in NetscapeData /\ WithWindow(changed) # None
    BY <1>4, DataTypes, NoneAssumption DEF SameRequest
  <2>5. LET e == WithWindow(changed)
        IN  /\ e.hWnd /\ ~e.hDC /\ e.windowlessMode = windowless
            /\ e.window = LastingWindow(changed) /\ e.type = LastingType(changed)
    BY <1>4, <1>6 DEF WithWindow, NetscapeData, LastingWindow, LastingType
  <2>6. /\ data'[i].hWnd /\ ~data'[i].hDC
        /\ data'[i].window = LastingWindow(data'[i]) /\ data'[i].type = LastingType(data'[i])
        /\ wine'[i].held = LastingHeld(data'[i])
    BY <1>4, <2>2, <2>3, <2>5 DEF LastingWindow, LastingType, LastingHeld
  <2>7. LastingType(data'[i]) # None
    BY NullAssumption DEF LastingType
  <2>8. WindowRight(data[i], wine[i].held, Fresh(i), Handling(i))'
    BY <1>0, <1>3, <2>6, <2>7 DEF WindowRight
  <2>9. RightAt(i)'
    BY <1>3, <2>2, <2>4, <2>8 DEF RightAt, Alive
  <2> QED BY <1>0, <1>2, <2>2, <2>9, OthersKept
<1> QED BY <1>5, <1>6

\* FUNCTION_NPP_DESTROY gives the DC back.
LEMMA DestroyEnds ==
    ASSUME IInv, WindowsRight, NEW i \in Instance, EndDestroy(i)
    PROVE  WindowsRight'
<1>0. /\ frames \in Seq(FrameRecord) /\ Ends /\ Alive(i) /\ data[i] \in NetscapeData /\ wine[i] \in DCRecord
      /\ WindowRight(data[i], wine[i].held, Fresh(i), Handling(i)) /\ mode' = mode
  <2>1. Alive(i)
    BY TopAndPop DEF IInv, TypeOK, StackOK, EndDestroy
  <2> QED BY <2>1 DEF IInv, TypeOK, Alive, WindowsRight, RightAt, EndDestroy, Ends
<1>1. \A f \in 1 .. Len(frames) : ~Event(f, i) /\ ~Shows(f, i)
  <2>1. /\ Len(frames) \in Nat \ {0} /\ frames[Len(frames)].kind = "destroy" /\ frames[Len(frames)].of = i
        /\ Len(frames) \in 1 .. Len(frames) /\ \A f \in 1 .. Len(frames) : f = Len(frames) \/ f < Len(frames)
    BY <1>0, TopAndPop DEF EndDestroy
  <2>2. \A f \in 1 .. Len(frames) : f = Len(frames) \/ frames[f].of # i
    BY <2>1 DEF IInv, StackOK
  <2> QED BY <2>1, <2>2 DEF Event, Shows
<1>2. ~Fresh(i) /\ ~Handling(i)
  BY <1>1 DEF Fresh, Handling, Within, Event
<1>3. (IF data[i].hWnd /\ data[i].type = "Drawable" THEN Released(i) ELSE wine[i].held) = 0
  <2>1. CASE ~data[i].hWnd
    BY <1>0, <2>1 DEF WindowRight, LastingHeld
  <2>2. CASE data[i].hWnd
    <3>1. /\ data[i].type = LastingType(data[i]) /\ wine[i].held = LastingHeld(data[i])
          /\ data[i].window = LastingWindow(data[i]) /\ ~data[i].hDC
      BY <1>0, <1>2, <2>2 DEF WindowRight
    <3>2. CASE data[i].windowlessMode
      BY <2>2, <3>1, <3>2 DEF Released, LastingType, LastingHeld, LastingWindow
    <3>3. CASE ~data[i].windowlessMode
      BY <2>2, <3>1, <3>3 DEF LastingType, LastingHeld
    <3> QED BY <3>2, <3>3
  <2> QED BY <2>1, <2>2
<1>4. wine'[i].held = 0 /\ data'[i] = None
  <2>1. \A n : [NoDC EXCEPT !.held = n].held = n
    BY DEF NoDC
  <2> QED BY <1>3, <2>1 DEF EndDestroy, IInv, TypeOK
<1>5. \A j \in Instance \ {i} : data'[j] = data[j] /\ wine'[j] = wine[j]
  BY DEF EndDestroy, IInv, TypeOK
<1>6. \A j \in Instance : SameMarks(j)
  BY <1>0, PlainStep DEF EndDestroy, Marked
<1>7. RightAt(i)'
  BY <1>4 DEF RightAt, Alive
<1> QED BY <1>0, <1>5, <1>6, <1>7, OthersKept

LEMMA WindowStep == ASSUME Nested = {}, IInv, WindowsRight, [Next]_vars PROVE WindowsRight'
<1> USE NoneAssumption
<1>0. /\ TypeOK /\ frames \in Seq(FrameRecord)
      /\ \A i \in Instance : wine[i] \in DCRecord /\ (Alive(i) => data[i] \in NetscapeData)
      /\ \A i \in Instance : Alive(i) => WindowRight(data[i], wine[i].held, Fresh(i), Handling(i))
  BY DEF IInv, TypeOK, Alive, WindowsRight, RightAt
<1>1. ASSUME NEW i \in Instance, New(i) PROVE WindowsRight'
  <2>1. /\ data'[i] = NewData /\ wine' = wine /\ mode' = mode /\ ~Alive(i)
        /\ \A j \in Instance \ {i} : data'[j] = data[j]
    BY <1>0, <1>1 DEF New, TypeOK
  <2>2. \A j \in Instance : SameMarks(j)
    BY <1>0, <1>1, PlainStep DEF New
  <2>3. \A f \in 1 .. Len(frames) : ~Event(f, i) /\ ~Shows(f, i)
    BY <2>1 DEF IInv, StackOK, Event, Shows
  <2>4. ~Fresh(i) /\ ~Handling(i)
    BY <2>3 DEF Fresh, Handling, Within, Event
  <2>5. ~Fresh(i)' /\ ~Handling(i)' /\ Saved(i)'
    <3>1. ~Fresh(i)' /\ ~Handling(i)'
      BY <2>2, <2>4, MarksMean
    <3>2. \A f \in 1 .. Len(frames') : ~Outermost(f, i)' /\ ~Shows(f, i)'
      BY <2>2, <2>3, MarksMean DEF Outermost
    <3> QED BY <3>1, <3>2 DEF Saved
  <2>6. wine[i].held = 0
    BY <2>1 DEF WindowsRight, RightAt
  <2>7. NewData # None /\ ~NewData.hWnd /\ ~NewData.hDC /\ NewData.type = None
    <3>1. NewData \in NetscapeData
      BY <1>0 DEF NewData, NetscapeData, TypeOK
    <3> QED BY <3>1, NoneAssumption DEF NewData
  <2>8. WindowRight(data[i], wine[i].held, Fresh(i), Handling(i))'
    BY <2>1, <2>5, <2>6, <2>7 DEF WindowRight
  <2>9. RightAt(i)'
    BY <2>1, <2>5, <2>7, <2>8 DEF RightAt, Alive
  <2> QED BY <2>1, <2>2, <2>9, OthersKept
<1>2. ASSUME NEW i \in Instance, BeginDestroy(i) \/ OtherMessage(i) \/ Callback(i) PROVE WindowsRight'
  <2>1. \A j \in Instance : SameMarks(j)
    BY <1>0, <1>2, PlainStep DEF BeginDestroy, OtherMessage, Callback
  <2> QED BY <1>0, <1>2, <2>1, SameWindows, AllKept DEF BeginDestroy, OtherMessage, Callback, Alive
<1>3. ASSUME NEW i \in Instance, EndDestroy(i) PROVE WindowsRight'
  BY <1>3, DestroyEnds
<1>4. ASSUME NEW i \in Instance, NEW browser \in Position[i], BeginSetWindow(i, browser) PROVE WindowsRight'
  <2> DEFINE frame == [Frame("setwindow", i) EXCEPT !.browser = browser]
  <2>1. Alive(i) /\ browser \in Browsers /\ mode' = mode /\ wine' = wine
        /\ ~Within(i, {"show", "setwindow"}) /\ (mode # "linux" => ~Handling(i))
    BY <1>4 DEF BeginSetWindow, ResizeAllowed, Browsers
  <2>2. CASE mode = "linux"
    <3>1. \A j \in Instance : SameMarks(j)
      BY <1>0, <1>4, <2>2, PlainStep DEF BeginSetWindow
    <3> QED BY <1>4, <2>1, <2>2, <3>1, DCSet DEF BeginSetWindow
  <2>3. CASE mode # "linux" /\ data' = [data EXCEPT ![i] = [data[i] EXCEPT !.browser = browser, !.hWnd = TRUE]]
             /\ Push([frame EXCEPT !.kind = "show", !.fresh = ~data[i].hWnd])
    <3>1. LET shown == [frame EXCEPT !.kind = "show", !.fresh = ~data[i].hWnd]
          IN  shown.of = i /\ shown.kind = "show" /\ shown.fresh = ~data[i].hWnd
      BY DEF Frame
    <3> QED BY <2>1, <2>3, <3>1, ShowBegins
  <2>4. CASE mode # "linux" /\ data' = [data EXCEPT ![i].browser = browser] /\ UNCHANGED frames
    <3>1. [data[i] EXCEPT !.browser = browser] \in NetscapeData
      BY <1>0, <2>1, DataTypes DEF SameRequest
    <3>2. SameWindow(data[i], [data[i] EXCEPT !.browser = browser])
      BY <1>0, <2>1, SameWindows
    <3>3. \A j \in Instance : SameMarks(j)
      BY <1>0, <2>4, PlainStep
    <3> QED BY <2>1, <2>4, <3>1, <3>2, <3>3, WindowUntouched
  <2> QED BY <1>4, <2>2, <2>3, <2>4 DEF BeginSetWindow
<1>5. ASSUME NEW i \in Instance, EndShow(i) PROVE WindowsRight'
  BY <1>5, ShowEnds
<1>6. ASSUME NEW i \in Instance, EndSetWindow(i) PROVE WindowsRight'
  <2>1. \A j \in Instance : SameMarks(j)
    BY <1>0, <1>6, PlainStep DEF EndSetWindow, Ends, Marked
  <2>2. \A j \in Instance : wine'[j].held = wine[j].held
    <3>1. /\ [wine[i] EXCEPT !.drawable = data[i].lastDrawableDC, !.rect = Top.browser,
                             !.refused = FALSE].held = wine[i].held
          /\ [wine[i] EXCEPT !.refused = TRUE].held = wine[i].held
      BY <1>0 DEF DCRecord
    <3> QED BY <1>0, <1>6, <3>1 DEF EndSetWindow, Moved, TypeOK
  <2> QED BY <1>0, <1>6, <2>1, <2>2, SameWindows, AllKept DEF EndSetWindow, Alive
<1>7. ASSUME NEW i \in Instance, NEW windowless \in BOOLEAN, SetValue(i, windowless) PROVE WindowsRight'
  BY <1>7, ModeSet
<1>8. ASSUME NEW i \in Instance, PaintMessage(i) \/ InputMessage(i) PROVE WindowsRight'
  <2>1. Alive(i) /\ data[i].type # None
    BY <1>8, NullAssumption DEF PaintMessage, InputMessage, Receives
  <2>2. PICK kind \in {"paint", "input"}, w \in Held :
           /\ data' = [data EXCEPT ![i].window = w] /\ wine' = wine /\ mode' = mode
           /\ Push([Frame(kind, i) EXCEPT !.was = data[i].window])
    BY <1>8 DEF PaintMessage, InputMessage, Held
  <2> QED BY <2>1, <2>2, EventBegins
<1>9. ASSUME NEW i \in Instance, MouseEvent(i) PROVE WindowsRight'
  <2>1. Alive(i) /\ data[i].type # None /\ None \in Held
    BY <1>0, <1>9 DEF MouseEvent, WindowRight, Held
  <2> QED BY <1>9, <2>1, EventBegins DEF MouseEvent
<1>10. ASSUME NEW i \in Instance, EndEvent(i) PROVE WindowsRight'
  BY <1>10, EventEnds
<1>11. ASSUME NEW i \in Instance, NEW drawable \in Drawable[i], PaintEvent(i, drawable) PROVE WindowsRight'
  <2>1. \A j \in Instance : SameMarks(j)
    BY <1>0, <1>11, PlainStep DEF PaintEvent
  <2>2. \A j \in Instance : wine'[j].held = wine[j].held
    <3>1. [wine[i] EXCEPT !.drawable = drawable, !.rect = data[i].browser, !.refused = FALSE].held
             = wine[i].held
      BY <1>0 DEF DCRecord
    <3> QED BY <1>0, <1>11, <3>1 DEF PaintEvent, Moved, TypeOK
  <2>3. Alive(i) /\ mode' = mode
    BY <1>11 DEF PaintEvent
  <2>4. CASE UNCHANGED <<wine, data>>
    BY <1>0, <1>11, <2>1, <2>2, <2>4, SameWindows, AllKept DEF PaintEvent, Alive
  <2>5. CASE data' = [data EXCEPT ![i].lastDrawableDC = drawable]
    <3>1. [data[i] EXCEPT !.lastDrawableDC = drawable] \in NetscapeData
      BY <1>0, <2>3, DataTypes, ZenonT(60) DEF SameRequest, Drawables
    <3>2. SameWindow(data[i], [data[i] EXCEPT !.lastDrawableDC = drawable])
      BY <1>0, <2>3, SameWindows
    <3> QED BY <1>11, <2>1, <2>2, <2>3, <2>5, <3>1, <3>2, WindowUntouched DEF PaintEvent
  <2> QED BY <1>11, <2>4, <2>5 DEF PaintEvent
<1>12. ASSUME NEW i \in Instance, NEW rect \in Area[i], InvalidateRect(i, rect) PROVE WindowsRight'
  <2>1. Alive(i) /\ rect \in Rect /\ mode' = mode /\ wine' = wine /\ UNCHANGED frames
    BY <1>12, AreaAssumption DEF InvalidateRect, Ask
  <2>2. PICK d \in NetscapeData : SameWindow(data[i], d) /\ data' = [data EXCEPT ![i] = d]
    <3> DEFINE first  == [data[i] EXCEPT !.invalidate = "rect", !.invalidateRect = rect]
               merged == [data[i] EXCEPT !.invalidateRect = Merge(data[i].invalidateRect, rect)]
    <3>1. data[i] \in NetscapeData /\ (data[i].invalidate = "rect" => data[i].invalidateRect \in Rect)
      BY <1>0, <2>1 DEF IInv
    <3>2. first \in NetscapeData /\ SameWindow(data[i], first) /\ SameWindow(data[i], data[i])
      BY <2>1, <3>1, RequestTypes, SameWindows
    <3>3. data[i].invalidate = "rect" => merged \in NetscapeData /\ SameWindow(data[i], merged)
      BY <2>1, <3>1, MergeCovers, RequestTypes, SameWindows
    <3>4. CASE data[i].invalidate = "nothing"
      BY <1>12, <3>2, <3>4 DEF InvalidateRect, Ask
    <3>5. CASE data[i].invalidate = "rect"
      BY <1>12, <3>3, <3>5 DEF InvalidateRect, Ask
    <3>6. CASE data[i].invalidate = "everything"
      BY <1>12, <3>1, <3>2, <3>6 DEF InvalidateRect, Ask
    <3> QED BY <3>1, <3>4, <3>5, <3>6 DEF NetscapeData
  <2>3. \A j \in Instance : SameMarks(j)
    BY <1>0, <2>1, PlainStep
  <2> QED BY <2>1, <2>2, <2>3, WindowUntouched
<1>13. ASSUME NEW i \in Instance, InvalidateAll(i) PROVE WindowsRight'
  <2> DEFINE d == [data[i] EXCEPT !.invalidate = "everything"]
  <2>1. Alive(i) /\ mode' = mode /\ wine' = wine /\ UNCHANGED frames /\ data' = [data EXCEPT ![i] = d]
    BY <1>13 DEF InvalidateAll, Ask
  <2>2. d \in NetscapeData /\ SameWindow(data[i], d)
    BY <1>0, <2>1, RequestTypes, SameWindows
  <2>3. \A j \in Instance : SameMarks(j)
    BY <1>0, <2>1, PlainStep
  <2> QED BY <2>1, <2>2, <2>3, WindowUntouched
<1>14. CASE BeginProcess \/ Return \/ UNCHANGED vars
  <2>1. \A j \in Instance : SameMarks(j)
    BY <1>0, <1>14, PlainStep DEF BeginProcess, Return, Ends, Marked, vars
  <2> QED BY <1>0, <1>14, <2>1, SameWindows, AllKept DEF BeginProcess, Return, vars, Alive
<1>15. CASE EndProcess
  <2>1. \A j \in Instance : SameMarks(j)
    BY <1>0, <1>15, PlainStep DEF EndProcess, Ends, Marked
  <2>2. mode' = mode /\ wine' = wine
    BY <1>15 DEF EndProcess
  <2>3. CASE data' = data
    BY <1>0, <2>1, <2>2, <2>3, SameWindows, AllKept DEF Alive
  <2>4. CASE data' = [i \in Instance |->
                        IF Alive(i) THEN [data[i] EXCEPT !.invalidate = "nothing"] ELSE data[i]]
    <3>1. \A d \in NetscapeData : LET e == [d EXCEPT !.invalidate = "nothing"]
                                  IN  e # None /\ SameWindow(d, e)
      <4>1. \A d \in NetscapeData : [d EXCEPT !.invalidate = "nothing"] \in NetscapeData
        BY RequestTypes
      <4> QED BY <4>1, SameWindows
    <3>2. \A i \in Instance : (data'[i] # None <=> Alive(i)) /\ (Alive(i) => SameWindow(data[i], data'[i]))
      BY <1>0, <2>4, <3>1 DEF Alive
    <3> QED BY <2>1, <2>2, <3>2, AllKept
  <2> QED BY <1>15, <2>3, <2>4 DEF EndProcess
<1> QED BY <1>1, <1>2, <1>3, <1>4, <1>5, <1>6, <1>7, <1>8, <1>9, <1>10, <1>11, <1>12, <1>13, <1>14,
           <1>15 DEF Next

\* For any instances, however deep handlers nest, if plugins do not change
\* their window inside an event and the browser waits for the answer of
\* NPP_SetWindow: once no event of an instance is being handled, NPWindow holds
\* the lasting window again and no DC has leaked (wndProcedure,
\* FUNCTION_NPP_SET_WINDOW, NPN_SetValue, FUNCTION_NPP_DESTROY).
THEOREM WindowAlwaysRestored == ASSUME Nested = {} PROVE Spec => []WindowRestored
<1> DEFINE Inv == IInv /\ WindowsRight
<1>1. Init => Inv
  BY InitRight, InitWindows
<1>2. Inv /\ [Next]_vars => Inv'
  BY StepRight, WindowStep
<1>3. Inv => WindowRestored
  BY RightIsRestored
<1> QED BY <1>1, <1>2, <1>3, PTL DEF Spec
=============================================================================

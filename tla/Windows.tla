-------------------------------- MODULE Windows --------------------------------
(***************************************************************************)
(* The windows of the plugin's instances on the Windows side               *)
(* (windows/pluginloader/pluginloader.c, npnfunctions.c) and the requests  *)
(* to draw them again, which reach the browser by the timer of the Linux   *)
(* side (linux/libpipelight/nppfunctions.c, timerFunc).                    *)
(*                                                                         *)
(* Everything runs on the two main threads, but the handlers nest: while   *)
(* the plugin handles one event it may run a message loop of its own,      *)
(* which delivers other events, or call the browser, which sends the next  *)
(* command before it answers.  frames is the stack of what has begun on    *)
(* the Windows side, with the local variables that are used afterwards.    *)
(***************************************************************************)
EXTENDS Naturals, Sequences, FiniteSets

CONSTANTS
    Instance,
    Position,   \* Position[i]: rectangles i may have in the browser's window
    Drawable,   \* Drawable[i]: X11 drawables the browser lets i draw to
    Area,       \* Area[i]: rectangles the plugin asks to have drawn again
    Size,       \* the instances are squares of Size x Size points
    Nested,     \* what may happen to an instance from inside its own handler
    None,
    MaxDepth    \* bound: handlers on the stack

ASSUME SizeAssumption == Size \in Nat /\ MaxDepth \in Nat

\* RECT: the points from left up to right, and from top up to bottom.
Rect == [top : 0 .. Size, left : 0 .. Size, bottom : 0 .. Size, right : 0 .. Size]

\* The plugin asks for rectangles within its own window.
ASSUME AreaAssumption == \A i \in Instance : Area[i] \subseteq Rect
ASSUME DrawableAssumption == \A i \in Instance : None \notin Drawable[i]
ASSUME NestedAssumption == Nested \subseteq {"switch", "resize"}

VARIABLES
    mode,      \* isWindowlessMode and isLinuxWindowlessMode, as attach has set them
    data,      \* data[i]: struct NetscapeData, None without an instance
    pendingInvalidateLinuxWindowless,
    frames,
    wine,      \* wine[i]: DCs of hWnd that GetDC has given and ReleaseDC not taken
               \* back; the drawable and the rectangle hDC draws to, and whether
               \* the X server driver has refused to move it since
    asked      \* asked[i]: points the plugin has asked for since the browser
               \* was told

vars == <<mode, data, pendingInvalidateLinuxWindowless, frames, wine, asked>>

\* NPWindow.window holds a window or a DC, or is NULL.
NetscapeData ==
    [windowlessMode : BOOLEAN, hWnd : BOOLEAN, hDC : BOOLEAN,
     window : {"hWnd", "GetDC", "BeginPaint", "hDC", None}, type : {"Window", "Drawable", None},
     browser : {None} \cup UNION {Position[i] : i \in Instance},
     lastDrawableDC : {None} \cup UNION {Drawable[i] : i \in Instance},
     invalidate : {"nothing", "rect", "everything"}, invalidateRect : Rect \cup {None}]

ASSUME NoneAssumption == None \notin NetscapeData
ASSUME NullAssumption == None \notin {"hWnd", "GetDC", "hDC", "Window", "Drawable"}

NewData ==
    [windowlessMode |-> mode # "windowed", hWnd |-> FALSE, hDC |-> FALSE,
     window |-> None, type |-> None, browser |-> None, lastDrawableDC |-> None,
     invalidate |-> "nothing", invalidateRect |-> None]

NoDC == [held |-> 0, drawable |-> None, rect |-> None, refused |-> FALSE]

Init ==
    /\ mode \in {"windowed", "windowless", "linux"}
    /\ data = [i \in Instance |-> None]
    /\ pendingInvalidateLinuxWindowless = FALSE
    /\ frames = <<>>
    /\ wine = [i \in Instance |-> NoDC]
    /\ asked = [i \in Instance |-> {}]

-----------------------------------------------------------------------------
Alive(i) == data[i] # None
Top == frames[Len(frames)]
Pop == SubSeq(frames, 1, Len(frames) - 1)
Frame(kind, i) == [kind |-> kind, of |-> i, was |-> None, browser |-> None, fresh |-> FALSE]
Push(frame) == Len(frames) < MaxDepth /\ frames' = Append(frames, frame)

\* The plugin's code runs, in a callback.
PluginRuns == frames # <<>> /\ Top.kind \notin {"process", "show"}

\* A command of the Linux side is read, in main or for a call of the plugin.
Commands == frames = <<>> \/ PluginRuns

\* wndProcedure is called: from the loop in PROCESS_WINDOW_EVENTS, by
\* ShowWindow and its like, or from a message loop of the plugin.
Messages == frames # <<>> /\ mode # "linux"

Within(i, kinds) == \E f \in 1 .. Len(frames) : frames[f].of = i /\ frames[f].kind \in kinds

Handling(i) == Within(i, {"paint", "input", "mouse"})

-----------------------------------------------------------------------------
\* FUNCTION_NPP_NEW.  The plugin's newp, and its setwindow with an empty
\* window if forceSetWindow is set.
New(i) ==
    /\ Commands
    /\ ~Alive(i)
    /\ data' = [data EXCEPT ![i] = NewData]
    /\ Push(Frame("plain", i))
    /\ UNCHANGED <<mode, pendingInvalidateLinuxWindowless, wine, asked>>

\* FUNCTION_NPP_DESTROY.  The browser knows which instances it has called,
\* but see the hazard at wndProcedure.
BeginDestroy(i) ==
    /\ Commands
    /\ Alive(i)
    /\ \A f \in 1 .. Len(frames) : frames[f].of # i
    /\ Push(Frame("destroy", i))
    /\ UNCHANGED <<mode, data, pendingInvalidateLinuxWindowless, wine, asked>>

\* ReleaseDC(hWnd, window): does nothing for a DC that GetDC has not given.
Released(i) == IF data[i].window = "GetDC" THEN wine[i].held - 1 ELSE wine[i].held

EndDestroy(i) ==
    /\ frames # <<>> /\ Top.kind = "destroy" /\ Top.of = i
    /\ wine' = [wine EXCEPT ![i] =
          [NoDC EXCEPT !.held = IF data[i].hWnd /\ data[i].type = "Drawable" THEN Released(i)
                                ELSE wine[i].held]]
    /\ data' = [data EXCEPT ![i] = None]
    /\ asked' = [asked EXCEPT ![i] = {}]
    /\ frames' = Pop
    /\ UNCHANGED <<mode, pendingInvalidateLinuxWindowless>>

-----------------------------------------------------------------------------
\* FUNCTION_NPP_SET_WINDOW until it shows the window or calls the plugin.  A
\* window there is already is always taken to have another size now.
ResizeAllowed(i) ==
    \/ "resize" \in Nested
    \/ ~Within(i, {"show", "setwindow"}) /\ (mode # "linux" => ~Handling(i))

BeginSetWindow(i, browser) ==
    LET frame == [Frame("setwindow", i) EXCEPT !.browser = browser]
    IN  /\ Commands
        /\ Alive(i) /\ ResizeAllowed(i)
        /\ \/ /\ mode = "linux"
              /\ data' = [data EXCEPT ![i] =
                    [@ EXCEPT !.browser = browser, !.hDC = TRUE, !.window = "hDC", !.type = "Drawable"]]
              /\ Push(frame)
           \/ /\ mode # "linux"
              /\ data' = [data EXCEPT ![i] = [@ EXCEPT !.browser = browser, !.hWnd = TRUE]]
              /\ Push([frame EXCEPT !.kind = "show", !.fresh = ~data[i].hWnd])
           \/ /\ mode # "linux" /\ ~data[i].hWnd   \* CreateWindowEx fails
              /\ data' = [data EXCEPT ![i].browser = browser]
              /\ UNCHANGED frames
        /\ UNCHANGED <<mode, pendingInvalidateLinuxWindowless, wine, asked>>

WithWindow(d) ==
    IF d.windowlessMode THEN [d EXCEPT !.window = "GetDC", !.type = "Drawable"]
    ELSE [d EXCEPT !.window = "hWnd", !.type = "Window"]

\* Mutant of EndShow: GetDC is called whenever the window is resized.
EndShowAgain(i) ==
    /\ frames # <<>> /\ Top.kind = "show" /\ Top.of = i
    /\ data' = [data EXCEPT ![i] = WithWindow(@)]
    /\ wine' = [wine EXCEPT ![i].held = @ + IF data[i].windowlessMode THEN 1 ELSE 0]
    /\ frames' = Append(Pop, [Top EXCEPT !.kind = "setwindow"])
    /\ UNCHANGED <<mode, pendingInvalidateLinuxWindowless, asked>>

\* ShowWindow, UpdateWindow or SetWindowPos return; only a new window gets a
\* DC; the plugin's setwindow is called.
EndShow(i) ==
    /\ frames # <<>> /\ Top.kind = "show" /\ Top.of = i
    /\ IF Top.fresh
       THEN /\ data' = [data EXCEPT ![i] = WithWindow(@)]
            /\ wine' = [wine EXCEPT ![i].held = @ + IF data[i].windowlessMode THEN 1 ELSE 0]
       ELSE UNCHANGED <<data, wine>>
    /\ frames' = Append(Pop, [Top EXCEPT !.kind = "setwindow"])
    /\ UNCHANGED <<mode, pendingInvalidateLinuxWindowless, asked>>

\* Mutant of EndSetWindow: the DC is not moved.
EndSetWindowInPlace(i) ==
    /\ frames # <<>> /\ Top.kind = "setwindow" /\ Top.of = i
    /\ frames' = Pop
    /\ UNCHANGED <<mode, data, pendingInvalidateLinuxWindowless, wine, asked>>

\* ExtEscape(X11DRV_SET_DRAWABLE) has succeeded.
Moved(i, drawable, rect) ==
    [wine EXCEPT ![i] = [@ EXCEPT !.drawable = drawable, !.rect = rect, !.refused = FALSE]]

\* The part behind the answer: the DC is moved to the rectangle this handler
\* was called with.  If that fails it stays where it is, for good.
EndSetWindow(i) ==
    /\ frames # <<>> /\ Top.kind = "setwindow" /\ Top.of = i
    /\ IF data[i].hDC /\ data[i].lastDrawableDC # None
       THEN \/ wine' = Moved(i, data[i].lastDrawableDC, Top.browser)
            \/ wine' = [wine EXCEPT ![i].refused = TRUE]
       ELSE UNCHANGED wine
    /\ frames' = Pop
    /\ UNCHANGED <<mode, data, pendingInvalidateLinuxWindowless, asked>>

\* NPN_SetValue(NPPVpluginWindowBool); the plugin's setwindow is called again.
\* In linuxWindowlessMode it only sets a flag nobody reads.
SwitchAllowed(i) == "switch" \in Nested \/ ~(Handling(i) \/ Within(i, {"show"}))

SetValue(i, windowless) ==
    /\ PluginRuns /\ mode # "linux"
    /\ Alive(i) /\ SwitchAllowed(i)
    /\ LET d == [data[i] EXCEPT !.windowlessMode = windowless]
           kept == IF data[i].type = "Drawable" THEN Released(i) ELSE wine[i].held
       IN  IF data[i].hWnd
           THEN /\ data' = [data EXCEPT ![i] = WithWindow(d)]
                /\ wine' = [wine EXCEPT ![i].held = kept + IF windowless THEN 1 ELSE 0]
                /\ Push(Frame("plain", i))
           ELSE /\ data' = [data EXCEPT ![i] = d]
                /\ UNCHANGED <<wine, frames>>
    /\ UNCHANGED <<mode, pendingInvalidateLinuxWindowless, asked>>

-----------------------------------------------------------------------------
(***************************************************************************)
(* wndProcedure, for a window of hwndToInstance in windowlessMode.         *)
(***************************************************************************)
Receives(i) == Messages /\ Alive(i) /\ data[i].hWnd /\ data[i].windowlessMode

PaintMessage(i) ==
    /\ Receives(i) /\ data[i].type = "Drawable"
    /\ data' = [data EXCEPT ![i].window = "BeginPaint"]
    /\ Push([Frame("paint", i) EXCEPT !.was = data[i].window])
    /\ UNCHANGED <<mode, pendingInvalidateLinuxWindowless, wine, asked>>

\* "the events are not correctly handled if window->window is nonzero"
InputMessage(i) ==
    /\ Receives(i) /\ data[i].type = "Drawable"
    /\ data' = [data EXCEPT ![i].window = None]
    /\ Push([Frame("input", i) EXCEPT !.was = data[i].window])
    /\ UNCHANGED <<mode, pendingInvalidateLinuxWindowless, wine, asked>>

\* Any other message, or an input before the type is set.
OtherMessage(i) ==
    /\ Receives(i)
    /\ Push(Frame("plain", i))
    /\ UNCHANGED <<mode, data, pendingInvalidateLinuxWindowless, wine, asked>>

\* WINDOWLESS_EVENT_MOUSEMOVE and _MOUSEBUTTON.
MouseEvent(i) ==
    /\ Commands
    /\ Alive(i) /\ data[i].hDC
    /\ data' = [data EXCEPT ![i].window = None]
    /\ Push([Frame("mouse", i) EXCEPT !.was = data[i].window])
    /\ UNCHANGED <<mode, pendingInvalidateLinuxWindowless, wine, asked>>

\* Mutant of EndEvent: an event the plugin has handled returns at once.
EndEventHandled(i) ==
    /\ frames # <<>> /\ Top.kind \in {"paint", "input", "mouse"} /\ Top.of = i
    /\ \/ data' = [data EXCEPT ![i].window = Top.was]
       \/ Top.kind = "input" /\ UNCHANGED data
    /\ frames' = Pop
    /\ UNCHANGED <<mode, pendingInvalidateLinuxWindowless, wine, asked>>

\* What was replaced is put back; an input message puts back no NULL.
EndEvent(i) ==
    /\ frames # <<>> /\ Top.kind \in {"paint", "input", "mouse"} /\ Top.of = i
    /\ data' = IF Top.kind = "input" /\ Top.was = None THEN data
               ELSE [data EXCEPT ![i].window = Top.was]
    /\ frames' = Pop
    /\ UNCHANGED <<mode, pendingInvalidateLinuxWindowless, wine, asked>>

\* WINDOWLESS_EVENT_PAINT, up to the plugin's event, which comes also if the DC
\* could not be moved to the drawable.
PaintEvent(i, drawable) ==
    /\ Commands
    /\ Alive(i) /\ data[i].hDC
    /\ \/ /\ drawable # data[i].lastDrawableDC
          /\ wine' = Moved(i, drawable, data[i].browser)
          /\ data' = [data EXCEPT ![i].lastDrawableDC = drawable]
       \/ UNCHANGED <<wine, data>>   \* nothing to move, or ExtEscape fails
    /\ Push(Frame("plain", i))
    /\ UNCHANGED <<mode, pendingInvalidateLinuxWindowless, asked>>

\* A callback returns after which nothing is left to do.
Return ==
    /\ frames # <<>> /\ Top.kind = "plain"
    /\ frames' = Pop
    /\ UNCHANGED <<mode, data, pendingInvalidateLinuxWindowless, wine, asked>>

-----------------------------------------------------------------------------
(***************************************************************************)
(* Invalidation in linuxWindowlessMode.                                    *)
(***************************************************************************)
Points(rect) == (rect.left .. rect.right - 1) \X (rect.top .. rect.bottom - 1)
Everything == (0 .. Size - 1) \X (0 .. Size - 1)

Lesser(a, b)  == IF a < b THEN a ELSE b
Greater(a, b) == IF a > b THEN a ELSE b

\* Mutant of Merge: one of the four sides is forgotten.
MergeThreeSides(old, rect) ==
    [old EXCEPT !.top = Lesser(rect.top, @), !.left = Lesser(rect.left, @),
                !.bottom = Greater(rect.bottom, @)]

Merge(old, rect) ==
    [top    |-> Lesser(rect.top, old.top),       left  |-> Lesser(rect.left, old.left),
     bottom |-> Greater(rect.bottom, old.bottom), right |-> Greater(rect.right, old.right)]

\* Mutant of Ask: only the first request since the last report sets the flag,
\* by a test of what has been stored just now.
AskSilently(i, points, d) ==
    /\ PluginRuns
    /\ Alive(i) /\ data[i].hDC
    /\ data' = [data EXCEPT ![i] = d]
    /\ pendingInvalidateLinuxWindowless' = (pendingInvalidateLinuxWindowless \/ d.invalidate = "nothing")
    /\ asked' = [asked EXCEPT ![i] = @ \cup points]
    /\ UNCHANGED <<mode, frames, wine>>

Ask(i, points, d) ==
    /\ PluginRuns
    /\ Alive(i) /\ data[i].hDC
    /\ data' = [data EXCEPT ![i] = d]
    /\ pendingInvalidateLinuxWindowless' = TRUE
    /\ asked' = [asked EXCEPT ![i] = @ \cup points]
    /\ UNCHANGED <<mode, frames, wine>>

\* NPN_InvalidateRect.  Before there is a window it does nothing.
InvalidateRect(i, rect) ==
    Ask(i, Points(rect),
        CASE data[i].invalidate = "nothing" ->
                [data[i] EXCEPT !.invalidate = "rect", !.invalidateRect = rect]
          [] data[i].invalidate = "rect" -> [data[i] EXCEPT !.invalidateRect = Merge(@, rect)]
          [] data[i].invalidate = "everything" -> data[i])

\* NPN_InvalidateRegion, and NPN_InvalidateRect without a rectangle.
InvalidateAll(i) == Ask(i, Everything, [data[i] EXCEPT !.invalidate = "everything"])

\* PROCESS_WINDOW_EVENTS, which the timer of the Linux side sends.
BeginProcess ==
    /\ Commands
    /\ Push(Frame("process", None))
    /\ UNCHANGED <<mode, data, pendingInvalidateLinuxWindowless, wine, asked>>

\* An async call, or a message to a window the plugin has made itself.
Callback(i) ==
    /\ frames # <<>> /\ Top.kind = "process"
    /\ Alive(i)
    /\ Push(Frame("plain", i))
    /\ UNCHANGED <<mode, data, pendingInvalidateLinuxWindowless, wine, asked>>

Told(i) ==
    IF ~Alive(i) THEN {}
    ELSE CASE data[i].invalidate = "nothing"    -> {}
           [] data[i].invalidate = "rect"       -> Points(data[i].invalidateRect)
           [] data[i].invalidate = "everything" -> Everything

\* Mutant of EndProcess: only one instance is reported, although the flag of
\* all is reset.
EndProcessOne ==
    /\ frames # <<>> /\ Top.kind = "process"
    /\ pendingInvalidateLinuxWindowless' = FALSE
    /\ LET told == {i \in Instance : Alive(i) /\ data[i].invalidate # "nothing"}
           one == IF told = {} THEN {} ELSE {CHOOSE i \in told : TRUE}
       IN  /\ asked' = [i \in Instance |-> IF i \in one THEN asked[i] \ Told(i) ELSE asked[i]]
           /\ data' = [i \in Instance |-> IF i \in one THEN [data[i] EXCEPT !.invalidate = "nothing"]
                                          ELSE data[i]]
    /\ frames' = Pop
    /\ UNCHANGED <<mode, wine>>

\* The answer, and the calls of invalidaterect in timerFunc.
EndProcess ==
    /\ frames # <<>> /\ Top.kind = "process"
    /\ IF mode = "linux" /\ pendingInvalidateLinuxWindowless
       THEN /\ asked' = [i \in Instance |-> asked[i] \ Told(i)]
            /\ data' = [i \in Instance |->
                  IF Alive(i) THEN [data[i] EXCEPT !.invalidate = "nothing"] ELSE data[i]]
            /\ pendingInvalidateLinuxWindowless' = FALSE
       ELSE UNCHANGED <<asked, data, pendingInvalidateLinuxWindowless>>
    /\ frames' = Pop
    /\ UNCHANGED <<mode, wine>>

-----------------------------------------------------------------------------
End == Return \/ EndProcess
       \/ \E i \in Instance : EndDestroy(i) \/ EndShow(i) \/ EndSetWindow(i) \/ EndEvent(i)

Next ==
    \/ \E i \in Instance :
          \/ New(i) \/ BeginDestroy(i) \/ EndDestroy(i)
          \/ \E browser \in Position[i] : BeginSetWindow(i, browser)
          \/ EndShow(i) \/ EndSetWindow(i)
          \/ \E windowless \in BOOLEAN : SetValue(i, windowless)
          \/ PaintMessage(i) \/ InputMessage(i) \/ OtherMessage(i) \/ MouseEvent(i) \/ EndEvent(i)
          \/ \E drawable \in Drawable[i] : PaintEvent(i, drawable)
          \/ \E rect \in Area[i] : InvalidateRect(i, rect)
          \/ InvalidateAll(i) \/ Callback(i)
    \/ BeginProcess \/ EndProcess \/ Return

\* Every handler returns sooner or later, whatever is nested in it; when
\* nothing runs the timer sends the next PROCESS_WINDOW_EVENTS
\* (Lifecycle!TimerRuns).
Fairness ==
    /\ \A depth \in 1 .. MaxDepth : SF_vars(Len(frames) = depth /\ End)
    /\ SF_vars(frames = <<>> /\ BeginProcess)

Spec == Init /\ [][Next]_vars /\ Fairness

-----------------------------------------------------------------------------
\* However events and commands nest: once none of the events of an instance is
\* being handled, NPWindow holds its lasting window again, as windowlessMode
\* demands, and there is one DC from GetDC for a windowless window, none for
\* another, and none is left of an instance that is gone ("Only do this once
\* to prevent leaking DCs").
WindowRestored ==
    \A i \in Instance :
        IF ~Alive(i) THEN wine[i].held = 0
        ELSE LET d == data[i]
                 fresh == \E f \in 1 .. Len(frames) : frames[f].of = i /\ frames[f].fresh
                                                       /\ frames[f].kind = "show"
             IN  ~Handling(i) /\ ~fresh =>
                    /\ d.hDC => d.window = "hDC" /\ d.type = "Drawable"
                    /\ d.hWnd => WithWindow(d) = d
                    /\ wine[i].held = IF d.hWnd /\ d.windowlessMode THEN 1 ELSE 0

\* When the plugin is asked to paint and the code takes the DC for one that draws
\* to the drawable of the event, it does, and at the place the browser has given
\* the instance last, although the DC is only touched when the drawable changes
\* and by NPP_SetWindow.  Two things may keep it at an older place: the driver has
\* refused the move at the end of NPP_SetWindow, or that end is still to come and
\* the paint is nested in the setwindow of the plugin.
PaintsInPlace ==
    [][\A i \in Instance : \A drawable \in Drawable[i] :
          PaintEvent(i, drawable) /\ data'[i].lastDrawableDC = drawable =>
              /\ wine'[i].drawable = drawable
              /\ \/ wine'[i].rect = data'[i].browser
                 \/ wine'[i].refused
                 \/ Within(i, {"setwindow"})]_vars

\* Whatever a plugin asked to have drawn again is in the one rectangle that
\* is kept for its instance, and the flag that makes the next
\* PROCESS_WINDOW_EVENTS look for it is set; also when several requests, of
\* several instances, come inside the processing of events.
InvalidationsCovered ==
    \A i \in Instance : asked[i] # {} => /\ pendingInvalidateLinuxWindowless
                                         /\ asked[i] \subseteq Told(i)

\* It reaches the browser, unless the instance goes away.
BrowserIsTold == \A i \in Instance : asked[i] # {} ~> asked[i] = {}
=============================================================================

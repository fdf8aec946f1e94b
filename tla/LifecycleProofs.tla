--------------------------- MODULE LifecycleProofs ---------------------------
(***************************************************************************)
(* Proofs about Lifecycle for any number of instances and timers and any   *)
(* depth of nesting: a limit that runs out never lets Linux take one       *)
(* call's answer for another's, both processes agree on the instances      *)
(* between two calls of the browser, and the timer the context knows runs. *)
(*                                                                         *)
(* Calls and scripts alternate on the stack, so the n-th handler of the    *)
(* Windows side belongs to the call at place 2 n - 1, and a command is     *)
(* either on its way, being carried out, or answered.                      *)
(***************************************************************************)
EXTENDS Lifecycle, TLAPS, SequenceTheorems, FiniteSetTheorems

AttachFn == {"INIT_OKAY", "SILVERLIGHT_IS_GRAPHIC_DRIVER_SUPPORTED", "GET_PLUGIN_INFO"}
EntryFn  == {"NPP_NEW", "NPP_DESTROY"}

Request ==
    [fn : AttachFn \cup {"NP_SHUTDOWN"}, of : {NULL}]
    \cup [fn : {"NPP_NEW", "PROCESS_WINDOW_EVENTS"}, of : Instance]
    \cup [fn : {"NPP_DESTROY"}, of : Instance, unschedule : BOOLEAN]

Reply == [fn : AttachFn \cup {"NP_SHUTDOWN", "NPP_NEW", "PROCESS_WINDOW_EVENTS", "NPP_DESTROY"},
          okay : BOOLEAN]

TypeOK ==
    /\ process \in {"up", "aborted", "exited"}
    /\ loader \in {"none", "starting", "running", "gone"}
    /\ attach \in {"config", "fork", "wait", "over"}
    /\ initOkay \in BOOLEAN /\ events \in {"none", "timer", "thread"}
    /\ toWin \in Seq(Request) /\ toLin \in Seq(Reply)
    /\ stack \in Seq(Request \cup {Script}) /\ handlers \in Seq(Request)
    /\ handles \in Seq(Instance) /\ instanceList \subseteq Instance
    /\ alive \subseteq Instance /\ upset \in BOOLEAN
    /\ timers \subseteq [of : Instance, id : 1 .. MaxTimers]
    /\ timerInstance \in Instance \cup {NULL}

Depth == Cardinality(Scripts)

\* A call, its script, a call the script makes, ...; every script stands on a call.
Alternates ==
    /\ Depth \in Nat
    /\ Len(stack) = 2 * Depth \/ Len(stack) = 2 * Depth + 1
    /\ \A m \in 1 .. Depth : stack[2 * m] = Script /\ stack[2 * m - 1] # Script
    /\ Len(stack) = 2 * Depth + 1 => stack[2 * Depth + 1] # Script

\* attach has failed: INIT_OKAY may still be on its way and will be answered,
\* and no other call is ever made.
Refused == attach = "over" /\ ~initOkay

StartFits ==
    /\ attach \in {"config", "fork"} =>
          loader = "none" /\ stack = <<>> /\ toWin = <<>> /\ toLin = <<>> /\ handlers = <<>>
    /\ attach # "over" => ~initOkay
    /\ attach = "wait" => Len(stack) = 1 /\ stack[1].fn \in AttachFn
    /\ initOkay => \A k \in DOMAIN stack : stack[k].fn \notin AttachFn
    /\ Refused => /\ stack = <<>>
                  /\ \A k \in DOMAIN toWin : toWin[k].fn \in AttachFn
                  /\ \A k \in DOMAIN handlers : handlers[k].fn \in AttachFn

\* Where the innermost call is.
Sent     == toWin = <<Last(stack)>> /\ toLin = <<>> /\ Len(handlers) = Depth
Handled  == /\ toWin = <<>> /\ toLin = <<>>
            /\ Len(handlers) = Depth + 1 /\ Last(handlers) = Last(stack)
Replied  == toWin = <<>> /\ Len(toLin) = 1 /\ Head(toLin).fn = Last(stack).fn
Returned == Replied /\ Len(handlers) = Depth

BridgeFits ==
    /\ loader = "gone" => toWin = <<>> /\ handlers = <<>>
    /\ ~Refused =>
          /\ Len(stack) = 2 * Depth =>
                toWin = <<>> /\ toLin = <<>> /\ (loader # "gone" => Len(handlers) = Depth)
          /\ Len(stack) = 2 * Depth + 1 =>
                IF loader = "gone" THEN toLin = <<>> \/ Replied
                ELSE Sent \/ Handled \/ Returned
          /\ loader # "gone" => \A m \in 1 .. Depth : handlers[m] = stack[2 * m - 1]

Handles == ToSet(handles)

\* What there is before NPP_New can be called.
NothingYet ==
    ~initOkay \/ events = "none" =>
        /\ alive = {} /\ handles = <<>> /\ instanceList = {}
        /\ timers = {} /\ timerInstance = NULL
        /\ \A k \in DOMAIN stack : stack[k].fn \notin EntryFn

\* NPP_New and NPP_Destroy are for an instance with a handle that no call further out is for.
HandlesFit ==
    /\ \A m, n \in DOMAIN handles : handles[m] = handles[n] => m = n
    /\ alive \subseteq Handles
    /\ \A k \in DOMAIN stack : stack[k].fn \in EntryFn =>
          /\ stack[k].of \in Handles
          /\ \A j \in 1 .. k - 1 : stack[j].of # stack[k].of

Entering(i) == stack # <<>> /\ Last(stack).of = i /\ Last(stack).fn = "NPP_NEW" /\ toWin # <<>>
Leaving(i)  == stack # <<>> /\ Last(stack).of = i /\ Last(stack).fn = "NPP_DESTROY" /\ toLin # <<>>

\* The tables differ by the instance of the innermost call alone.
ListFits ==
    loader # "gone" =>
        /\ instanceList \subseteq Handles
        /\ \A i \in Handles \ instanceList : Entering(i) \/ Leaving(i)
        /\ \A i \in Instance : Leaving(i) => i \notin instanceList

Pending(fn) == {k \in DOMAIN stack : stack[k].fn = fn}

\* The browser has it, or is about to.
Known(i) == i \in alive \/ \E k \in Pending("NPP_NEW") : stack[k].of = i

TimerFits ==
    events = "timer" /\ ~upset =>
        /\ \A i \in Handles : Known(i)
        /\ \A t \in timers : Known(t.of)
        /\ timerInstance # NULL => [of |-> timerInstance, id |-> timerID] \in timers
        /\ timerInstance = NULL =>
              handles = <<>> \/ \E k \in Pending("NPP_DESTROY") : stack[k].unschedule
        /\ \A k \in Pending("NPP_DESTROY") : timerInstance # stack[k].of
        /\ \A j, k \in Pending("NPP_DESTROY") : j = k

Fits ==
    /\ Alternates /\ StartFits /\ BridgeFits
    /\ NothingYet /\ HandlesFit /\ ListFits /\ TimerFits

IInv == TypeOK /\ (Up => Fits)

-----------------------------------------------------------------------------
LEMMA AppendProperty ==
    ASSUME NEW S, NEW s \in Seq(S), NEW e \in S
    PROVE  /\ Append(s, e) \in Seq(S) /\ Len(s) \in Nat /\ Len(Append(s, e)) = Len(s) + 1
           /\ Append(s, e)[Len(s) + 1] = e /\ Append(s, e) # <<>>
           /\ Last(Append(s, e)) = e
           /\ \A n \in 1 .. Len(s) : Append(s, e)[n] = s[n]
<1>1. /\ Append(s, e) \in Seq(S) /\ Len(s) \in Nat /\ Len(Append(s, e)) = Len(s) + 1
      /\ Append(s, e)[Len(s) + 1] = e /\ Append(s, e) # <<>>
      /\ \A n \in 1 .. Len(s) : Append(s, e)[n] = s[n]
  OBVIOUS
<1> QED BY <1>1 DEF Last

LEMMA FunctionIsSequence ==
    ASSUME NEW S, NEW n \in Nat, NEW f \in [1 .. n -> S] PROVE f \in Seq(S) /\ Len(f) = n
OBVIOUS

LEMMA FrontProperty ==
    ASSUME NEW S, NEW s \in Seq(S), s # <<>>
    PROVE  /\ Len(s) \in Nat \ {0} /\ Last(s) = s[Len(s)] /\ Last(s) \in S
           /\ Front(s) \in Seq(S) /\ Len(Front(s)) = Len(s) - 1
           /\ \A n \in 1 .. Len(s) - 1 : Front(s)[n] = s[n]
<1> DEFINE last == Len(s) - 1
           short == SubSeq(s, 1, last)
<1>1. Len(s) \in Nat \ {0} /\ last \in Nat
  OBVIOUS
<1>2. s[Len(s)] \in S /\ \A n \in 1 .. last : s[n] \in S
  BY <1>1
<1>3. short = [n \in 1 .. last |-> s[n]]
  BY <1>1
<1> HIDE DEF short, last
<1>4. short \in [1 .. last -> S]
  BY <1>2, <1>3
<1>5. short \in Seq(S) /\ Len(short) = last
  BY <1>1, <1>4, FunctionIsSequence
<1> QED BY <1>1, <1>2, <1>3, <1>5 DEF short, last, Front, Last

LEMMA HeadTail ==
    ASSUME NEW S, NEW s \in Seq(S), s # <<>>
    PROVE  /\ Len(s) \in Nat \ {0} /\ Head(s) = s[1] /\ Head(s) \in S
           /\ Tail(s) \in Seq(S) /\ Len(Tail(s)) = Len(s) - 1
           /\ \A n \in 1 .. Len(s) - 1 : Tail(s)[n] = s[n + 1]
BY HeadTailProperties

LEMMA Behind ==
    ASSUME NEW n \in Nat, NEW k \in 1 .. n
    PROVE  /\ (IF k + 1 <= n THEN n - (k + 1) + 1 ELSE 0) = n - k
           /\ n - (k + 1) + 1 = n - k
           /\ \A j \in 1 .. n - k : k + 1 + j - 1 = k + j
OBVIOUS

\* Taking one handle out of the table leaves the others.
LEMMA Removed ==
    ASSUME NEW table \in Seq(Instance), \A m, n \in DOMAIN table : table[m] = table[n] => m = n,
           NEW i \in ToSet(table)
    PROVE  LET left == Without(table, i)
           IN  /\ left \in Seq(Instance)
               /\ \A m, n \in DOMAIN left : left[m] = left[n] => m = n
               /\ ToSet(left) = ToSet(table) \ {i}
<1> DEFINE id   == CHOOSE k \in DOMAIN table : table[k] = i
           left == RemoveAt(table, id)
<1>0. id \in DOMAIN table /\ table[id] = i
  BY DEF ToSet
<1> HIDE DEF id
<1>1. Len(table) \in Nat /\ id \in 1 .. Len(table) /\ DOMAIN table = 1 .. Len(table)
  BY <1>0, LenProperties
<1>2. /\ SubSeq(table, 1, id - 1) \in Seq(Instance) /\ Len(SubSeq(table, 1, id - 1)) = id - 1
      /\ \A n \in 1 .. id - 1 : SubSeq(table, 1, id - 1)[n] = table[n]
  BY <1>1, SubSeqProperties
<1>3. /\ SubSeq(table, id + 1, Len(table)) \in Seq(Instance)
      /\ Len(SubSeq(table, id + 1, Len(table))) = Len(table) - id
      /\ \A n \in 1 .. Len(table) - id : SubSeq(table, id + 1, Len(table))[n] = table[id + n]
  <2>1. \A k \in id + 1 .. Len(table) : table[k] \in Instance
    BY <1>1
  <2>2. id + 1 \in Int /\ Len(table) \in Int
    BY <1>1
  <2>3. /\ SubSeq(table, id + 1, Len(table)) \in Seq(Instance)
        /\ Len(SubSeq(table, id + 1, Len(table))) =
              IF id + 1 <= Len(table) THEN Len(table) - (id + 1) + 1 ELSE 0
        /\ \A n \in 1 .. Len(table) - (id + 1) + 1 : SubSeq(table, id + 1, Len(table))[n] = table[id + 1 + n - 1]
    BY <2>1, <2>2, SubSeqProperties
  <2>4. /\ (IF id + 1 <= Len(table) THEN Len(table) - (id + 1) + 1 ELSE 0) = Len(table) - id
        /\ Len(table) - (id + 1) + 1 = Len(table) - id
        /\ \A n \in 1 .. Len(table) - id : id + 1 + n - 1 = id + n
    BY <1>1, Behind
  <2> QED BY <2>3, <2>4
<1>4. /\ left \in Seq(Instance) /\ Len(left) = Len(table) - 1 /\ DOMAIN left = 1 .. Len(table) - 1
      /\ \A n \in 1 .. Len(table) - 1 : left[n] = table[IF n < id THEN n ELSE n + 1]
  <2> DEFINE front == SubSeq(table, 1, id - 1)
             back  == SubSeq(table, id + 1, Len(table))
  <2>1. front \in Seq(Instance) /\ back \in Seq(Instance)
    BY <1>2, <1>3
  <2>2. left = front \o back
    BY DEF RemoveAt
  <2>3. /\ Len(front) = id - 1 /\ Len(back) = Len(table) - id
        /\ \A n \in 1 .. id - 1 : front[n] = table[n]
        /\ \A n \in 1 .. Len(table) - id : back[n] = table[id + n]
    BY <1>2, <1>3
  <2> HIDE DEF front, back, left
  <2>4. /\ front \o back \in Seq(Instance)
        /\ Len(front \o back) = Len(front) + Len(back)
        /\ \A n \in 1 .. Len(front) + Len(back) :
              (front \o back)[n] = IF n <= Len(front) THEN front[n] ELSE back[n - Len(front)]
    BY <2>1, ConcatProperties
  <2>5. left \in Seq(Instance) /\ Len(left) = Len(table) - 1 /\ DOMAIN left = 1 .. Len(table) - 1
    <3>1. left \in Seq(Instance) /\ Len(left) = (id - 1) + (Len(table) - id)
      BY <2>2, <2>3, <2>4
    <3>2. Len(left) = Len(table) - 1
      BY <1>1, <3>1
    <3> QED BY <3>1, <3>2, LenProperties
  <2>6. ASSUME NEW n \in 1 .. Len(table) - 1
        PROVE  left[n] = table[IF n < id THEN n ELSE n + 1]
    <3>1. left[n] = IF n <= id - 1 THEN front[n] ELSE back[n - (id - 1)]
      BY <1>1, <2>2, <2>3, <2>4
    <3> QED BY <1>1, <2>3, <3>1
  <2> QED BY <2>5, <2>6
<1> HIDE DEF left
<1>5. \A n \in 1 .. Len(table) - 1 :
         /\ (IF n < id THEN n ELSE n + 1) \in DOMAIN table
         /\ (IF n < id THEN n ELSE n + 1) # id
  BY <1>1
<1>6. ASSUME NEW m \in DOMAIN left, NEW n \in DOMAIN left, left[m] = left[n] PROVE m = n
  <2>1. (IF m < id THEN m ELSE m + 1) = (IF n < id THEN n ELSE n + 1)
    BY <1>4, <1>5, <1>6
  <2> QED BY <1>1, <1>4, <2>1
<1>7. ToSet(left) \subseteq ToSet(table) \ {i}
  <2>1. ASSUME NEW n \in DOMAIN left PROVE left[n] \in ToSet(table) /\ left[n] # i
    BY <1>0, <1>4, <1>5 DEF ToSet
  <2> QED BY <2>1 DEF ToSet
<1>8. ToSet(table) \ {i} \subseteq ToSet(left)
  <2>1. ASSUME NEW n \in DOMAIN table, table[n] # i PROVE table[n] \in ToSet(left)
    <3>1. n # id
      BY <1>0, <2>1
    <3> DEFINE m == IF n < id THEN n ELSE n - 1
    <3>2. m \in DOMAIN left /\ left[m] = table[n]
      BY <1>1, <1>4, <3>1
    <3> QED BY <3>2 DEF ToSet
  <2> QED BY <2>1 DEF ToSet
<1>9. left = Without(table, i)
  BY DEF Without, left, id
<1> QED BY <1>4, <1>6, <1>7, <1>8, <1>9

LEMMA RequestTypes ==
    /\ \A f \in Request : f.fn # "script" /\ f # Script
          /\ f.fn \in AttachFn \cup {"NP_SHUTDOWN", "NPP_NEW", "PROCESS_WINDOW_EVENTS", "NPP_DESTROY"}
    /\ \A f \in Request : f.fn \in {"NPP_NEW", "PROCESS_WINDOW_EVENTS", "NPP_DESTROY"} => f.of \in Instance
    /\ \A f \in Request : f.fn = "NPP_DESTROY" => f.unschedule \in BOOLEAN
    /\ \A fn \in AttachFn \cup {"NP_SHUTDOWN"} : Frame(fn, NULL) \in Request
    /\ \A fn \in {"NPP_NEW", "PROCESS_WINDOW_EVENTS"}, i \in Instance : Frame(fn, i) \in Request
    /\ \A i \in Instance, u \in BOOLEAN : [fn |-> "NPP_DESTROY", of |-> i, unschedule |-> u] \in Request
    /\ \A fn, i : Frame(fn, i).fn = fn /\ Frame(fn, i).of = i
BY DEF Request, AttachFn, Script, Frame

-----------------------------------------------------------------------------
(***************************************************************************)
(* Types.                                                                  *)
(***************************************************************************)
LEMMA TypeSend ==
    ASSUME TypeOK, NEW f \in Request, NEW rest \in Seq(Request \cup {Script}), SendOn(rest, f)
    PROVE  stack' \in Seq(Request \cup {Script}) /\ toWin' \in Seq(Request)
BY AppendProperty DEF TypeOK, SendOn

LEMMA TypeReceive ==
    ASSUME TypeOK, stack # <<>>, toLin # <<>>
    PROVE  /\ Front(stack) \in Seq(Request \cup {Script}) /\ Tail(toLin) \in Seq(Reply)
           /\ Last(stack) \in Request \cup {Script}
           /\ Head(toLin) \in Reply
BY FrontProperty, HeadTail DEF TypeOK

LEMMA TypeSchedule ==
    ASSUME NEW existing \in SUBSET [of : Instance, id : 1 .. MaxTimers], NEW i \in Instance,
           ScheduleTimer(existing, i)
    PROVE  /\ timers' \subseteq [of : Instance, id : 1 .. MaxTimers]
           /\ timerInstance' \in Instance \cup {NULL}
BY DEF ScheduleTimer

LEMMA LastHandle ==
    ASSUME NEW table \in Seq(Instance)
    PROVE  /\ table = <<>> => FindInstance(table) = NULL
           /\ table # <<>> => FindInstance(table) \in ToSet(table) /\ FindInstance(table) \in Instance
<1>1. CASE table = <<>>
  BY <1>1 DEF FindInstance
<1>2. CASE table # <<>>
  <2>1. Len(table) \in DOMAIN table /\ Last(table) = table[Len(table)] /\ Last(table) \in Instance
    BY <1>2, FrontProperty, LenProperties
  <2> QED BY <1>2, <2>1 DEF FindInstance, ToSet
<1> QED BY <1>1, <1>2

LEMMA ScriptNamesNone == Script.of = NULL /\ Script.fn = "script"
BY DEF Script, Frame

\* NPP_Destroy removes a handle that is there.
LEMMA DestroyRemoves ==
    ASSUME IInv, Answered("NPP_DESTROY")
    PROVE  LET i == Last(stack).of
           IN  /\ i \in Instance /\ i \in Handles
               /\ Without(handles, i) \in Seq(Instance)
               /\ \A m, n \in DOMAIN Without(handles, i) :
                     Without(handles, i)[m] = Without(handles, i)[n] => m = n
               /\ ToSet(Without(handles, i)) = Handles \ {i}
               /\ FindInstance(Without(handles, i)) # NULL =>
                     FindInstance(Without(handles, i)) \in Handles \ {i}
               /\ FindInstance(Without(handles, i)) = NULL => Handles \ {i} = {}
<1> DEFINE i == Last(stack).of
<1>1. /\ Up /\ stack # <<>> /\ Last(stack).fn = "NPP_DESTROY" /\ stack \in Seq(Request \cup {Script})
      /\ HandlesFit /\ handles \in Seq(Instance)
  BY DEF Answered, Waiting, IInv, Fits, TypeOK
<1>2. Len(stack) \in DOMAIN stack /\ Last(stack) = stack[Len(stack)] /\ Last(stack) \in Request
  BY <1>1, FrontProperty, ScriptNamesNone, LenProperties
<1>3. i \in Instance
  BY <1>1, <1>2, RequestTypes
<1>4. i \in Handles /\ \A m, n \in DOMAIN handles : handles[m] = handles[n] => m = n
  BY <1>1, <1>2 DEF HandlesFit, EntryFn
<1> HIDE DEF i
<1>5. /\ Without(handles, i) \in Seq(Instance)
      /\ \A m, n \in DOMAIN Without(handles, i) :
            Without(handles, i)[m] = Without(handles, i)[n] => m = n
      /\ ToSet(Without(handles, i)) = Handles \ {i}
  BY <1>1, <1>4, Removed DEF Handles
<1>6. /\ Without(handles, i) = <<>> => FindInstance(Without(handles, i)) = NULL
      /\ Without(handles, i) # <<>> =>
            /\ FindInstance(Without(handles, i)) \in ToSet(Without(handles, i))
            /\ FindInstance(Without(handles, i)) \in Instance
  BY <1>5, LastHandle
<1>7. Without(handles, i) = <<>> => ToSet(Without(handles, i)) = {}
  BY DEF ToSet
<1>8. FindInstance(Without(handles, i)) # NULL => FindInstance(Without(handles, i)) \in Handles \ {i}
  BY <1>5, <1>6
<1>9. FindInstance(Without(handles, i)) = NULL => Handles \ {i} = {}
  BY <1>5, <1>6, <1>7, NullAssumption
<1> QED BY <1>3, <1>4, <1>5, <1>8, <1>9 DEF i

LEMMA DepthType == ASSUME TypeOK PROVE Depth \in Nat /\ IsFiniteSet(Scripts)
<1>1. Len(stack) \in Nat /\ DOMAIN stack = 1 .. Len(stack)
  BY LenProperties DEF TypeOK
<1>2. IsFiniteSet(1 .. Len(stack)) /\ Scripts \subseteq 1 .. Len(stack)
  BY <1>1, FS_Interval DEF Scripts
<1>3. IsFiniteSet(Scripts)
  BY <1>2, FS_Subset
<1> QED BY <1>3, FS_CardinalityType DEF Depth

LEMMA TypeStep == ASSUME IInv, [Next]_vars PROVE TypeOK'
<1> USE DEF IInv
<1>1. CASE UNCHANGED vars
  BY <1>1 DEF vars, startVars, callVars, instVars, timerVars, TypeOK
<1>2. CASE LoadConfig
  BY <1>2 DEF LoadConfig, startVars, callVars, instVars, timerVars, TypeOK
<1>3. CASE StartWineProcess
  <2>1. CASE UNCHANGED <<loader, callVars>>
    BY <1>3, <2>1 DEF StartWineProcess, startVars, callVars, instVars, timerVars, TypeOK
  <2>2. CASE loader' = "starting" /\ Send(Frame("INIT_OKAY", NULL))
    <3>1. Frame("INIT_OKAY", NULL) \in Request /\ stack \in Seq(Request \cup {Script})
      BY RequestTypes DEF AttachFn, TypeOK
    <3>2. stack' \in Seq(Request \cup {Script}) /\ toWin' \in Seq(Request)
      BY <2>2, <3>1, TypeSend DEF Send
    <3> QED BY <1>3, <2>2, <3>2 DEF StartWineProcess, Send, startVars, instVars, timerVars, TypeOK
  <2> QED BY <1>3, <2>1, <2>2 DEF StartWineProcess
<1>4. ASSUME NEW fn, NEW next \in AttachFn, AttachNext(fn, next) PROVE TypeOK'
  <2>1. stack # <<>> /\ toLin # <<>>
    BY <1>4 DEF AttachNext, Answered, Waiting
  <2>2. Front(stack) \in Seq(Request \cup {Script}) /\ Tail(toLin) \in Seq(Reply)
    BY <2>1, TypeReceive
  <2>3. Frame(next, NULL) \in Request
    BY RequestTypes
  <2>4. stack' \in Seq(Request \cup {Script}) /\ toWin' \in Seq(Request)
    BY <1>4, <2>2, <2>3, TypeSend DEF AttachNext
  <2> QED BY <1>4, <2>2, <2>4 DEF AttachNext, startVars, instVars, timerVars, TypeOK
<1>5. ASSUME NEW fn, NEW okay \in BOOLEAN, AttachEnds(fn, okay) PROVE TypeOK'
  <2>1. stack # <<>> /\ toLin # <<>>
    BY <1>5 DEF AttachEnds, Answered, Waiting
  <2>2. Front(stack) \in Seq(Request \cup {Script}) /\ Tail(toLin) \in Seq(Reply)
    BY <2>1, TypeReceive
  <2> QED BY <1>5, <2>2 DEF AttachEnds, Receive, instVars, timerVars, TypeOK
<1>6. ASSUME NEW a, NEW s, NEW p, Initialize(a, s, p) PROVE TypeOK'
  BY <1>6 DEF Initialize, callVars, instVars, timerVars, TypeOK
<1>7. ASSUME NEW i \in Instance, NewBegin(i) PROVE TypeOK'
  <2>1. Frame("NPP_NEW", i) \in Request /\ stack \in Seq(Request \cup {Script})
    BY RequestTypes DEF TypeOK
  <2>2. stack' \in Seq(Request \cup {Script}) /\ toWin' \in Seq(Request)
    BY <1>7, <2>1, TypeSend DEF NewBegin, Send
  <2>3. timers' \subseteq [of : Instance, id : 1 .. MaxTimers] /\ timerInstance' \in Instance \cup {NULL}
    <3>1. CASE ScheduleTimer(timers, i)
      BY <3>1, TypeSchedule DEF TypeOK
    <3>2. CASE UNCHANGED timerVars
      BY <3>2 DEF timerVars, TypeOK
    <3> QED BY <1>7, <3>1, <3>2 DEF NewBegin
  <2>4. handles' \in Seq(Instance)
    BY <1>7, AppendProperty DEF NewBegin, TypeOK
  <2> QED BY <1>7, <2>2, <2>3, <2>4 DEF NewBegin, Send, startVars, TypeOK
<1>8. CASE NewEnd
  <2>1. stack # <<>> /\ toLin # <<>> /\ Last(stack).fn = "NPP_NEW"
    BY <1>8 DEF NewEnd, Answered, Waiting
  <2>2. Front(stack) \in Seq(Request \cup {Script}) /\ Tail(toLin) \in Seq(Reply) /\ Last(stack).of \in Instance
    BY <2>1, TypeReceive, RequestTypes, ScriptNamesNone
  <2> QED BY <1>8, <2>2 DEF NewEnd, Receive, TimersWithout, startVars, TypeOK
<1>9. ASSUME NEW i \in Instance, DestroyBegin(i) PROVE TypeOK'
  <2> DEFINE u == events = "timer" /\ timerInstance = i
             f == [fn |-> "NPP_DESTROY", of |-> i, unschedule |-> u]
  <2>1. u \in BOOLEAN
    OBVIOUS
  <2>2. f \in Request /\ stack \in Seq(Request \cup {Script})
    BY <2>1, RequestTypes DEF TypeOK
  <2>3. Send(f)
    BY <1>9 DEF DestroyBegin
  <2> HIDE DEF f, u
  <2>4. stack' \in Seq(Request \cup {Script}) /\ toWin' \in Seq(Request)
    BY <2>2, <2>3, TypeSend DEF Send
  <2>5. timers' \subseteq timers /\ timerInstance' \in {timerInstance, NULL}
    BY <1>9 DEF DestroyBegin, timerVars
  <2>6. upset' \in BOOLEAN
    BY <1>9 DEF DestroyBegin
  <2> QED BY <1>9, <2>3, <2>4, <2>5, <2>6 DEF DestroyBegin, Send, startVars, TypeOK
<1>10. CASE DestroyEnd
  <2> DEFINE i == Last(stack).of
  <2>1. Answered("NPP_DESTROY") /\ stack # <<>> /\ toLin # <<>>
    BY <1>10 DEF DestroyEnd, Answered, Waiting
  <2>2. /\ Front(stack) \in Seq(Request \cup {Script}) /\ Tail(toLin) \in Seq(Reply)
        /\ Without(handles, i) \in Seq(Instance)
        /\ FindInstance(Without(handles, i)) # NULL => FindInstance(Without(handles, i)) \in Instance
    <3>1. handles \in Seq(Instance) /\ Handles \subseteq Instance
      BY DEF TypeOK, Handles, ToSet
    <3> QED BY <2>1, <3>1, TypeReceive, DestroyRemoves
  <2>3. timers' \subseteq [of : Instance, id : 1 .. MaxTimers] /\ timerInstance' \in Instance \cup {NULL}
    <3>1. TimersWithout(i) \subseteq [of : Instance, id : 1 .. MaxTimers]
      BY DEF TimersWithout, TypeOK
    <3>2. CASE timers' = TimersWithout(i) /\ UNCHANGED <<timerInstance, timerID>>
      BY <3>1, <3>2 DEF TypeOK
    <3>3. CASE /\ FindInstance(Without(handles, i)) # NULL
               /\ ScheduleTimer(TimersWithout(i), FindInstance(Without(handles, i)))
      BY <2>2, <3>1, <3>3, TypeSchedule
    <3> QED BY <1>10, <3>2, <3>3 DEF DestroyEnd
  <2> QED BY <1>10, <2>2, <2>3 DEF DestroyEnd, Receive, startVars, TypeOK
<1>11. ASSUME NEW t \in timers, TimerFires(t) PROVE TypeOK'
  <2>1. Frame("PROCESS_WINDOW_EVENTS", t.of) \in Request /\ stack \in Seq(Request \cup {Script})
    BY RequestTypes DEF TypeOK
  <2>2. stack' \in Seq(Request \cup {Script}) /\ toWin' \in Seq(Request)
    BY <1>11, <2>1, TypeSend DEF TimerFires, Send
  <2> QED BY <1>11, <2>2 DEF TimerFires, Send, startVars, instVars, timerVars, TypeOK
<1>12. CASE Shutdown
  <2>1. Frame("NP_SHUTDOWN", NULL) \in Request /\ stack \in Seq(Request \cup {Script})
    BY RequestTypes DEF TypeOK
  <2>2. stack' \in Seq(Request \cup {Script}) /\ toWin' \in Seq(Request)
    BY <1>12, <2>1, TypeSend DEF Shutdown, Send
  <2> QED BY <1>12, <2>2 DEF Shutdown, Send, startVars, instVars, timerVars, TypeOK
<1>13. CASE CallEnd
  <2>1. stack # <<>> /\ toLin # <<>>
    BY <1>13 DEF CallEnd, Answered, Waiting
  <2>2. Front(stack) \in Seq(Request \cup {Script}) /\ Tail(toLin) \in Seq(Reply)
    BY <2>1, TypeReceive
  <2> QED BY <1>13, <2>2 DEF CallEnd, Receive, startVars, instVars, timerVars, TypeOK
<1>14. CASE ScriptEnd
  BY <1>14, FrontProperty DEF ScriptEnd, startVars, instVars, timerVars, TypeOK
<1>15. CASE LoaderStarts
  BY <1>15 DEF LoaderStarts, startVars, callVars, instVars, timerVars, TypeOK
<1>16. CASE HandleCommand
  <2>1. Head(toWin) \in Request /\ Tail(toWin) \in Seq(Request)
    BY <1>16, HeadTail DEF HandleCommand, TypeOK
  <2>2. handlers' \in Seq(Request)
    BY <1>16, <2>1, AppendProperty DEF HandleCommand, TypeOK
  <2>3. instanceList' \subseteq Instance
    BY <1>16, <2>1, RequestTypes DEF HandleCommand, TypeOK
  <2> QED BY <1>16, <2>1, <2>2, <2>3 DEF HandleCommand, startVars, timerVars, TypeOK
<1>17. CASE CallScript
  BY <1>17, AppendProperty DEF CallScript, startVars, instVars, timerVars, TypeOK
<1>18. CASE LoaderCrashes
  BY <1>18 DEF LoaderCrashes, Gone, startVars, timerVars, TypeOK
<1>19. CASE LoaderSeesEnd
  BY <1>19 DEF LoaderSeesEnd, Gone, startVars, timerVars, TypeOK
<1>20. ASSUME NEW okay \in BOOLEAN, Answer(okay) PROVE TypeOK'
  <2>1. handlers # <<>>
    BY <1>20, DepthType, EmptySeq DEF Answer, PluginTurn, Depth, TypeOK
  <2>2. Last(handlers) \in Request /\ Front(handlers) \in Seq(Request)
    BY <2>1, FrontProperty DEF TypeOK
  <2>3. [fn |-> Last(handlers).fn, okay |-> okay] \in Reply
    BY <2>2, RequestTypes DEF Reply
  <2>4. toLin' \in Seq(Reply)
    BY <1>20, <2>3, AppendProperty DEF Answer, TypeOK
  <2> QED BY <1>20, <2>2, <2>4 DEF Answer, startVars, timerVars, TypeOK
<1>21. CASE AttachTimesOut
  BY <1>21, FrontProperty DEF AttachTimesOut, AttachFails, Waiting, timerVars, TypeOK
<1>22. CASE DestroyTimesOut
  BY <1>22 DEF DestroyTimesOut, Abort, Gone, startVars, timerVars, TypeOK
<1>23. CASE EndOfFile
  <2>1. stack # <<>> /\ UNCHANGED <<loader, toWin, handlers, instanceList>>
    BY <1>23 DEF EndOfFile
  <2>2. CASE AttachFails
    BY <2>1, <2>2, FrontProperty DEF AttachFails, timerVars, TypeOK
  <2>3. CASE Abort
    BY <2>1, <2>3 DEF Abort, startVars, timerVars, TypeOK
  <2> QED BY <1>23, <2>2, <2>3 DEF EndOfFile
<1>24. CASE BrowserExits
  BY <1>24 DEF BrowserExits, startVars, callVars, instVars, timerVars, TypeOK
<1>25. CASE AttachReads
  BY <1>4, <1>5, <1>25 DEF AttachReads, AttachFn
<1> QED
  BY <1>1, <1>2, <1>3, <1>6, <1>7, <1>8, <1>9, <1>10, <1>11, <1>12, <1>13, <1>14, <1>15, <1>16, <1>17,
     <1>18, <1>19, <1>20, <1>21, <1>22, <1>23, <1>24, <1>25
     DEF Next, Browser, LinuxReads, Limits, Windows

-----------------------------------------------------------------------------
(***************************************************************************)
(* How the stack moves.                                                    *)
(***************************************************************************)
LEMMA StackPlaces ==
    ASSUME TypeOK
    PROVE  /\ Len(stack) \in Nat /\ DOMAIN stack = 1 .. Len(stack)
           /\ stack = <<>> <=> Len(stack) = 0
           /\ stack # <<>> => Last(stack) = stack[Len(stack)] /\ Last(stack) \in Request \cup {Script}
BY FrontProperty, LenProperties, EmptySeq DEF TypeOK

\* The browser's turn comes when no call is open, or a script runs.
LEMMA Turns ==
    ASSUME TypeOK, Alternates
    PROVE  /\ (stack # <<>> => Last(stack) = Script) <=> Len(stack) = 2 * Depth
           /\ stack # <<>> /\ Last(stack) # Script <=> Len(stack) = 2 * Depth + 1
           /\ Len(stack) = 2 * Depth + 1 => Last(stack) \in Request
<1>1. CASE Len(stack) = 2 * Depth + 1
  BY <1>1, StackPlaces DEF Alternates
<1>2. CASE Len(stack) = 2 * Depth /\ Depth = 0
  BY <1>2, StackPlaces DEF Alternates
<1>3. CASE Len(stack) = 2 * Depth /\ Depth # 0
  <2>1. Depth \in 1 .. Depth /\ stack[2 * Depth] = Script
    BY <1>3 DEF Alternates
  <2> QED BY <1>3, <2>1, StackPlaces DEF Alternates
<1> QED BY <1>1, <1>2, <1>3 DEF Alternates

LEMMA PushedRequest ==
    ASSUME TypeOK, Alternates, Len(stack) = 2 * Depth, NEW f \in Request, stack' = Append(stack, f)
    PROVE  /\ Alternates' /\ Depth' = Depth
           /\ Len(stack') = 2 * Depth + 1 /\ stack' # <<>> /\ Last(stack') = f
           /\ DOMAIN stack' = 1 .. Len(stack) + 1 /\ stack'[Len(stack) + 1] = f
           /\ \A k \in 1 .. Len(stack) : stack'[k] = stack[k]
<1>1. /\ Len(stack) \in Nat /\ DOMAIN stack = 1 .. Len(stack)
      /\ stack' \in Seq(Request \cup {Script}) /\ Len(stack') = Len(stack) + 1
      /\ stack'[Len(stack) + 1] = f /\ stack' # <<>> /\ Last(stack') = f
      /\ \A k \in 1 .. Len(stack) : stack'[k] = stack[k]
  BY AppendProperty, StackPlaces DEF TypeOK
<1>2. DOMAIN stack' = 1 .. Len(stack) + 1 /\ f # Script
  BY <1>1, LenProperties, RequestTypes
<1>3. Scripts' = Scripts
  <2>1. \A k \in 1 .. Len(stack) + 1 : k \in 1 .. Len(stack) \/ k = Len(stack) + 1
    BY <1>1
  <2>2. \A k : k \in Scripts' <=> k \in Scripts
    BY <1>1, <1>2, <2>1 DEF Scripts
  <2> QED BY <2>2
<1>4. Depth' = Depth
  BY <1>3 DEF Depth
<1>5. Alternates'
  <2>1. \A m \in 1 .. Depth : 2 * m \in 1 .. Len(stack) /\ 2 * m - 1 \in 1 .. Len(stack)
    BY DEF Alternates
  <2> QED BY <1>1, <1>2, <1>4, <2>1 DEF Alternates
<1> QED BY <1>1, <1>2, <1>4, <1>5

LEMMA PushedScript ==
    ASSUME TypeOK, Alternates, Len(stack) = 2 * Depth + 1, stack' = Append(stack, Script)
    PROVE  /\ Alternates' /\ Depth' = Depth + 1
           /\ Len(stack') = 2 * Depth' /\ stack' # <<>> /\ Last(stack') = Script
           /\ DOMAIN stack' = 1 .. Len(stack) + 1 /\ stack'[Len(stack) + 1] = Script
           /\ \A k \in 1 .. Len(stack) : stack'[k] = stack[k]
<1>1. /\ Len(stack) \in Nat /\ DOMAIN stack = 1 .. Len(stack)
      /\ stack' \in Seq(Request \cup {Script}) /\ Len(stack') = Len(stack) + 1
      /\ stack'[Len(stack) + 1] = Script /\ stack' # <<>> /\ Last(stack') = Script
      /\ \A k \in 1 .. Len(stack) : stack'[k] = stack[k]
  BY AppendProperty, StackPlaces DEF TypeOK
<1>2. DOMAIN stack' = 1 .. Len(stack) + 1
  BY <1>1, LenProperties
<1>3. Scripts' = Scripts \cup {Len(stack) + 1} /\ Len(stack) + 1 \notin Scripts
  <2>1. \A k \in 1 .. Len(stack) + 1 : k \in 1 .. Len(stack) \/ k = Len(stack) + 1
    BY <1>1
  <2>2. \A k : k \in Scripts' <=> k \in Scripts \/ k = Len(stack) + 1
    BY <1>1, <1>2, <2>1 DEF Scripts
  <2>3. Len(stack) + 1 \notin 1 .. Len(stack)
    BY <1>1
  <2> QED BY <1>1, <2>2, <2>3 DEF Scripts
<1>4. Depth' = Depth + 1
  BY <1>3, DepthType, FS_AddElement DEF Depth
<1>5. Alternates'
  <2>1. \A m \in 1 .. Depth : 2 * m \in 1 .. Len(stack) /\ 2 * m - 1 \in 1 .. Len(stack)
    BY DEF Alternates
  <2>2. \A m \in 1 .. Depth + 1 : m \in 1 .. Depth \/ m = Depth + 1
    BY DEF Alternates
  <2>3. /\ Depth + 1 \in Nat /\ 2 * (Depth + 1) = Len(stack) + 1 /\ 2 * (Depth + 1) - 1 = Len(stack)
        /\ Len(stack) \in 1 .. Len(stack)
    BY DEF Alternates
  <2>4. stack[Len(stack)] # Script
    BY DEF Alternates
  <2>5. \A m \in 1 .. Depth + 1 : stack'[2 * m] = Script /\ stack'[2 * m - 1] # Script
    BY <1>1, <2>1, <2>2, <2>3, <2>4 DEF Alternates
  <2>6. Len(stack') = 2 * (Depth + 1) /\ Len(stack') # 2 * (Depth + 1) + 1
    BY <1>1, <2>3
  <2> QED BY <1>4, <2>3, <2>5, <2>6 DEF Alternates
<1> QED BY <1>1, <1>2, <1>4, <1>5 DEF Alternates

LEMMA PoppedRequest ==
    ASSUME TypeOK, Alternates, Len(stack) = 2 * Depth + 1, stack' = Front(stack)
    PROVE  /\ Alternates' /\ Depth' = Depth
           /\ Len(stack') = 2 * Depth /\ Len(stack) = Len(stack') + 1
           /\ DOMAIN stack' = 1 .. Len(stack')
           /\ \A k \in 1 .. Len(stack') : k \in 1 .. Len(stack) /\ stack'[k] = stack[k]
<1>0. stack # <<>>
  BY StackPlaces DEF Alternates
<1>1. /\ Len(stack) \in Nat \ {0} /\ DOMAIN stack = 1 .. Len(stack)
      /\ stack' \in Seq(Request \cup {Script}) /\ Len(stack') = Len(stack) - 1
      /\ \A k \in 1 .. Len(stack) - 1 : stack'[k] = stack[k]
  BY <1>0, FrontProperty, StackPlaces DEF TypeOK
<1>2. DOMAIN stack' = 1 .. Len(stack) - 1
  BY <1>1, LenProperties
<1>3. Scripts' = Scripts
  <2>1. stack[Len(stack)] # Script
    BY DEF Alternates
  <2>2. \A k \in 1 .. Len(stack) : k \in 1 .. Len(stack) - 1 \/ k = Len(stack)
    BY <1>1
  <2>3. \A k \in 1 .. Len(stack) - 1 : k \in 1 .. Len(stack)
    BY <1>1
  <2>4. \A k : k \in Scripts' <=> k \in Scripts
    BY <1>1, <1>2, <2>1, <2>2, <2>3 DEF Scripts
  <2> QED BY <2>4
<1>4. Depth' = Depth
  BY <1>3 DEF Depth
<1>5. Len(stack') = 2 * Depth /\ Len(stack) = Len(stack') + 1
  BY <1>1 DEF Alternates
<1>6. Alternates'
  <2>1. \A m \in 1 .. Depth : 2 * m \in 1 .. Len(stack) - 1 /\ 2 * m - 1 \in 1 .. Len(stack) - 1
    BY DEF Alternates
  <2> QED BY <1>1, <1>4, <1>5, <2>1 DEF Alternates
<1> QED BY <1>1, <1>2, <1>4, <1>5, <1>6

LEMMA PoppedScript ==
    ASSUME TypeOK, Alternates, Len(stack) = 2 * Depth, stack # <<>>, stack' = Front(stack)
    PROVE  /\ Alternates' /\ Depth' = Depth - 1 /\ Depth' \in Nat
           /\ Len(stack') = 2 * Depth' + 1 /\ Len(stack) = Len(stack') + 1
           /\ DOMAIN stack' = 1 .. Len(stack') /\ stack' # <<>>
           /\ Last(stack') = stack[2 * Depth - 1] /\ Last(stack') \in Request
           /\ \A k \in 1 .. Len(stack') : k \in 1 .. Len(stack) /\ stack'[k] = stack[k]
<1>1. /\ Len(stack) \in Nat \ {0} /\ DOMAIN stack = 1 .. Len(stack)
      /\ stack' \in Seq(Request \cup {Script}) /\ Len(stack') = Len(stack) - 1
      /\ \A k \in 1 .. Len(stack) - 1 : stack'[k] = stack[k]
      /\ stack[Len(stack)] = Script
  BY FrontProperty, StackPlaces, Turns DEF TypeOK
<1>2. DOMAIN stack' = 1 .. Len(stack) - 1
  BY <1>1, LenProperties
<1>3. Scripts' = Scripts \ {Len(stack)} /\ Len(stack) \in Scripts
  <2>1. \A k \in 1 .. Len(stack) : k \in 1 .. Len(stack) - 1 \/ k = Len(stack)
    BY <1>1
  <2>2. \A k \in 1 .. Len(stack) - 1 : k \in 1 .. Len(stack) /\ k # Len(stack)
    BY <1>1
  <2>3. \A k : k \in Scripts' <=> k \in Scripts /\ k # Len(stack)
    BY <1>1, <1>2, <2>1, <2>2 DEF Scripts
  <2> QED BY <1>1, <2>3 DEF Scripts
<1>4. Depth' = Depth - 1
  BY <1>3, DepthType, FS_RemoveElement DEF Depth
<1>5. /\ Depth - 1 \in Nat /\ Len(stack') = 2 * (Depth - 1) + 1
      /\ Len(stack) = Len(stack') + 1 /\ Len(stack') = 2 * Depth - 1
  BY <1>1 DEF Alternates
<1>6. stack' # <<>> /\ Last(stack') = stack'[Len(stack')] /\ Last(stack') \in Request \cup {Script}
  BY <1>1, <1>5, FrontProperty, EmptySeq
<1>7. stack[2 * Depth - 1] # Script /\ Len(stack') \in 1 .. Len(stack) - 1
  <2>1. Depth \in 1 .. Depth
    BY <1>5 DEF Alternates
  <2> QED BY <1>1, <1>5, <2>1 DEF Alternates
<1>8. Last(stack') = stack[2 * Depth - 1] /\ Last(stack') \in Request
  BY <1>1, <1>5, <1>6, <1>7
<1>9. Alternates'
  <2>1. \A m \in 1 .. Depth - 1 : m \in 1 .. Depth /\ 2 * m \in 1 .. Len(stack) - 1 /\ 2 * m - 1 \in 1 .. Len(stack) - 1
    BY DEF Alternates
  <2>2. \A m \in 1 .. Depth - 1 : stack'[2 * m] = Script /\ stack'[2 * m - 1] # Script
    BY <1>1, <2>1 DEF Alternates
  <2>3. stack'[2 * (Depth - 1) + 1] # Script
    BY <1>5, <1>6, <1>7, <1>8
  <2>4. Len(stack') = 2 * (Depth - 1) \/ Len(stack') = 2 * (Depth - 1) + 1
    BY <1>5
  <2> QED BY <1>4, <1>5, <2>2, <2>3, <2>4 DEF Alternates
<1> QED BY <1>1, <1>2, <1>4, <1>5, <1>6, <1>8, <1>9

-----------------------------------------------------------------------------
(***************************************************************************)
(* The steps, one lemma for each action or for those that are alike.       *)
(***************************************************************************)
LEMMA InitFits == Init => IInv
<1> SUFFICES ASSUME Init PROVE IInv
  OBVIOUS
<1>1. TypeOK
  BY EmptySeq DEF Init, TypeOK
<1>2. stack = <<>> /\ Len(stack) = 0 /\ DOMAIN stack = {} /\ DOMAIN handles = {}
  BY DEF Init
<1>3. Scripts = {} /\ Depth = 0
  BY <1>2, FS_EmptySet DEF Scripts, Depth
<1>4. Alternates
  BY <1>2, <1>3 DEF Alternates
<1>5. StartFits /\ BridgeFits
  BY <1>2, <1>3 DEF Init, StartFits, BridgeFits, Refused
<1>6. NothingYet /\ HandlesFit /\ ListFits /\ TimerFits
  BY <1>2 DEF Init, NothingYet, HandlesFit, ListFits, TimerFits, Handles, ToSet
<1> QED BY <1>1, <1>4, <1>5, <1>6 DEF IInv, Fits

\* Steps that leave the calls and the instances alone.
LEMMA InstancesKept ==
    ASSUME NothingYet, HandlesFit, ListFits, TimerFits,
           UNCHANGED <<callVars, instVars, timerVars>>,
           UNCHANGED events \/ (BrowserTurn /\ events = "none"),
           UNCHANGED initOkay, loader' = "gone" => loader = "gone", loader = "gone" => loader' = "gone"
    PROVE  NothingYet' /\ HandlesFit' /\ ListFits' /\ TimerFits'
<1> USE DEF callVars, instVars, timerVars
<1>1. Handles' = Handles /\ \A fn : Pending(fn)' = Pending(fn)
  BY DEF Handles, ToSet, Pending
<1>2. \A i : /\ Known(i)' <=> Known(i)
             /\ Entering(i)' <=> Entering(i)
             /\ Leaving(i)' <=> Leaving(i)
  BY <1>1 DEF Known, Entering, Leaving
<1>3. NothingYet'
  BY DEF NothingYet
<1>4. HandlesFit' /\ ListFits'
  BY <1>1, <1>2 DEF HandlesFit, ListFits
<1>5. TimerFits'
  <2>1. CASE UNCHANGED events
    BY <1>1, <1>2, <2>1 DEF TimerFits
  <2>2. CASE events = "none"
    <3>1. Handles' = {} /\ handles' = <<>> /\ timers' = {} /\ timerInstance' = NULL /\ Pending("NPP_DESTROY")' = {}
      BY <1>1, <2>2 DEF NothingYet, Handles, ToSet, Pending, EntryFn
    <3> QED BY <3>1 DEF TimerFits
  <2> QED BY <2>1, <2>2
<1> QED BY <1>3, <1>4, <1>5

LEMMA StackKept == ASSUME UNCHANGED stack PROVE Depth' = Depth /\ (Alternates => Alternates')
BY DEF Depth, Scripts, Alternates

LEMMA StartStep ==
    ASSUME TypeOK, Fits, Up,
           LoadConfig \/ (\E a, s, p \in BOOLEAN : Initialize(a, s, p)) \/ LoaderStarts
    PROVE  Fits'
<1> USE DEF Fits
<1>1. UNCHANGED <<callVars, instVars, timerVars, initOkay>>
  BY DEF LoadConfig, Initialize, LoaderStarts, startVars
<1>2. Alternates' /\ Depth' = Depth
  BY <1>1, StackKept DEF callVars
<1>3. NothingYet' /\ HandlesFit' /\ ListFits' /\ TimerFits'
  <2>1. UNCHANGED events \/ (BrowserTurn /\ events = "none")
    BY DEF LoadConfig, Initialize, LoaderStarts, startVars
  <2>2. (loader' = "gone" => loader = "gone") /\ (loader = "gone" => loader' = "gone")
    BY DEF LoadConfig, Initialize, LoaderStarts
  <2> QED BY <1>1, <2>1, <2>2, InstancesKept
<1>4. CASE LoadConfig
  <2>1. StartFits'
    BY <1>1, <1>4 DEF LoadConfig, StartFits, Refused, callVars
  <2>2. BridgeFits'
    <3>1. UNCHANGED <<Sent, Handled, Replied, Returned>>
      BY <1>1, <1>2 DEF Sent, Handled, Replied, Returned, callVars
    <3> QED BY <1>1, <1>2, <1>4, <3>1 DEF LoadConfig, BridgeFits, Refused, callVars
  <2> QED BY <1>2, <1>3, <2>1, <2>2
<1>5. CASE UNCHANGED attach
  <2>1. StartFits'
    BY <1>1, <1>5 DEF Initialize, LoaderStarts, LoadConfig, StartFits, Refused, callVars
  <2>2. BridgeFits'
    <3>1. UNCHANGED <<Sent, Handled, Replied, Returned>>
      BY <1>1, <1>2 DEF Sent, Handled, Replied, Returned, callVars
    <3>2. (loader' = "gone" => loader = "gone") /\ (loader = "gone" => loader' = "gone")
      BY DEF LoadConfig, Initialize, LoaderStarts
    <3> QED BY <1>1, <1>2, <1>5, <3>1, <3>2 DEF BridgeFits, Refused, callVars
  <2> QED BY <1>2, <1>3, <2>1, <2>2
<1> QED BY <1>4, <1>5 DEF Initialize, LoaderStarts, startVars

\* Linux calls; Linux takes an answer.
LEMMA BridgeSend ==
    ASSUME TypeOK, Alternates, BridgeFits, ~Refused, Len(stack) = 2 * Depth,
           NEW f \in Request, SendOn(stack, f), UNCHANGED <<toLin, handlers>>,
           loader' = "gone" <=> loader = "gone"
    PROVE  /\ Alternates' /\ BridgeFits' /\ stack' # <<>> /\ Last(stack') = f /\ toLin' = <<>>
           /\ toWin = <<>> /\ (loader # "gone" => toWin' # <<>>)
           /\ Len(stack) \in Nat
           /\ DOMAIN stack = 1 .. Len(stack) /\ DOMAIN stack' = 1 .. Len(stack) + 1 /\ stack'[Len(stack) + 1] = f
           /\ \A k \in 1 .. Len(stack) : stack'[k] = stack[k]
<1>1. stack' = Append(stack, f)
  BY DEF SendOn
<1>2. /\ Alternates' /\ Depth' = Depth
      /\ Len(stack') = 2 * Depth + 1 /\ stack' # <<>> /\ Last(stack') = f
      /\ DOMAIN stack' = 1 .. Len(stack) + 1 /\ stack'[Len(stack) + 1] = f
      /\ \A k \in 1 .. Len(stack) : stack'[k] = stack[k]
  BY <1>1, PushedRequest
<1>3. toWin = <<>> /\ toLin = <<>> /\ (loader # "gone" => Len(handlers) = Depth)
  BY DEF BridgeFits
<1>4. /\ loader # "gone" => toWin' = <<f>> /\ Len(handlers') = Depth' /\ toWin' # <<>>
      /\ loader = "gone" => toWin' = <<>>
  BY <1>2, <1>3 DEF SendOn
<1>5. ASSUME loader # "gone", NEW m \in 1 .. Depth PROVE handlers'[m] = stack'[2 * m - 1]
  <2>1. 2 * m - 1 \in 1 .. Len(stack)
    BY DEF Alternates
  <2> QED BY <1>2, <1>5, <2>1 DEF BridgeFits
<1>6. loader # "gone" => Sent'
  BY <1>2, <1>3, <1>4 DEF Sent
<1>7. loader' = "gone" => handlers' = <<>> /\ toWin' = <<>>
  BY <1>4 DEF BridgeFits
<1>8. Len(stack') # 2 * Depth'
  BY <1>2, DepthType
<1>9. BridgeFits'
  BY <1>2, <1>3, <1>5, <1>6, <1>7, <1>8 DEF BridgeFits
<1> QED BY <1>2, <1>3, <1>4, <1>9, StackPlaces

LEMMA BridgeReceive ==
    ASSUME TypeOK, Alternates, BridgeFits, ~Refused, Up, stack # <<>>, Last(stack) # Script, toLin # <<>>,
           Receive, loader' = loader
    PROVE  /\ Alternates' /\ BridgeFits' /\ toLin' = <<>> /\ toWin = <<>> /\ toWin' = <<>>
           /\ Head(toLin).fn = Last(stack).fn
           /\ (loader # "gone" => Len(handlers') = Depth')
           /\ Len(stack) = Len(stack') + 1 /\ Len(stack') \in Nat /\ Last(stack) = stack[Len(stack)]
           /\ DOMAIN stack' = 1 .. Len(stack') /\ DOMAIN stack = 1 .. Len(stack)
           /\ Last(stack) \in Request
           /\ \A k \in 1 .. Len(stack') : k \in 1 .. Len(stack) /\ stack'[k] = stack[k]
<1>1. /\ Len(stack) = 2 * Depth + 1 /\ Last(stack) \in Request
      /\ Last(stack) = stack[Len(stack)] /\ DOMAIN stack = 1 .. Len(stack)
  BY Turns, StackPlaces
<1>2. /\ Alternates' /\ Depth' = Depth
      /\ Len(stack') = 2 * Depth /\ Len(stack) = Len(stack') + 1
      /\ DOMAIN stack' = 1 .. Len(stack')
      /\ \A k \in 1 .. Len(stack') : k \in 1 .. Len(stack) /\ stack'[k] = stack[k]
  BY <1>1, PoppedRequest DEF Receive
<1>3. Replied /\ (loader # "gone" => Len(handlers) = Depth)
  BY <1>1 DEF BridgeFits, Sent, Handled, Returned
<1>4. toLin' = <<>> /\ toWin' = <<>>
  <2>1. toLin \in Seq(Reply) /\ Len(toLin) = 1
    BY <1>3 DEF Replied, TypeOK
  <2>2. Tail(toLin) \in Seq(Reply) /\ Len(Tail(toLin)) = 0
    BY <2>1, HeadTail
  <2> QED BY <1>3, <2>2, EmptySeq DEF Receive, Replied
<1>5. ASSUME loader # "gone", NEW m \in 1 .. Depth PROVE handlers'[m] = stack'[2 * m - 1]
  <2>1. 2 * m - 1 \in 1 .. Len(stack')
    BY <1>2, DepthType
  <2> QED BY <1>2, <1>5, <2>1 DEF BridgeFits, Receive
<1>6. Len(stack') # 2 * Depth' + 1 /\ Len(stack') \in Nat
  BY <1>2, DepthType
<1>7. BridgeFits'
  BY <1>2, <1>3, <1>4, <1>5, <1>6 DEF BridgeFits, Receive
<1> QED BY <1>1, <1>2, <1>3, <1>4, <1>6, <1>7 DEF Replied, Receive

\* A call for no instance's sake comes or goes.
LEMMA EntriesKept ==
    ASSUME TypeOK, NothingYet, HandlesFit, ListFits, TimerFits,
           UNCHANGED <<events, instVars, timerVars>>,
           ~initOkay' \/ events' = "none" => ~initOkay \/ events = "none",
           loader = "gone" => loader' = "gone",
           \A k \in DOMAIN stack' : stack'[k].fn \in EntryFn =>
               k \in DOMAIN stack /\ \A j \in 1 .. k : stack'[j] = stack[j],
           \A k \in DOMAIN stack : stack[k].fn \in EntryFn => k \in DOMAIN stack' /\ stack'[k] = stack[k],
           \A i : ~Entering(i) /\ ~Leaving(i) /\ ~Leaving(i)'
    PROVE  NothingYet' /\ HandlesFit' /\ ListFits' /\ TimerFits'
<1> USE DEF instVars, timerVars
<1>1. Handles' = Handles
  BY DEF Handles, ToSet
<1>2. DOMAIN stack = 1 .. Len(stack) /\ Len(stack) \in Nat
  BY StackPlaces
<1>3. \A k \in DOMAIN stack' : stack'[k].fn \in EntryFn => k \in DOMAIN stack /\ stack'[k] = stack[k]
  BY <1>2
<1>4. \A fn \in EntryFn : Pending(fn)' = Pending(fn)
  BY <1>3 DEF Pending
<1>5. \A fn \in EntryFn : \A k \in Pending(fn) : stack'[k] = stack[k]
  BY DEF Pending
<1>6. NothingYet'
  BY <1>3 DEF NothingYet
<1>7. HandlesFit'
  <2>1. ASSUME NEW k \in DOMAIN stack', stack'[k].fn \in EntryFn
        PROVE  stack'[k].of \in Handles /\ \A j \in 1 .. k - 1 : stack'[j].of # stack'[k].of
    <3>1. /\ k \in 1 .. Len(stack) /\ \A j \in 1 .. k : stack'[j] = stack[j]
          /\ stack[k].fn \in EntryFn /\ stack'[k] = stack[k]
      BY <1>2, <1>3, <2>1
    <3>2. \A j \in 1 .. k - 1 : j \in 1 .. k
      BY <1>2, <3>1
    <3> QED BY <1>2, <3>1, <3>2 DEF HandlesFit
  <2> QED BY <1>1, <2>1 DEF HandlesFit
<1>8. ListFits'
  BY <1>1 DEF ListFits
<1>9. TimerFits'
  <2>1. \A i : Known(i) <=> Known(i)'
    BY <1>4, <1>5 DEF Known, EntryFn
  <2> QED BY <1>1, <1>4, <1>5, <2>1 DEF TimerFits, EntryFn
<1> QED BY <1>6, <1>7, <1>8, <1>9

LEMMA AttachFnIsNoEntry == \A fn \in AttachFn : fn \notin EntryFn /\ fn # "script"
BY DEF AttachFn, EntryFn

LEMMA NobodyMoves ==
    ASSUME ListFits, toWin = <<>>, toLin = <<>> PROVE \A i : ~Entering(i) /\ ~Leaving(i)
BY DEF Entering, Leaving

LEMMA StartWineStep == ASSUME TypeOK, TypeOK', Fits, Up, StartWineProcess PROVE Fits'
<1> USE DEF Fits
<1>1. /\ attach = "fork" /\ ~initOkay /\ loader = "none" /\ ~Refused
      /\ stack = <<>> /\ toWin = <<>> /\ toLin = <<>> /\ handlers = <<>>
  BY DEF StartWineProcess, StartFits, Refused
<1>2. CASE attach' = "over" /\ UNCHANGED <<loader, callVars>>
  <2>1. Alternates' /\ Depth' = Depth
    BY <1>2, StackKept DEF callVars
  <2>2. StartFits' /\ BridgeFits'
    BY <1>1, <1>2, <2>1 DEF StartWineProcess, StartFits, BridgeFits, Refused, callVars
  <2>3. NothingYet' /\ HandlesFit' /\ ListFits' /\ TimerFits'
    BY <1>2, InstancesKept DEF StartWineProcess
  <2> QED BY <2>1, <2>2, <2>3
<1>3. CASE attach' = "wait" /\ loader' = "starting" /\ Send(Frame("INIT_OKAY", NULL))
  <2> DEFINE f == Frame("INIT_OKAY", NULL)
  <2>1. f \in Request /\ f.fn = "INIT_OKAY" /\ f.fn \in AttachFn
    BY RequestTypes DEF AttachFn
  <2> HIDE DEF f
  <2>2. Send(f)
    BY <1>3 DEF f
  <2>3. Len(stack) = 0 /\ Len(stack) = 2 * Depth
    BY <1>1, Turns
  <2>4. /\ Alternates' /\ BridgeFits' /\ toLin' = <<>>
        /\ DOMAIN stack = {} /\ DOMAIN stack' = 1 .. 0 + 1 /\ stack'[0 + 1] = f
    BY <1>1, <1>3, <2>1, <2>2, <2>3, BridgeSend DEF Send
  <2>5. Len(stack') = 1 /\ stack'[1] = f /\ \A k \in DOMAIN stack' : k = 1
    <3>1. Len(stack') \in Nat /\ DOMAIN stack' = 1 .. Len(stack')
      BY LenProperties DEF TypeOK
    <3> QED BY <1>1, <1>3, <2>2, <2>4, <3>1 DEF Send, SendOn
  <2>6. StartFits'
    BY <1>1, <1>3, <2>1, <2>5 DEF StartWineProcess, StartFits, Refused
  <2>7. \A i : ~Entering(i) /\ ~Leaving(i) /\ ~Leaving(i)'
    BY <1>1, <2>4 DEF Entering, Leaving
  <2>8. NothingYet' /\ HandlesFit' /\ ListFits' /\ TimerFits'
    BY <1>1, <1>3, <2>1, <2>4, <2>5, <2>7, EntriesKept, AttachFnIsNoEntry DEF StartWineProcess
  <2> QED BY <2>4, <2>6, <2>8
<1> QED BY <1>2, <1>3 DEF StartWineProcess

\* While attach waits there is one call.
LEMMA Attaching ==
    ASSUME TypeOK, Fits, Up, NEW fn \in AttachFn, Answered(fn)
    PROVE  /\ attach = "wait" /\ ~initOkay /\ ~Refused /\ Depth = 0
           /\ Len(stack) = 1 /\ Len(stack) = 2 * Depth + 1 /\ stack # <<>> /\ toLin # <<>>
           /\ stack[1].fn = fn /\ DOMAIN stack = {1} /\ Last(stack) = stack[1] /\ Last(stack) # Script
           /\ \A i : ~Entering(i) /\ ~Leaving(i)
<1>1. stack # <<>> /\ Last(stack).fn = fn /\ toLin # <<>>
  BY DEF Answered, Waiting
<1>2. /\ Last(stack) = stack[Len(stack)] /\ Len(stack) \in DOMAIN stack
      /\ DOMAIN stack = 1 .. Len(stack) /\ Len(stack) \in Nat
  BY <1>1, StackPlaces
<1>3. ~initOkay /\ attach = "wait" /\ Len(stack) = 1
  BY <1>1, <1>2 DEF Fits, StartFits, Refused, TypeOK
<1>4. Last(stack) # Script
  BY <1>1, AttachFnIsNoEntry, ScriptNamesNone
<1>5. Len(stack) = 2 * Depth + 1 /\ Depth = 0
  BY <1>1, <1>3, <1>4, Turns, DepthType DEF Fits
<1>6. \A i : ~Entering(i) /\ ~Leaving(i)
  BY <1>1, AttachFnIsNoEntry DEF Entering, Leaving, EntryFn
<1> QED BY <1>1, <1>2, <1>3, <1>4, <1>5, <1>6 DEF Refused

LEMMA AttachEndStep ==
    ASSUME TypeOK, Fits, Up, NEW fn \in AttachFn, NEW okay \in BOOLEAN, AttachEnds(fn, okay)
    PROVE  Fits'
<1> USE DEF Fits
<1>1. /\ attach = "wait" /\ ~initOkay /\ ~Refused /\ Len(stack) = 1 /\ stack # <<>> /\ toLin # <<>>
      /\ stack[1].fn = fn /\ DOMAIN stack = {1} /\ Last(stack) # Script /\ Len(stack) = 2 * Depth + 1 /\ Depth = 0
      /\ \A i : ~Entering(i) /\ ~Leaving(i)
  BY Attaching DEF AttachEnds
<1>2. /\ Alternates' /\ BridgeFits' /\ toLin' = <<>> /\ toWin' = <<>>
      /\ (loader # "gone" => Len(handlers') = Depth')
      /\ Len(stack) = Len(stack') + 1 /\ Len(stack') \in Nat /\ DOMAIN stack' = 1 .. Len(stack')
  BY <1>1, BridgeReceive DEF AttachEnds
<1>3. Len(stack') = 0 /\ DOMAIN stack' = {}
  BY <1>1, <1>2
<1>4. stack' = <<>>
  BY <1>1, <1>3, StackPlaces, TypeReceive, EmptySeq DEF AttachEnds, Receive
<1>5. handlers' = <<>>
  <2>1. CASE loader = "gone"
    BY <2>1 DEF AttachEnds, Receive, BridgeFits
  <2>2. CASE loader # "gone"
    <3>1. Len(handlers) = 0
      BY <1>1, <1>2, <1>4, <2>2, DepthType, StackPlaces, FS_EmptySet DEF AttachEnds, Receive, Depth, Scripts
    <3> QED BY <3>1, EmptySeq DEF AttachEnds, Receive, TypeOK
  <2> QED BY <2>1, <2>2
<1>6. StartFits'
  BY <1>2, <1>3, <1>4, <1>5 DEF AttachEnds, StartFits, Refused
<1>7. \A i : ~Leaving(i)'
  BY <1>2 DEF Leaving
<1>8. NothingYet' /\ HandlesFit' /\ ListFits' /\ TimerFits'
  BY <1>1, <1>3, <1>7, EntriesKept, AttachFnIsNoEntry DEF AttachEnds
<1> QED BY <1>2, <1>6, <1>8

LEMMA AttachNextStep ==
    ASSUME TypeOK, TypeOK', Fits, Up, NEW fn \in AttachFn, NEW next \in AttachFn, AttachNext(fn, next)
    PROVE  Fits'
<1> USE DEF Fits
<1> DEFINE f == Frame(next, NULL)
<1>0. f \in Request /\ f.fn = next /\ f # Script
  BY RequestTypes
<1> HIDE DEF f
<1>1. /\ attach = "wait" /\ ~initOkay /\ ~Refused /\ Len(stack) = 1 /\ stack # <<>> /\ toLin # <<>>
      /\ stack[1].fn = fn /\ DOMAIN stack = {1} /\ Last(stack) # Script /\ Len(stack) = 2 * Depth + 1 /\ Depth = 0
      /\ \A i : ~Entering(i) /\ ~Leaving(i)
  BY Attaching DEF AttachNext
<1>2. Front(stack) \in Seq(Request \cup {Script}) /\ Len(Front(stack)) = 0
  <2>1. stack \in Seq(Request \cup {Script})
    BY DEF TypeOK
  <2>2. Front(stack) \in Seq(Request \cup {Script}) /\ Len(Front(stack)) = Len(stack) - 1
    BY <1>1, <2>1, FrontProperty
  <2> QED BY <1>1, <2>2
<1>3. stack' = Append(Front(stack), f) /\ Front(stack) = <<>>
  BY <1>2, EmptySeq DEF AttachNext, SendOn, f
<1>4. Len(stack') = 1 /\ stack'[1] = f /\ DOMAIN stack' = {1} /\ stack' # <<>> /\ Last(stack') = f
  BY <1>3 DEF Last
<1>5. Scripts' = {} /\ Depth' = 0
  <2>1. Scripts' = {}
    BY <1>0, <1>4 DEF Scripts
  <2> QED BY <2>1, FS_EmptySet DEF Depth
<1>6. Alternates'
  BY <1>0, <1>4, <1>5 DEF Alternates
<1>7. Replied /\ (loader # "gone" => Len(handlers) = 0)
  BY <1>1 DEF BridgeFits, Sent, Handled, Returned
<1>8. toLin' = <<>>
  <2>1. toLin \in Seq(Reply) /\ Len(toLin) = 1
    BY <1>7 DEF Replied, TypeOK
  <2>2. Tail(toLin) \in Seq(Reply) /\ Len(Tail(toLin)) = 0
    BY <2>1, HeadTail
  <2> QED BY <2>2, EmptySeq DEF AttachNext
<1>9. BridgeFits'
  <2>1. loader # "gone" => Sent'
    BY <1>4, <1>5, <1>7, <1>8 DEF AttachNext, SendOn, Sent, Replied, f
  <2>2. loader = "gone" => toWin' = <<>> /\ handlers' = <<>>
    BY DEF AttachNext, SendOn, BridgeFits
  <2> QED BY <1>4, <1>5, <1>8, <2>1, <2>2 DEF AttachNext, BridgeFits
<1>10. StartFits'
  BY <1>0, <1>1, <1>4 DEF AttachNext, StartFits, Refused, startVars
<1>11. \A i : ~Leaving(i)'
  BY <1>8 DEF Leaving
<1>12. NothingYet' /\ HandlesFit' /\ ListFits' /\ TimerFits'
  BY <1>0, <1>1, <1>4, <1>11, EntriesKept, AttachFnIsNoEntry DEF AttachNext, startVars
<1> QED BY <1>6, <1>9, <1>10, <1>12

\* When the browser can call, nothing is on its way.
LEMMA BrowserCalls ==
    ASSUME TypeOK, Fits, BrowserTurn, initOkay
    PROVE  /\ ~Refused /\ attach = "over" /\ Up /\ Len(stack) = 2 * Depth
           /\ toWin = <<>> /\ toLin = <<>> /\ \A i : ~Entering(i) /\ ~Leaving(i)
<1>1. attach = "over" /\ Up /\ Len(stack) = 2 * Depth /\ ~Refused
  BY Turns DEF BrowserTurn, Fits, Refused
<1>2. toWin = <<>> /\ toLin = <<>>
  BY <1>1 DEF Fits, BridgeFits
<1> QED BY <1>1, <1>2, NobodyMoves DEF Fits

LEMMA PlainCallStep ==
    ASSUME TypeOK, Fits, BrowserTurn, initOkay,
           NEW f \in Request, f.fn \notin AttachFn, f.fn \notin EntryFn, Send(f),
           UNCHANGED <<process, loader, startVars, instVars, timerVars>>
    PROVE  Fits'
<1> USE DEF Fits, startVars
<1>1. /\ ~Refused /\ attach = "over" /\ Up /\ Len(stack) = 2 * Depth
      /\ \A i : ~Entering(i) /\ ~Leaving(i)
  BY BrowserCalls
<1>2. /\ Alternates' /\ BridgeFits' /\ stack' # <<>> /\ toLin' = <<>>
      /\ Len(stack) \in Nat
      /\ DOMAIN stack = 1 .. Len(stack) /\ DOMAIN stack' = 1 .. Len(stack) + 1 /\ stack'[Len(stack) + 1] = f
      /\ \A k \in 1 .. Len(stack) : stack'[k] = stack[k]
  BY <1>1, BridgeSend DEF Send
<1>3. \A k \in DOMAIN stack' : k \in 1 .. Len(stack) \/ k = Len(stack) + 1
  BY <1>2
<1>4. \A k \in DOMAIN stack : k \in DOMAIN stack' /\ \A j \in 1 .. k : j \in DOMAIN stack
  BY <1>2
<1>5. StartFits'
  BY <1>1, <1>2, <1>3 DEF StartFits, Refused
<1>6. \A i : ~Leaving(i)'
  BY <1>2 DEF Leaving
<1>7. NothingYet' /\ HandlesFit' /\ ListFits' /\ TimerFits'
  BY <1>1, <1>2, <1>3, <1>4, <1>6, EntriesKept
<1> QED BY <1>2, <1>5, <1>7

LEMMA TimerFiresStep == ASSUME TypeOK, Fits, NEW t \in timers, TimerFires(t) PROVE Fits'
<1> DEFINE f == Frame("PROCESS_WINDOW_EVENTS", t.of)
<1>1. f \in Request /\ f.fn = "PROCESS_WINDOW_EVENTS"
  BY RequestTypes DEF TypeOK
<1>2. initOkay
  BY DEF Fits, NothingYet, TypeOK
<1>3. Send(f) /\ BrowserTurn /\ UNCHANGED <<process, loader, startVars, instVars, timerVars>>
  BY DEF TimerFires
<1> HIDE DEF f
<1> QED BY <1>1, <1>2, <1>3, PlainCallStep DEF AttachFn, EntryFn

LEMMA ShutdownStep == ASSUME TypeOK, Fits, Shutdown PROVE Fits'
<1> DEFINE f == Frame("NP_SHUTDOWN", NULL)
<1>1. f \in Request /\ f.fn = "NP_SHUTDOWN"
  BY RequestTypes
<1>2. Send(f) /\ BrowserTurn /\ initOkay /\ UNCHANGED <<process, loader, startVars, instVars, timerVars>>
  BY DEF Shutdown
<1> HIDE DEF f
<1> QED BY <1>1, <1>2, PlainCallStep DEF AttachFn, EntryFn

\* After attach, a call that is open was made by a plugin that has started.
LEMMA CallOpen ==
    ASSUME TypeOK, Fits, Up, stack # <<>>, Last(stack).fn \notin AttachFn
    PROVE  ~Refused /\ initOkay /\ attach = "over"
<1>1. Len(stack) \in DOMAIN stack /\ Last(stack) = stack[Len(stack)]
  BY StackPlaces
<1>2. attach # "wait"
  <2>1. Len(stack) = 1 => Last(stack) = stack[1]
    BY <1>1
  <2> QED BY <2>1 DEF Fits, StartFits
<1>3. attach = "over"
  BY <1>2 DEF Fits, StartFits, TypeOK
<1> QED BY <1>3 DEF Fits, StartFits, Refused

\* What the end of any call but one of attach leaves.
LEMMA CallReturns ==
    ASSUME TypeOK, Fits, Up, NEW fn, fn \notin AttachFn, fn # "script", Answered(fn), Receive,
           UNCHANGED <<loader, startVars>>
    PROVE  /\ Alternates' /\ BridgeFits' /\ StartFits' /\ toLin' = <<>> /\ toWin = <<>> /\ toWin' = <<>>
           /\ initOkay /\ stack # <<>> /\ toLin # <<>>
           /\ Last(stack).fn = fn /\ Last(stack) \in Request
           /\ Len(stack) = Len(stack') + 1 /\ Len(stack') \in Nat /\ Last(stack) = stack[Len(stack)]
           /\ DOMAIN stack' = 1 .. Len(stack') /\ DOMAIN stack = 1 .. Len(stack)
           /\ \A k \in 1 .. Len(stack') : k \in 1 .. Len(stack) /\ stack'[k] = stack[k]
           /\ \A k \in 1 .. Len(stack) : k \in 1 .. Len(stack') \/ k = Len(stack)
<1>1. stack # <<>> /\ toLin # <<>> /\ Last(stack).fn = fn /\ Last(stack) # Script
  BY ScriptNamesNone DEF Answered, Waiting
<1>2. ~Refused /\ initOkay /\ attach = "over"
  BY <1>1, CallOpen
<1>3. /\ Alternates' /\ BridgeFits' /\ toLin' = <<>> /\ toWin = <<>> /\ toWin' = <<>>
      /\ Len(stack) = Len(stack') + 1 /\ Len(stack') \in Nat /\ Last(stack) = stack[Len(stack)]
      /\ DOMAIN stack' = 1 .. Len(stack') /\ DOMAIN stack = 1 .. Len(stack)
      /\ Last(stack) \in Request
      /\ \A k \in 1 .. Len(stack') : k \in 1 .. Len(stack) /\ stack'[k] = stack[k]
  BY <1>1, <1>2, BridgeReceive DEF Fits
<1>4. \A k \in 1 .. Len(stack) : k \in 1 .. Len(stack') \/ k = Len(stack)
  BY <1>3
<1>5. StartFits'
  BY <1>2, <1>3 DEF startVars, StartFits, Refused, Fits
<1> QED BY <1>1, <1>2, <1>3, <1>4, <1>5

LEMMA CallEndStep == ASSUME TypeOK, Fits, Up, CallEnd PROVE Fits'
<1> USE DEF Fits
<1>1. PICK fn \in {"PROCESS_WINDOW_EVENTS", "NP_SHUTDOWN"} : Answered(fn)
  BY DEF CallEnd
<1>2. fn \notin AttachFn /\ fn # "script" /\ fn \notin EntryFn
  BY DEF AttachFn, EntryFn
<1>3. /\ Alternates' /\ BridgeFits' /\ StartFits' /\ toLin' = <<>>
      /\ Last(stack).fn = fn /\ Last(stack) = stack[Len(stack)]
      /\ Len(stack') \in Nat /\ Len(stack) = Len(stack') + 1
      /\ DOMAIN stack' = 1 .. Len(stack') /\ DOMAIN stack = 1 .. Len(stack)
      /\ \A k \in 1 .. Len(stack') : k \in 1 .. Len(stack) /\ stack'[k] = stack[k]
      /\ \A k \in 1 .. Len(stack) : k \in 1 .. Len(stack') \/ k = Len(stack)
  BY <1>1, <1>2, CallReturns DEF CallEnd
<1>4. \A i : ~Entering(i) /\ ~Leaving(i) /\ ~Leaving(i)'
  BY <1>2, <1>3 DEF Entering, Leaving, EntryFn
<1>5. \A k \in DOMAIN stack' : \A j \in 1 .. k : j \in DOMAIN stack'
  BY <1>3
<1>6. NothingYet' /\ HandlesFit' /\ ListFits' /\ TimerFits'
  BY <1>2, <1>3, <1>4, <1>5, EntriesKept DEF CallEnd, startVars
<1> QED BY <1>3, <1>6

LEMMA ScriptEndStep == ASSUME TypeOK, Fits, ScriptEnd PROVE Fits'
<1> USE DEF Fits
<1>1. Up /\ attach = "over" /\ stack # <<>> /\ Last(stack) = Script /\ stack' = Front(stack) /\ Len(stack) = 2 * Depth
  BY Turns DEF ScriptEnd, BrowserTurn
<1>2. ~Refused /\ toWin = <<>> /\ toLin = <<>> /\ (loader # "gone" => Len(handlers) = Depth)
  BY <1>1 DEF StartFits, BridgeFits
<1>3. /\ Alternates' /\ Depth' = Depth - 1 /\ Depth' \in Nat
      /\ Len(stack') = 2 * Depth' + 1 /\ Len(stack) = Len(stack') + 1
      /\ DOMAIN stack' = 1 .. Len(stack') /\ stack' # <<>>
      /\ Last(stack') = stack[2 * Depth - 1]
      /\ \A k \in 1 .. Len(stack') : k \in 1 .. Len(stack) /\ stack'[k] = stack[k]
  BY <1>1, PoppedScript
<1>4. BridgeFits'
  <2>1. CASE loader = "gone"
    BY <1>1, <1>2, <1>3, <2>1 DEF ScriptEnd, BridgeFits
  <2>2. CASE loader # "gone"
    <3>1. Len(handlers) = Depth /\ Depth \in 1 .. Depth /\ handlers \in Seq(Request) /\ Depth \in Nat
      BY <1>2, <1>3, <2>2, DepthType, SMTT(60) DEF TypeOK
    <3>2. handlers # <<>>
      BY <3>1, EmptySeq
    <3>3. Last(handlers) = handlers[Depth]
      BY <3>1, <3>2, FrontProperty
    <3>4. Last(handlers) = Last(stack')
      BY <1>2, <1>3, <2>2, <3>1, <3>3 DEF BridgeFits
    <3>5. Len(handlers) = Depth' + 1
      BY <1>3, <3>1
    <3>6. Handled'
      BY <1>2, <1>3, <3>4, <3>5 DEF ScriptEnd, Handled
    <3>7. ASSUME NEW m \in 1 .. Depth' PROVE handlers'[m] = stack'[2 * m - 1]
      <4>1. m \in 1 .. Depth /\ 2 * m - 1 \in 1 .. Len(stack')
        BY <1>3, <3>1
      <4> QED BY <1>2, <1>3, <2>2, <4>1 DEF ScriptEnd, BridgeFits
    <3>8. Len(stack') # 2 * Depth'
      BY <1>3
    <3> QED BY <2>2, <3>6, <3>7, <3>8 DEF ScriptEnd, BridgeFits
  <2> QED BY <2>1, <2>2
<1>5. StartFits'
  BY <1>1, <1>2, <1>3 DEF ScriptEnd, StartFits, Refused, startVars
<1>6. \A i : ~Entering(i) /\ ~Leaving(i) /\ ~Leaving(i)'
  BY <1>2 DEF ScriptEnd, Entering, Leaving
<1>7. /\ \A k \in DOMAIN stack' : k \in DOMAIN stack /\ \A j \in 1 .. k : stack'[j] = stack[j]
      /\ \A k \in DOMAIN stack : stack[k].fn \in EntryFn => k \in DOMAIN stack' /\ stack'[k] = stack[k]
  <2>1. \A k \in DOMAIN stack' : \A j \in 1 .. k : j \in DOMAIN stack'
    BY <1>3
  <2>2. \A k \in 1 .. Len(stack) : k \in 1 .. Len(stack') \/ k = Len(stack)
    BY <1>3
  <2>3. stack[Len(stack)].fn \notin EntryFn
    BY <1>1, StackPlaces, ScriptNamesNone DEF EntryFn
  <2>4. DOMAIN stack = 1 .. Len(stack)
    BY StackPlaces
  <2> QED BY <1>3, <2>1, <2>2, <2>3, <2>4
<1>8. NothingYet' /\ HandlesFit' /\ ListFits' /\ TimerFits'
  BY <1>6, <1>7, EntriesKept DEF ScriptEnd, startVars
<1> QED BY <1>3, <1>4, <1>5, <1>8

\* A handler that may act carries out the innermost call, or attach has given it up.
LEMMA PluginActs ==
    ASSUME TypeOK, Fits, Up, PluginTurn
    PROVE  /\ handlers # <<>> /\ Last(handlers) \in Request /\ Last(handlers) = handlers[Len(handlers)]
           /\ Len(handlers) \in 1 .. Len(handlers) /\ DOMAIN handlers = 1 .. Len(handlers)
           /\ Front(handlers) \in Seq(Request) /\ Len(Front(handlers)) = Len(handlers) - 1
           /\ \A m \in 1 .. Len(handlers) - 1 : Front(handlers)[m] = handlers[m]
           /\ loader = "running"
           /\ ~Refused => /\ Handled /\ Len(stack) = 2 * Depth + 1 /\ stack # <<>> /\ Last(stack) # Script
                          /\ \A i : ~Entering(i) /\ ~Leaving(i)
<1> USE DEF Fits
<1>1. loader = "running" /\ Len(handlers) > Depth /\ Depth \in Nat /\ handlers \in Seq(Request) /\ Len(handlers) \in Nat
  BY DepthType, LenProperties DEF PluginTurn, Depth, TypeOK
<1>2. handlers # <<>> /\ DOMAIN handlers = 1 .. Len(handlers) /\ Len(handlers) \in 1 .. Len(handlers)
  BY <1>1, EmptySeq, LenProperties
<1>3. /\ Last(handlers) \in Request /\ Last(handlers) = handlers[Len(handlers)]
      /\ Front(handlers) \in Seq(Request) /\ Len(Front(handlers)) = Len(handlers) - 1
      /\ \A m \in 1 .. Len(handlers) - 1 : Front(handlers)[m] = handlers[m]
  BY <1>1, <1>2, FrontProperty
<1>4. ASSUME ~Refused PROVE Handled /\ Len(stack) = 2 * Depth + 1
  <2>1. Len(stack) # 2 * Depth
    BY <1>1, <1>4 DEF BridgeFits
  <2>2. Len(stack) = 2 * Depth + 1
    BY <2>1 DEF Alternates
  <2> QED BY <1>1, <1>4, <2>2 DEF BridgeFits, Sent, Returned
<1>5. ASSUME ~Refused PROVE stack # <<>> /\ Last(stack) # Script /\ \A i : ~Entering(i) /\ ~Leaving(i)
  BY <1>4, <1>5, Turns, NobodyMoves DEF Handled
<1> QED BY <1>1, <1>2, <1>3, <1>4, <1>5

LEMMA CallScriptStep == ASSUME TypeOK, Fits, CallScript PROVE Fits'
<1> USE DEF Fits
<1>1. Up /\ PluginTurn /\ stack # <<>> /\ Last(handlers).fn \in RunsPlugin /\ stack' = Append(stack, Script)
  BY DEF CallScript
<1>2. ~Refused
  BY <1>1 DEF StartFits
<1>3. /\ Handled /\ Len(stack) = 2 * Depth + 1 /\ Last(stack) = Last(handlers)
      /\ Last(handlers) = handlers[Len(handlers)] /\ loader = "running"
      /\ \A i : ~Entering(i) /\ ~Leaving(i)
  BY <1>1, <1>2, PluginActs DEF Handled
<1>4. initOkay /\ attach = "over"
  BY <1>1, <1>3, CallOpen DEF RunsPlugin, AttachFn
<1>5. /\ Alternates' /\ Depth' = Depth + 1 /\ Depth \in Nat
      /\ Len(stack') = 2 * Depth' /\ DOMAIN stack' = 1 .. Len(stack) + 1 /\ stack'[Len(stack) + 1] = Script
      /\ DOMAIN stack = 1 .. Len(stack) /\ Len(stack) \in Nat /\ Last(stack) = stack[Len(stack)]
      /\ \A k \in 1 .. Len(stack) : stack'[k] = stack[k]
  BY <1>1, <1>3, PushedScript, StackPlaces, DepthType
<1>6. BridgeFits'
  <2>1. Len(handlers) = Depth' /\ toWin = <<>> /\ toLin = <<>>
    BY <1>3, <1>5 DEF Handled
  <2>2. ASSUME NEW m \in 1 .. Depth + 1 PROVE handlers[m] = stack'[2 * m - 1]
    <3>1. CASE m = Depth + 1
      <4>1. 2 * m - 1 = Len(stack) /\ Len(stack) \in 1 .. Len(stack) /\ m = Len(handlers)
        BY <1>3, <1>5, <2>1, <3>1
      <4> QED BY <1>3, <1>5, <4>1
    <3>2. CASE m \in 1 .. Depth
      <4>1. 2 * m - 1 \in 1 .. Len(stack)
        BY <1>3, <1>5, <3>2
      <4> QED BY <1>2, <1>3, <1>5, <3>2, <4>1 DEF BridgeFits
    <3> QED BY <1>5, <3>1, <3>2
  <2>3. Len(stack') # 2 * Depth' + 1
    BY <1>5
  <2>4. UNCHANGED <<toWin, toLin, handlers, loader>>
    BY DEF CallScript
  <2> QED BY <1>3, <1>5, <2>1, <2>2, <2>3, <2>4 DEF BridgeFits
<1>7. \A k \in DOMAIN stack' : k \in 1 .. Len(stack) \/ k = Len(stack) + 1
  BY <1>5
<1>8. StartFits'
  BY <1>4, <1>5, <1>7, ScriptNamesNone DEF CallScript, startVars, StartFits, Refused, AttachFn
<1>9. \A i : ~Leaving(i)'
  BY <1>3 DEF CallScript, Handled, Leaving
<1>10. \A k \in 1 .. Len(stack) : k \in DOMAIN stack' /\ \A j \in 1 .. k : j \in 1 .. Len(stack)
  BY <1>5
<1>11. Script.fn \notin EntryFn
  BY ScriptNamesNone DEF EntryFn
<1>12. NothingYet' /\ HandlesFit' /\ ListFits' /\ TimerFits'
  BY <1>3, <1>5, <1>7, <1>9, <1>10, <1>11, EntriesKept DEF CallScript, startVars
<1> QED BY <1>5, <1>6, <1>8, <1>12

LEMMA AttachFailsStep ==
    ASSUME TypeOK, Fits, Up, Waiting("INIT_OKAY"), toLin = <<>>, AttachFails,
           UNCHANGED <<loader, toWin, handlers, instanceList>>
    PROVE  Fits'
<1> USE DEF Fits
<1>1. stack # <<>> /\ Last(stack).fn = "INIT_OKAY" /\ "INIT_OKAY" \in AttachFn
  BY DEF Waiting, AttachFn
<1>2. /\ Last(stack) = stack[Len(stack)] /\ Len(stack) \in DOMAIN stack
      /\ DOMAIN stack = 1 .. Len(stack) /\ Len(stack) \in Nat
  BY <1>1, StackPlaces
<1>3. ~initOkay /\ attach = "wait" /\ Len(stack) = 1 /\ ~Refused
  BY <1>1, <1>2 DEF StartFits, Refused, TypeOK
<1>4. Last(stack) # Script
  BY <1>1, ScriptNamesNone
<1>5. Len(stack) = 2 * Depth + 1 /\ Depth = 0
  BY <1>1, <1>3, <1>4, Turns, DepthType
<1>6. stack' = <<>> /\ DOMAIN stack' = {} /\ Len(stack') = 0
  <2>1. stack \in Seq(Request \cup {Script})
    BY DEF TypeOK
  <2>2. Front(stack) \in Seq(Request \cup {Script}) /\ Len(Front(stack)) = 0
    BY <1>1, <1>3, <2>1, FrontProperty
  <2> QED BY <2>2, EmptySeq DEF AttachFails
<1>7. Alternates'
  BY <1>3, <1>5, <1>6, PoppedRequest DEF AttachFails
<1>8. /\ \A k \in DOMAIN toWin : toWin[k].fn \in AttachFn
      /\ \A k \in DOMAIN handlers : handlers[k].fn \in AttachFn
  <2>1. CASE loader = "gone"
    BY <2>1 DEF BridgeFits
  <2>2. CASE Sent
    <3>1. toWin = <<Last(stack)>> /\ handlers = <<>>
      BY <1>5, <2>2, EmptySeq DEF Sent, TypeOK
    <3> QED BY <1>1, <3>1
  <2>3. CASE Handled
    <3>1. toWin = <<>> /\ Len(handlers) = 1 /\ Last(handlers) = Last(stack) /\ handlers \in Seq(Request)
      BY <1>5, <2>3 DEF Handled, TypeOK
    <3>2. DOMAIN handlers = 1 .. 1 /\ handlers[1] = Last(stack)
      BY <3>1, LenProperties, EmptySeq DEF Last
    <3> QED BY <1>1, <3>1, <3>2
  <2>4. CASE Returned
    BY <2>4, EmptySeq DEF Returned, Replied
  <2> QED BY <1>3, <1>5, <2>1, <2>2, <2>3, <2>4 DEF BridgeFits
<1>9. StartFits' /\ BridgeFits'
  BY <1>3, <1>6, <1>8 DEF AttachFails, StartFits, BridgeFits, Refused
<1>10. \A i : ~Entering(i) /\ ~Leaving(i) /\ ~Leaving(i)'
  BY <1>1, <1>6, AttachFnIsNoEntry DEF Entering, Leaving, EntryFn
<1>11. \A k \in DOMAIN stack : stack[k].fn \notin EntryFn
  <2>1. \A k \in DOMAIN stack : k = Len(stack)
    BY <1>2, <1>3
  <2> QED BY <1>1, <1>2, <2>1, AttachFnIsNoEntry
<1>12. NothingYet' /\ HandlesFit' /\ ListFits' /\ TimerFits'
  BY <1>3, <1>6, <1>10, <1>11, EntriesKept DEF AttachFails, instVars
<1> QED BY <1>7, <1>9, <1>12

LEMMA CrashStep == ASSUME TypeOK, Fits, LoaderCrashes PROVE Fits'
<1> USE DEF Fits, startVars, timerVars
<1>1. /\ Up /\ loader \in {"starting", "running"} /\ loader' = "gone"
      /\ handlers' = <<>> /\ toWin' = <<>> /\ instanceList' = {}
      /\ UNCHANGED <<attach, initOkay, events, toLin, stack, handles, alive, upset, timers, timerInstance, timerID>>
  BY DEF LoaderCrashes, Gone
<1>2. Alternates' /\ Depth' = Depth
  BY <1>1, StackKept
<1>3. StartFits'
  BY <1>1 DEF StartFits, Refused
<1>4. BridgeFits'
  <2>1. Replied => Replied'
    BY <1>1 DEF Replied
  <2>2. ASSUME ~Refused, Len(stack) = 2 * Depth + 1 PROVE toLin = <<>> \/ Replied
    BY <1>1, <2>2 DEF BridgeFits, Sent, Handled, Returned
  <2> QED BY <1>1, <1>2, <2>1, <2>2 DEF BridgeFits, Refused
<1>5. Handles' = Handles /\ \A fn : Pending(fn)' = Pending(fn)
  BY <1>1 DEF Handles, ToSet, Pending
<1>6. \A i : Known(i)' <=> Known(i)
  BY <1>1, <1>5 DEF Known
<1>7. NothingYet' /\ HandlesFit' /\ ListFits' /\ TimerFits'
  BY <1>1, <1>5, <1>6 DEF NothingYet, HandlesFit, ListFits, TimerFits
<1> QED BY <1>2, <1>3, <1>4, <1>7

\* The Windows side changes its own list alone.
LEMMA TablesKept ==
    ASSUME UNCHANGED <<startVars, stack, handles, alive, upset, timerVars>>,
           NothingYet, HandlesFit, TimerFits, ~initOkay \/ events = "none" => instanceList' = {}
    PROVE  NothingYet' /\ HandlesFit' /\ TimerFits' /\ Handles' = Handles
<1> USE DEF startVars, timerVars
<1>1. Handles' = Handles /\ \A fn : Pending(fn)' = Pending(fn)
  BY DEF Handles, ToSet, Pending
<1>2. \A i : Known(i)' <=> Known(i)
  BY <1>1 DEF Known
<1> QED BY <1>1, <1>2 DEF NothingYet, HandlesFit, TimerFits

LEMMA AnswerStep == ASSUME TypeOK, Fits, Up, NEW okay \in BOOLEAN, Answer(okay) PROVE Fits'
<1> USE DEF Fits
<1> DEFINE f == Last(handlers)
           r == [fn |-> f.fn, okay |-> okay]
<1>1. /\ PluginTurn /\ handlers' = Front(handlers) /\ toLin' = Append(toLin, r)
      /\ instanceList' = IF f.fn = "NPP_DESTROY" THEN instanceList \ {f.of} ELSE instanceList
      /\ UNCHANGED <<process, loader, startVars, toWin, stack, handles, alive, upset, timerVars>>
  BY DEF Answer
<1>2. /\ handlers # <<>> /\ f \in Request /\ f = handlers[Len(handlers)]
      /\ Len(handlers) \in 1 .. Len(handlers) /\ DOMAIN handlers = 1 .. Len(handlers)
      /\ Front(handlers) \in Seq(Request) /\ Len(Front(handlers)) = Len(handlers) - 1
      /\ \A m \in 1 .. Len(handlers) - 1 : Front(handlers)[m] = handlers[m]
      /\ loader = "running"
      /\ ~Refused => /\ Handled /\ Len(stack) = 2 * Depth + 1 /\ stack # <<>> /\ Last(stack) # Script
                     /\ \A i : ~Entering(i) /\ ~Leaving(i)
  BY <1>1, PluginActs
<1>3. Alternates' /\ Depth' = Depth
  BY <1>1, StackKept
<1>4. NothingYet' /\ HandlesFit' /\ TimerFits' /\ Handles' = Handles
  <2>1. ~initOkay \/ events = "none" => instanceList' = {}
    BY <1>1 DEF NothingYet
  <2> QED BY <1>1, <2>1, TablesKept
<1>5. CASE Refused
  <2>1. /\ stack = <<>> /\ \A k \in DOMAIN toWin : toWin[k].fn \in AttachFn
        /\ \A k \in DOMAIN handlers : handlers[k].fn \in AttachFn
    BY <1>5 DEF StartFits
  <2>2. f.fn \in AttachFn
    BY <1>2, <2>1
  <2>3. instanceList' = instanceList
    BY <1>1, <2>2, AttachFnIsNoEntry DEF EntryFn
  <2>4. \A k \in DOMAIN handlers' : handlers'[k].fn \in AttachFn
    <3>1. DOMAIN handlers' = 1 .. Len(handlers) - 1
      BY <1>1, <1>2, LenProperties
    <3>2. \A k \in 1 .. Len(handlers) - 1 : k \in DOMAIN handlers
      BY <1>2
    <3> QED BY <1>1, <1>2, <2>1, <3>1, <3>2
  <2>5. StartFits' /\ BridgeFits'
    <3>1. attach = "over" /\ ~initOkay
      BY <1>5 DEF Refused
    <3> QED BY <1>1, <1>2, <2>1, <2>4, <3>1 DEF StartFits, BridgeFits, Refused, startVars
  <2>6. ListFits'
    BY <1>1, <1>2, <1>4, <2>1, <2>3 DEF ListFits, Entering, Leaving
  <2> QED BY <1>3, <1>4, <2>5, <2>6
<1>6. CASE ~Refused
  <2>1. /\ toWin = <<>> /\ toLin = <<>> /\ Len(handlers) = Depth + 1 /\ f = Last(stack)
        /\ Len(stack) = 2 * Depth + 1 /\ stack # <<>>
        /\ \A i : ~Entering(i) /\ ~Leaving(i)
    BY <1>2, <1>6 DEF Handled
  <2>2. toLin' = <<r>> /\ Len(toLin') = 1 /\ Head(toLin') = r /\ toLin' # <<>>
    BY <1>1, <2>1
  <2>3. Len(handlers') = Depth /\ \A m \in 1 .. Depth : handlers'[m] = handlers[m]
    BY <1>1, <1>2, <2>1, DepthType
  <2>4. Returned'
    BY <1>1, <1>3, <2>1, <2>2, <2>3 DEF Returned, Replied
  <2>5. BridgeFits'
    <3>1. Len(stack') # 2 * Depth'
      BY <1>1, <1>3, <2>1, DepthType
    <3>2. \A m \in 1 .. Depth : handlers'[m] = stack'[2 * m - 1]
      BY <1>1, <1>2, <1>6, <2>3 DEF BridgeFits
    <3> QED BY <1>1, <1>2, <1>3, <2>4, <3>1, <3>2 DEF BridgeFits
  <2>6. StartFits'
    BY <1>1, <1>2, <1>6 DEF StartFits, Refused, startVars
  <2>7. ListFits'
    <3>1. instanceList = Handles
      BY <1>2, <2>1 DEF ListFits
    <3>2. \A i : Leaving(i)' <=> f.of = i /\ f.fn = "NPP_DESTROY"
      BY <1>1, <2>1, <2>2 DEF Leaving
    <3> QED BY <1>1, <1>4, <3>1, <3>2 DEF ListFits
  <2> QED BY <1>3, <1>4, <2>5, <2>6, <2>7
<1> QED BY <1>5, <1>6

LEMMA HandleStep == ASSUME TypeOK, Fits, Up, HandleCommand PROVE Fits'
<1> USE DEF Fits
<1> DEFINE f == Head(toWin)
<1>1. /\ loader = "running" /\ toWin # <<>> /\ handlers' = Append(handlers, f) /\ toWin' = Tail(toWin)
      /\ instanceList' = IF f.fn = "NPP_NEW" THEN instanceList \cup {f.of} ELSE instanceList
      /\ UNCHANGED <<process, loader, startVars, toLin, stack, handles, alive, upset, timerVars>>
  BY DEF HandleCommand
<1>2. /\ f = toWin[1] /\ f \in Request /\ Len(toWin) \in Nat \ {0} /\ DOMAIN toWin = 1 .. Len(toWin)
      /\ Tail(toWin) \in Seq(Request) /\ Len(Tail(toWin)) = Len(toWin) - 1
      /\ \A n \in 1 .. Len(toWin) - 1 : Tail(toWin)[n] = toWin[n + 1]
  <2>1. toWin \in Seq(Request)
    BY DEF TypeOK
  <2> QED BY <1>1, <2>1, HeadTail, LenProperties
<1>3. /\ handlers' \in Seq(Request) /\ Len(handlers) \in Nat /\ Len(handlers') = Len(handlers) + 1
      /\ handlers'[Len(handlers) + 1] = f /\ Last(handlers') = f
      /\ \A n \in 1 .. Len(handlers) : handlers'[n] = handlers[n]
  BY <1>1, <1>2, AppendProperty DEF TypeOK
<1>4. Alternates' /\ Depth' = Depth
  BY <1>1, StackKept
<1>5. CASE Refused
  <2>1. /\ stack = <<>> /\ \A k \in DOMAIN toWin : toWin[k].fn \in AttachFn
        /\ \A k \in DOMAIN handlers : handlers[k].fn \in AttachFn
    BY <1>5 DEF StartFits
  <2>2. f.fn \in AttachFn
    <3>1. 1 \in DOMAIN toWin
      BY <1>2
    <3> QED BY <1>2, <2>1, <3>1
  <2>3. instanceList' = instanceList
    BY <1>1, <2>2, AttachFnIsNoEntry DEF EntryFn
  <2>4. \A k \in DOMAIN handlers' : handlers'[k].fn \in AttachFn
    <3>1. DOMAIN handlers' = 1 .. Len(handlers) + 1 /\ DOMAIN handlers = 1 .. Len(handlers)
      BY <1>3, LenProperties DEF TypeOK
    <3>2. \A k \in 1 .. Len(handlers) + 1 : k \in 1 .. Len(handlers) \/ k = Len(handlers) + 1
      BY <1>3
    <3> QED BY <1>3, <2>1, <2>2, <3>1, <3>2
  <2>5. \A k \in DOMAIN toWin' : toWin'[k].fn \in AttachFn
    <3>1. DOMAIN toWin' = 1 .. Len(toWin) - 1
      BY <1>1, <1>2, LenProperties
    <3>2. \A k \in 1 .. Len(toWin) - 1 : k + 1 \in DOMAIN toWin
      BY <1>2
    <3> QED BY <1>1, <1>2, <2>1, <3>1, <3>2
  <2>6. StartFits' /\ BridgeFits'
    <3>1. attach = "over" /\ ~initOkay
      BY <1>5 DEF Refused
    <3> QED BY <1>1, <2>1, <2>4, <2>5, <3>1 DEF StartFits, BridgeFits, Refused, startVars
  <2>7. NothingYet' /\ HandlesFit' /\ TimerFits' /\ Handles' = Handles
    BY <1>1, <2>3, TablesKept DEF NothingYet
  <2>8. ListFits'
    BY <1>1, <2>1, <2>3, <2>7 DEF ListFits, Entering, Leaving
  <2> QED BY <1>4, <2>6, <2>7, <2>8
<1>6. CASE ~Refused
  <2>1. Len(stack) = 2 * Depth + 1 /\ Sent
    <3>1. Len(stack) # 2 * Depth
      BY <1>1, <1>6 DEF BridgeFits
    <3>2. Len(stack) = 2 * Depth + 1
      BY <3>1 DEF Alternates
    <3> QED BY <1>1, <1>6, <3>2 DEF BridgeFits, Handled, Returned, Replied
  <2>2. /\ toWin = <<Last(stack)>> /\ toLin = <<>> /\ Len(handlers) = Depth /\ f = Last(stack) /\ toWin' = <<>>
        /\ stack # <<>> /\ Len(stack) \in DOMAIN stack /\ Last(stack) = stack[Len(stack)]
    <3>1. toWin = <<Last(stack)>> /\ toLin = <<>> /\ Len(handlers) = Depth
      BY <2>1 DEF Sent
    <3>2. f = Last(stack) /\ toWin' = <<>>
      BY <1>1, <3>1
    <3>3. stack # <<>> /\ Len(stack) \in DOMAIN stack /\ Last(stack) = stack[Len(stack)]
      BY <2>1, StackPlaces, DepthType
    <3> QED BY <3>1, <3>2, <3>3
  <2>3. Handled'
    BY <1>1, <1>3, <1>4, <2>2 DEF Handled
  <2>4. BridgeFits'
    <3>1. Len(stack') # 2 * Depth'
      BY <1>1, <1>4, <2>1, DepthType
    <3>2. ASSUME NEW m \in 1 .. Depth PROVE handlers'[m] = stack'[2 * m - 1]
      <4>1. m \in 1 .. Len(handlers)
        BY <2>2
      <4> QED BY <1>1, <1>3, <1>6, <4>1 DEF BridgeFits
    <3> QED BY <1>1, <1>4, <2>3, <3>1, <3>2 DEF BridgeFits
  <2>5. StartFits'
    BY <1>1, <1>6 DEF StartFits, Refused, startVars
  <2>6. NothingYet' /\ HandlesFit' /\ TimerFits' /\ Handles' = Handles
    <3>1. f.fn = "NPP_NEW" => initOkay /\ events # "none"
      BY <2>2 DEF NothingYet, EntryFn
    <3>2. ~initOkay \/ events = "none" => instanceList' = {}
      BY <1>1, <3>1 DEF NothingYet
    <3> QED BY <1>1, <3>2, TablesKept
  <2>7. ListFits'
    <3>1. \A i : ~Leaving(i) /\ ~Leaving(i)' /\ ~Entering(i)'
      BY <1>1, <2>2 DEF Leaving, Entering
    <3>2. \A i \in Handles \ instanceList : f.of = i /\ f.fn = "NPP_NEW"
      BY <1>1, <2>2, <3>1 DEF ListFits, Entering
    <3>3. f.fn = "NPP_NEW" => f.of \in Handles
      BY <2>2 DEF HandlesFit, EntryFn
    <3> QED BY <1>1, <2>6, <3>1, <3>2, <3>3 DEF ListFits
  <2> QED BY <1>4, <2>4, <2>5, <2>6, <2>7
<1> QED BY <1>5, <1>6

\* A handle is added at most once.
LEMMA Added ==
    ASSUME NEW table \in Seq(Instance), \A m, n \in DOMAIN table : table[m] = table[n] => m = n,
           NEW i \in Instance, NEW longer, longer = IF i \in ToSet(table) THEN table ELSE Append(table, i)
    PROVE  /\ \A m, n \in DOMAIN longer : longer[m] = longer[n] => m = n
           /\ ToSet(longer) = ToSet(table) \cup {i}
<1>1. CASE i \in ToSet(table)
  BY <1>1
<1>2. CASE i \notin ToSet(table)
  <2>1. /\ longer \in Seq(Instance) /\ Len(table) \in Nat /\ Len(longer) = Len(table) + 1
        /\ longer[Len(table) + 1] = i
        /\ \A n \in 1 .. Len(table) : longer[n] = table[n]
    BY <1>2, AppendProperty
  <2>2. DOMAIN longer = 1 .. Len(table) + 1 /\ DOMAIN table = 1 .. Len(table)
    BY <2>1, LenProperties
  <2>3. \A n \in 1 .. Len(table) + 1 : n \in 1 .. Len(table) \/ n = Len(table) + 1
    BY <2>1
  <2>4. \A n \in 1 .. Len(table) : n \in 1 .. Len(table) + 1 /\ table[n] # i
    BY <1>2, <2>1, <2>2 DEF ToSet
  <2>5. \A m, n \in DOMAIN longer : longer[m] = longer[n] => m = n
    BY <2>1, <2>2, <2>3, <2>4
  <2>6. Len(table) + 1 \in DOMAIN longer
    BY <2>1, <2>2
  <2>7. \A h : h \in ToSet(longer) <=> h \in ToSet(table) \/ h = i
    BY <2>1, <2>2, <2>3, <2>4, <2>6 DEF ToSet
  <2> QED BY <2>5, <2>7
<1> QED BY <1>1, <1>2

LEMMA NewBeginStep == ASSUME TypeOK, Fits, NEW i \in Instance, NewBegin(i) PROVE Fits'
<1> USE DEF Fits
<1> DEFINE f == Frame("NPP_NEW", i)
           longer == IF i \in ToSet(handles) THEN handles ELSE Append(handles, i)
<1>0. f \in Request /\ f.fn = "NPP_NEW" /\ f.of = i
  BY RequestTypes
<1> HIDE DEF f
<1>1. /\ BrowserTurn /\ events # "none" /\ initOkay /\ i \notin alive
      /\ \A k \in DOMAIN stack : stack[k].of # i
      /\ handles' = longer
      /\ Send(f)
      /\ UNCHANGED <<process, loader, startVars, instanceList, alive, upset>>
  BY DEF NewBegin, f
<1>2. /\ ~Refused /\ attach = "over" /\ Up /\ Len(stack) = 2 * Depth
      /\ \A j : ~Entering(j) /\ ~Leaving(j)
  BY <1>1, BrowserCalls
<1>3. /\ Alternates' /\ BridgeFits' /\ stack' # <<>> /\ Last(stack') = f /\ toLin' = <<>>
      /\ (loader # "gone" => toWin' # <<>>)
      /\ Len(stack) \in Nat
      /\ DOMAIN stack = 1 .. Len(stack) /\ DOMAIN stack' = 1 .. Len(stack) + 1 /\ stack'[Len(stack) + 1] = f
      /\ \A k \in 1 .. Len(stack) : stack'[k] = stack[k]
  BY <1>0, <1>1, <1>2, BridgeSend DEF Send
<1>4. /\ \A k \in DOMAIN stack' : k \in 1 .. Len(stack) \/ k = Len(stack) + 1
      /\ \A k \in 1 .. Len(stack) : k \in DOMAIN stack' /\ \A j \in 1 .. k - 1 : j \in 1 .. Len(stack)
      /\ Len(stack) + 1 \in DOMAIN stack' /\ \A j \in 1 .. Len(stack) + 1 - 1 : j \in 1 .. Len(stack)
  BY <1>3
<1>5. StartFits'
  BY <1>0, <1>1, <1>2, <1>3, <1>4 DEF StartFits, Refused, startVars, AttachFn
<1>6. /\ \A m, n \in DOMAIN handles' : handles'[m] = handles'[n] => m = n
      /\ Handles' = Handles \cup {i}
  <2>1. handles \in Seq(Instance) /\ \A m, n \in DOMAIN handles : handles[m] = handles[n] => m = n
    BY DEF TypeOK, HandlesFit
  <2> HIDE DEF longer
  <2>2. /\ \A m, n \in DOMAIN longer : longer[m] = longer[n] => m = n
        /\ ToSet(longer) = ToSet(handles) \cup {i}
    BY <2>1, Added DEF longer
  <2> QED BY <1>1, <2>2 DEF Handles
<1>7. NothingYet'
  BY <1>1 DEF NothingYet, startVars
<1>8. HandlesFit'
  <2>1. ASSUME NEW k \in DOMAIN stack', stack'[k].fn \in EntryFn
        PROVE  stack'[k].of \in Handles' /\ \A j \in 1 .. k - 1 : stack'[j].of # stack'[k].of
    <3>1. CASE k \in 1 .. Len(stack)
      BY <1>3, <1>4, <1>6, <2>1, <3>1 DEF HandlesFit
    <3>2. CASE k = Len(stack) + 1
      BY <1>0, <1>1, <1>3, <1>4, <1>6, <3>2
    <3> QED BY <1>4, <3>1, <3>2
  <2>2. alive' \subseteq Handles'
    BY <1>1, <1>6 DEF HandlesFit
  <2> QED BY <1>6, <2>1, <2>2 DEF HandlesFit
<1>9. ListFits'
  <2>1. loader # "gone" => instanceList = Handles
    BY <1>2 DEF ListFits
  <2>2. \A j : ~Leaving(j)'
    BY <1>3 DEF Leaving
  <2>3. loader # "gone" => Entering(i)'
    BY <1>0, <1>3 DEF Entering
  <2> QED BY <1>1, <1>6, <2>1, <2>2, <2>3 DEF ListFits
<1>10. TimerFits'
  <2> SUFFICES ASSUME events = "timer", ~upset PROVE TimerFits'
    BY <1>1 DEF TimerFits, startVars
  <2>1. /\ Pending("NPP_NEW")' = Pending("NPP_NEW") \cup {Len(stack) + 1}
        /\ Pending("NPP_DESTROY")' = Pending("NPP_DESTROY")
    <3>1. \A k : k \in Pending("NPP_NEW")' <=> k \in Pending("NPP_NEW") \/ k = Len(stack) + 1
      BY <1>0, <1>3, <1>4 DEF Pending
    <3>2. \A k : k \in Pending("NPP_DESTROY")' <=> k \in Pending("NPP_DESTROY")
      BY <1>0, <1>3, <1>4 DEF Pending
    <3> QED BY <3>1, <3>2
  <2>2. \A fn : \A k \in Pending(fn) : k \in DOMAIN stack /\ stack'[k] = stack[k]
    BY <1>3 DEF Pending
  <2>3. \A j : Known(j) \/ j = i => Known(j)'
    BY <1>0, <1>1, <1>3, <2>1, <2>2 DEF Known
  <2>4. CASE timerInstance = NULL
    <3>1. PICK id : /\ timers' = timers \cup {[of |-> i, id |-> id]}
                    /\ timerInstance' = i /\ timerID' = id
      BY <2>4 DEF NewBegin, ScheduleTimer
    <3>2. \A t \in timers' : t \in timers \/ t.of = i
      BY <3>1
    <3> QED BY <1>1, <1>6, <2>1, <2>2, <2>3, <3>1, <3>2, NullAssumption DEF TimerFits
  <2>5. CASE timerInstance # NULL
    <3>1. UNCHANGED <<timers, timerInstance, timerID>>
      BY <2>5 DEF NewBegin, timerVars
    <3> QED BY <1>1, <1>6, <2>1, <2>2, <2>3, <2>5, <3>1 DEF TimerFits
  <2> QED BY <2>4, <2>5
<1> QED BY <1>3, <1>5, <1>7, <1>8, <1>9, <1>10

LEMMA NewEndStep == ASSUME TypeOK, Fits, Up, NewEnd PROVE Fits'
<1> USE DEF Fits
<1> DEFINE i == Last(stack).of
           n == Len(stack)
<1>1. /\ Answered("NPP_NEW") /\ Receive
      /\ UNCHANGED <<process, loader, startVars, handles, instanceList, timerInstance, timerID>>
  BY DEF NewEnd
<1>2. /\ Alternates' /\ BridgeFits' /\ StartFits' /\ toLin' = <<>> /\ toWin = <<>>
      /\ initOkay /\ stack # <<>> /\ Last(stack).fn = "NPP_NEW" /\ Last(stack) \in Request
      /\ Len(stack) = Len(stack') + 1 /\ Len(stack') \in Nat /\ Last(stack) = stack[Len(stack)]
      /\ DOMAIN stack' = 1 .. Len(stack') /\ DOMAIN stack = 1 .. Len(stack)
      /\ \A k \in 1 .. Len(stack') : k \in 1 .. Len(stack) /\ stack'[k] = stack[k]
      /\ \A k \in 1 .. Len(stack) : k \in 1 .. Len(stack') \/ k = Len(stack)
  BY <1>1, CallReturns DEF AttachFn
<1>3. Len(stack) \in DOMAIN stack /\ i \in Handles /\ events # "none"
  <2>1. Len(stack) \in DOMAIN stack
    BY <1>2
  <2> QED BY <1>2, <2>1 DEF HandlesFit, NothingYet, EntryFn
<1>4. Handles' = Handles
  BY <1>1 DEF Handles, ToSet
<1>5. alive' \in {alive, alive \cup {i}}
  BY DEF NewEnd
<1>6. NothingYet'
  BY <1>1, <1>2, <1>3 DEF NothingYet, startVars
<1>7. HandlesFit'
  <2>1. ASSUME NEW k \in DOMAIN stack', stack'[k].fn \in EntryFn
        PROVE  stack'[k].of \in Handles /\ \A j \in 1 .. k - 1 : stack'[j].of # stack'[k].of
    <3>1. \A j \in 1 .. k - 1 : j \in 1 .. Len(stack')
      BY <1>2
    <3> QED BY <1>2, <2>1, <3>1 DEF HandlesFit
  <2> QED BY <1>1, <1>3, <1>4, <1>5, <2>1 DEF HandlesFit
<1>8. ListFits'
  <2>1. \A j : ~Leaving(j)' /\ ~Leaving(j) /\ ~Entering(j)
    BY <1>2 DEF Leaving, Entering
  <2> QED BY <1>1, <1>4, <2>1 DEF ListFits
<1>9. TimerFits'
  <2>1. CASE Head(toLin).okay
    <3>1. alive' = alive \cup {i} /\ UNCHANGED <<timers, upset>>
      BY <2>1 DEF NewEnd
    <3>2. \A j : Known(j) => Known(j)'
      <4>1. \A k \in Pending("NPP_NEW") : (k \in Pending("NPP_NEW")' /\ stack'[k] = stack[k]) \/ stack[k].of = i
        BY <1>2 DEF Pending
      <4> QED BY <3>1, <4>1 DEF Known
    <3>3. Pending("NPP_DESTROY")' = Pending("NPP_DESTROY")
      <4>1. \A k : k \in Pending("NPP_DESTROY")' <=> k \in Pending("NPP_DESTROY")
        BY <1>2 DEF Pending
      <4> QED BY <4>1
    <3>4. \A k \in Pending("NPP_DESTROY") : stack'[k] = stack[k]
      BY <1>2, <3>3 DEF Pending
    <3> QED BY <1>1, <1>4, <3>1, <3>2, <3>3, <3>4 DEF TimerFits, startVars
  <2>2. CASE ~Head(toLin).okay
    BY <2>2 DEF NewEnd, TimerFits
  <2> QED BY <2>1, <2>2
<1> QED BY <1>2, <1>6, <1>7, <1>8, <1>9

LEMMA DestroyBeginStep == ASSUME TypeOK, Fits, NEW i \in Instance, DestroyBegin(i) PROVE Fits'
<1> USE DEF Fits
<1> DEFINE u == events = "timer" /\ timerInstance = i
           f == [fn |-> "NPP_DESTROY", of |-> i, unschedule |-> u]
<1>0. f \in Request /\ f.fn = "NPP_DESTROY" /\ f.of = i /\ f.unschedule = u
  <2>1. u \in BOOLEAN
    OBVIOUS
  <2> QED BY <2>1, RequestTypes
<1>1. /\ BrowserTurn /\ i \in alive /\ \A k \in DOMAIN stack : stack[k].of # i
      /\ Send(f)
      /\ UNCHANGED <<process, loader, startVars, handles, instanceList, alive>>
      /\ u => /\ timers' = timers \ {[of |-> i, id |-> timerID]}
              /\ timerInstance' = NULL /\ timerID' = 0
      /\ ~u => UNCHANGED <<timers, timerInstance, timerID>>
      /\ upset' = (upset \/ \E k \in DOMAIN stack : stack[k].fn = "NPP_DESTROY")
  BY DEF DestroyBegin, timerVars
<1> HIDE DEF f
<1>2. initOkay /\ events # "none"
  BY <1>1 DEF NothingYet
<1>3. /\ ~Refused /\ attach = "over" /\ Up /\ Len(stack) = 2 * Depth
      /\ \A j : ~Entering(j) /\ ~Leaving(j)
  BY <1>1, <1>2, BrowserCalls
<1>4. /\ Alternates' /\ BridgeFits' /\ stack' # <<>> /\ Last(stack') = f /\ toLin' = <<>>
      /\ Len(stack) \in Nat
      /\ DOMAIN stack = 1 .. Len(stack) /\ DOMAIN stack' = 1 .. Len(stack) + 1 /\ stack'[Len(stack) + 1] = f
      /\ \A k \in 1 .. Len(stack) : stack'[k] = stack[k]
  BY <1>0, <1>1, <1>3, BridgeSend DEF Send
<1>5. /\ \A k \in DOMAIN stack' : k \in 1 .. Len(stack) \/ k = Len(stack) + 1
      /\ \A k \in 1 .. Len(stack) : k \in DOMAIN stack' /\ \A j \in 1 .. k - 1 : j \in 1 .. Len(stack)
      /\ Len(stack) + 1 \in DOMAIN stack' /\ \A j \in 1 .. Len(stack) + 1 - 1 : j \in 1 .. Len(stack)
  BY <1>4
<1>6. StartFits'
  BY <1>0, <1>1, <1>2, <1>3, <1>4, <1>5 DEF StartFits, Refused, startVars, AttachFn
<1>7. Handles' = Handles /\ i \in Handles
  BY <1>1 DEF Handles, ToSet, HandlesFit
<1>8. NothingYet'
  BY <1>1, <1>2 DEF NothingYet, startVars
<1>9. HandlesFit'
  <2>1. ASSUME NEW k \in DOMAIN stack', stack'[k].fn \in EntryFn
        PROVE  stack'[k].of \in Handles' /\ \A j \in 1 .. k - 1 : stack'[j].of # stack'[k].of
    <3>1. CASE k \in 1 .. Len(stack)
      BY <1>4, <1>5, <1>7, <2>1, <3>1 DEF HandlesFit
    <3>2. CASE k = Len(stack) + 1
      BY <1>0, <1>1, <1>4, <1>5, <1>7, <3>2
    <3> QED BY <1>5, <3>1, <3>2
  <2> QED BY <1>1, <1>7, <2>1 DEF HandlesFit
<1>10. ListFits'
  <2>1. \A j : ~Leaving(j)'
    BY <1>4 DEF Leaving
  <2> QED BY <1>1, <1>3, <1>7, <2>1 DEF ListFits
<1>11. TimerFits'
  <2> SUFFICES ASSUME events = "timer", ~upset, \A k \in DOMAIN stack : stack[k].fn # "NPP_DESTROY"
               PROVE  TimerFits'
    BY <1>1 DEF TimerFits, startVars
  <2>1. Pending("NPP_NEW")' = Pending("NPP_NEW") /\ Pending("NPP_DESTROY")' = {Len(stack) + 1}
    <3>1. \A k : k \in Pending("NPP_NEW")' <=> k \in Pending("NPP_NEW")
      BY <1>0, <1>4, <1>5 DEF Pending
    <3>2. \A k : k \in Pending("NPP_DESTROY")' <=> k = Len(stack) + 1
      BY <1>0, <1>4, <1>5 DEF Pending
    <3> QED BY <3>1, <3>2
  <2>2. \A j : Known(j) => Known(j)'
    <3>1. \A k \in Pending("NPP_NEW") : stack'[k] = stack[k]
      BY <1>4 DEF Pending
    <3> QED BY <1>1, <2>1, <3>1 DEF Known
  <2>3. timerInstance = NULL => handles = <<>>
    BY DEF TimerFits, Pending
  <2>4. /\ timers' \subseteq timers
        /\ timerInstance' # NULL => [of |-> timerInstance', id |-> timerID'] \in timers'
        /\ timerInstance' # i
        /\ timerInstance' = NULL => handles' = <<>> \/ f.unschedule
    <3>1. CASE u
      BY <1>0, <1>1, <3>1, NullAssumption
    <3>2. CASE ~u
      BY <1>0, <1>1, <2>3, <3>2 DEF TimerFits
    <3> QED BY <3>1, <3>2
  <2> QED BY <1>0, <1>1, <1>4, <1>7, <2>1, <2>2, <2>4 DEF TimerFits
<1> QED BY <1>4, <1>6, <1>8, <1>9, <1>10, <1>11

LEMMA DestroyEndStep == ASSUME TypeOK, Fits, Up, DestroyEnd PROVE Fits'
<1> USE DEF Fits
<1> DEFINE i    == Last(stack).of
           left == Without(handles, i)
           next == FindInstance(left)
<1>1. /\ Answered("NPP_DESTROY") /\ Receive /\ handles' = left /\ alive' = alive \ {i}
      /\ UNCHANGED <<process, loader, startVars, instanceList, upset>>
  BY DEF DestroyEnd
<1>2. /\ Alternates' /\ BridgeFits' /\ StartFits' /\ toLin' = <<>> /\ toWin = <<>>
      /\ initOkay /\ stack # <<>> /\ toLin # <<>> /\ Last(stack).fn = "NPP_DESTROY" /\ Last(stack) \in Request
      /\ Len(stack) = Len(stack') + 1 /\ Len(stack') \in Nat /\ Last(stack) = stack[Len(stack)]
      /\ DOMAIN stack' = 1 .. Len(stack') /\ DOMAIN stack = 1 .. Len(stack)
      /\ \A k \in 1 .. Len(stack') : k \in 1 .. Len(stack) /\ stack'[k] = stack[k]
      /\ \A k \in 1 .. Len(stack) : k \in 1 .. Len(stack') \/ k = Len(stack)
  BY <1>1, CallReturns DEF AttachFn
<1>3. /\ i \in Instance /\ i \in Handles /\ left \in Seq(Instance)
      /\ \A m, n \in DOMAIN left : left[m] = left[n] => m = n
      /\ ToSet(left) = Handles \ {i}
      /\ next # NULL => next \in Handles \ {i}
      /\ next = NULL => Handles \ {i} = {}
  BY <1>1, DestroyRemoves DEF IInv
<1> HIDE DEF left, next
<1>4. /\ Len(stack) \in DOMAIN stack /\ \A k \in 1 .. Len(stack') : k \in 1 .. Len(stack) - 1
      /\ \A k \in DOMAIN stack' : \A j \in 1 .. k - 1 : j \in 1 .. Len(stack')
  BY <1>2
<1>5. Handles' = Handles \ {i}
  BY <1>1, <1>3 DEF Handles
<1>6. events # "none"
  BY <1>2, <1>4 DEF NothingYet, EntryFn
<1>7. NothingYet'
  BY <1>1, <1>2, <1>6 DEF NothingYet, startVars
<1>8. HandlesFit'
  <2>1. ASSUME NEW k \in DOMAIN stack', stack'[k].fn \in EntryFn
        PROVE  stack'[k].of \in Handles \ {i} /\ \A j \in 1 .. k - 1 : stack'[j].of # stack'[k].of
    <3>1. stack[k].of # i
      BY <1>2, <1>4, <2>1 DEF HandlesFit, EntryFn
    <3> QED BY <1>2, <1>4, <2>1, <3>1 DEF HandlesFit
  <2> QED BY <1>1, <1>3, <1>5, <2>1 DEF HandlesFit
<1>9. ListFits'
  <2>1. \A j : ~Leaving(j)' /\ (Leaving(j) <=> j = i) /\ ~Entering(j)
    BY <1>2 DEF Leaving, Entering
  <2> QED BY <1>1, <1>3, <1>5, <2>1 DEF ListFits
<1>10. TimerFits'
  <2> SUFFICES ASSUME events = "timer", ~upset PROVE TimerFits'
    BY <1>1 DEF TimerFits, startVars
  <2>1. /\ Pending("NPP_DESTROY") = {Len(stack)} /\ Pending("NPP_DESTROY")' = {}
        /\ Pending("NPP_NEW")' = Pending("NPP_NEW")
    <3>1. Len(stack) \in Pending("NPP_DESTROY")
      BY <1>2, <1>4 DEF Pending
    <3>2. \A k : k \in Pending("NPP_DESTROY") => k = Len(stack)
      BY <3>1 DEF TimerFits
    <3>3. \A k : k \in Pending("NPP_DESTROY")' => k \in Pending("NPP_DESTROY") /\ k # Len(stack)
      BY <1>2 DEF Pending
    <3>4. \A k : k \in Pending("NPP_NEW")' <=> k \in Pending("NPP_NEW")
      BY <1>2 DEF Pending
    <3> QED BY <3>1, <3>2, <3>3, <3>4
  <2>2. \A j : Known(j) /\ j # i => Known(j)'
    <3>1. \A k \in Pending("NPP_NEW") : stack'[k] = stack[k]
      BY <1>2 DEF Pending
    <3> QED BY <1>1, <2>1, <3>1 DEF Known
  <2>3. timerInstance # i
    BY <1>2, <2>1 DEF TimerFits
  <2>4. \A t \in TimersWithout(i) : t \in timers /\ t.of # i
    BY DEF TimersWithout
  <2>5. \A h \in Handles' : Known(h)'
    BY <1>5, <2>2 DEF TimerFits
  <2>6. CASE Last(stack).unschedule /\ next # NULL
    <3>1. ScheduleTimer(TimersWithout(i), next)
      BY <2>6 DEF DestroyEnd, left, next
    <3>2. PICK id : /\ timers' = TimersWithout(i) \cup {[of |-> next, id |-> id]}
                    /\ timerInstance' = next /\ timerID' = id
      BY <3>1 DEF ScheduleTimer
    <3>3. \A j : j = next => Known(j)'
      BY <1>3, <1>5, <2>5, <2>6
    <3>4. \A t \in timers' : Known(t.of)'
      BY <2>2, <2>4, <3>2, <3>3 DEF TimerFits
    <3> QED BY <2>1, <2>5, <2>6, <3>2, <3>4 DEF TimerFits
  <2>7. CASE ~(Last(stack).unschedule /\ next # NULL)
    <3>1. timers' = TimersWithout(i) /\ UNCHANGED <<timerInstance, timerID>>
      BY <2>7 DEF DestroyEnd, left, next
    <3>2. \A t \in timers' : Known(t.of)'
      BY <2>2, <2>4, <3>1 DEF TimerFits
    <3>3. timerInstance # NULL => [of |-> timerInstance, id |-> timerID] \in timers'
      BY <2>3, <3>1 DEF TimerFits, TimersWithout
    <3>4. timerInstance = NULL => handles' = <<>>
      <4> SUFFICES ASSUME timerInstance = NULL PROVE left = <<>>
        BY <1>1
      <4>1. handles # <<>>
        BY <1>3 DEF Handles, ToSet
      <4>2. Last(stack).unschedule
        BY <1>2, <2>1, <4>1 DEF TimerFits
      <4>3. ToSet(left) = {}
        BY <1>3, <2>7, <4>2
      <4>4. Len(left) \in Nat /\ DOMAIN left = 1 .. Len(left)
        BY <1>3, LenProperties
      <4>5. ~(1 \in DOMAIN left)
        BY <4>3 DEF ToSet
      <4>6. Len(left) = 0
        BY <4>4, <4>5
      <4> QED BY <1>3, <4>6, EmptySeq
    <3> QED BY <2>1, <2>5, <3>1, <3>2, <3>3, <3>4 DEF TimerFits
  <2> QED BY <2>6, <2>7
<1> QED BY <1>2, <1>7, <1>8, <1>9, <1>10

\* The browser's process has ended: nothing is promised any more.
LEMMA DownStep ==
    ASSUME LoaderSeesEnd \/ DestroyTimesOut \/ BrowserExits \/ (EndOfFile /\ Last(stack).fn # "INIT_OKAY")
    PROVE  ~Up'
BY DEF LoaderSeesEnd, DestroyTimesOut, BrowserExits, EndOfFile, Abort, Up

LEMMA DownStays == ASSUME [Next]_vars, ~Up PROVE ~Up'
<1>1. CASE UNCHANGED vars
  BY <1>1 DEF vars, Up
<1>2. CASE Windows
  BY <1>2 DEF Windows, LoaderStarts, HandleCommand, CallScript, LoaderCrashes, LoaderSeesEnd, Answer, Up
<1>3. CASE Browser \/ LinuxReads \/ Limits
  BY <1>3 DEF Browser, LinuxReads, Limits, LoadConfig, StartWineProcess, Initialize, NewBegin, DestroyBegin,
              TimerFires, Shutdown, ScriptEnd, BrowserExits, AttachReads, AttachNext, AttachEnds, NewEnd,
              DestroyEnd, CallEnd, AttachTimesOut, DestroyTimesOut, EndOfFile, BrowserTurn, Answered, Waiting
<1> QED BY <1>1, <1>2, <1>3 DEF Next

LEMMA FitsStep == ASSUME TypeOK, TypeOK', Fits, [Next]_vars, Up, Up' PROVE Fits'
<1>1. CASE UNCHANGED vars
  <2>1. UNCHANGED <<callVars, instVars, timerVars, loader, attach, initOkay, events>>
    BY <1>1 DEF vars, startVars
  <2>2. Alternates' /\ Depth' = Depth
    BY <2>1, StackKept DEF callVars, Fits
  <2>3. UNCHANGED <<Sent, Handled, Replied, Returned>>
    BY <2>1, <2>2 DEF Sent, Handled, Replied, Returned, callVars
  <2>4. StartFits' /\ BridgeFits'
    BY <2>1, <2>2, <2>3 DEF StartFits, BridgeFits, Refused, callVars, Fits
  <2>5. NothingYet' /\ HandlesFit' /\ ListFits' /\ TimerFits'
    BY <2>1, InstancesKept DEF Fits
  <2> QED BY <2>2, <2>4, <2>5 DEF Fits
<1>2. CASE Browser
  BY <1>2, DownStep, StartStep, StartWineStep, ShutdownStep, ScriptEndStep, NewBeginStep, DestroyBeginStep,
     TimerFiresStep DEF Browser
<1>3. CASE AttachReads
  BY <1>3, AttachNextStep, AttachEndStep DEF AttachReads, AttachFn
<1>4. CASE LinuxReads /\ ~AttachReads
  BY <1>4, NewEndStep, DestroyEndStep, CallEndStep DEF LinuxReads
<1>5. CASE AttachTimesOut
  BY <1>5, AttachFailsStep DEF AttachTimesOut
<1>6. CASE EndOfFile
  <2>1. Last(stack).fn = "INIT_OKAY" /\ stack # <<>> /\ toLin = <<>>
    BY <1>6, DownStep DEF EndOfFile
  <2>2. AttachFails /\ UNCHANGED <<loader, toWin, handlers, instanceList>>
    BY <1>6, <2>1 DEF EndOfFile
  <2>3. Waiting("INIT_OKAY")
    BY <2>1 DEF Waiting
  <2> QED BY <2>1, <2>2, <2>3, AttachFailsStep
<1>7. CASE DestroyTimesOut
  BY <1>7, DownStep
<1>8. CASE Windows
  BY <1>8, DownStep, StartStep, HandleStep, CallScriptStep, CrashStep, AnswerStep DEF Windows
<1> QED BY <1>1, <1>2, <1>3, <1>4, <1>5, <1>6, <1>7, <1>8 DEF Next, Limits

LEMMA Invariant == Spec => []IInv
<1>1. Init => IInv
  BY InitFits
<1>2. IInv /\ [Next]_vars => IInv'
  <2> SUFFICES ASSUME IInv, [Next]_vars PROVE IInv'
    OBVIOUS
  <2>1. TypeOK'
    BY TypeStep
  <2>2. Up' => Up
    BY DownStays
  <2> QED BY <2>1, <2>2, FitsStep DEF IInv
<1> QED BY <1>1, <1>2, PTL DEF Spec

-----------------------------------------------------------------------------
(***************************************************************************)
(* What follows from it.                                                   *)
(***************************************************************************)
\* readResultInt32 and its like take the answer that is in the pipe, which does
\* not name its call: it is the answer to the call that waits for it, however
\* deeply calls nest and although attach gives INIT_OKAY up after 60 seconds.
THEOREM RepliesAlwaysMatch == Spec => []RepliesMatch
<1>1. IInv => RepliesMatch
  <2> SUFFICES ASSUME IInv, Up, stack # <<>>, Last(stack) # Script, toLin # <<>>
               PROVE  Head(toLin).fn = Last(stack).fn
    BY DEF RepliesMatch
  <2>1. Len(stack) = 2 * Depth + 1 /\ ~Refused
    BY Turns DEF IInv, Fits, StartFits
  <2>2. Replied
    BY <2>1 DEF IInv, Fits, BridgeFits, Sent, Handled, Returned
  <2> QED BY <2>2 DEF Replied
<1> QED BY <1>1, Invariant, PTL

\* The handles of Linux and the instance list of Windows (instanceList, which
\* receiveCommand and NPP_Destroy go by) name the same instances whenever the
\* browser is between two calls.
THEOREM InstancesAlwaysAgree == Spec => []InstancesAgree
<1>1. IInv => InstancesAgree
  <2> SUFFICES ASSUME IInv, Up, stack = <<>>, loader = "running" PROVE instanceList = ToSet(handles)
    BY DEF InstancesAgree
  <2>1. \A i : ~Entering(i) /\ ~Leaving(i)
    BY DEF Entering, Leaving
  <2> QED BY <2>1 DEF IInv, Fits, ListFits, Handles
<1> QED BY <1>1, Invariant, PTL

\* NPP_New and NPP_Destroy hand the timer from instance to instance: between
\* two calls it runs exactly if there are instances, on behalf of one of them,
\* unless an NPP_New was refused or NPP_Destroy's were nested.
THEOREM TimerAlwaysRuns == Spec => []TimerRuns
<1>1. IInv => TimerRuns
  <2> SUFFICES ASSUME IInv, Up, stack = <<>>, events = "timer", ~upset
               PROVE  IF alive = {} THEN timers = {} /\ timerInstance = NULL
                      ELSE timerInstance \in alive /\ [of |-> timerInstance, id |-> timerID] \in timers
    BY DEF TimerRuns
  <2>1. \A fn : Pending(fn) = {}
    BY DEF Pending
  <2>2. (\A i : Known(i) => i \in alive) /\ TimerFits /\ alive \subseteq Handles
    BY <2>1 DEF Known, IInv, Fits, HandlesFit
  <2>3. CASE alive = {}
    BY <2>1, <2>2, <2>3 DEF TimerFits
  <2>4. CASE alive # {}
    <3>1. handles # <<>>
      BY <2>2, <2>4 DEF Handles, ToSet
    <3>2. timerInstance # NULL
      BY <2>1, <2>2, <3>1 DEF TimerFits
    <3> QED BY <2>2, <2>4, <3>2 DEF TimerFits
  <2> QED BY <2>3, <2>4
<1> QED BY <1>1, Invariant, PTL
=============================================================================

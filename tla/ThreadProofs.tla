---------------------------- MODULE ThreadProofs ----------------------------
(***************************************************************************)
(* Proofs about the two places where threads share memory, for any number  *)
(* of threads and instances: the event thread on the Linux side, whose     *)
(* turn no take-over loses (TimerThread), and the async calls of plugin    *)
(* threads on the Windows side, of which none is lost (AsyncCalls).        *)
(***************************************************************************)
EXTENDS TimerThread, AsyncCalls, TLAPS, WellFoundedInduction, FiniteSetTheorems,
        FunctionTheorems, SequenceTheorems

-----------------------------------------------------------------------------
(***************************************************************************)
(* TimerThread.                                                            *)
(***************************************************************************)
\* What the main thread is doing in the plugin, and where a thread is.
Doing ==
    [pc : {"idle", "events"}]
    \cup [pc : {"new"}, instance : Instance, start : BOOLEAN]
    \cup [pc : {"cancel", "destroy"}, instance : Instance, unschedule : BOOLEAN]

Place ==
    [pc : {"wait", "test", "waitAgain", "testAgain", "post", "call"}, arg : Instance]
    \cup {NoInstance}

Typed ==
    /\ alive \subseteq Instance
    /\ timerInstance \in Instance \cup {NULL}
    /\ eventThread \in Thread \cup {NULL}
    /\ requests \in Nat /\ scheduled \in Nat
    /\ thread \in [Thread -> Place]
    /\ calls \in [Instance \X Instance -> Nat]
    /\ main \in Doing

Leaving == main.pc \in {"cancel", "destroy"}

\* The handles are those of the instances there are, and of the one that is
\* being destroyed, each once.
HandlesFit ==
    /\ handles \in Seq(Instance)
    /\ \A m, n \in DOMAIN handles : handles[m] = handles[n] => m = n
    /\ \A i \in Instance :
          (\E n \in DOMAIN handles : handles[n] = i) <=> (i \in alive \/ (Leaving /\ main.instance = i))
    /\ Leaving => main.instance \notin alive

Starting == main.pc = "new" /\ main.start

\* NPP_Destroy is taking the events from one instance to the next.
TakingOver == Leaving /\ main.unschedule

\* Otherwise the thread in the context works for an instance that exists, ...
Served == eventThread # NULL /\ ~TakingOver => timerInstance \in alive

\* ... and somebody has the turn, or will have it once NPP_New is through.
Turn ==
    eventThread # NULL /\ ~TakingOver /\ ~crashed =>
        \/ requests > 0
        \/ Asking # {}
        \/ scheduled > 0 /\ Calling # {}
        \/ CallAwaited
        \/ main.pc = "events"
        \/ Starting

IInv ==
    /\ Typed
    /\ HandlesFit
    /\ main.pc = "cancel" => main.unschedule
    /\ Served
    /\ Turn

LEMMA InitHolds ==
    ASSUME Init
    PROVE  IInv
<1>1. Typed
  BY DEF Init, Typed, Doing, Place, Idle, NoInstance
<1>2. HandlesFit
  BY EmptySeq DEF Init, HandlesFit, Leaving, Idle
<1>3. eventThread = NULL /\ main.pc = "idle"
  BY DEF Init, Idle
<1> QED BY <1>1, <1>2, <1>3 DEF IInv, Served, Turn

-----------------------------------------------------------------------------
\* The steps of a thread: what the main thread owns stays as it is, and the
\* turn is handed on.
LEMMA WaitKeeps ==
    ASSUME IInv, NEW t \in Thread, Wait(t, "wait", "test") \/ Wait(t, "waitAgain", "testAgain")
    PROVE  IInv'
<1> DEFINE to == IF thread[t].pc = "wait" THEN "test" ELSE "testAgain"
<1>1. /\ thread[t].pc \in {"wait", "waitAgain"} /\ requests > 0 /\ requests' = requests - 1
      /\ thread' = [thread EXCEPT ![t].pc = to]
      /\ UNCHANGED <<alive, handles, timerInstance, eventThread, scheduled, calls, main, crashed>>
  BY DEF Wait, Goto
<1>2. thread'[t].pc = to /\ to \in {"test", "testAgain"} /\ thread' \in [Thread -> Place]
  BY <1>1 DEF IInv, Typed, Place, NoInstance
<1>3. Typed'
  BY <1>1, <1>2 DEF IInv, Typed
<1>4. HandlesFit'
  BY <1>1 DEF IInv, HandlesFit, Leaving
<1>5. Served' /\ (main'.pc = "cancel" => main'.unschedule)
  BY <1>1 DEF IInv, Served, TakingOver, Leaving
<1>6. Turn'
  <2>1. t \in Asking'
    BY <1>2 DEF Asking
  <2> QED BY <2>1 DEF Turn
<1> QED BY <1>3, <1>4, <1>5, <1>6 DEF IInv

\* A thread goes on with what it was told, unless nobody is to be served.
LEMMA GoesOn ==
    ASSUME IInv, NEW t \in Thread, thread[t].pc \in {"test", "testAgain"},
           thread' \in [Thread -> Place], timerInstance # NULL => thread'[t].pc = "post",
           UNCHANGED <<alive, handles, timerInstance, eventThread, requests, scheduled,
                       calls, main, crashed>>
    PROVE  IInv'
<1>1. Typed'
  BY DEF IInv, Typed
<1>2. HandlesFit'
  BY DEF IInv, HandlesFit, Leaving
<1>3. Served' /\ (main'.pc = "cancel" => main'.unschedule)
  BY DEF IInv, Served, TakingOver, Leaving
<1>4. Turn'
  <2> SUFFICES ASSUME (eventThread # NULL /\ ~TakingOver)'
               PROVE  Asking' # {}
    BY DEF Turn
  <2>1. timerInstance \in alive /\ timerInstance # NULL
    BY NullAssumption DEF IInv, Typed, Served, TakingOver, Leaving
  <2> QED BY <2>1 DEF Asking
<1> QED BY <1>1, <1>2, <1>3, <1>4 DEF IInv

LEMMA TestKeeps ==
    ASSUME IInv, NEW t \in Thread, Test(t) \/ TestAgain(t)
    PROVE  IInv'
<1>1. /\ thread[t].pc \in {"test", "testAgain"}
      /\ UNCHANGED <<alive, handles, timerInstance, eventThread, requests, scheduled, calls, main, crashed>>
  BY DEF Test, TestAgain
<1>2. thread[t] \in [pc : {"test", "testAgain"}, arg : Instance]
  BY <1>1 DEF IInv, Typed, Place, NoInstance
<1>3. CASE Test(t)
  <2>1. thread' = [thread EXCEPT ![t] = [@ EXCEPT !.pc = IF timerInstance = NULL THEN "waitAgain" ELSE "post"]]
    BY <1>3 DEF Test, Goto
  <2>2. thread' \in [Thread -> Place] /\ (timerInstance # NULL => thread'[t].pc = "post")
    BY <1>2, <2>1 DEF IInv, Typed, Place
  <2> QED BY <1>1, <2>2, GoesOn
<1>4. CASE TestAgain(t)
  <2>1. thread' = [thread EXCEPT ![t] = IF timerInstance = NULL THEN NoInstance ELSE [@ EXCEPT !.pc = "post"]]
    BY <1>4 DEF TestAgain
  <2>2. thread' \in [Thread -> Place] /\ (timerInstance # NULL => thread'[t].pc = "post")
    BY <1>2, <2>1 DEF IInv, Typed, Place
  <2> QED BY <1>1, <2>2, GoesOn
<1> QED BY <1>3, <1>4

LEMMA PostKeeps ==
    ASSUME IInv, NEW t \in Thread, Post(t)
    PROVE  IInv'
<1>1. /\ thread[t].pc = "post" /\ thread' = [thread EXCEPT ![t].pc = "call"]
      /\ scheduled' = scheduled + 1
      /\ UNCHANGED <<alive, handles, timerInstance, eventThread, requests, calls, main, crashed>>
  BY DEF Post, Goto
<1>2. thread'[t].pc = "call" /\ thread' \in [Thread -> Place]
  BY <1>1 DEF IInv, Typed, Place, NoInstance
<1>3. Typed' /\ scheduled' > 0
  BY <1>1, <1>2 DEF IInv, Typed
<1>4. HandlesFit'
  BY <1>1 DEF IInv, HandlesFit, Leaving
<1>5. Served' /\ (main'.pc = "cancel" => main'.unschedule)
  BY <1>1 DEF IInv, Served, TakingOver, Leaving
<1>6. Turn'
  <2>1. t \in Calling'
    BY <1>2 DEF Calling
  <2> QED BY <1>3, <2>1 DEF Turn
<1> QED BY <1>3, <1>4, <1>5, <1>6 DEF IInv

\* The browser accepts the call: the instance it is for is not being destroyed.
LEMMA RequestCallKeeps ==
    ASSUME IInv, NEW t \in Thread, RequestCall(t)
    PROVE  IInv'
<1>1. /\ thread[t].pc = "call" /\ thread' = [thread EXCEPT ![t].pc = "wait"]
      /\ calls' = IF timerInstance \in alive
                  THEN [calls EXCEPT ![<<timerInstance, thread[t].arg>>] = @ + 1]
                  ELSE calls
      /\ UNCHANGED <<alive, handles, timerInstance, eventThread, requests, scheduled, main, crashed>>
  BY DEF RequestCall, Goto
<1>2. /\ thread' \in [Thread -> Place] /\ thread[t].arg \in Instance
      /\ \A u \in Thread : u # t => thread'[u] = thread[u]
  BY <1>1 DEF IInv, Typed, Place, NoInstance
<1>3. /\ calls' \in [Instance \X Instance -> Nat]
      /\ \A c \in Instance \X Instance : calls'[c] >= calls[c]
      /\ timerInstance \in alive => calls'[timerInstance, thread[t].arg] > 0
  <2>1. calls \in [Instance \X Instance -> Nat] /\ alive \subseteq Instance
    BY DEF IInv, Typed
  <2>2. CASE timerInstance \in alive
    <3> DEFINE c == <<timerInstance, thread[t].arg>>
    <3>1. c \in Instance \X Instance /\ calls' = [calls EXCEPT ![c] = calls[c] + 1]
      BY <1>1, <1>2, <2>1, <2>2
    <3> HIDE DEF c
    <3>2. /\ calls' \in [Instance \X Instance -> Nat] /\ calls'[c] = calls[c] + 1
          /\ \A d \in Instance \X Instance : d # c => calls'[d] = calls[d]
      BY <2>1, <3>1
    <3>3. \A d \in Instance \X Instance : calls[d] \in Nat
      BY <2>1
    <3>4. calls'[c] > 0 /\ \A d \in Instance \X Instance : calls'[d] >= calls[d]
      BY <3>1, <3>2, <3>3
    <3> QED BY <3>2, <3>4 DEF c
  <2>3. CASE timerInstance \notin alive
    <3>1. calls' = calls
      BY <1>1, <2>3
    <3>2. calls' \in [Instance \X Instance -> Nat]
      BY <2>1, <3>1
    <3>3. \A d \in Instance \X Instance : calls'[d] >= calls[d]
      <4>1. \A d \in Instance \X Instance : calls[d] \in Nat
        BY <2>1
      <4> QED BY <3>1, <4>1
    <3> QED BY <2>3, <3>2, <3>3
  <2> QED BY <2>2, <2>3
<1>4. Typed'
  BY <1>1, <1>2, <1>3 DEF IInv, Typed
<1>5. HandlesFit'
  BY <1>1 DEF IInv, HandlesFit, Leaving
<1>6. Served' /\ (main'.pc = "cancel" => main'.unschedule)
  BY <1>1 DEF IInv, Served, TakingOver, Leaving
<1>7. Turn'
  <2> SUFFICES ASSUME (eventThread # NULL /\ ~TakingOver /\ ~crashed)'
               PROVE  requests' > 0 \/ Asking' # {} \/ CallAwaited' \/ main'.pc = "events" \/ Starting'
    BY DEF Turn
  <2>1. timerInstance \in alive /\ timerInstance \in Instance
    BY <1>1 DEF IInv, Typed, Served, TakingOver, Leaving
  <2>2. scheduled > 0 => CallAwaited'
    BY <1>1, <1>2, <1>3, <2>1 DEF CallAwaited
  <2>3. CallAwaited => scheduled > 0
    BY DEF CallAwaited
  <2>4. Asking # {} => Asking' # {}
    BY <1>1, <1>2 DEF Asking
  <2> QED BY <1>1, <2>2, <2>3, <2>4 DEF IInv, Turn, TakingOver, Leaving, Starting
<1> QED BY <1>4, <1>5, <1>6, <1>7 DEF IInv

-----------------------------------------------------------------------------
\* The steps of the main thread.
\* The first instance starts a thread, which has the turn when NPP_New is through.
LEMMA NewBeginKeeps ==
    ASSUME IInv, NEW i \in Instance, NewBegin(i)
    PROVE  IInv'
<1>1. /\ main.pc = "idle" /\ i \notin alive /\ alive' = alive \cup {i} /\ handles' = Append(handles, i)
      /\ UNCHANGED <<requests, scheduled, calls, crashed>>
  BY DEF NewBegin, Idle
<1>2. HandlesFit' /\ alive' \subseteq Instance
  <2>1. main'.pc = "new"
    BY DEF NewBegin
  <2>2. handles \in Seq(Instance) /\ \A n \in DOMAIN handles : handles[n] # i
    BY <1>1 DEF IInv, HandlesFit, Leaving
  <2>3. /\ handles' \in Seq(Instance) /\ Len(handles) \in Nat
        /\ DOMAIN handles = 1 .. Len(handles) /\ DOMAIN handles' = 1 .. Len(handles) + 1
        /\ \A n \in 1 .. Len(handles) : handles'[n] = handles[n]
        /\ handles'[Len(handles) + 1] = i
    BY <1>1, <2>2, AppendProperties, LenProperties
  <2>4. \A m, n \in DOMAIN handles' : handles'[m] = handles'[n] => m = n
    BY <2>2, <2>3 DEF IInv, HandlesFit
  <2>5. ASSUME NEW j \in Instance
        PROVE  (\E n \in DOMAIN handles' : handles'[n] = j) <=> j \in alive'
    <3>1. (\E n \in DOMAIN handles : handles[n] = j) <=> j \in alive
      BY <1>1 DEF IInv, HandlesFit, Leaving
    <3>2. (\E n \in DOMAIN handles' : handles'[n] = j) <=> (j = i \/ \E n \in DOMAIN handles : handles[n] = j)
      BY <2>3
    <3> QED BY <1>1, <3>1, <3>2
  <2> QED BY <1>1, <2>1, <2>3, <2>4, <2>5 DEF HandlesFit, Leaving, IInv, Typed
<1>3. CASE eventThread # NULL
  <2>1. main' = [pc |-> "new", instance |-> i, start |-> FALSE] /\ UNCHANGED <<timerInstance, eventThread, thread>>
    BY <1>3 DEF NewBegin
  <2>2. Typed'
    BY <1>1, <1>2, <2>1 DEF IInv, Typed, Doing
  <2>3. timerInstance \in alive
    BY <1>1, <1>3 DEF IInv, Served, TakingOver, Leaving
  <2>4. Served' /\ main'.pc # "cancel"
    BY <1>1, <2>1, <2>3 DEF Served
  <2>5. Turn'
    BY <1>1, <1>3, <2>1 DEF IInv, Turn, TakingOver, Leaving, Starting, Asking, Calling, CallAwaited
  <2> QED BY <1>2, <2>2, <2>4, <2>5 DEF IInv
<1>4. CASE eventThread = NULL
  <2>1. timerInstance' = i
    BY <1>4 DEF NewBegin
  <2>2. CASE /\ main' = [pc |-> "new", instance |-> i, start |-> FALSE]
             /\ UNCHANGED <<eventThread, thread>>
    <3>1. Typed'
      BY <1>1, <1>2, <2>1, <2>2 DEF IInv, Typed, Doing
    <3> QED BY <1>2, <1>4, <2>2, <3>1 DEF IInv, Served, Turn
  <2>3. ASSUME NEW t \in Thread, eventThread' = t,
               thread' = [thread EXCEPT ![t] = [pc |-> "wait", arg |-> i]],
               main' = [pc |-> "new", instance |-> i, start |-> TRUE]
        PROVE  IInv'
    <3>1. Typed'
      BY <1>1, <1>2, <2>1, <2>3 DEF IInv, Typed, Doing, Place
    <3>2. Starting' /\ main'.pc # "cancel" /\ timerInstance' \in alive'
      BY <1>1, <2>1, <2>3 DEF Starting
    <3> QED BY <1>2, <3>1, <3>2 DEF IInv, Served, Turn
  <2> QED BY <1>4, <2>2, <2>3 DEF NewBegin
<1> QED BY <1>3, <1>4

LEMMA NewEndKeeps ==
    ASSUME IInv, NewEnd
    PROVE  IInv'
<1>1. /\ main.pc = "new" /\ main.start \in BOOLEAN /\ main' = [pc |-> "idle"]
      /\ requests' = IF main.start THEN requests + 1 ELSE requests
      /\ UNCHANGED <<alive, handles, timerInstance, eventThread, scheduled, thread, calls, crashed>>
  BY DEF NewEnd, Idle, IInv, Typed, Doing
<1>2. Typed'
  BY <1>1 DEF IInv, Typed, Doing
<1>3. HandlesFit'
  BY <1>1 DEF IInv, HandlesFit, Leaving
<1>4. Served' /\ main'.pc # "cancel"
  BY <1>1 DEF IInv, Served, TakingOver, Leaving
<1>5. Turn'
  <2>1. requests \in Nat
    BY DEF IInv, Typed
  <2>2. Starting => requests' > 0
    BY <1>1, <2>1 DEF Starting
  <2>3. requests > 0 => requests' > 0
    BY <1>1, <2>1
  <2> QED BY <1>1, <2>2, <2>3 DEF IInv, Turn, TakingOver, Leaving, Asking, Calling, CallAwaited
<1> QED BY <1>2, <1>3, <1>4, <1>5 DEF IInv

\* Another instance than the one the events are for is none of the thread's business.
LEMMA DestroyBeginKeeps ==
    ASSUME IInv, NEW i \in Instance, DestroyBegin(i)
    PROVE  IInv'
<1> DEFINE pc == IF timerInstance = i /\ eventThread # NULL THEN "cancel" ELSE "destroy"
<1>1. /\ main.pc = "idle" /\ i \in alive /\ alive' = alive \ {i}
      /\ main' = [pc |-> pc, instance |-> i, unschedule |-> timerInstance = i]
      /\ UNCHANGED <<handles, timerInstance, eventThread, requests, scheduled, thread, calls, crashed>>
  BY DEF DestroyBegin, Idle
<1>2. main'.pc = pc /\ pc \in {"cancel", "destroy"} /\ main'.instance = i
      /\ (main'.unschedule <=> timerInstance = i)
  BY <1>1
<1>3. Typed'
  <2>1. main' \in Doing
    BY <1>1 DEF Doing
  <2> QED BY <1>1, <2>1 DEF IInv, Typed
<1>4. HandlesFit'
  BY <1>1, <1>2 DEF IInv, HandlesFit, Leaving
<1>5. main'.pc = "cancel" => main'.unschedule
  BY <1>2
<1>6. Served' /\ Turn'
  <2> SUFFICES ASSUME eventThread # NULL, ~TakingOver'
               PROVE  timerInstance \in alive' /\ Turn'
    BY <1>1 DEF Served, Turn
  <2>1. timerInstance \in alive /\ timerInstance # i
    BY <1>1, <1>2 DEF IInv, Served, TakingOver, Leaving
  <2>2. Turn'
    BY <1>1 DEF IInv, Turn, TakingOver, Leaving, Starting, Asking, Calling, CallAwaited
  <2> QED BY <1>1, <2>1, <2>2
<1> QED BY <1>3, <1>4, <1>5, <1>6 DEF IInv

LEMMA DestroyCancelKeeps ==
    ASSUME IInv, DestroyCancel
    PROVE  IInv'
<1>1. /\ main.pc = "cancel" /\ scheduled > 0 /\ scheduled' = scheduled - 1
      /\ timerInstance' = NULL /\ requests' = requests + 1 /\ main' = [main EXCEPT !.pc = "destroy"]
      /\ UNCHANGED <<alive, handles, eventThread, thread, calls, crashed>>
  BY DEF DestroyCancel
<1>2. /\ main \in [pc : {"cancel", "destroy"}, instance : Instance, unschedule : BOOLEAN]
      /\ main'.pc = "destroy" /\ main'.instance = main.instance /\ main'.unschedule = main.unschedule
  BY <1>1 DEF IInv, Typed, Doing
<1>3. main' \in Doing
  BY <1>1, <1>2 DEF Doing
<1>4. Typed'
  BY <1>1, <1>3 DEF IInv, Typed
<1>5. HandlesFit'
  BY <1>1, <1>2 DEF IInv, HandlesFit, Leaving
<1>6. TakingOver'
  BY <1>1, <1>2 DEF IInv, TakingOver, Leaving
<1> QED BY <1>2, <1>4, <1>5, <1>6 DEF IInv, Served, Turn

\* The post goes on to the main thread; a call that finds none was not awaited.
LEMMA AsyncCallKeeps ==
    ASSUME IInv, NEW i \in Instance, NEW arg \in Instance, AsyncCall(i, arg)
    PROVE  IInv'
<1>1. /\ main = Idle /\ calls[i, arg] > 0 /\ calls' = [calls EXCEPT ![<<i, arg>>] = @ - 1]
      /\ UNCHANGED <<alive, handles, timerInstance, eventThread, requests, thread>>
      /\ \/ crashed' = TRUE /\ UNCHANGED <<scheduled, main>>
         \/ scheduled = 0 /\ UNCHANGED <<scheduled, main, crashed>>
         \/ scheduled # 0 /\ scheduled' = scheduled - 1 /\ main' = [pc |-> "events"] /\ UNCHANGED crashed
  BY DEF AsyncCall
<1>2. calls' \in [Instance \X Instance -> Nat]
  <2> DEFINE c == <<i, arg>>
  <2>1. c \in Instance \X Instance /\ calls[c] > 0 /\ calls' = [calls EXCEPT ![c] = calls[c] - 1]
    BY <1>1
  <2>2. calls \in [Instance \X Instance -> Nat]
    BY DEF IInv, Typed
  <2> QED BY <2>1, <2>2
<1>3. /\ main.pc = "idle" /\ main' \in Doing /\ main'.pc \in {"idle", "events"}
      /\ scheduled' \in Nat
      /\ alive' = alive /\ handles' = handles /\ timerInstance' = timerInstance
      /\ eventThread' = eventThread /\ requests' = requests /\ thread' = thread
  <2>1. main \in Doing /\ scheduled \in Nat /\ [pc |-> "events"] \in Doing
    BY DEF IInv, Typed, Doing
  <2>2. main.pc = "idle" /\ (main' = main \/ main' = [pc |-> "events"])
    BY <1>1 DEF Idle
  <2>3. scheduled' = scheduled \/ (scheduled # 0 /\ scheduled' = scheduled - 1)
    BY <1>1
  <2>4. main' \in Doing /\ main'.pc \in {"idle", "events"}
    BY <2>1, <2>2
  <2>5. scheduled' \in Nat
    BY <2>1, <2>3
  <2>6. UNCHANGED <<alive, handles, timerInstance, eventThread, requests, thread>>
    BY <1>1
  <2> QED BY <2>2, <2>4, <2>5, <2>6
<1>4. Typed'
  BY <1>2, <1>3 DEF IInv, Typed
<1>5. HandlesFit'
  BY <1>3 DEF IInv, HandlesFit, Leaving
<1>6. Served' /\ main'.pc # "cancel"
  BY <1>3 DEF IInv, Served, TakingOver, Leaving
<1>7. Turn'
  <2>1. CASE crashed' = TRUE
    BY <2>1 DEF Turn
  <2>2. CASE scheduled = 0 /\ UNCHANGED <<scheduled, main, crashed>>
    <3>1. scheduled = 0 /\ main' = main /\ crashed' = crashed
      BY <2>2
    <3>2. ~(scheduled > 0) /\ ~CallAwaited
      BY <3>1 DEF CallAwaited
    <3> QED BY <1>3, <3>1, <3>2 DEF IInv, Turn, TakingOver, Leaving, Starting, Asking
  <2>3. CASE main' = [pc |-> "events"]
    BY <2>3 DEF Turn
  <2> QED BY <1>1, <2>1, <2>2, <2>3
<1> QED BY <1>4, <1>5, <1>6, <1>7 DEF IInv

LEMMA AsyncCallEndKeeps ==
    ASSUME IInv, AsyncCallEnd
    PROVE  IInv'
<1>1. /\ main.pc = "events" /\ main' = [pc |-> "idle"] /\ requests' = requests + 1
      /\ UNCHANGED <<alive, handles, timerInstance, eventThread, scheduled, thread, calls, crashed>>
  BY DEF AsyncCallEnd, Idle
<1>2. Typed' /\ requests' > 0
  BY <1>1 DEF IInv, Typed, Doing
<1>3. HandlesFit'
  BY <1>1 DEF IInv, HandlesFit, Leaving
<1>4. Served' /\ main'.pc # "cancel"
  BY <1>1 DEF IInv, Served, TakingOver, Leaving
<1> QED BY <1>2, <1>3, <1>4 DEF IInv, Turn

-----------------------------------------------------------------------------
\* handleManager_removeByPtr takes one handle away and keeps the order of the rest.
LEMMA Removed ==
    ASSUME NEW table \in Seq(Instance), \A m, n \in DOMAIN table : table[m] = table[n] => m = n,
           NEW id \in DOMAIN table
    PROVE  LET left == RemoveAt(table, id)
           IN  /\ left \in Seq(Instance)
               /\ \A m, n \in DOMAIN left : left[m] = left[n] => m = n
               /\ \A i : (\E n \in DOMAIN left : left[n] = i)
                            <=> (i # table[id] /\ \E n \in DOMAIN table : table[n] = i)
<1> DEFINE left == RemoveAt(table, id)
<1>1. Len(table) \in Nat /\ id \in 1 .. Len(table) /\ DOMAIN table = 1 .. Len(table)
  BY LenProperties
<1>2. /\ SubSeq(table, 1, id - 1) \in Seq(Instance) /\ Len(SubSeq(table, 1, id - 1)) = id - 1
      /\ \A n \in 1 .. id - 1 : SubSeq(table, 1, id - 1)[n] = table[n]
  BY <1>1, SubSeqProperties
<1>3. /\ SubSeq(table, id + 1, Len(table)) \in Seq(Instance)
      /\ Len(SubSeq(table, id + 1, Len(table))) = Len(table) - id
      /\ \A n \in 1 .. Len(table) - id : SubSeq(table, id + 1, Len(table))[n] = table[id + n]
  BY <1>1, SubSeqProperties
<1>4. /\ left \in Seq(Instance) /\ Len(left) = Len(table) - 1 /\ DOMAIN left = 1 .. Len(table) - 1
      /\ \A n \in 1 .. Len(table) - 1 : left[n] = table[IF n < id THEN n ELSE n + 1]
  <2> DEFINE front == SubSeq(table, 1, id - 1)
             back  == SubSeq(table, id + 1, Len(table))
  <2>1. front \in Seq(Instance) /\ back \in Seq(Instance)
    BY <1>2, <1>3
  <2>2. left = front \o back
    BY DEF RemoveAt
  <2>3. /\ Len(front) = id - 1 /\ Len(back) = Len(table) - id
        /\ \A n \in 1 .. id - 1 : front[n] = table[n]
        /\ \A n \in 1 .. Len(table) - id : back[n] = table[id + n]
    BY <1>2, <1>3
  <2> HIDE DEF front, back, left
  <2>4. /\ front \o back \in Seq(Instance)
        /\ Len(front \o back) = Len(front) + Len(back)
        /\ \A n \in 1 .. Len(front) + Len(back) :
              (front \o back)[n] = IF n <= Len(front) THEN front[n] ELSE back[n - Len(front)]
    BY <2>1, ConcatProperties
  <2>5. left \in Seq(Instance) /\ Len(left) = Len(table) - 1 /\ DOMAIN left = 1 .. Len(table) - 1
    <3>1. left \in Seq(Instance) /\ Len(left) = (id - 1) + (Len(table) - id)
      BY <2>2, <2>3, <2>4
    <3>2. Len(left) = Len(table) - 1
      BY <1>1, <3>1
    <3> QED BY <3>1, <3>2, LenProperties
  <2>6. ASSUME NEW n \in 1 .. Len(table) - 1
        PROVE  left[n] = table[IF n < id THEN n ELSE n + 1]
    <3>1. left[n] = IF n <= id - 1 THEN front[n] ELSE back[n - (id - 1)]
      BY <1>1, <2>2, <2>3, <2>4, SMTT(60)
    <3>2. CASE n < id
      BY <1>1, <2>3, <3>1, <3>2
    <3>3. CASE ~(n < id)
      <4>1. n - (id - 1) \in 1 .. Len(table) - id /\ id + (n - (id - 1)) = n + 1 /\ ~(n <= id - 1)
        BY <1>1, <3>3
      <4> QED BY <2>3, <3>1, <3>3, <4>1
    <3> QED BY <3>2, <3>3
  <2> QED BY <2>5, <2>6
<1> HIDE DEF left
<1>5. ASSUME NEW m \in DOMAIN left, NEW n \in DOMAIN left, left[m] = left[n]
      PROVE  m = n
  <2> DEFINE at(k) == IF k < id THEN k ELSE k + 1
  <2>1. at(m) \in DOMAIN table /\ at(n) \in DOMAIN table
    BY <1>1, <1>4
  <2>2. table[at(m)] = table[at(n)]
    BY <1>4, <1>5
  <2>3. at(m) = at(n)
    BY <2>1, <2>2
  <2> QED BY <1>1, <1>4, <2>3
<1>6. ASSUME NEW i, NEW n \in DOMAIN left, left[n] = i
      PROVE  i # table[id] /\ \E k \in DOMAIN table : table[k] = i
  BY <1>1, <1>4, <1>6
<1>7. ASSUME NEW i, i # table[id], NEW n \in DOMAIN table, table[n] = i
      PROVE  \E k \in DOMAIN left : left[k] = i
  <2>1. CASE n < id
    <3>1. n \in DOMAIN left /\ left[n] = i
      BY <1>1, <1>4, <1>7, <2>1
    <3> QED BY <3>1
  <2>2. CASE n > id
    <3>1. n - 1 \in DOMAIN left /\ left[n - 1] = i
      BY <1>1, <1>4, <1>7, <2>2
    <3> QED BY <3>1
  <2> QED BY <1>1, <1>7, <2>1, <2>2
<1> QED BY <1>4, <1>5, <1>6, <1>7 DEF left

\* The instance found is one of those that are left.
LEMMA NextIsAlive ==
    ASSUME IInv, Leaving
    PROVE  /\ Others \in Seq(Instance)
           /\ \A m, n \in DOMAIN Others : Others[m] = Others[n] => m = n
           /\ \A i \in Instance : (\E n \in DOMAIN Others : Others[n] = i) <=> i \in alive
           /\ FindInstance(Others) = NULL \/ FindInstance(Others) \in alive
<1> DEFINE id == CHOOSE k \in DOMAIN handles : handles[k] = main.instance
<1>1. main.instance \in Instance /\ main.instance \notin alive
  BY DEF IInv, Typed, Doing, Leaving, HandlesFit
<1>2. id \in DOMAIN handles /\ handles[id] = main.instance
  <2>1. \E k \in DOMAIN handles : handles[k] = main.instance
    BY <1>1 DEF IInv, HandlesFit
  <2> QED BY <2>1
<1>3. /\ handles \in Seq(Instance)
      /\ \A m, n \in DOMAIN handles : handles[m] = handles[n] => m = n
  BY DEF IInv, HandlesFit
<1> HIDE DEF id
<1>4. /\ RemoveAt(handles, id) \in Seq(Instance)
      /\ \A m, n \in DOMAIN RemoveAt(handles, id) :
            RemoveAt(handles, id)[m] = RemoveAt(handles, id)[n] => m = n
      /\ \A i : (\E n \in DOMAIN RemoveAt(handles, id) : RemoveAt(handles, id)[n] = i)
                   <=> (i # handles[id] /\ \E n \in DOMAIN handles : handles[n] = i)
  BY <1>2, <1>3, Removed
<1>5. Others = RemoveAt(handles, id)
  BY DEF Others, id
<1>6. \A i \in Instance : (\E n \in DOMAIN Others : Others[n] = i) <=> i \in alive
  BY <1>1, <1>2, <1>4, <1>5 DEF IInv, HandlesFit
<1>7. FindInstance(Others) = NULL \/ FindInstance(Others) \in alive
  <2>1. CASE Others = <<>>
    BY <2>1 DEF FindInstance
  <2>2. CASE Others # <<>>
    <3>1. Len(Others) \in DOMAIN Others /\ Others[Len(Others)] \in Instance
      BY <1>4, <1>5, <2>2, EmptySeq, LenProperties, ElementOfSeq
    <3> QED BY <1>6, <2>2, <3>1 DEF FindInstance, Last
  <2> QED BY <2>1, <2>2
<1> QED BY <1>4, <1>5, <1>6, <1>7

\* The next instance comes with a post, whatever the thread is doing.
LEMMA DestroyEndKeeps ==
    ASSUME IInv, DestroyEnd
    PROVE  IInv'
<1> DEFINE next == FindInstance(Others)
<1>1. /\ main.pc = "destroy" /\ main' = [pc |-> "idle"] /\ handles' = Others
      /\ IF main.unschedule /\ eventThread # NULL
         THEN /\ timerInstance' = next /\ requests' = requests + 1
              /\ eventThread' = IF next = NULL THEN NULL ELSE eventThread
         ELSE UNCHANGED <<timerInstance, requests, eventThread>>
      /\ calls' = Revoked(main.instance)
      /\ UNCHANGED <<alive, scheduled, thread, crashed>>
  BY DEF DestroyEnd, HandOver, Idle
<1>2. /\ Others \in Seq(Instance)
      /\ \A m, n \in DOMAIN Others : Others[m] = Others[n] => m = n
      /\ \A i \in Instance : (\E n \in DOMAIN Others : Others[n] = i) <=> i \in alive
      /\ next = NULL \/ next \in alive
  BY <1>1, NextIsAlive DEF Leaving
<1> HIDE DEF next
<1>3. HandlesFit'
  BY <1>1, <1>2 DEF HandlesFit, Leaving
<1>4. /\ calls' \in [Instance \X Instance -> Nat]
      /\ \A i, a \in Instance : i # main.instance => calls'[i, a] = calls[i, a]
  <2>1. calls \in [Instance \X Instance -> Nat]
    BY DEF IInv, Typed
  <2>2. calls' = [c \in Instance \X Instance |-> IF c[1] = main.instance THEN 0 ELSE calls[c]]
    BY <1>1 DEF Revoked
  <2>3. \A i, a \in Instance : <<i, a>> \in Instance \X Instance /\ <<i, a>>[1] = i
    OBVIOUS
  <2> QED BY <2>1, <2>2, <2>3
<1>5. Typed'
  <2>1. timerInstance' \in Instance \cup {NULL} /\ eventThread' \in Thread \cup {NULL}
    BY <1>1, <1>2 DEF IInv, Typed
  <2>2. requests' \in Nat /\ main' \in Doing
    BY <1>1 DEF IInv, Typed, Doing
  <2> QED BY <1>1, <1>4, <2>1, <2>2 DEF IInv, Typed
<1>6. Served' /\ Turn'
  <2> SUFFICES ASSUME eventThread' # NULL
               PROVE  timerInstance' \in alive' /\ Turn'
    BY DEF Served, Turn
  <2>1. CASE main.unschedule /\ eventThread # NULL
    <3>1. timerInstance' \in alive' /\ requests' > 0
      BY <1>1, <1>2, <2>1 DEF IInv, Typed
    <3> QED BY <3>1 DEF Turn
  <2>2. CASE ~main.unschedule /\ eventThread # NULL
    <3>1. timerInstance \in alive /\ timerInstance \in Instance /\ timerInstance # main.instance
      BY <1>1, <2>2 DEF IInv, Typed, HandlesFit, Served, TakingOver, Leaving
    <3>2. CallAwaited => CallAwaited'
      BY <1>1, <1>4, <2>2, <3>1 DEF CallAwaited
    <3>3. Turn'
      BY <1>1, <2>2, <3>2 DEF IInv, Turn, TakingOver, Leaving, Starting, Asking, Calling
    <3> QED BY <1>1, <2>2, <3>1, <3>3
  <2>3. CASE eventThread = NULL
    BY <1>1, <2>3
  <2> QED BY <2>1, <2>2, <2>3
<1> QED BY <1>1, <1>3, <1>5, <1>6 DEF IInv

-----------------------------------------------------------------------------
LEMMA NextKeeps ==
    ASSUME IInv, [Next]_vars
    PROVE  IInv'
<1>1. ASSUME NEW t \in Thread, ThreadStep(t)
      PROVE  IInv'
  BY <1>1, WaitKeeps, TestKeeps, PostKeeps, RequestCallKeeps DEF ThreadStep
<1>2. CASE MainStep
  BY <1>2, NewEndKeeps, DestroyCancelKeeps, DestroyEndKeeps, AsyncCallEndKeeps DEF MainStep
<1>3. CASE Browser
  BY <1>3, NewBeginKeeps, DestroyBeginKeeps DEF Browser
<1>4. CASE EventLoop
  BY <1>4, AsyncCallKeeps DEF EventLoop
<1>5. CASE UNCHANGED vars
  BY <1>5 DEF vars, IInv, Typed, HandlesFit, Served, Turn, TakingOver, Leaving, Starting, Asking,
              Calling, CallAwaited
<1> QED BY <1>1, <1>2, <1>3, <1>4, <1>5 DEF Next

LEMMA AlwaysIInv == Spec => []IInv
<1>1. Init => IInv
  BY InitHolds
<1>2. IInv /\ [Next]_vars => IInv'
  BY NextKeeps
<1> QED BY <1>1, <1>2, PTL DEF Spec

\* For any number of instances and threads, whatever the threads are doing when
\* NPP_Destroy hands over: between two calls of the browser what a thread in the
\* context works for has not been freed (NPP_New and NPP_Destroy).
THEOREM TimerTheorem == Spec => []TimerServesLiveInstance
<1>1. IInv => TimerServesLiveInstance
  BY DEF IInv, Served, TakingOver, Leaving, TimerServesLiveInstance, Entered
<1> QED BY <1>1, AlwaysIInv, PTL

\* The turn is not lost by any take-over either: somebody is about to ask the
\* browser for a call, is told to, or the browser has one that will find a post
\* (timerThread, timerThreadAsyncFunc, NPP_New and NPP_Destroy).
THEOREM TurnTheorem == Spec => []TurnIsNotLost
<1>1. IInv => TurnIsNotLost
  BY DEF IInv, Turn, TakingOver, Leaving, Starting, TurnIsNotLost, Entered
<1> QED BY <1>1, AlwaysIInv, PTL

-----------------------------------------------------------------------------
(***************************************************************************)
(* AsyncCalls: its invariant.                                              *)
(***************************************************************************)
\* A call, a round, and what a thread is doing.
Made   == [node : Node, id : Nat, instance : Npp]
Going  == [pc : {"next", "run", "running"}, at : Npp \cup {0}, queue : Seq(Made), count : Nat]
Doings == [pc : {"none", "read", "swap", "count"}, instance : Npp \cup {0},
           node : Node \cup {NoNode}, next : Node \cup {NoNode}]

AsyncTyped ==
    /\ instances \subseteq Npp
    /\ list \in [Npp -> Seq(Made)]
    /\ pending \in Int
    /\ push \in [Caller -> Doings]
    /\ rounds \in Seq(Going)
    /\ history \in [accepted : Nat, done : SUBSET Nat, dropped : SUBSET Nat]

\* A thread pushes for an instance that exists; a round looks for the next
\* instance when it has run all it took from the last.
PushFits ==
    /\ \A t \in Caller : push[t].pc # "none" => push[t].instance \in instances
    /\ \A t \in Preparing : push[t].node \in Node
QueueFits ==
    \A r \in DOMAIN rounds :
        /\ rounds[r].pc = "next" => rounds[r].queue = <<>>
        /\ rounds[r].pc = "running" => rounds[r].queue # <<>>

\* The counter, put in terms of calls that are not done: dropping some changes
\* neither side.
CountFits ==
    pending + Cardinality(Pushing("count"))
        = history.accepted - Cardinality(history.done) + RunSoFar(rounds)

AsyncInv == AsyncTyped /\ PushFits /\ QueueFits /\ NothingLostOrRepeated /\ CountFits
-----------------------------------------------------------------------------
(***************************************************************************)
(* Numbers and sequences.                                                  *)
(***************************************************************************)
\* Every non-empty set of naturals has a least element.
LEMMA LeastNatural ==
    ASSUME NEW S \in SUBSET Nat, S # {}
    PROVE  \E x \in S : \A y \in S : x =< y
<1> DEFINE R == {ss \in Nat \X Nat : ss[1] < ss[2]}
<1>1. IsWellFoundedOn(R, Nat)
  BY NatLessThanWellFounded DEF OpToRel
<1>2. PICK x \in S : \A y \in S : ~ (<<y, x>> \in R)
  BY <1>1, WFMin, Zenon
<1>3. ASSUME NEW y \in S PROVE x =< y
  <2>1. <<y, x>> \notin R
    BY <1>2
  <2>2. x \in Nat /\ y \in Nat /\ ~ (y < x)
    BY <2>1
  <2> QED BY <2>2
<1> QED BY <1>3

\* The next instance exists.
LEMMA MinIsMember ==
    ASSUME NEW S \in SUBSET Nat, S # {}
    PROVE  Min(S) \in S
BY LeastNatural DEF Min

\* A set that holds 0 and the successor of each of its members holds every
\* natural.
LEMMA Induction ==
    ASSUME NEW T, 0 \in T, \A n \in Nat : n \in T => n + 1 \in T
    PROVE  Nat \subseteq T
<1> SUFFICES ASSUME Nat \ T # {} PROVE FALSE
  OBVIOUS
<1>1. PICK x \in Nat \ T : \A y \in Nat \ T : x =< y
  BY LeastNatural
<1> QED BY <1>1

\* What RunSoFar adds up, entry by entry.
AddsUp(f, seq, n) ==
    f = [k \in 0 .. n |-> IF k = 0 THEN 0 ELSE f[k - 1] + seq[k].count]

LEMMA AddsUpExists ==
    ASSUME NEW seq, NEW n \in Nat
    PROVE  \E f : AddsUp(f, seq, n)
<1> DEFINE T == {m \in Nat : \E f : AddsUp(f, seq, m)}
<1>1. 0 \in T
  <2>1. AddsUp([k \in 0 .. 0 |-> 0], seq, 0)
    BY DEF AddsUp
  <2> QED BY <2>1
<1>2. ASSUME NEW m \in Nat, m \in T PROVE m + 1 \in T
  <2>1. PICK f : AddsUp(f, seq, m)
    BY <1>2
  <2> DEFINE g == [k \in 0 .. m + 1 |-> IF k = m + 1 THEN f[m] + seq[m + 1].count ELSE f[k]]
             h == [k \in 0 .. m + 1 |-> IF k = 0 THEN 0 ELSE g[k - 1] + seq[k].count]
  <2>2. f = [k \in 0 .. m |-> IF k = 0 THEN 0 ELSE f[k - 1] + seq[k].count]
    BY <2>1 DEF AddsUp
  <2>3. g[0] = 0 /\ g[m] = f[m] /\ \A k \in 1 .. m : g[k] = f[k] /\ g[k - 1] = f[k - 1]
    BY <2>2
  <2>4. ASSUME NEW k \in 0 .. m + 1 PROVE g[k] = h[k]
    <3>1. CASE k = 0
      BY <2>3, <3>1
    <3>2. CASE k \in 1 .. m
      BY <2>2, <2>3, <3>2
    <3>3. CASE k = m + 1
      BY <2>3, <3>3
    <3> QED BY <3>1, <3>2, <3>3
  <2>5. g = h
    <3>1. g = [k \in 0 .. m + 1 |-> g[k]] /\ h = [k \in 0 .. m + 1 |-> h[k]]
      OBVIOUS
    <3> HIDE DEF g, h
    <3> QED BY <2>4, <3>1
  <2>6. AddsUp(g, seq, m + 1)
    <3> HIDE DEF g
    <3> QED BY <2>5 DEF AddsUp
  <2> QED BY <2>6
<1>3. Nat \subseteq T
  <2> HIDE DEF T
  <2> QED BY <1>1, <1>2, Induction
<1> QED BY <1>3

LEMMA RunSoFarAddsUp ==
    ASSUME NEW seq, Len(seq) \in Nat
    PROVE  \E f : AddsUp(f, seq, Len(seq)) /\ RunSoFar(seq) = f[Len(seq)]
<1> DEFINE run(f) == [k \in 0 .. Len(seq) |-> IF k = 0 THEN 0 ELSE f[k - 1] + seq[k].count]
           sum == CHOOSE f : f = run(f)
<1>1. PICK f : AddsUp(f, seq, Len(seq))
  BY AddsUpExists
<1>2. f = run(f)
  BY <1>1 DEF AddsUp
<1>3. sum = run(sum)
  BY <1>2
<1>4. AddsUp(sum, seq, Len(seq))
  <2> HIDE DEF sum
  <2> QED BY <1>3 DEF AddsUp
<1>5. RunSoFar(seq) = sum[Len(seq)]
  BY DEF RunSoFar
<1> QED BY <1>4, <1>5

\* The entries of one stack that are also those of a higher one add up to the
\* same.
LEMMA AddsUpSame ==
    ASSUME NEW p, NEW q, NEW m \in Nat, NEW n \in Nat, m =< n,
           NEW f, AddsUp(f, p, m), NEW g, AddsUp(g, q, n),
           \A k \in 1 .. m : p[k] = q[k]
    PROVE  \A k \in 0 .. m : f[k] = g[k]
<1> DEFINE T == {k \in Nat : k =< m => f[k] = g[k]}
<1>1. f = [k \in 0 .. m |-> IF k = 0 THEN 0 ELSE f[k - 1] + p[k].count]
  BY DEF AddsUp
<1>2. g = [k \in 0 .. n |-> IF k = 0 THEN 0 ELSE g[k - 1] + q[k].count]
  BY DEF AddsUp
<1>3. f[0] = 0 /\ \A k \in 1 .. m : f[k] = f[k - 1] + p[k].count
  BY <1>1
<1>4. g[0] = 0 /\ \A k \in 1 .. m : g[k] = g[k - 1] + q[k].count
  <2>1. \A k \in 1 .. m : k \in 0 .. n /\ k # 0
    OBVIOUS
  <2> QED BY <1>2, <2>1
<1>5. 0 \in T
  BY <1>3, <1>4
<1>6. ASSUME NEW k \in Nat, k \in T PROVE k + 1 \in T
  <2>1. CASE k + 1 =< m
    <3>1. k + 1 \in 1 .. m /\ (k + 1) - 1 = k /\ f[k] = g[k]
      BY <1>6, <2>1
    <3>2. f[k + 1] = f[k] + p[k + 1].count /\ g[k + 1] = g[k] + q[k + 1].count
      BY <1>3, <1>4, <3>1
    <3> QED BY <3>1, <3>2
  <2>2. CASE ~(k + 1 =< m)
    BY <2>2
  <2> QED BY <2>1, <2>2
<1>7. Nat \subseteq T
  <2> HIDE DEF T
  <2> QED BY <1>5, <1>6, Induction
<1> QED BY <1>7

LEMMA AddsUpTyped ==
    ASSUME NEW q \in Seq(Going), NEW f, AddsUp(f, q, Len(q))
    PROVE  \A k \in 0 .. Len(q) : f[k] \in Nat
<1> DEFINE T == {k \in Nat : k =< Len(q) => f[k] \in Nat}
<1>1. f[0] = 0 /\ \A k \in 1 .. Len(q) : f[k] = f[k - 1] + q[k].count
  <2>1. f = [k \in 0 .. Len(q) |-> IF k = 0 THEN 0 ELSE f[k - 1] + q[k].count]
    BY DEF AddsUp
  <2> QED BY <2>1
<1>2. 0 \in T
  BY <1>1
<1>3. ASSUME NEW k \in Nat, k \in T PROVE k + 1 \in T
  <2>1. CASE k + 1 =< Len(q)
    <3>1. k + 1 \in 1 .. Len(q) /\ (k + 1) - 1 = k /\ f[k] \in Nat
      BY <1>3, <2>1
    <3>2. q[k + 1] \in Going
      BY <3>1, ElementOfSeq
    <3>3. f[k + 1] = f[k] + q[k + 1].count /\ q[k + 1].count \in Nat
      BY <1>1, <3>1, <3>2 DEF Going
    <3> QED BY <3>1, <3>3
  <2>2. CASE ~(k + 1 =< Len(q))
    BY <2>2
  <2> QED BY <2>1, <2>2
<1>4. Nat \subseteq T
  <2> HIDE DEF T
  <2> QED BY <1>2, <1>3, Induction
<1>5. \A k \in 0 .. Len(q) : k \in Nat /\ k =< Len(q)
  BY LenProperties
<1> QED BY <1>4, <1>5

LEMMA RunSoFarEmpty == RunSoFar(<<>>) = 0
<1>1. Len(<<>>) = 0
  OBVIOUS
<1>2. PICK f : AddsUp(f, <<>>, 0) /\ RunSoFar(<<>>) = f[0]
  BY <1>1, RunSoFarAddsUp
<1> QED BY <1>2 DEF AddsUp

\* One round more adds what it has run.
LEMMA RunSoFarAppend ==
    ASSUME NEW q \in Seq(Going), NEW e \in Going
    PROVE  /\ RunSoFar(q) \in Nat
           /\ RunSoFar(Append(q, e)) = RunSoFar(q) + e.count
<1> DEFINE n == Len(q)
           more == Append(q, e)
<1>1. n \in Nat /\ more \in Seq(Going) /\ Len(more) = n + 1 /\ more[n + 1] = e
      /\ \A k \in 1 .. n : more[k] = q[k]
  BY LenProperties, AppendProperties
<1>2. PICK f : AddsUp(f, q, n) /\ RunSoFar(q) = f[n]
  BY <1>1, RunSoFarAddsUp
<1> HIDE DEF more
<1>3. PICK g : AddsUp(g, more, n + 1) /\ RunSoFar(more) = g[n + 1]
  BY <1>1, RunSoFarAddsUp
<1>4. \A k \in 0 .. n : f[k] = g[k]
  BY <1>1, <1>2, <1>3, AddsUpSame
<1>5. g[n + 1] = g[n] + e.count
  <2>1. g = [k \in 0 .. n + 1 |-> IF k = 0 THEN 0 ELSE g[k - 1] + more[k].count]
    BY <1>3 DEF AddsUp
  <2>2. n + 1 \in 0 .. n + 1 /\ n + 1 # 0 /\ (n + 1) - 1 = n
    BY <1>1
  <2>3. g[n + 1] = g[(n + 1) - 1] + more[n + 1].count
    BY <2>1, <2>2
  <2> QED BY <1>1, <2>2, <2>3
<1>6. f[n] \in Nat
  BY <1>1, <1>2, AddsUpTyped
<1>7. f[n] = g[n]
  BY <1>1, <1>4
<1> QED BY <1>2, <1>3, <1>5, <1>6, <1>7 DEF more

\* A stack that is not empty is its rest and its top.
LEMMA FrontAndLast ==
    ASSUME NEW S, NEW q \in Seq(S), q # <<>>
    PROVE  /\ Front(q) \in Seq(S)
           /\ Last(q) \in S
           /\ Len(q) \in DOMAIN q /\ Last(q) = q[Len(q)]
           /\ Len(Front(q)) = Len(q) - 1
           /\ \A k \in DOMAIN Front(q) :
                 k \in DOMAIN q /\ k # Len(q) /\ Front(q)[k] = q[k]
           /\ q = Append(Front(q), Last(q))
<1>1. Len(q) \in Nat /\ Len(q) > 0
  OBVIOUS
<1>2. Front(q) = [k \in 1 .. Len(q) - 1 |-> q[k]]
  <2>1. Front(q) = SubSeq(q, 1, Len(q) - 1)
    BY DEF Front
  <2> QED BY <1>1, <2>1
<1>3. Front(q) \in Seq(S) /\ Len(Front(q)) = Len(q) - 1
  <2> DEFINE m == Len(q) - 1
  <2>1. m \in Nat /\ \A k \in 1 .. m : q[k] \in S
    BY <1>1
  <2>2. [k \in 1 .. m |-> q[k]] \in [1 .. m -> S]
    BY <2>1
  <2>3. Front(q) \in [1 .. m -> S]
    BY <1>2, <2>2
  <2> HIDE DEF m
  <2>4. Front(q) \in Seq(S) /\ Len(Front(q)) = m
    BY <2>1, <2>3
  <2> QED BY <2>4 DEF m
<1>4. Last(q) = q[Len(q)] /\ Last(q) \in S
  BY <1>1 DEF Last
<1>5. q = Append(Front(q), Last(q))
  BY <1>1, <1>2, <1>3, <1>4
<1> QED BY <1>1, <1>2, <1>3, <1>4, <1>5

\* The innermost round changes, or ends.
LEMMA TopReplaced ==
    ASSUME NEW q \in Seq(Going), q # <<>>, NEW e \in Going,
           NEW p, p = Append(Front(q), e)
    PROVE  /\ p \in Seq(Going) /\ p # <<>> /\ Len(p) = Len(q) /\ DOMAIN p = DOMAIN q
           /\ Len(q) \in DOMAIN q
           /\ \A r \in DOMAIN q : p[r] = IF r = Len(q) THEN e ELSE q[r]
           /\ RunSoFar(p) = RunSoFar(q) - Last(q).count + e.count
<1>1. /\ Front(q) \in Seq(Going) /\ Last(q) \in Going
      /\ Len(q) \in DOMAIN q /\ Len(Front(q)) = Len(q) - 1
      /\ \A k \in DOMAIN Front(q) : Front(q)[k] = q[k]
      /\ q = Append(Front(q), Last(q))
  BY FrontAndLast
<1>2. Len(q) \in Nat /\ DOMAIN q = 1 .. Len(q) /\ DOMAIN Front(q) = 1 .. Len(q) - 1
  BY <1>1, LenProperties
<1>3. p \in Seq(Going) /\ p # <<>> /\ Len(p) = Len(q) /\ p[Len(q)] = e
      /\ \A k \in 1 .. Len(q) - 1 : p[k] = Front(q)[k]
  <2>1. Len(Front(q)) + 1 = Len(q)
    BY <1>1, <1>2
  <2> QED BY <1>1, <2>1, AppendProperties
<1>4. DOMAIN p = DOMAIN q
  BY <1>2, <1>3, LenProperties
<1>5. \A r \in DOMAIN q : p[r] = IF r = Len(q) THEN e ELSE q[r]
  BY <1>1, <1>2, <1>3
<1>6. RunSoFar(p) = RunSoFar(q) - Last(q).count + e.count
  <2>1. /\ RunSoFar(Front(q)) \in Nat
        /\ RunSoFar(p) = RunSoFar(Front(q)) + e.count
        /\ RunSoFar(q) = RunSoFar(Front(q)) + Last(q).count
    BY <1>1, RunSoFarAppend
  <2>2. e.count \in Nat /\ Last(q).count \in Nat
    BY <1>1 DEF Going
  <2> QED BY <2>1, <2>2
<1> QED BY <1>1, <1>3, <1>4, <1>5, <1>6

LEMMA RunSoFarTyped == ASSUME NEW q \in Seq(Going) PROVE RunSoFar(q) \in Nat
<1>1. Len(q) \in Nat
  BY LenProperties
<1>2. PICK f : AddsUp(f, q, Len(q)) /\ RunSoFar(q) = f[Len(q)]
  BY <1>1, RunSoFarAddsUp
<1> QED BY <1>1, <1>2, AddsUpTyped

\* The set of what a sequence holds.
LEMMA SetOf ==
    ASSUME NEW S, NEW s \in Seq(S)
    PROVE  /\ ToSet(s) \subseteq S
           /\ \A x : x \in ToSet(s) <=> \E n \in 1 .. Len(s) : s[n] = x
<1>1. DOMAIN s = 1 .. Len(s) /\ \A n \in 1 .. Len(s) : s[n] \in S
  BY LenProperties, ElementOfSeq
<1> QED BY <1>1 DEF ToSet

LEMMA SetOfNone == ToSet(<<>>) = {}
BY DEF ToSet

\* The newest call comes first.
LEMMA PushedFirst ==
    ASSUME NEW s \in Seq(Made), NEW e \in Made
    PROVE  /\ <<e>> \o s \in Seq(Made)
           /\ ToSet(<<e>> \o s) = {e} \cup ToSet(s)
           /\ Descending(s) /\ (\A c \in ToSet(s) : c.id < e.id) => Descending(<<e>> \o s)
<1> DEFINE q == <<e>> \o s
<1>1. <<e>> \in Seq(Made) /\ Len(<<e>>) = 1 /\ <<e>>[1] = e
  OBVIOUS
<1>2. Len(s) \in Nat /\ DOMAIN s = 1 .. Len(s)
  BY LenProperties
<1>3. q \in Seq(Made) /\ Len(q) = Len(s) + 1
      /\ \A n \in 1 .. Len(s) + 1 : q[n] = IF n =< 1 THEN <<e>>[n] ELSE s[n - 1]
  BY <1>1, <1>2, ConcatProperties
<1> HIDE DEF q
<1>4. q[1] = e /\ \A n \in 1 .. Len(s) : q[n + 1] = s[n]
  BY <1>1, <1>2, <1>3
<1>5. DOMAIN q = 1 .. Len(s) + 1
  BY <1>3, LenProperties
<1>6. ToSet(q) = {e} \cup ToSet(s)
  <2>1. ASSUME NEW n \in 1 .. Len(q) PROVE q[n] \in {e} \cup ToSet(s)
    <3>1. CASE n = 1
      BY <1>4, <3>1
    <3>2. CASE n # 1
      <4>1. n - 1 \in 1 .. Len(s) /\ (n - 1) + 1 = n
        BY <1>2, <1>3, <3>2
      <4>2. q[n] = s[n - 1]
        BY <1>4, <4>1
      <4> QED BY <4>1, <4>2, SetOf
    <3> QED BY <3>1, <3>2
  <2>2. e \in ToSet(q)
    <3>1. 1 \in 1 .. Len(q)
      BY <1>2, <1>3
    <3> QED BY <1>3, <1>4, <3>1, SetOf
  <2>3. ASSUME NEW n \in 1 .. Len(s) PROVE s[n] \in ToSet(q)
    <3>1. n + 1 \in 1 .. Len(q) /\ q[n + 1] = s[n]
      BY <1>2, <1>3, <1>4
    <3> QED BY <1>3, <3>1, SetOf
  <2>4. ToSet(q) \subseteq {e} \cup ToSet(s)
    BY <1>3, <2>1, SetOf
  <2>5. ToSet(s) \subseteq ToSet(q)
    BY <2>3, SetOf
  <2> QED BY <2>2, <2>4, <2>5
<1>7. ASSUME Descending(s), \A c \in ToSet(s) : c.id < e.id PROVE Descending(q)
  <2> SUFFICES ASSUME NEW m \in DOMAIN q, NEW n \in DOMAIN q, m < n PROVE q[m].id > q[n].id
    BY DEF Descending
  <2>1. n - 1 \in 1 .. Len(s) /\ q[n] = s[n - 1] /\ s[n - 1] \in Made
    <3>1. n - 1 \in 1 .. Len(s) /\ (n - 1) + 1 = n
      BY <1>2, <1>5
    <3> QED BY <1>4, <3>1, ElementOfSeq
  <2>2. CASE m = 1
    <3>1. s[n - 1] \in ToSet(s)
      BY <2>1, SetOf
    <3>2. s[n - 1].id < e.id /\ s[n - 1].id \in Nat /\ e.id \in Nat
      BY <1>7, <2>1, <3>1 DEF Made
    <3> QED BY <1>4, <2>1, <2>2, <3>2
  <2>3. CASE m # 1
    <3>1. m - 1 \in 1 .. Len(s) /\ (m - 1) + 1 = m /\ m - 1 < n - 1
      BY <1>2, <1>5, <2>3
    <3>2. q[m] = s[m - 1]
      BY <1>4, <3>1
    <3>3. s[m - 1].id > s[n - 1].id
      BY <1>2, <1>7, <2>1, <3>1 DEF Descending
    <3> QED BY <2>1, <3>2, <3>3
  <2> QED BY <2>2, <2>3
<1> QED BY <1>3, <1>6, <1>7 DEF q

\* A list that is reversed runs the oldest call first.
LEMMA Reversed ==
    ASSUME NEW s \in Seq(Made)
    PROVE  /\ Reverse(s) \in Seq(Made)
           /\ ToSet(Reverse(s)) = ToSet(s)
           /\ Descending(s) => Ascending(Reverse(s))
<1> DEFINE l == Len(s)
           q == Reverse(s)
<1>1. l \in Nat /\ DOMAIN s = 1 .. l /\ \A n \in 1 .. l : s[n] \in Made
  BY LenProperties, ElementOfSeq
<1>2. q = [n \in 1 .. l |-> s[(l - n) + 1]]
  BY DEF Reverse
<1>3. \A n \in 1 .. l : (l - n) + 1 \in 1 .. l /\ (l - ((l - n) + 1)) + 1 = n
  BY <1>1
<1> HIDE DEF q, l
<1>4. \A n \in 1 .. l : q[n] = s[(l - n) + 1] /\ q[n] \in Made
  BY <1>1, <1>2, <1>3
<1>5. q \in Seq(Made) /\ Len(q) = l /\ DOMAIN q = 1 .. l
  <2>1. q \in [1 .. l -> Made]
    BY <1>2, <1>4
  <2> QED BY <1>1, <2>1
<1>6. ToSet(q) = ToSet(s)
  <2>1. \A n \in 1 .. l : q[n] \in ToSet(s)
    BY <1>3, <1>4, SetOf DEF l
  <2>2. \A n \in 1 .. l : s[n] \in ToSet(q)
    <3>1. \A n \in 1 .. l : q[(l - n) + 1] = s[n]
      BY <1>3, <1>4
    <3> QED BY <1>3, <1>5, <3>1, SetOf
  <2>3. ToSet(q) \subseteq ToSet(s)
    BY <1>5, <2>1, SetOf
  <2>4. ToSet(s) \subseteq ToSet(q)
    BY <2>2, SetOf DEF l
  <2> QED BY <2>3, <2>4
<1>7. ASSUME Descending(s) PROVE Ascending(q)
  <2> SUFFICES ASSUME NEW m \in 1 .. l, NEW n \in 1 .. l, m < n PROVE q[m].id < q[n].id
    BY <1>5 DEF Ascending
  <2>1. (l - n) + 1 < (l - m) + 1
    BY <1>1
  <2>2. s[(l - n) + 1].id > s[(l - m) + 1].id
    BY <1>1, <1>3, <1>7, <2>1 DEF Descending
  <2>3. q[m].id \in Nat /\ q[n].id \in Nat
    BY <1>4 DEF Made
  <2> QED BY <1>4, <2>2, <2>3
<1> QED BY <1>5, <1>6, <1>7 DEF q

\* What is left when the first call has been run.
LEMMA FirstRun ==
    ASSUME NEW s \in Seq(Made), s # <<>>, Ascending(s)
    PROVE  /\ Head(s) \in Made /\ Head(s) \in ToSet(s)
           /\ Tail(s) \in Seq(Made)
           /\ Ascending(Tail(s))
           /\ ToSet(Tail(s)) = ToSet(s) \ {Head(s)}
<1> DEFINE q == Tail(s)
<1>1. Len(s) \in Nat /\ Len(s) >= 1 /\ DOMAIN s = 1 .. Len(s) /\ Head(s) = s[1]
  BY LenProperties, EmptySeq
<1>2. /\ Head(s) \in Made /\ q \in Seq(Made) /\ Len(q) = Len(s) - 1
      /\ \A n \in 1 .. Len(q) : q[n] = s[n + 1]
  BY HeadTailProperties
<1> HIDE DEF q
<1>3. DOMAIN q = 1 .. Len(q) /\ \A n \in 1 .. Len(q) : n + 1 \in 1 .. Len(s) /\ 1 < n + 1
  BY <1>1, <1>2, LenProperties
<1>4. Ascending(q)
  <2> SUFFICES ASSUME NEW m \in 1 .. Len(q), NEW n \in 1 .. Len(q), m < n PROVE q[m].id < q[n].id
    BY <1>3 DEF Ascending
  <2>1. m + 1 < n + 1
    OBVIOUS
  <2>2. s[m + 1].id < s[n + 1].id
    BY <1>1, <1>3, <2>1 DEF Ascending
  <2> QED BY <1>2, <2>2
<1>5. Head(s) \in ToSet(s)
  BY <1>1, SetOf
<1>6. ToSet(q) \subseteq ToSet(s) \ {Head(s)}
  <2>1. ASSUME NEW n \in 1 .. Len(q) PROVE q[n] \in ToSet(s) \ {Head(s)}
    <3>1. s[1].id < s[n + 1].id /\ s[1] \in Made /\ 1 \in 1 .. Len(s)
      BY <1>1, <1>3, ElementOfSeq DEF Ascending
    <3>2. s[1] # s[n + 1]
      BY <3>1 DEF Made
    <3> QED BY <1>1, <1>2, <1>3, <3>2, SetOf
  <2> QED BY <1>2, <2>1, SetOf
<1>7. ToSet(s) \ {Head(s)} \subseteq ToSet(q)
  <2>1. ASSUME NEW n \in 1 .. Len(s), n # 1 PROVE s[n] \in ToSet(q)
    <3>1. n - 1 \in 1 .. Len(q) /\ (n - 1) + 1 = n
      BY <1>1, <1>2, <2>1
    <3>2. q[n - 1] = s[n]
      BY <1>2, <3>1
    <3> QED BY <1>2, <3>1, <3>2, SetOf
  <2>2. \A n \in 1 .. Len(s) : s[n] # Head(s) => n # 1
    BY <1>1
  <2> QED BY <2>1, <2>2, SetOf
<1> QED BY <1>2, <1>4, <1>5, <1>6, <1>7 DEF q

-----------------------------------------------------------------------------
(***************************************************************************)
(* How the parts of the state change.                                      *)
(***************************************************************************)
\* What the rounds around the innermost have taken.
Outer == UNION {ToSet(rounds[r].queue) : r \in DOMAIN rounds \ {Len(rounds)}}

LEMMA OpenAreMade ==
    ASSUME AsyncTyped
    PROVE  Listed \subseteq Made /\ Taken \subseteq Made /\ Open \subseteq Made
<1>1. \A i \in Npp : ToSet(list[i]) \subseteq Made
  <2> TAKE i \in Npp
  <2>1. list[i] \in Seq(Made)
    BY DEF AsyncTyped
  <2> QED BY <2>1, SetOf
<1>2. \A r \in DOMAIN rounds : ToSet(rounds[r].queue) \subseteq Made
  <2> TAKE r \in DOMAIN rounds
  <2>1. rounds[r] \in Going
    BY LenProperties, ElementOfSeq DEF AsyncTyped
  <2>2. rounds[r].queue \in Seq(Made)
    BY <2>1 DEF Going
  <2> QED BY <2>2, SetOf
<1> QED BY <1>1, <1>2 DEF Listed, Taken, Open

LEMMA InnerIs ==
    ASSUME AsyncTyped, QueueFits, RoundsFit, rounds # <<>>
    PROVE  /\ Inner \in Going /\ Len(rounds) \in DOMAIN rounds /\ Inner = rounds[Len(rounds)]
           /\ Inner.queue \in Seq(Made) /\ Ascending(Inner.queue)
           /\ Taken = Outer \cup ToSet(Inner.queue)
           /\ Outer \cap ToSet(Inner.queue) = {}
<1>1. Inner \in Going /\ Len(rounds) \in DOMAIN rounds /\ Inner = rounds[Len(rounds)]
  BY FrontAndLast DEF AsyncTyped, Inner
<1>2. Inner.queue \in Seq(Made)
  BY <1>1 DEF Going
<1>3. Ascending(Inner.queue)
  BY <1>1 DEF RoundsFit
<1>4. Taken = Outer \cup ToSet(Inner.queue)
  BY <1>1 DEF Taken, Outer
<1>5. Outer \cap ToSet(Inner.queue) = {}
  <2>1. \A r \in DOMAIN rounds \ {Len(rounds)} : ToSet(rounds[r].queue) \cap ToSet(Inner.queue) = {}
    BY <1>1 DEF RoundsFit
  <2> QED BY <2>1 DEF Outer
<1> QED BY <1>1, <1>2, <1>3, <1>4, <1>5

LEMMA InnerSet ==
    ASSUME rounds \in Seq(Going), rounds # <<>>, NEW e \in Going, SetInner(e)
    PROVE  /\ rounds' \in Seq(Going) /\ DOMAIN rounds' = DOMAIN rounds /\ Len(rounds) \in DOMAIN rounds
           /\ \A r \in DOMAIN rounds : rounds'[r] = IF r = Len(rounds) THEN e ELSE rounds[r]
           /\ RunSoFar(rounds') = RunSoFar(rounds) - Inner.count + e.count
<1>1. rounds' = Append(Front(rounds), e)
  BY DEF SetInner
<1>2. rounds' \in Seq(Going) /\ DOMAIN rounds' = DOMAIN rounds /\ Len(rounds) \in DOMAIN rounds
  BY <1>1, TopReplaced
<1>3. \A r \in DOMAIN rounds : rounds'[r] = IF r = Len(rounds) THEN e ELSE rounds[r]
  BY <1>1, TopReplaced
<1>4. RunSoFar(rounds') = RunSoFar(rounds) - Last(rounds).count + e.count
  BY <1>1, TopReplaced
<1> QED BY <1>2, <1>3, <1>4 DEF Inner

\* The innermost round goes on with another queue.
LEMMA InnerChanges ==
    ASSUME AsyncTyped, QueueFits, RoundsFit, rounds # <<>>,
           NEW e \in Going, SetInner(e), Ascending(e.queue),
           ToSet(e.queue) \cap Outer = {},
           e.pc = "next" => e.queue = <<>>, e.pc = "running" => e.queue # <<>>
    PROVE  /\ rounds' \in Seq(Going) /\ QueueFits' /\ RoundsFit'
           /\ Taken' = Outer \cup ToSet(e.queue)
           /\ RunSoFar(rounds') = RunSoFar(rounds) - Inner.count + e.count
<1> DEFINE l == Len(rounds)
<1>1. /\ rounds' \in Seq(Going) /\ DOMAIN rounds' = DOMAIN rounds /\ l \in DOMAIN rounds
      /\ \A r \in DOMAIN rounds : rounds'[r] = IF r = l THEN e ELSE rounds[r]
      /\ RunSoFar(rounds') = RunSoFar(rounds) - Inner.count + e.count
  <2>1. rounds \in Seq(Going)
    BY DEF AsyncTyped
  <2> QED BY <2>1, InnerSet
<1> HIDE DEF l
<1>2. QueueFits'
  BY <1>1 DEF QueueFits
<1>3. \A r \in DOMAIN rounds : r # l => ToSet(rounds[r].queue) \cap ToSet(e.queue) = {}
  BY DEF Outer, l
<1>4. RoundsFit'
  BY <1>1, <1>3 DEF RoundsFit
<1>5. Taken' = Outer \cup ToSet(e.queue)
  <2>1. Taken' = UNION {ToSet(rounds'[r].queue) : r \in DOMAIN rounds}
    BY <1>1 DEF Taken
  <2>2. \A c : c \in Taken' <=> \E r \in DOMAIN rounds : c \in ToSet(rounds'[r].queue)
    BY <2>1
  <2>3. \A c : c \in Outer <=> \E r \in DOMAIN rounds : r # l /\ c \in ToSet(rounds[r].queue)
    BY DEF Outer, l
  <2> QED BY <1>1, <2>2, <2>3
<1> QED BY <1>1, <1>2, <1>4, <1>5

\* A round ends, with nothing left of its queue.
LEMMA InnerEnds ==
    ASSUME AsyncTyped, QueueFits, RoundsFit, At("next"), rounds' = Front(rounds)
    PROVE  /\ rounds' \in Seq(Going) /\ QueueFits' /\ RoundsFit'
           /\ Taken' = Taken
           /\ RunSoFar(rounds) = RunSoFar(rounds') + Inner.count
<1> DEFINE l == Len(rounds)
<1>1. rounds \in Seq(Going) /\ rounds # <<>> /\ Inner.pc = "next"
  BY DEF AsyncTyped, At
<1>2. /\ rounds' \in Seq(Going) /\ Inner \in Going /\ l \in DOMAIN rounds /\ Inner = rounds[l]
      /\ Len(rounds') = l - 1
      /\ \A r \in DOMAIN rounds' : r \in DOMAIN rounds /\ r # l /\ rounds'[r] = rounds[r]
      /\ rounds = Append(rounds', Inner)
  BY <1>1, FrontAndLast DEF Inner
<1>3. Inner.queue = <<>>
  BY <1>1, <1>2 DEF QueueFits
<1>4. DOMAIN rounds' = DOMAIN rounds \ {l}
  <2>1. l \in Nat /\ DOMAIN rounds = 1 .. l /\ DOMAIN rounds' = 1 .. l - 1
    BY <1>1, <1>2, LenProperties
  <2> QED BY <2>1
<1> HIDE DEF l
<1>5. QueueFits' /\ RoundsFit'
  BY <1>2, ZenonT(60) DEF QueueFits, RoundsFit
<1>6. Taken' = Taken
  <2>1. \A c : c \in Taken' <=> \E r \in DOMAIN rounds' : c \in ToSet(rounds'[r].queue)
    BY DEF Taken
  <2>2. \A c : c \in Taken <=> \E r \in DOMAIN rounds : c \in ToSet(rounds[r].queue)
    BY DEF Taken
  <2>3. \A c : c \notin ToSet(rounds[l].queue)
    BY <1>2, <1>3, SetOfNone
  <2> QED BY <1>2, <1>4, <2>1, <2>2, <2>3
<1>7. RunSoFar(rounds) = RunSoFar(rounds') + Inner.count
  BY <1>2, RunSoFarAppend
<1> QED BY <1>2, <1>5, <1>6, <1>7

\* A round begins inside the others.
LEMMA InnerBegins ==
    ASSUME AsyncTyped, QueueFits, RoundsFit, rounds' = Append(rounds, Round("next", 0, <<>>, 0))
    PROVE  /\ rounds' \in Seq(Going) /\ QueueFits' /\ RoundsFit'
           /\ Taken' = Taken
           /\ RunSoFar(rounds') = RunSoFar(rounds)
<1> DEFINE e == Round("next", 0, <<>>, 0)
           l == Len(rounds)
<1>1. e \in Going /\ e.queue = <<>> /\ e.count = 0 /\ e.pc = "next"
  <2>1. <<>> \in Seq(Made)
    OBVIOUS
  <2> QED BY <2>1 DEF Going, Round
<1> HIDE DEF e
<1>2. rounds \in Seq(Going) /\ l \in Nat /\ DOMAIN rounds = 1 .. l
  BY LenProperties DEF AsyncTyped
<1>3. /\ rounds' \in Seq(Going) /\ Len(rounds') = l + 1 /\ rounds'[l + 1] = e
      /\ \A r \in 1 .. l : rounds'[r] = rounds[r]
  BY <1>1, <1>2, AppendProperties DEF e
<1>4. DOMAIN rounds' = DOMAIN rounds \cup {l + 1} /\ l + 1 \notin DOMAIN rounds
  <2>1. DOMAIN rounds' = 1 .. l + 1
    BY <1>3, LenProperties
  <2> QED BY <1>2, <2>1
<1>5. RunSoFar(rounds') = RunSoFar(rounds)
  <2>1. RunSoFar(rounds) \in Nat /\ RunSoFar(rounds') = RunSoFar(rounds) + e.count
    BY <1>1, <1>2, RunSoFarAppend DEF e
  <2> QED BY <1>1, <2>1
<1> DEFINE m == l + 1
<1>6. /\ DOMAIN rounds' = DOMAIN rounds \cup {m} /\ rounds'[m] = e
      /\ \A r \in DOMAIN rounds : rounds'[r] = rounds[r]
      /\ ToSet(e.queue) = {}
  BY <1>1, <1>2, <1>3, <1>4, SetOfNone
<1> HIDE DEF m
<1>7. QueueFits'
  BY <1>1, <1>6 DEF QueueFits
<1>8. RoundsFit'
  <2>1. Ascending(e.queue)
    <3>1. DOMAIN <<>> = {}
      OBVIOUS
    <3> QED BY <1>1, <3>1 DEF Ascending
  <2> QED BY <1>6, <2>1 DEF RoundsFit
<1>9. Taken' = Taken
  <2>1. \A c : c \in Taken' <=> \E r \in DOMAIN rounds' : c \in ToSet(rounds'[r].queue)
    BY DEF Taken
  <2>2. \A c : c \in Taken <=> \E r \in DOMAIN rounds : c \in ToSet(rounds[r].queue)
    BY DEF Taken
  <2> QED BY <1>6, <2>1, <2>2
<1> QED BY <1>3, <1>5, <1>7, <1>8, <1>9

\* One list changes.
LEMMA ListChanges ==
    ASSUME AsyncTyped, ListsFit, NEW i \in Npp, NEW q \in Seq(Made),
           list' = [list EXCEPT ![i] = q]
    PROVE  /\ list' \in [Npp -> Seq(Made)] /\ list'[i] = q
           /\ \A j \in Npp : j # i => list'[j] = list[j]
           /\ list[i] \in Seq(Made)
           /\ Listed' = (Listed \ ToSet(list[i])) \cup ToSet(q)
<1>1. /\ list' \in [Npp -> Seq(Made)] /\ list'[i] = q
      /\ \A j \in Npp : j # i => list'[j] = list[j]
      /\ list[i] \in Seq(Made)
  BY DEF AsyncTyped
<1>2. \A j \in Npp : j # i => ToSet(list[j]) \cap ToSet(list[i]) = {}
  BY DEF ListsFit
<1>3. \A c : c \in Listed' <=> \E j \in Npp : c \in ToSet(list'[j])
  BY DEF Listed
<1>4. \A c : c \in Listed <=> \E j \in Npp : c \in ToSet(list[j])
  BY DEF Listed
<1>5. \A c : c \in Listed' <=> (c \in Listed /\ c \notin ToSet(list[i])) \/ c \in ToSet(q)
  BY <1>1, <1>2, <1>3, <1>4
<1> QED BY <1>1, <1>5

\* A thread moves.
LEMMA PushChanges ==
    ASSUME AsyncTyped, NEW t \in Caller, NEW p \in Doings, push' = [push EXCEPT ![t] = p]
    PROVE  /\ push' \in [Caller -> Doings] /\ push'[t] = p
           /\ \A u \in Caller : u # t => push'[u] = push[u]
BY DEF AsyncTyped

LEMMA PushOf ==
    ASSUME NEW pc, NEW i, NEW n, NEW next
    PROVE  /\ Push(pc, i, n, next).pc = pc /\ Push(pc, i, n, next).instance = i
           /\ Push(pc, i, n, next).node = n /\ Push(pc, i, n, next).next = next
BY DEF Push

LEMMA PushTyped ==
    ASSUME NEW pc \in {"none", "read", "swap", "count"}, NEW i \in Npp \cup {0},
           NEW n \in Node \cup {NoNode}, NEW next \in Node \cup {NoNode}
    PROVE  Push(pc, i, n, next) \in Doings
BY DEF Push, Doings

\* A head that is read is an address or NULL.
LEMMA HeadIsNode ==
    ASSUME AsyncTyped, NEW i \in Npp
    PROVE  HeadNode(i) \in Node \cup {NoNode}
<1>1. list[i] \in Seq(Made)
  BY DEF AsyncTyped
<1>2. list[i] # <<>> => Head(list[i]) \in Made
  BY <1>1, HeadTailProperties
<1> QED BY <1>2 DEF HeadNode, Made

\* The sizes of the sets in the equation.
LEMMA Countable ==
    ASSUME AsyncInv
    PROVE  /\ IsFiniteSet(Pushing("count")) /\ Cardinality(Pushing("count")) \in Nat
           /\ IsFiniteSet(history.done) /\ Cardinality(history.done) \in Nat
           /\ history.accepted \in Nat
<1>1. history.accepted \in Nat
  BY DEF AsyncInv, AsyncTyped
<1>2. IsFiniteSet(Pushing("count"))
  <2>1. Pushing("count") \in SUBSET Caller
    BY DEF Pushing
  <2> QED BY <2>1, CallerAssumption, FS_Subset
<1>3. IsFiniteSet(history.done)
  <2>1. history.done \in SUBSET (1 .. history.accepted)
    BY DEF AsyncInv, NothingLostOrRepeated, EachCallOnce
  <2>2. IsFiniteSet(1 .. history.accepted)
    BY <1>1, FS_Interval
  <2> QED BY <2>1, <2>2, FS_Subset
<1> QED BY <1>1, <1>2, <1>3, FS_CardinalityType

-----------------------------------------------------------------------------
(***************************************************************************)
(* NPN_PluginThreadAsyncCall.                                              *)
(***************************************************************************)
\* A thread that has not reached the list moves on, with the memory it has got.
LEMMA PreparingStep ==
    ASSUME AsyncInv, NEW t \in Caller, NEW p \in Doings,
           push[t].pc # "count", p.pc \in {"read", "swap"},
           p.instance \in instances, p.node \in Node,
           t \in Preparing => p.node = push[t].node,
           t \notin Preparing => p.node \notin InUse,
           push' = [push EXCEPT ![t] = p],
           UNCHANGED <<instances, list, pending, rounds, history>>
    PROVE  AsyncInv'
<1>1. /\ push' \in [Caller -> Doings] /\ push'[t] = p
      /\ \A u \in Caller : u # t => push'[u] = push[u]
  BY PushChanges DEF AsyncInv
<1>2. AsyncTyped'
  BY <1>1 DEF AsyncInv, AsyncTyped
<1>3. Preparing' = Preparing \cup {t}
  BY <1>1 DEF Preparing, Pushing
<1>4. PushFits'
  BY <1>1, <1>3 DEF AsyncInv, PushFits
<1>5. QueueFits' /\ Listed' = Listed /\ Taken' = Taken /\ Open' = Open
  BY DEF AsyncInv, QueueFits, Listed, Taken, Open
<1>6. EachCallOnce' /\ ListsFit' /\ RoundsFit' /\ LaterListed'
  BY <1>5 DEF AsyncInv, NothingLostOrRepeated, EachCallOnce, ListsFit, RoundsFit, LaterListed, Ids
<1>7. NoMemoryTwice'
  <2>1. NoMemoryTwice
    BY DEF AsyncInv, NothingLostOrRepeated
  <2>2. \A c \in Open : c.node # p.node
    BY <2>1 DEF NoMemoryTwice, InUse
  <2>3. \A u \in Preparing : u # t => push[u].node # p.node
    BY <2>1 DEF NoMemoryTwice, InUse
  <2> QED BY <1>1, <1>3, <1>5, <2>1, <2>2, <2>3 DEF NoMemoryTwice
<1>8. CountFits'
  <2>1. Pushing("count")' = Pushing("count")
    BY <1>1 DEF Pushing
  <2> QED BY <2>1 DEF AsyncInv, CountFits
<1> QED BY <1>2, <1>4, <1>5, <1>6, <1>7, <1>8 DEF AsyncInv, NothingLostOrRepeated

LEMMA CallBeginStep ==
    ASSUME AsyncInv, NEW t \in Caller, NEW i \in Npp, CallBegin(t, i)
    PROVE  AsyncInv'
<1>1. PICK n \in Node \ InUse : push' = [push EXCEPT ![t] = Push("read", i, n, NoNode)]
  BY DEF CallBegin
<1>2. push[t] = NotPushing /\ i \in instances /\ UNCHANGED <<instances, list, pending, rounds, history>>
  BY DEF CallBegin
<1> DEFINE p == Push("read", i, n, NoNode)
<1>3. p \in Doings
  BY PushTyped
<1>4. p.pc = "read" /\ p.instance = i /\ p.node = n /\ push[t].pc = "none"
  BY <1>2, PushOf DEF NotPushing
<1>5. t \notin Preparing
  BY <1>4 DEF Preparing, Pushing
<1> HIDE DEF p
<1>6. push' = [push EXCEPT ![t] = p]
  BY <1>1 DEF p
<1> QED BY <1>2, <1>3, <1>4, <1>5, <1>6, PreparingStep

LEMMA CallReadStep ==
    ASSUME AsyncInv, NEW t \in Caller, CallRead(t)
    PROVE  AsyncInv'
<1> DEFINE i == push[t].instance
           p == Push("swap", i, push[t].node, HeadNode(i))
<1>1. /\ push[t].pc = "read" /\ push' = [push EXCEPT ![t] = p]
      /\ UNCHANGED <<instances, list, pending, rounds, history>>
  BY DEF CallRead
<1>2. t \in Preparing
  BY <1>1 DEF Preparing, Pushing
<1>3. i \in instances /\ push[t].node \in Node /\ i \in Npp
  BY <1>1, <1>2 DEF AsyncInv, PushFits, AsyncTyped
<1> HIDE DEF i
<1>4. p \in Doings
  BY <1>3, HeadIsNode, PushTyped DEF AsyncInv
<1>5. p.pc = "swap" /\ p.instance = i /\ p.node = push[t].node
  BY PushOf
<1> HIDE DEF p
<1> QED BY <1>1, <1>2, <1>3, <1>4, <1>5, PreparingStep

\* The call is accepted: it is in the list, and it is the newest.
LEMMA AcceptStep ==
    ASSUME AsyncInv, NEW t \in Caller, push[t].pc = "swap",
           Accept(t, push[t].instance, list[push[t].instance])
    PROVE  AsyncInv'
<1> DEFINE i == push[t].instance
           n == history.accepted + 1
           c == Callback(push[t].node, n, i)
           p == Push("count", i, NoNode, NoNode)
<1>1. /\ list' = [list EXCEPT ![i] = <<c>> \o list[i]]
      /\ history' = [history EXCEPT !.accepted = @ + 1]
      /\ push' = [push EXCEPT ![t] = p]
      /\ UNCHANGED <<instances, pending, rounds>>
  BY DEF Accept
<1>2. t \in Preparing
  BY DEF Preparing, Pushing
<1>3. i \in instances /\ i \in Npp /\ push[t].node \in Node /\ history.accepted \in Nat
  BY <1>2 DEF AsyncInv, PushFits, AsyncTyped
<1>4. c \in Made /\ c.id = n /\ c.instance = i /\ c.node = push[t].node
  BY <1>3 DEF Made, Callback
<1>5. p \in Doings /\ p.pc = "count" /\ p.instance = i
  <2>1. p \in Doings
    BY <1>3, PushTyped
  <2>2. p.pc = "count" /\ p.instance = i
    BY PushOf
  <2> QED BY <2>1, <2>2
<1> HIDE DEF c, p
<1>6. /\ history' \in [accepted : Nat, done : SUBSET Nat, dropped : SUBSET Nat]
      /\ history'.accepted = n /\ history'.done = history.done /\ history'.dropped = history.dropped
  <2>1. history \in [accepted : Nat, done : SUBSET Nat, dropped : SUBSET Nat]
    BY DEF AsyncInv, AsyncTyped
  <2>2. history' = [history EXCEPT !.accepted = n] /\ n \in Nat
    BY <1>1, <1>3
  <2> HIDE DEF n
  <2> QED BY <2>1, <2>2
<1>7. /\ push' \in [Caller -> Doings] /\ push'[t] = p
      /\ \A u \in Caller : u # t => push'[u] = push[u]
  BY <1>1, <1>5, PushChanges DEF AsyncInv
<1>8. \A d \in Open : d.id \in 1 .. history.accepted /\ d.id < n
  <2>1. \A d \in Open : d.id \in 1 .. history.accepted
    BY DEF AsyncInv, NothingLostOrRepeated, EachCallOnce, Ids
  <2> QED BY <1>3, <2>1
<1>9. /\ <<c>> \o list[i] \in Seq(Made) /\ list[i] \in Seq(Made)
      /\ ToSet(<<c>> \o list[i]) = {c} \cup ToSet(list[i])
      /\ Descending(<<c>> \o list[i])
  <2>1. list[i] \in Seq(Made)
    BY <1>3 DEF AsyncInv, AsyncTyped
  <2>2. Descending(list[i])
    BY <1>3 DEF AsyncInv, NothingLostOrRepeated, ListsFit
  <2>3. \A d \in ToSet(list[i]) : d.id < c.id
    <3>1. ToSet(list[i]) \subseteq Open
      BY <1>3 DEF Listed, Open
    <3> QED BY <1>4, <1>8, <3>1
  <2> QED BY <1>4, <2>1, <2>2, <2>3, PushedFirst
<1> HIDE DEF n, i
<1>10. /\ list' \in [Npp -> Seq(Made)] /\ list'[i] = <<c>> \o list[i]
       /\ \A j \in Npp : j # i => list'[j] = list[j]
       /\ Listed' = Listed \cup {c}
  <2> DEFINE q == <<c>> \o list[i]
  <2> HIDE DEF q
  <2>1. q \in Seq(Made) /\ list' = [list EXCEPT ![i] = q] /\ ToSet(q) = {c} \cup ToSet(list[i])
    BY <1>1, <1>9 DEF q
  <2>2. /\ list' \in [Npp -> Seq(Made)] /\ list'[i] = q
        /\ \A j \in Npp : j # i => list'[j] = list[j]
        /\ Listed' = (Listed \ ToSet(list[i])) \cup ToSet(q)
    BY <1>3, <2>1, ListChanges DEF AsyncInv, NothingLostOrRepeated
  <2>3. ToSet(list[i]) \subseteq Listed
    BY <1>3 DEF Listed
  <2> QED BY <2>1, <2>2, <2>3 DEF q
<1>11. AsyncTyped'
  BY <1>1, <1>6, <1>7, <1>10 DEF AsyncInv, AsyncTyped
<1>12. Preparing' = Preparing \ {t} /\ Pushing("count")' = Pushing("count") \cup {t}
       /\ t \notin Pushing("count")
  BY <1>5, <1>7 DEF Preparing, Pushing
<1>13. PushFits'
  BY <1>1, <1>3, <1>5, <1>7, <1>12 DEF AsyncInv, PushFits
<1>14. QueueFits' /\ RoundsFit' /\ Taken' = Taken /\ Open' = Open \cup {c}
  BY <1>1, <1>10, ZenonT(60) DEF AsyncInv, NothingLostOrRepeated, QueueFits, RoundsFit, Taken, Open
<1>15. EachCallOnce'
  <2>1. Ids(Open') = Ids(Open) \cup {n}
    BY <1>4, <1>14 DEF Ids
  <2>2. 1 .. history'.accepted = (1 .. history.accepted) \cup {n} /\ n \notin 1 .. history.accepted
    BY <1>3, <1>6 DEF n
  <2>3. EachCallOnce
    BY DEF AsyncInv, NothingLostOrRepeated
  <2> QED BY <1>6, <2>1, <2>2, <2>3 DEF EachCallOnce
<1>16. NoMemoryTwice'
  <2>1. NoMemoryTwice
    BY DEF AsyncInv, NothingLostOrRepeated
  <2>2. \A d \in Open : d.id # c.id /\ d.node # c.node
    <3>1. \A d \in Open : d.node # c.node
      BY <1>2, <1>4, <2>1 DEF NoMemoryTwice
    <3>2. \A d \in Open : d.id # c.id
      <4>1. c.id = history.accepted + 1
        BY <1>4 DEF n
      <4> QED BY <1>3, <1>8, <4>1
    <3> QED BY <3>1, <3>2
  <2>3. \A u \in Preparing : u # t => push[u].node # c.node
    BY <1>2, <1>4, <2>1 DEF NoMemoryTwice
  <2>4. \A u \in Preparing : u # t => push'[u].node = push[u].node
    BY <1>7 DEF Preparing, Pushing
  <2> QED BY <1>12, <1>14, <2>1, <2>2, <2>3, <2>4 DEF NoMemoryTwice
<1>17. ListsFit'
  <2>1. ListsFit
    BY DEF AsyncInv, NothingLostOrRepeated
  <2> QED BY <1>1, <1>3, <1>4, <1>9, <1>10, <2>1 DEF ListsFit
<1>18. LaterListed'
  <2>1. \A d \in Taken : c.id > d.id
    <3>1. c.id = history.accepted + 1 /\ Taken \subseteq Open
      BY <1>4 DEF n, Open
    <3> QED BY <1>3, <1>8, <3>1
  <2>2. LaterListed
    BY DEF AsyncInv, NothingLostOrRepeated
  <2> QED BY <1>10, <1>14, <2>1, <2>2 DEF LaterListed
<1>19. CountFits'
  <2>1. Cardinality(Pushing("count")') = Cardinality(Pushing("count")) + 1
        /\ Cardinality(Pushing("count")) \in Nat
    BY <1>12, Countable, FS_AddElement
  <2>2. history'.accepted = history.accepted + 1
    BY <1>6 DEF n
  <2>3. CountFits /\ pending \in Int /\ Cardinality(history.done) \in Nat /\ RunSoFar(rounds) \in Int
    <3>1. RunSoFar(rounds) \in Nat
      BY RunSoFarTyped DEF AsyncInv, AsyncTyped
    <3> QED BY <3>1, Countable DEF AsyncInv, AsyncTyped
  <2>4. RunSoFar(rounds') = RunSoFar(rounds) /\ pending' = pending
    BY <1>1
  <2> HIDE DEF n
  <2> QED BY <1>3, <1>6, <2>1, <2>2, <2>3, <2>4 DEF CountFits
<1> QED BY <1>11, <1>13, <1>14, <1>15, <1>16, <1>17, <1>18, <1>19 DEF AsyncInv, NothingLostOrRepeated

LEMMA CallSwapStep ==
    ASSUME AsyncInv, NEW t \in Caller, CallSwap(t)
    PROVE  AsyncInv'
<1> DEFINE i == push[t].instance
           p == Push("read", i, push[t].node, NoNode)
<1>1. push[t].pc = "swap"
  BY DEF CallSwap
<1>2. CASE HeadNode(i) = push[t].next
  <2>1. Accept(t, i, list[i])
    BY <1>2 DEF CallSwap
  <2> QED BY <1>1, <2>1, AcceptStep
<1>3. CASE HeadNode(i) # push[t].next
  <2>1. push' = [push EXCEPT ![t] = p] /\ UNCHANGED <<instances, list, pending, rounds, history>>
    BY <1>3 DEF CallSwap
  <2>2. t \in Preparing
    BY <1>1 DEF Preparing, Pushing
  <2>3. i \in instances /\ push[t].node \in Node /\ i \in Npp
    BY <1>1, <2>2 DEF AsyncInv, PushFits, AsyncTyped
  <2> HIDE DEF i
  <2>4. p \in Doings
    BY <2>3, PushTyped
  <2>5. p.pc = "read" /\ p.instance = i /\ p.node = push[t].node
    BY PushOf
  <2> HIDE DEF p
  <2> QED BY <1>1, <2>1, <2>2, <2>3, <2>4, <2>5, PreparingStep
<1> QED BY <1>2, <1>3

\* The call is counted, maybe after it has been run.
LEMMA CallCountStep ==
    ASSUME AsyncInv, NEW t \in Caller, CallCount(t)
    PROVE  AsyncInv'
<1>1. /\ push[t].pc = "count" /\ pending' = pending + 1 /\ push' = [push EXCEPT ![t] = NotPushing]
      /\ UNCHANGED <<instances, list, rounds, history>>
  BY DEF CallCount
<1>2. NotPushing \in Doings
  BY PushTyped DEF NotPushing
<1>3. NotPushing.pc = "none"
  BY PushOf DEF NotPushing
<1>4. /\ push' \in [Caller -> Doings] /\ push'[t] = NotPushing
      /\ \A u \in Caller : u # t => push'[u] = push[u]
  BY <1>1, <1>2, PushChanges DEF AsyncInv
<1>5. AsyncTyped'
  BY <1>1, <1>4 DEF AsyncInv, AsyncTyped
<1>6. Preparing' = Preparing /\ Pushing("count")' = Pushing("count") \ {t} /\ t \in Pushing("count")
  BY <1>1, <1>3, <1>4 DEF Preparing, Pushing
<1>7. \A u \in Preparing : u # t
  BY <1>1 DEF Preparing, Pushing
<1>8. PushFits'
  BY <1>1, <1>3, <1>4, <1>6, <1>7 DEF AsyncInv, PushFits
<1>9. QueueFits' /\ Listed' = Listed /\ Taken' = Taken /\ Open' = Open
  BY <1>1 DEF AsyncInv, QueueFits, Listed, Taken, Open
<1>10. EachCallOnce' /\ ListsFit' /\ RoundsFit' /\ LaterListed'
  BY <1>1, <1>9 DEF AsyncInv, NothingLostOrRepeated, EachCallOnce, ListsFit, RoundsFit, LaterListed, Ids
<1>11. NoMemoryTwice'
  <2>1. \A u \in Preparing : u \in Caller
    BY DEF Preparing, Pushing
  <2>2. \A u \in Preparing : push'[u].node = push[u].node
    BY <1>4, <1>7, <2>1
  <2>3. NoMemoryTwice
    BY DEF AsyncInv, NothingLostOrRepeated
  <2> QED BY <1>6, <1>9, <2>2, <2>3 DEF NoMemoryTwice
<1>12. CountFits'
  <2>1. Cardinality(Pushing("count")') = Cardinality(Pushing("count")) - 1
        /\ Cardinality(Pushing("count")) \in Nat
    BY <1>6, Countable, FS_RemoveElement
  <2>2. RunSoFar(rounds) \in Nat
    BY RunSoFarTyped DEF AsyncInv, AsyncTyped
  <2>3. pending \in Int /\ Cardinality(history.done) \in Nat /\ history.accepted \in Nat /\ CountFits
    BY Countable DEF AsyncInv, AsyncTyped
  <2>4. RunSoFar(rounds') = RunSoFar(rounds) /\ history' = history
    BY <1>1
  <2> QED BY <1>1, <2>1, <2>2, <2>3, <2>4 DEF CountFits
<1> QED BY <1>5, <1>8, <1>9, <1>10, <1>11, <1>12 DEF AsyncInv, NothingLostOrRepeated

-----------------------------------------------------------------------------
(***************************************************************************)
(* PROCESS_WINDOW_EVENTS.                                                  *)
(***************************************************************************)
\* Calls that do not move.
LEMMA NothingMoves ==
    ASSUME AsyncInv, Listed' = Listed, Taken' = Taken, UNCHANGED <<push, history>>
    PROVE  EachCallOnce' /\ NoMemoryTwice' /\ LaterListed'
<1>1. Open' = Open /\ Preparing' = Preparing
  BY DEF Open, Preparing, Pushing
<1>2. EachCallOnce /\ NoMemoryTwice /\ LaterListed
  BY DEF AsyncInv, NothingLostOrRepeated
<1>3. EachCallOnce'
  BY <1>1, <1>2 DEF EachCallOnce, Ids
<1>4. NoMemoryTwice'
  BY <1>1, <1>2 DEF NoMemoryTwice
<1>5. LaterListed'
  BY <1>2 DEF LaterListed
<1> QED BY <1>3, <1>4, <1>5

\* No call is in a list and in a round.
LEMMA ListedOrTaken ==
    ASSUME AsyncInv
    PROVE  Listed \cap Taken = {}
<1>1. \A c \in Listed : c.id \in Nat
  BY OpenAreMade DEF AsyncInv, Made
<1>2. \A c \in Listed, d \in Taken : c.instance = d.instance => c.id > d.id
  BY DEF AsyncInv, NothingLostOrRepeated, LaterListed
<1> SUFFICES ASSUME NEW c \in Listed, c \in Taken PROVE FALSE
  OBVIOUS
<1>3. c.id > c.id /\ c.id \in Nat
  BY <1>1, <1>2
<1> QED BY <1>3

LEMMA EventsBeginStep ==
    ASSUME AsyncInv, EventsBegin
    PROVE  AsyncInv'
<1>1. /\ rounds' = Append(rounds, Round("next", 0, <<>>, 0))
      /\ UNCHANGED <<instances, list, pending, push, history>>
  BY DEF EventsBegin
<1>2. rounds' \in Seq(Going) /\ QueueFits' /\ RoundsFit' /\ Taken' = Taken /\ RunSoFar(rounds') = RunSoFar(rounds)
  BY <1>1, InnerBegins DEF AsyncInv, NothingLostOrRepeated
<1>3. Listed' = Listed /\ ListsFit'
  BY <1>1 DEF AsyncInv, NothingLostOrRepeated, Listed, ListsFit
<1>4. EachCallOnce' /\ NoMemoryTwice' /\ LaterListed'
  BY <1>1, <1>2, <1>3, NothingMoves
<1>5. AsyncTyped' /\ PushFits'
  BY <1>1, <1>2 DEF AsyncInv, AsyncTyped, PushFits, Preparing, Pushing
<1>6. CountFits'
  BY <1>1, <1>2 DEF AsyncInv, CountFits, Pushing
<1> QED BY <1>2, <1>3, <1>4, <1>5, <1>6 DEF AsyncInv, NothingLostOrRepeated

\* A whole list is taken.
LEMMA TakeStep ==
    ASSUME AsyncInv, At("next"), Later # {}, TakeFrom(Min(Later), Reverse(list[Min(Later)]))
    PROVE  AsyncInv'
<1> DEFINE i == Min(Later)
           q == Reverse(list[i])
           e == Round("run", i, q, Inner.count)
<1>1. /\ list' = [list EXCEPT ![i] = <<>>] /\ SetInner(e)
      /\ UNCHANGED <<instances, pending, push, history>>
  BY DEF TakeFrom
<1>2. i \in instances /\ i \in Npp
  <2>1. Later \in SUBSET Nat
    BY NppAssumption DEF Later, AsyncInv, AsyncTyped
  <2>2. i \in Later
    BY <2>1, MinIsMember
  <2> QED BY <2>2 DEF Later, AsyncInv, AsyncTyped
<1> HIDE DEF i
<1>3. list[i] \in Seq(Made) /\ Descending(list[i])
  BY <1>2 DEF AsyncInv, AsyncTyped, NothingLostOrRepeated, ListsFit
<1>4. q \in Seq(Made) /\ ToSet(q) = ToSet(list[i]) /\ Ascending(q)
  BY <1>3, Reversed
<1>5. /\ rounds # <<>> /\ Inner.pc = "next" /\ Inner \in Going /\ Len(rounds) \in DOMAIN rounds
      /\ Inner = rounds[Len(rounds)] /\ Taken = Outer \cup ToSet(Inner.queue)
  BY InnerIs DEF At, AsyncInv, NothingLostOrRepeated
<1>6. Inner.queue = <<>> /\ Taken = Outer
  <2>1. Inner.queue = <<>>
    BY <1>5 DEF AsyncInv, QueueFits
  <2> QED BY <1>5, <2>1, SetOfNone
<1> HIDE DEF q
<1>7. e \in Going /\ e.queue = q /\ e.count = Inner.count /\ e.pc = "run"
  BY <1>2, <1>4, <1>5 DEF Going, Round
<1> HIDE DEF e
<1>8. ToSet(list[i]) \subseteq Listed /\ ToSet(q) \cap Outer = {}
  <2>1. ToSet(list[i]) \subseteq Listed
    BY <1>2 DEF Listed
  <2> QED BY <1>4, <1>6, <2>1, ListedOrTaken
<1>9. /\ rounds' \in Seq(Going) /\ QueueFits' /\ RoundsFit'
      /\ Taken' = Taken \cup ToSet(list[i])
      /\ RunSoFar(rounds') = RunSoFar(rounds) - Inner.count + Inner.count
  <2>1. AsyncTyped /\ QueueFits /\ RoundsFit
    BY DEF AsyncInv, NothingLostOrRepeated
  <2>2. Ascending(e.queue) /\ ToSet(e.queue) \cap Outer = {} /\ e.pc # "next" /\ e.pc # "running"
    BY <1>4, <1>7, <1>8
  <2>3. /\ rounds' \in Seq(Going) /\ QueueFits' /\ RoundsFit'
        /\ Taken' = Outer \cup ToSet(e.queue)
        /\ RunSoFar(rounds') = RunSoFar(rounds) - Inner.count + e.count
    BY <1>1, <1>5, <1>7, <2>1, <2>2, InnerChanges
  <2> QED BY <1>4, <1>6, <1>7, <2>3
<1>10. /\ list' \in [Npp -> Seq(Made)] /\ list'[i] = <<>>
       /\ \A j \in Npp : j # i => list'[j] = list[j]
       /\ Listed' = Listed \ ToSet(list[i])
  <2>1. <<>> \in Seq(Made)
    OBVIOUS
  <2>2. /\ list' \in [Npp -> Seq(Made)] /\ list'[i] = <<>>
        /\ \A j \in Npp : j # i => list'[j] = list[j]
        /\ Listed' = (Listed \ ToSet(list[i])) \cup ToSet(<<>>)
    BY <1>1, <1>2, <2>1, ListChanges DEF AsyncInv, NothingLostOrRepeated
  <2> QED BY <2>2, SetOfNone
<1>11. Open' = Open /\ Preparing' = Preparing
  BY <1>1, <1>8, <1>9, <1>10 DEF Open, Preparing, Pushing
<1>12. AsyncTyped' /\ PushFits'
  BY <1>1, <1>9, <1>10, <1>11 DEF AsyncInv, AsyncTyped, PushFits
<1>13. EachCallOnce' /\ NoMemoryTwice'
  BY <1>1, <1>11 DEF AsyncInv, NothingLostOrRepeated, EachCallOnce, NoMemoryTwice, Ids
<1>14. ListsFit'
  <2>1. ListsFit
    BY DEF AsyncInv, NothingLostOrRepeated
  <2>2. ToSet(<<>>) = {} /\ Descending(<<>>)
    <3>1. DOMAIN <<>> = {}
      OBVIOUS
    <3> QED BY <3>1, SetOfNone DEF Descending
  <2> QED BY <1>1, <1>10, <2>1, <2>2 DEF ListsFit
<1>15. LaterListed'
  <2>1. LaterListed /\ ListsFit
    BY DEF AsyncInv, NothingLostOrRepeated
  <2>2. \A c \in Listed' : c.instance # i
    <3>1. \A c \in Listed' : \E j \in Npp : c \in ToSet(list'[j])
      BY DEF Listed
    <3>2. \A c : c \notin ToSet(list'[i])
      BY <1>10, SetOfNone
    <3>3. \A c \in Listed' : \E j \in Npp : j # i /\ c \in ToSet(list[j])
      BY <1>10, <3>1, <3>2
    <3> QED BY <2>1, <3>3 DEF ListsFit
  <2>3. \A d \in ToSet(list[i]) : d.instance = i
    BY <1>2, <2>1 DEF ListsFit
  <2> QED BY <1>9, <1>10, <2>1, <2>2, <2>3 DEF LaterListed
<1>16. CountFits'
  <2>1. RunSoFar(rounds) \in Nat /\ Inner.count \in Nat
    BY <1>5, RunSoFarTyped DEF AsyncInv, AsyncTyped, Going
  <2>2. RunSoFar(rounds') = RunSoFar(rounds)
    BY <1>9, <2>1
  <2> QED BY <1>1, <2>2 DEF AsyncInv, CountFits, Pushing
<1> QED BY <1>9, <1>12, <1>13, <1>14, <1>15, <1>16 DEF AsyncInv, NothingLostOrRepeated

\* The round is over: what it has run is subtracted.
LEMMA RoundEndStep ==
    ASSUME AsyncInv, At("next"), RoundEnd(pending - Inner.count)
    PROVE  AsyncInv'
<1>1. /\ pending' = pending - Inner.count /\ rounds' = Front(rounds)
      /\ UNCHANGED <<instances, list, push, history>>
  BY DEF RoundEnd
<1>2. AsyncTyped /\ QueueFits /\ RoundsFit /\ ListsFit /\ PushFits /\ CountFits
  BY DEF AsyncInv, NothingLostOrRepeated
<1>3. /\ rounds' \in Seq(Going) /\ QueueFits' /\ RoundsFit' /\ Taken' = Taken
      /\ RunSoFar(rounds) = RunSoFar(rounds') + Inner.count
  BY <1>1, <1>2, InnerEnds
<1>4. Inner.count \in Nat
  <2>1. Inner \in Going
    BY <1>2, InnerIs DEF At
  <2> QED BY <2>1 DEF Going
<1>5. Listed' = Listed /\ ListsFit'
  BY <1>1, <1>2 DEF Listed, ListsFit
<1>6. EachCallOnce' /\ NoMemoryTwice' /\ LaterListed'
  BY <1>1, <1>3, <1>5, NothingMoves
<1>7. AsyncTyped' /\ PushFits'
  <2>1. pending' \in Int
    BY <1>1, <1>2, <1>4 DEF AsyncTyped
  <2> QED BY <1>1, <1>2, <1>3, <2>1 DEF AsyncTyped, PushFits, Preparing, Pushing
<1>8. CountFits'
  <2>1. RunSoFar(rounds') \in Nat
    BY <1>3, RunSoFarTyped
  <2>2. Cardinality(Pushing("count")) \in Nat /\ Cardinality(history.done) \in Nat
        /\ history.accepted \in Nat /\ pending \in Int
    BY <1>2, Countable DEF AsyncTyped
  <2>3. Pushing("count")' = Pushing("count") /\ history' = history
    BY <1>1 DEF Pushing
  <2>4. pending + Cardinality(Pushing("count"))
            = history.accepted - Cardinality(history.done) + RunSoFar(rounds)
    BY <1>2 DEF CountFits
  <2>5. pending' + Cardinality(Pushing("count"))
            = history.accepted - Cardinality(history.done) + RunSoFar(rounds')
    <3>1. pending' = pending - Inner.count
      BY <1>1
    <3>2. RunSoFar(rounds) = RunSoFar(rounds') + Inner.count
      BY <1>3
    <3> QED BY <1>4, <2>1, <2>2, <2>4, <3>1, <3>2
  <2> QED BY <2>3, <2>5 DEF CountFits
<1> QED BY <1>3, <1>5, <1>6, <1>7, <1>8 DEF AsyncInv, NothingLostOrRepeated

LEMMA EventsTakeStep ==
    ASSUME AsyncInv, EventsTake
    PROVE  AsyncInv'
<1>1. CASE Later = {}
  <2>1. At("next") /\ RoundEnd(pending - Inner.count)
    BY <1>1 DEF EventsTake
  <2> QED BY <2>1, RoundEndStep
<1>2. CASE Later # {}
  <2>1. At("next") /\ TakeFrom(Min(Later), Reverse(list[Min(Later)]))
    BY <1>2 DEF EventsTake
  <2> QED BY <1>2, <2>1, TakeStep
<1> QED BY <1>1, <1>2

LEMMA CallbackBeginStep ==
    ASSUME AsyncInv, CallbackBegin
    PROVE  AsyncInv'
<1> DEFINE pc == IF Inner.queue = <<>> THEN "next" ELSE "running"
           e == Round(pc, Inner.at, Inner.queue, Inner.count)
<1>1. rounds # <<>> /\ SetInner(e) /\ UNCHANGED <<instances, list, pending, push, history>>
  BY DEF CallbackBegin, At
<1>2. AsyncTyped /\ QueueFits /\ RoundsFit /\ ListsFit /\ PushFits
  BY DEF AsyncInv, NothingLostOrRepeated
<1>3. /\ Inner \in Going /\ Ascending(Inner.queue)
      /\ Taken = Outer \cup ToSet(Inner.queue) /\ Outer \cap ToSet(Inner.queue) = {}
  BY <1>1, <1>2, InnerIs
<1>4. e \in Going /\ e.queue = Inner.queue /\ e.count = Inner.count /\ e.pc = pc
  BY <1>3 DEF Going, Round
<1> HIDE DEF e
<1>5. /\ rounds' \in Seq(Going) /\ QueueFits' /\ RoundsFit'
      /\ Taken' = Outer \cup ToSet(e.queue)
      /\ RunSoFar(rounds') = RunSoFar(rounds) - Inner.count + e.count
  <2>1. Ascending(e.queue) /\ ToSet(e.queue) \cap Outer = {}
    BY <1>3, <1>4
  <2>2. (e.pc = "next" => e.queue = <<>>) /\ (e.pc = "running" => e.queue # <<>>)
    BY <1>4
  <2> QED BY <1>1, <1>2, <1>4, <2>1, <2>2, InnerChanges
<1>6. Taken' = Taken
  BY <1>3, <1>4, <1>5
<1>7. RunSoFar(rounds') = RunSoFar(rounds)
  <2>1. RunSoFar(rounds) \in Nat /\ Inner.count \in Nat
    BY <1>2, <1>3, RunSoFarTyped DEF AsyncTyped, Going
  <2> QED BY <1>4, <1>5, <2>1
<1>8. Listed' = Listed /\ ListsFit'
  BY <1>1, <1>2 DEF Listed, ListsFit
<1>9. EachCallOnce' /\ NoMemoryTwice' /\ LaterListed'
  BY <1>1, <1>6, <1>8, NothingMoves
<1>10. AsyncTyped' /\ PushFits'
  BY <1>1, <1>2, <1>5 DEF AsyncTyped, PushFits, Preparing, Pushing
<1>11. CountFits'
  BY <1>1, <1>7 DEF AsyncInv, CountFits, Pushing
<1> QED BY <1>5, <1>8, <1>9, <1>10, <1>11 DEF AsyncInv, NothingLostOrRepeated

\* A call has been run: it is in no list, no round will run it again, and no
\* call was done before under its number.
LEMMA CallbackEndStep ==
    ASSUME AsyncInv, CallbackEnd
    PROVE  AsyncInv'
<1> DEFINE h == Head(Inner.queue)
           e == Round("run", Inner.at, Tail(Inner.queue), Inner.count + 1)
<1>1. /\ rounds # <<>> /\ Inner.pc = "running" /\ SetInner(e)
      /\ history' = [history EXCEPT !.done = @ \cup {h.id}]
      /\ UNCHANGED <<instances, list, pending, push>>
  BY DEF CallbackEnd, At
<1>2. /\ AsyncTyped /\ QueueFits /\ RoundsFit /\ ListsFit /\ PushFits /\ CountFits
      /\ EachCallOnce /\ NoMemoryTwice /\ LaterListed
  BY DEF AsyncInv, NothingLostOrRepeated
<1>3. /\ Inner \in Going /\ Inner.queue \in Seq(Made) /\ Ascending(Inner.queue)
      /\ Len(rounds) \in DOMAIN rounds /\ Inner = rounds[Len(rounds)]
      /\ Taken = Outer \cup ToSet(Inner.queue) /\ Outer \cap ToSet(Inner.queue) = {}
  BY <1>1, <1>2, InnerIs
<1>4. Inner.queue # <<>>
  BY <1>1, <1>2, <1>3 DEF QueueFits
<1>5. /\ h \in Made /\ h \in ToSet(Inner.queue)
      /\ Tail(Inner.queue) \in Seq(Made) /\ Ascending(Tail(Inner.queue))
      /\ ToSet(Tail(Inner.queue)) = ToSet(Inner.queue) \ {h}
  BY <1>3, <1>4, FirstRun
<1> HIDE DEF h
<1>6. e \in Going /\ e.queue = Tail(Inner.queue) /\ e.count = Inner.count + 1 /\ e.pc = "run"
  BY <1>3, <1>5 DEF Going, Round
<1> HIDE DEF e
<1>7. /\ rounds' \in Seq(Going) /\ QueueFits' /\ RoundsFit'
      /\ Taken' = Taken \ {h}
      /\ RunSoFar(rounds') = RunSoFar(rounds) - Inner.count + e.count
  <2>1. Ascending(e.queue) /\ ToSet(e.queue) \cap Outer = {} /\ e.pc # "next" /\ e.pc # "running"
    BY <1>3, <1>5, <1>6
  <2>2. /\ rounds' \in Seq(Going) /\ QueueFits' /\ RoundsFit'
        /\ Taken' = Outer \cup ToSet(e.queue)
        /\ RunSoFar(rounds') = RunSoFar(rounds) - Inner.count + e.count
    BY <1>1, <1>2, <1>6, <2>1, InnerChanges
  <2> QED BY <1>3, <1>5, <1>6, <2>2
<1>8. h \in Taken /\ h \in Open /\ h \notin Listed
  BY <1>3, <1>5, ListedOrTaken DEF Open
<1>9. Listed' = Listed /\ ListsFit' /\ Preparing' = Preparing /\ Pushing("count")' = Pushing("count")
  BY <1>1, <1>2 DEF Listed, ListsFit, Preparing, Pushing
<1>10. Open' = Open \ {h}
  BY <1>7, <1>8, <1>9 DEF Open
<1>11. /\ history' \in [accepted : Nat, done : SUBSET Nat, dropped : SUBSET Nat]
       /\ history'.accepted = history.accepted /\ history'.done = history.done \cup {h.id}
       /\ history'.dropped = history.dropped
  <2>1. history \in [accepted : Nat, done : SUBSET Nat, dropped : SUBSET Nat]
    BY <1>2 DEF AsyncTyped
  <2>2. h.id \in Nat
    BY <1>5 DEF Made
  <2> QED BY <1>1, <2>1, <2>2
<1>12. AsyncTyped' /\ PushFits'
  BY <1>1, <1>2, <1>7, <1>9, <1>11 DEF AsyncTyped, PushFits
<1>13. Ids(Open') = Ids(Open) \ {h.id} /\ h.id \in Ids(Open)
  <2>1. \A c \in Open : c.id = h.id => c = h
    BY <1>2, <1>8 DEF NoMemoryTwice
  <2> QED BY <1>8, <1>10, <2>1 DEF Ids
<1>14. EachCallOnce'
  BY <1>2, <1>11, <1>13 DEF EachCallOnce
<1>15. NoMemoryTwice'
  BY <1>1, <1>2, <1>9, <1>10 DEF NoMemoryTwice
<1>16. LaterListed'
  BY <1>2, <1>7, <1>9 DEF LaterListed
<1>17. CountFits'
  <2>1. h.id \notin history.done
    BY <1>2, <1>13 DEF EachCallOnce
  <2>2. Cardinality(history'.done) = Cardinality(history.done) + 1
    BY <1>11, <2>1, Countable, FS_AddElement
  <2>3. RunSoFar(rounds) \in Nat /\ Inner.count \in Nat
    BY <1>2, <1>3, RunSoFarTyped DEF AsyncTyped, Going
  <2>4. RunSoFar(rounds') = RunSoFar(rounds) + 1
    BY <1>6, <1>7, <2>3
  <2>5. Cardinality(Pushing("count")) \in Nat /\ Cardinality(history.done) \in Nat
        /\ history.accepted \in Nat /\ pending \in Int
    BY <1>2, Countable DEF AsyncTyped
  <2>6. pending + Cardinality(Pushing("count"))
            = history.accepted - Cardinality(history.done) + RunSoFar(rounds)
    BY <1>2 DEF CountFits
  <2>7. pending + Cardinality(Pushing("count"))
            = history.accepted - Cardinality(history'.done) + RunSoFar(rounds')
    BY <2>2, <2>3, <2>4, <2>5, <2>6
  <2> QED BY <1>1, <1>9, <1>11, <2>7 DEF CountFits
<1> QED BY <1>7, <1>9, <1>12, <1>14, <1>15, <1>16, <1>17 DEF AsyncInv, NothingLostOrRepeated

-----------------------------------------------------------------------------
(***************************************************************************)
(* NPP_New and NPP_Destroy.                                                *)
(***************************************************************************)
LEMMA NppNewStep ==
    ASSUME AsyncInv, NEW i \in Npp, NppNew(i)
    PROVE  AsyncInv'
<1>1. instances' = instances \cup {i} /\ UNCHANGED <<list, pending, push, rounds, history>>
  BY DEF NppNew
<1>2. Listed' = Listed /\ Taken' = Taken /\ QueueFits' /\ RoundsFit'
  BY <1>1 DEF AsyncInv, NothingLostOrRepeated, Listed, Taken, QueueFits, RoundsFit
<1>3. EachCallOnce' /\ NoMemoryTwice' /\ LaterListed'
  BY <1>1, <1>2, NothingMoves
<1>4. ListsFit'
  BY <1>1 DEF AsyncInv, NothingLostOrRepeated, ListsFit
<1>5. AsyncTyped' /\ PushFits'
  BY <1>1 DEF AsyncInv, AsyncTyped, PushFits, Preparing, Pushing
<1>6. CountFits'
  BY <1>1 DEF AsyncInv, CountFits, Pushing
<1> QED BY <1>2, <1>3, <1>4, <1>5, <1>6 DEF AsyncInv, NothingLostOrRepeated

LEMMA NppDestroyStep ==
    ASSUME AsyncInv, NEW i \in Npp, NppDestroy(i)
    PROVE  AsyncInv'
<1> DEFINE D == ToSet(list[i])
<1>1. /\ \A t \in Caller : push[t] # NotPushing => push[t].instance # i
      /\ instances' = instances \ {i} /\ list' = [list EXCEPT ![i] = <<>>]
      /\ history' = [history EXCEPT !.dropped = @ \cup Ids(D)]
      /\ UNCHANGED <<pending, push, rounds>>
  BY DEF NppDestroy, Ids
<1>2. /\ AsyncTyped /\ QueueFits /\ RoundsFit /\ ListsFit /\ PushFits /\ CountFits
      /\ EachCallOnce /\ NoMemoryTwice /\ LaterListed
  BY DEF AsyncInv, NothingLostOrRepeated
<1>3. D \subseteq Listed /\ D \subseteq Open /\ D \subseteq Made /\ D \cap Taken = {}
  <2>1. D \subseteq Listed
    BY DEF Listed
  <2> HIDE DEF D
  <2> QED BY <1>2, <2>1, OpenAreMade, ListedOrTaken DEF Open
<1>4. /\ list' \in [Npp -> Seq(Made)] /\ list'[i] = <<>>
      /\ \A j \in Npp : j # i => list'[j] = list[j]
      /\ Listed' = Listed \ D
  <2>1. <<>> \in Seq(Made)
    OBVIOUS
  <2>2. /\ list' \in [Npp -> Seq(Made)] /\ list'[i] = <<>>
        /\ \A j \in Npp : j # i => list'[j] = list[j]
        /\ Listed' = (Listed \ D) \cup ToSet(<<>>)
    BY <1>1, <1>2, <2>1, ListChanges
  <2> HIDE DEF D
  <2> QED BY <2>2, SetOfNone
<1>5. ListsFit'
  <2>1. ToSet(<<>>) = {} /\ Descending(<<>>)
    <3>1. DOMAIN <<>> = {}
      OBVIOUS
    <3> QED BY <3>1, SetOfNone DEF Descending
  <2> HIDE DEF D
  <2>2. ASSUME NEW j \in Npp
        PROVE  Descending(list'[j]) /\ \A c \in ToSet(list'[j]) : c.instance = j /\ j \in instances'
    <3>1. CASE j = i
      BY <1>4, <2>1, <3>1
    <3>2. CASE j # i
      BY <1>1, <1>2, <1>4, <3>2 DEF ListsFit
    <3> QED BY <3>1, <3>2
  <2> QED BY <2>2 DEF ListsFit
<1> HIDE DEF D
<1>6. QueueFits' /\ RoundsFit' /\ Taken' = Taken /\ Preparing' = Preparing
      /\ Pushing("count")' = Pushing("count")
  BY <1>1, <1>2 DEF QueueFits, RoundsFit, Taken, Preparing, Pushing
<1>7. Open' = Open \ D
  BY <1>3, <1>4, <1>6 DEF Open
<1>8. /\ history' \in [accepted : Nat, done : SUBSET Nat, dropped : SUBSET Nat]
      /\ history'.accepted = history.accepted /\ history'.done = history.done
      /\ history'.dropped = history.dropped \cup Ids(D)
  <2>1. history \in [accepted : Nat, done : SUBSET Nat, dropped : SUBSET Nat]
    BY <1>2 DEF AsyncTyped
  <2>2. Ids(D) \subseteq Nat
    BY <1>3 DEF Made, Ids
  <2> QED BY <1>1, <2>1, <2>2
<1>9. AsyncTyped'
  BY <1>1, <1>2, <1>4, <1>8 DEF AsyncTyped
<1>10. PushFits'
  <2>1. ASSUME NEW t \in Caller, push[t].pc # "none" PROVE push[t].instance \in instances'
    <3>1. push[t] # NotPushing
      BY <2>1, PushOf DEF NotPushing
    <3>2. push[t].instance \in instances
      BY <1>2, <2>1 DEF PushFits
    <3> QED BY <1>1, <3>1, <3>2
  <2> QED BY <1>1, <1>2, <1>6, <2>1 DEF PushFits
<1>11. Ids(Open') = Ids(Open) \ Ids(D) /\ Ids(D) \subseteq Ids(Open)
  <2>1. \A c, d \in Open : c.id = d.id => c = d
    BY <1>2 DEF NoMemoryTwice
  <2> QED BY <1>3, <1>7, <2>1 DEF Ids
<1>12. EachCallOnce'
  BY <1>2, <1>8, <1>11 DEF EachCallOnce
<1>13. NoMemoryTwice'
  BY <1>1, <1>2, <1>6, <1>7 DEF NoMemoryTwice
<1>14. LaterListed'
  BY <1>2, <1>4, <1>6 DEF LaterListed
<1>15. CountFits'
  BY <1>1, <1>2, <1>6, <1>8 DEF CountFits
<1> QED BY <1>5, <1>6, <1>9, <1>10, <1>12, <1>13, <1>14, <1>15 DEF AsyncInv, NothingLostOrRepeated

-----------------------------------------------------------------------------
LEMMA AsyncInitFits ==
    ASSUME AsyncInit
    PROVE  AsyncInv
<1>1. /\ instances = {} /\ list = [i \in Npp |-> <<>>] /\ pending = 0
      /\ push = [t \in Caller |-> NotPushing] /\ rounds = <<>>
      /\ history = [accepted |-> 0, done |-> {}, dropped |-> {}]
  BY DEF AsyncInit
<1>2. AsyncTyped
  <2>1. NotPushing \in Doings
    BY PushTyped DEF NotPushing
  <2>2. <<>> \in Seq(Made) /\ <<>> \in Seq(Going)
    OBVIOUS
  <2> QED BY <1>1, <2>1, <2>2 DEF AsyncTyped
<1>3. \A t \in Caller : push[t].pc = "none"
  BY <1>1, PushOf DEF NotPushing
<1>4. Preparing = {} /\ Pushing("count") = {}
  BY <1>3 DEF Preparing, Pushing
<1>5. DOMAIN rounds = {}
  BY <1>1
<1>6. Listed = {} /\ Taken = {} /\ Open = {}
  BY <1>1, <1>5, SetOfNone DEF Listed, Taken, Open
<1>7. PushFits /\ QueueFits /\ RoundsFit /\ NoMemoryTwice /\ LaterListed
  BY <1>3, <1>4, <1>5, <1>6 DEF PushFits, QueueFits, RoundsFit, NoMemoryTwice, LaterListed
<1>8. ListsFit
  <2>1. DOMAIN <<>> = {}
    OBVIOUS
  <2> QED BY <1>1, <2>1, SetOfNone DEF ListsFit, Descending
<1>9. EachCallOnce
  <2>1. Ids(Open) = {}
    BY <1>6 DEF Ids
  <2>2. history.accepted = 0 /\ history.done = {} /\ history.dropped = {} /\ 1 .. 0 = {}
    BY <1>1
  <2> QED BY <2>1, <2>2 DEF EachCallOnce
<1>10. CountFits
  <2>1. Cardinality(Pushing("count")) = 0 /\ Cardinality(history.done) = 0 /\ RunSoFar(rounds) = 0
    BY <1>1, <1>4, RunSoFarEmpty, FS_EmptySet
  <2> QED BY <1>1, <2>1 DEF CountFits
<1> QED BY <1>2, <1>7, <1>8, <1>9, <1>10 DEF AsyncInv, NothingLostOrRepeated

LEMMA AsyncNextFits ==
    ASSUME AsyncInv, [AsyncNext]_asyncVars
    PROVE  AsyncInv'
<1>1. CASE UNCHANGED asyncVars
  <2>1. UNCHANGED <<instances, list, pending, push, rounds, history>>
    BY <1>1 DEF asyncVars
  <2>2. Listed' = Listed /\ Taken' = Taken /\ QueueFits' /\ RoundsFit' /\ ListsFit'
    BY <2>1 DEF AsyncInv, NothingLostOrRepeated, Listed, Taken, QueueFits, RoundsFit, ListsFit
  <2>3. EachCallOnce' /\ NoMemoryTwice' /\ LaterListed'
    BY <2>1, <2>2, NothingMoves
  <2>4. AsyncTyped' /\ PushFits' /\ CountFits'
    BY <2>1 DEF AsyncInv, AsyncTyped, PushFits, CountFits, Preparing, Pushing
  <2> QED BY <2>2, <2>3, <2>4 DEF AsyncInv, NothingLostOrRepeated
<1>2. ASSUME NEW t \in Caller, PluginThread(t) PROVE AsyncInv'
  BY <1>2, CallReadStep, CallSwapStep, CallCountStep DEF PluginThread
<1>3. ASSUME NEW t \in Caller, NEW i \in Npp, CallBegin(t, i) PROVE AsyncInv'
  BY <1>3, CallBeginStep
<1>4. CASE EventsBegin
  BY <1>4, EventsBeginStep
<1>5. CASE MainThread
  BY <1>5, EventsTakeStep, CallbackBeginStep, CallbackEndStep DEF MainThread
<1>6. ASSUME NEW i \in Npp, NppNew(i) \/ NppDestroy(i) PROVE AsyncInv'
  BY <1>6, NppNewStep, NppDestroyStep
<1> QED BY <1>1, <1>2, <1>3, <1>4, <1>5, <1>6 DEF AsyncNext

LEMMA AsyncAlwaysFits == AsyncSpec => []AsyncInv
<1>1. AsyncInit => AsyncInv
  BY AsyncInitFits
<1>2. AsyncInv /\ [AsyncNext]_asyncVars => AsyncInv'
  BY AsyncNextFits
<1> QED BY <1>1, <1>2, PTL DEF AsyncSpec

\* No call a thread makes is lost, run twice or run out of order, however the
\* pushes of any number of threads and the rounds of the main thread interleave
\* (NPN_PluginThreadAsyncCall and PROCESS_WINDOW_EVENTS).
THEOREM CallsNeverLost == AsyncSpec => []NothingLostOrRepeated
<1>1. AsyncInv => NothingLostOrRepeated
  BY DEF AsyncInv
<1> QED BY <1>1, AsyncAlwaysFits, PTL

\* A call that is numbered is open, dropped or done, and nothing else is.
LEMMA OpenAndDropped ==
    ASSUME AsyncInv
    PROVE  Cardinality(Open) + Cardinality(history.dropped) = history.accepted - Cardinality(history.done)
<1> DEFINE all == 1 .. history.accepted
           f == [c \in Open |-> c.id]
<1>1. /\ history.accepted \in Nat /\ IsFiniteSet(history.done) /\ Cardinality(history.done) \in Nat
      /\ IsFiniteSet(all) /\ Cardinality(all) = history.accepted
  <2>1. history.accepted \in Nat /\ IsFiniteSet(history.done) /\ Cardinality(history.done) \in Nat
    BY Countable
  <2> DEFINE n == history.accepted
  <2> HIDE DEF n
  <2>2. n \in Nat /\ 1 \in Int /\ n \in Int
    BY <2>1 DEF n
  <2>3. IsFiniteSet(1 .. n) /\ Cardinality(1 .. n) = IF 1 > n THEN 0 ELSE n - 1 + 1
    BY <2>2, FS_Interval
  <2>4. IsFiniteSet(1 .. n) /\ Cardinality(1 .. n) = n
    BY <2>2, <2>3
  <2> QED BY <2>1, <2>4 DEF n
<1> HIDE DEF all
<1>2. /\ all = Ids(Open) \cup history.done \cup history.dropped
      /\ Ids(Open) \cap (history.done \cup history.dropped) = {}
      /\ history.done \cap history.dropped = {}
  BY DEF AsyncInv, NothingLostOrRepeated, EachCallOnce, all
<1>3. IsFiniteSet(Ids(Open)) /\ IsFiniteSet(history.dropped)
      /\ Cardinality(Ids(Open)) \in Nat /\ Cardinality(history.dropped) \in Nat
  <2>1. Ids(Open) \in SUBSET all /\ history.dropped \in SUBSET all
    BY <1>2
  <2> QED BY <1>1, <2>1, FS_Subset, FS_CardinalityType
<1>4. Cardinality(history.done \cup history.dropped) = Cardinality(history.done) + Cardinality(history.dropped)
      /\ IsFiniteSet(history.done \cup history.dropped)
  <2>1. Cardinality(history.done \cup history.dropped)
            = Cardinality(history.done) + Cardinality(history.dropped) - Cardinality(history.done \cap history.dropped)
        /\ IsFiniteSet(history.done \cup history.dropped)
    BY <1>1, <1>3, FS_Union
  <2> QED BY <1>1, <1>2, <1>3, <2>1, FS_EmptySet
<1>5. Cardinality(all) = Cardinality(Ids(Open)) + Cardinality(history.done) + Cardinality(history.dropped)
  <2> DEFINE rest == history.done \cup history.dropped
  <2>1. all = Ids(Open) \cup rest /\ Ids(Open) \cap rest = {} /\ IsFiniteSet(rest)
        /\ Cardinality(rest) = Cardinality(history.done) + Cardinality(history.dropped)
    BY <1>2, <1>4
  <2> HIDE DEF rest
  <2>2. Cardinality(Ids(Open) \cup rest)
            = Cardinality(Ids(Open)) + Cardinality(rest) - Cardinality(Ids(Open) \cap rest)
    BY <1>3, <2>1, FS_Union
  <2>3. Cardinality(Ids(Open) \cap rest) = 0
    BY <2>1, FS_EmptySet
  <2> QED BY <1>1, <1>3, <2>1, <2>2, <2>3
<1>6. Cardinality(Open) = Cardinality(Ids(Open))
  <2>1. f \in [Open -> Ids(Open)]
    BY DEF Ids
  <2>2. \A c, d \in Open : f[c] = f[d] => c = d
    BY DEF AsyncInv, NothingLostOrRepeated, NoMemoryTwice
  <2>3. f \in Injection(Open, Ids(Open))
    BY <2>1, <2>2 DEF Injection, IsInjective
  <2>4. f \in Surjection(Open, Ids(Open))
    BY <2>1 DEF Surjection, Ids
  <2> HIDE DEF f
  <2> QED BY <1>3, <2>3, <2>4, FS_Injection
<1> QED BY <1>1, <1>3, <1>5, <1>6

\* pendingAsyncCalls is never too small for PROCESS_WINDOW_EVENTS to look at
\* the lists, whenever the increments of the threads come.
THEOREM PendingAlwaysBalances == AsyncSpec => []CountBalances
<1>1. ASSUME AsyncInv PROVE CountBalances
  <2>1. Cardinality(Open) + Cardinality(history.dropped) = history.accepted - Cardinality(history.done)
    BY <1>1, OpenAndDropped
  <2>2. pending + Cardinality(Pushing("count"))
            = history.accepted - Cardinality(history.done) + RunSoFar(rounds)
    BY <1>1 DEF AsyncInv, CountFits
  <2> QED BY <2>1, <2>2 DEF CountBalances
<1> QED BY <1>1, AsyncAlwaysFits, PTL
=============================================================================

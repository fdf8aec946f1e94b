----------------------------- MODULE TimerThread -----------------------------
(***************************************************************************)
(* Window events in browsers without timers for plugins                    *)
(* (src/src/linux/libpipelight/nppfunctions.c, config.eventAsyncCall).     *)
(*                                                                         *)
(* A thread of its own asks the browser every 10 ms to call                *)
(* timerThreadAsyncFunc on the main thread, which has the Windows side     *)
(* process its messages.  One thread serves all instances; when the        *)
(* instance it works for is destroyed another one takes over, and after    *)
(* the last one the thread is to end.  Two semaphores pass the turn        *)
(* between the thread and the main thread.                                 *)
(***************************************************************************)
EXTENDS Integers, Sequences, SequencesExt, Functions

CONSTANTS
    Instance,      \* NPP structures the browser uses (and uses again)
    Thread,        \* identities of threads (used again once they have ended)
    NULL,
    MaxTokens      \* bound: no instance is destroyed with more posts outstanding

ASSUME NullAssumption == NULL \notin Instance /\ NULL \notin Thread
ASSUME MaxTokensAssumption == MaxTokens \in Nat \ {0}

VARIABLES
    alive,          \* instances whose pdata is allocated
    handles,        \* HMGR_TYPE_NPPInstance, in the order of the IDs
    timerInstance,  \* ctx->eventTimerInstance
    eventThread,    \* ctx->eventThread
    requests,       \* ctx->eventThreadSemRequestAsyncCall
    scheduled,      \* ctx->eventThreadSemScheduledAsyncCall
    thread,         \* thread[t]: where it is, and the instance it was started with
    calls,          \* calls[i, a]: async calls for instance i with argument a that
                    \* the browser has accepted and not yet made, in any order
    main,           \* what the browser's main thread is doing in the plugin
    crashed         \* freed instance data has been used

vars == <<alive, handles, timerInstance, eventThread, requests, scheduled,
          thread, calls, main, crashed>>

NoInstance == [pc |-> "none", arg |-> NULL]
Idle == [pc |-> "idle"]

Init ==
    /\ alive = {}
    /\ handles = <<>>
    /\ timerInstance = NULL
    /\ eventThread = NULL
    /\ requests = 0
    /\ scheduled = 0
    /\ thread = [t \in Thread |-> NoInstance]
    /\ calls = [call \in Instance \X Instance |-> 0]
    /\ main = Idle
    /\ crashed = FALSE

Running(t) == thread[t].pc # "none"

\* handleManager_findInstance: the one with the largest ID.
FindInstance(table) == IF table = <<>> THEN NULL ELSE Last(table)

-----------------------------------------------------------------------------
(***************************************************************************)
(* The main thread: NPP_New, NPP_Destroy and the async call.               *)
(***************************************************************************)
\* Up to the call of FUNCTION_NPP_NEW: the first instance starts the thread.
\* If pthread_create fails there is no thread and there are no events.
NewBegin(i) ==
    /\ main = Idle
    /\ i \notin alive
    /\ alive' = alive \cup {i}
    /\ handles' = Append(handles, i)
    /\ IF eventThread # NULL
       THEN /\ main' = [pc |-> "new", instance |-> i, start |-> FALSE]
            /\ UNCHANGED <<timerInstance, eventThread, thread>>
       ELSE /\ timerInstance' = i
            /\ \/ \E t \in Thread :
                     /\ ~Running(t)
                     /\ eventThread' = t
                     /\ thread' = [thread EXCEPT ![t] = [pc |-> "wait", arg |-> i]]
                     /\ main' = [pc |-> "new", instance |-> i, start |-> TRUE]
               \/ /\ main' = [pc |-> "new", instance |-> i, start |-> FALSE]
                  /\ UNCHANGED <<eventThread, thread>>
    /\ UNCHANGED <<requests, scheduled, calls, crashed>>

\* Mutant of NewEnd: the thread is never told to begin.
NewEndSilent ==
    /\ main.pc = "new"
    /\ main' = Idle
    /\ UNCHANGED <<alive, handles, timerInstance, eventThread, requests, scheduled,
                   thread, calls, crashed>>

\* The Windows side knows the instance; the thread may begin.
NewEnd ==
    /\ main.pc = "new"
    /\ main' = Idle
    /\ requests' = IF main.start THEN requests + 1 ELSE requests
    /\ UNCHANGED <<alive, handles, timerInstance, eventThread, scheduled, thread, calls, crashed>>

\* NPP_Destroy frees pdata first of all.  If the events run on behalf of this
\* instance it waits until a call is scheduled, and takes that call back.
DestroyBegin(i) ==
    /\ main = Idle
    /\ i \in alive
    /\ requests + scheduled < MaxTokens
    /\ alive' = alive \ {i}
    /\ main' = [pc |-> IF timerInstance = i /\ eventThread # NULL THEN "cancel" ELSE "destroy",
                instance |-> i, unschedule |-> timerInstance = i]
    /\ UNCHANGED <<handles, timerInstance, eventThread, requests, scheduled, thread, calls, crashed>>

DestroyCancel ==
    /\ main.pc = "cancel"
    /\ scheduled > 0
    /\ scheduled' = scheduled - 1
    /\ timerInstance' = NULL
    /\ requests' = requests + 1
    /\ main' = [main EXCEPT !.pc = "destroy"]
    /\ UNCHANGED <<alive, handles, eventThread, thread, calls, crashed>>

\* The browser makes no call for an instance that is gone.
Revoked(i) == [call \in Instance \X Instance |-> IF call[1] = i THEN 0 ELSE calls[call]]

\* FUNCTION_NPP_DESTROY has returned: another instance takes over.  The table
\* that is left, the instance that is next and the posts are those of DestroyEnd.
HandOver(table, next, posts) ==
    /\ main.pc = "destroy"
    /\ main' = Idle
    /\ handles' = table
    /\ IF main.unschedule /\ eventThread # NULL
       THEN /\ timerInstance' = next
            /\ requests' = requests + posts
            /\ eventThread' = IF next = NULL THEN NULL ELSE eventThread
       ELSE UNCHANGED <<timerInstance, requests, eventThread>>
    /\ calls' = Revoked(main.instance)
    /\ UNCHANGED <<alive, scheduled, thread, crashed>>

\* handleManager_removeByPtr.
Others == RemoveAt(handles, CHOOSE id \in DOMAIN handles : handles[id] = main.instance)

\* Mutants of DestroyEnd: the search for the next instance comes before the
\* removal; the post of DestroyCancel is thought to be enough; only another
\* instance is a reason to post.
DestroyEndFindsFirst == HandOver(Others, FindInstance(handles), 1)
DestroyEndPostsOnce == HandOver(Others, FindInstance(Others), 0)
DestroyEndPostsForNext ==
    HandOver(Others, FindInstance(Others), IF FindInstance(Others) = NULL THEN 0 ELSE 1)

\* The handle goes first, and the thread is told in any case: it takes the post
\* to find that there is nobody left.
DestroyEnd == HandOver(Others, FindInstance(Others), 1)

\* timerThreadAsyncFunc.  It looks at the instance the thread was started
\* with, and does nothing if NPP_Destroy has taken the call back.
AsyncCall(i, arg) ==
    /\ main = Idle
    /\ calls[i, arg] > 0
    /\ calls' = [calls EXCEPT ![<<i, arg>>] = @ - 1]
    /\ IF arg \notin alive
       THEN crashed' = TRUE /\ UNCHANGED <<scheduled, main>>
       ELSE IF scheduled = 0
       THEN UNCHANGED <<scheduled, main, crashed>>
       ELSE /\ scheduled' = scheduled - 1
            /\ main' = [pc |-> "events"]
            /\ UNCHANGED crashed
    /\ UNCHANGED <<alive, handles, timerInstance, eventThread, requests, thread>>

\* Mutant of AsyncCallEnd: the thread is not told to ask again.
AsyncCallEndSilent ==
    /\ main.pc = "events"
    /\ main' = Idle
    /\ UNCHANGED <<alive, handles, timerInstance, eventThread, requests, scheduled,
                   thread, calls, crashed>>

\* PROCESS_WINDOW_EVENTS has returned: the thread may ask again.
AsyncCallEnd ==
    /\ main.pc = "events"
    /\ main' = Idle
    /\ requests' = requests + 1
    /\ UNCHANGED <<alive, handles, timerInstance, eventThread, scheduled, thread, calls, crashed>>

-----------------------------------------------------------------------------
(***************************************************************************)
(* timerThread.  It reads ctx->eventTimerInstance without a lock, each time *)
(* it mentions it.                                                         *)
(***************************************************************************)
Goto(t, pc) == thread' = [thread EXCEPT ![t].pc = pc]

\* sem_wait, then 10 ms of sleep.
Wait(t, from, to) ==
    /\ thread[t].pc = from
    /\ requests > 0
    /\ requests' = requests - 1
    /\ Goto(t, to)
    /\ UNCHANGED <<alive, handles, timerInstance, eventThread, scheduled, calls, main, crashed>>

\* No instance: wait once more, since another one may just be taking over.
Test(t) ==
    /\ thread[t].pc = "test"
    /\ Goto(t, IF timerInstance = NULL THEN "waitAgain" ELSE "post")
    /\ UNCHANGED <<alive, handles, timerInstance, eventThread, requests, scheduled,
                   calls, main, crashed>>

TestAgain(t) ==
    /\ thread[t].pc = "testAgain"
    /\ thread' = [thread EXCEPT ![t] =
                    IF timerInstance = NULL THEN NoInstance ELSE [@ EXCEPT !.pc = "post"]]
    /\ UNCHANGED <<alive, handles, timerInstance, eventThread, requests, scheduled,
                   calls, main, crashed>>

Post(t) ==
    /\ thread[t].pc = "post"
    /\ scheduled' = scheduled + 1
    /\ Goto(t, "call")
    /\ UNCHANGED <<alive, handles, timerInstance, eventThread, requests, calls, main, crashed>>

\* pluginthreadasynccall for the instance of the moment, with the instance
\* the thread was started with as the argument.  The browser ignores a call
\* for no instance or for one that is being destroyed.
RequestCall(t) ==
    /\ thread[t].pc = "call"
    /\ calls' = IF timerInstance \in alive
                THEN [calls EXCEPT ![<<timerInstance, thread[t].arg>>] = @ + 1]
                ELSE calls
    /\ Goto(t, "wait")
    /\ UNCHANGED <<alive, handles, timerInstance, eventThread, requests, scheduled,
                   main, crashed>>

ThreadStep(t) ==
    /\ ~crashed
    /\ \/ Wait(t, "wait", "test")
       \/ Test(t)
       \/ Wait(t, "waitAgain", "testAgain")
       \/ TestAgain(t)
       \/ Post(t)
       \/ RequestCall(t)

\* The steps the main thread takes once it is in the plugin.
MainStep ==
    /\ ~crashed
    /\ NewEnd \/ DestroyCancel \/ DestroyEnd \/ AsyncCallEnd

Browser ==
    /\ ~crashed
    /\ \E i \in Instance : NewBegin(i) \/ DestroyBegin(i)

EventLoop == ~crashed /\ \E i, arg \in Instance : AsyncCall(i, arg)

Next == (\E t \in Thread : ThreadStep(t)) \/ MainStep \/ Browser \/ EventLoop

Spec == Init /\ [][Next]_vars

\* The thread is scheduled, calls into the Windows side return, and the
\* browser's event loop gets round to every async call.
Fairness ==
    /\ \A t \in Thread : WF_vars(ThreadStep(t))
    /\ WF_vars(MainStep)
    /\ SF_vars(EventLoop)

FairSpec == Spec /\ Fairness

-----------------------------------------------------------------------------
\* Between two calls of the browser, and while events are processed, a thread
\* in the context works for an instance that exists: NPP_Destroy has handed it
\* over to one whose data has not been freed.
Entered == main.pc \notin {"idle", "events"}

TimerServesLiveInstance ==
    eventThread # NULL /\ ~Entered => timerInstance \in alive

\* The turn the two sides pass to each other is not lost by any take-over, even
\* if the thread was asleep: a thread is about to ask for a call, has been told
\* to, or the browser has a call for this instance that will find a post.
Asking  == {t \in Thread : thread[t].pc \in {"test", "testAgain", "post"}}
Calling == {t \in Thread : thread[t].pc = "call"}

CallAwaited == scheduled > 0 /\ \E arg \in Instance : calls[timerInstance, arg] > 0

TurnIsNotLost ==
    eventThread # NULL /\ ~Entered /\ ~crashed =>
        \/ requests > 0
        \/ Asking # {}
        \/ scheduled > 0 /\ Calling # {}
        \/ CallAwaited
        \/ main.pc = "events"

\* "already one timer thread running." (nppfunctions.c:424): when the browser
\* enters NPP_New or NPP_Destroy the thread in the context runs.
AlreadyOneTimerThreadRunning == main = Idle /\ eventThread # NULL => Running(eventThread)

\* "if nextInstance == 0 then the thread will terminate itself as soon as it
\* recognizes that eventTimerInstace == NULL" (nppfunctions.c:579): the thread
\* the context has forgotten ends, or is put to work again by an instance that
\* could not start one, if NPP_New never starts a second thread beside it.
Forgotten(t) == Running(t) /\ eventThread # t

OneThread == \A t, u \in Thread : Running(t) /\ Running(u) => t = u

ForgottenThreadEnds ==
    []OneThread =>
        \A t \in Thread : Forgotten(t) ~> (~Forgotten(t) \/ timerInstance # NULL \/ crashed)

\* NPP_Destroy does not wait for ever for a call to take back while there is a
\* thread.
NoThread == \A t \in Thread : ~Running(t)

DestroyReturns == main.pc = "cancel" ~> (main.pc # "cancel" \/ NoThread \/ crashed)

\* As long as there is a thread, the events of the instance it works for are
\* processed.
EventsKeepComing ==
    \A i \in Instance :
        (timerInstance = i /\ eventThread # NULL /\ main = Idle) ~>
            (main.pc = "events" \/ timerInstance # i \/ i \notin alive \/ NoThread \/ crashed)

\* NPP_Destroy frees the instance data, "not required anymore"
\* (nppfunctions.c:505): nothing looks at it later.
FreedDataIsNotUsed == ~crashed
=============================================================================

------------------------------ MODULE Lifecycle ------------------------------
(***************************************************************************)
(* From loading the library to the end of both processes: attach starts    *)
(* Wine and waits for it with a limit, NPP_New and NPP_Destroy bring        *)
(* instances and the browser's timer that drives the plugin's windows, and *)
(* either process may end at any time.                                     *)
(*                                                                         *)
(* Calls nest as Rpc describes; the pipes are kept because a limit that    *)
(* runs out leaves an answer in them, and RETURN does not say which call   *)
(* it answers.  The browser does not destroy an instance while a call for  *)
(* it is open, and drops the timers of an instance that is gone or was     *)
(* refused.  config.eventAsyncCall is the subject of TimerThread.          *)
(***************************************************************************)
EXTENDS Integers, Sequences, SequencesExt, FiniteSets

CONSTANTS
    Instance,    \* NPP structures the browser uses (and uses again)
    NULL,
    MaxTimers,   \* bound: timers scheduled at once
    MaxDepth     \* bound: nested calls

ASSUME NullAssumption == NULL \notin Instance

VARIABLES
    process,        \* the browser's process: "up", "aborted" or "exited"
    loader,         \* pluginloader.exe: "none", "starting", "running" or "gone"
    attach,         \* how far attach is: "config", "fork", "wait" or "over"
    initOkay,       \* ctx->initOkay
    events,         \* what NP_Initialize decided: "none", "timer" or "thread"
    toWin, toLin,   \* commands and answers in the pipes
    stack,          \* Linux: calls not yet answered, and scripts that make calls
    handlers,       \* Windows: commands being carried out
    handles,        \* Linux: HMGR_TYPE_NPPInstance, in the order of the IDs
    instanceList,   \* Windows: the instances NPP_NEW has entered
    alive,          \* instances the browser has
    timers,         \* timers the browser runs
    timerInstance, timerID,  \* ctx->eventTimerInstance, ctx->eventTimerID
    upset           \* history: NPP_New failed, or NPP_Destroy was nested

startVars == <<attach, initOkay, events>>
callVars  == <<toWin, toLin, stack, handlers>>
instVars  == <<handles, instanceList, alive, upset>>
timerVars == <<timers, timerInstance, timerID>>
vars == <<process, loader, startVars, callVars, instVars, timerVars>>

Init ==
    /\ process = "up" /\ loader = "none"
    /\ attach = "config" /\ initOkay = FALSE /\ events = "none"
    /\ toWin = <<>> /\ toLin = <<>> /\ stack = <<>> /\ handlers = <<>>
    /\ handles = <<>> /\ instanceList = {} /\ alive = {} /\ upset = FALSE
    /\ timers = {} /\ timerInstance = NULL /\ timerID = 0

Up == process = "up"

Frame(fn, i) == [fn |-> fn, of |-> i]
Script == Frame("script", NULL)

\* Each script runs for a handler, which waits for it to end.
Scripts == {k \in DOMAIN stack : stack[k] = Script}

\* Who runs: browser code, Linux reading answers, or the Windows side.
BrowserTurn == Up /\ attach = "over" /\ (stack # <<>> => Last(stack) = Script)
Waiting(fn) == Up /\ stack # <<>> /\ Last(stack).fn = fn
Answered(fn) == Waiting(fn) /\ toLin # <<>>

\* callFunction and the readCommands that follows.  A command for a process
\* that is gone goes nowhere: fflush fails and nobody looks.
SendOn(rest, f) ==
    /\ stack' = Append(rest, f)
    /\ toWin' = IF loader = "gone" THEN toWin ELSE Append(toWin, f)

Send(f) ==
    /\ Len(stack) < MaxDepth
    /\ SendOn(stack, f)
    /\ UNCHANGED <<toLin, handlers>>

\* An answer ends the innermost call, whichever call it was written for.
Receive ==
    /\ stack' = Front(stack)
    /\ toLin' = Tail(toLin)
    /\ UNCHANGED <<toWin, handlers>>

-----------------------------------------------------------------------------
(***************************************************************************)
(* attach and NP_Initialize                                                *)
(***************************************************************************)
LoadConfig ==
    /\ Up /\ attach = "config"
    /\ attach' \in {"fork", "over"}
    /\ UNCHANGED <<process, loader, initOkay, events, callVars, instVars, timerVars>>

\* startWineProcess and, if that worked, the first command: INIT_OKAY.
StartWineProcess ==
    /\ Up /\ attach = "fork"
    /\ \/ attach' = "over" /\ UNCHANGED <<loader, callVars>>
       \/ attach' = "wait" /\ loader' = "starting" /\ Send(Frame("INIT_OKAY", NULL))
    /\ UNCHANGED <<process, initOkay, events, instVars, timerVars>>

\* One question after the other; the first answer is the protocol version.
AttachNext(fn, next) ==
    /\ Answered(fn)
    /\ SendOn(Front(stack), Frame(next, NULL))
    /\ toLin' = Tail(toLin)
    /\ UNCHANGED <<process, loader, startVars, handlers, instVars, timerVars>>

AttachEnds(fn, okay) ==
    /\ Answered(fn)
    /\ Receive
    /\ attach' = "over"
    /\ initOkay' = okay
    /\ UNCHANGED <<process, loader, events, instVars, timerVars>>

AttachReads ==
    \/ AttachNext("INIT_OKAY", "SILVERLIGHT_IS_GRAPHIC_DRIVER_SUPPORTED")
    \/ AttachNext("INIT_OKAY", "GET_PLUGIN_INFO")
    \/ AttachEnds("INIT_OKAY", FALSE)
    \/ AttachNext("SILVERLIGHT_IS_GRAPHIC_DRIVER_SUPPORTED", "GET_PLUGIN_INFO")
    \/ AttachEnds("GET_PLUGIN_INFO", TRUE)

\* NP_Initialize: timers unless the user or the browser wants the thread.
Initialize(eventAsyncCall, scheduletimer, pluginthreadasynccall) ==
    /\ BrowserTurn /\ events = "none"
    /\ events' = IF ~eventAsyncCall /\ scheduletimer THEN "timer"
                 ELSE IF pluginthreadasynccall THEN "thread" ELSE "none"
    /\ UNCHANGED <<process, loader, attach, initOkay, callVars, instVars, timerVars>>

-----------------------------------------------------------------------------
(***************************************************************************)
(* Instances and the timer                                                 *)
(***************************************************************************)
\* scheduletimer, and what NPP_New and NPP_Destroy remember of it.
ScheduleTimer(existing, i) ==
    LET free == {id \in 1 .. MaxTimers : \A t \in existing : t.id # id}
    IN  \E id \in free :
           /\ \A other \in free : id <= other
           /\ timers' = existing \cup {[of |-> i, id |-> id]}
           /\ timerInstance' = i
           /\ timerID' = id

FindInstance(table) == IF table = <<>> THEN NULL ELSE Last(table)
Without(table, i) == RemoveAt(table, CHOOSE k \in DOMAIN table : table[k] = i)
TimersWithout(i) == {t \in timers : t.of # i}

\* Mutant: an instance of a plugin that has not started is not refused.
NewBeginUnchecked(i) ==
    /\ BrowserTurn /\ events # "none"
    /\ i \notin alive /\ \A k \in DOMAIN stack : stack[k].of # i
    /\ IF events = "timer" /\ timerInstance = NULL
       THEN ScheduleTimer(timers, i)
       ELSE UNCHANGED timerVars
    /\ handles' = IF i \in ToSet(handles) THEN handles ELSE Append(handles, i)
    /\ Send(Frame("NPP_NEW", i))
    /\ UNCHANGED <<process, loader, startVars, instanceList, alive, upset>>

\* NPP_New; without initOkay it fails at once.
NewBegin(i) ==
    /\ BrowserTurn /\ events # "none"
    /\ initOkay
    /\ i \notin alive /\ \A k \in DOMAIN stack : stack[k].of # i
    /\ IF events = "timer" /\ timerInstance = NULL
       THEN ScheduleTimer(timers, i)
       ELSE UNCHANGED timerVars
    /\ handles' = IF i \in ToSet(handles) THEN handles ELSE Append(handles, i)
    /\ Send(Frame("NPP_NEW", i))
    /\ UNCHANGED <<process, loader, startVars, instanceList, alive, upset>>

\* An instance the plugin refuses is forgotten by the browser alone.
NewEnd ==
    /\ Answered("NPP_NEW")
    /\ Receive
    /\ LET i == Last(stack).of
       IN  IF Head(toLin).okay
           THEN alive' = alive \cup {i} /\ UNCHANGED <<timers, upset>>
           ELSE timers' = TimersWithout(i) /\ upset' = TRUE /\ UNCHANGED alive
    /\ UNCHANGED <<process, loader, startVars, handles, instanceList, timerInstance, timerID>>

\* NPP_Destroy, up to the command.
DestroyBegin(i) ==
    /\ BrowserTurn
    /\ i \in alive /\ \A k \in DOMAIN stack : stack[k].of # i
    /\ LET unschedule == events = "timer" /\ timerInstance = i
       IN  /\ IF unschedule
              THEN /\ timers' = timers \ {[of |-> i, id |-> timerID]}
                   /\ timerInstance' = NULL /\ timerID' = 0
              ELSE UNCHANGED timerVars
           /\ Send([fn |-> "NPP_DESTROY", of |-> i, unschedule |-> unschedule])
    /\ upset' = (upset \/ \E k \in DOMAIN stack : stack[k].fn = "NPP_DESTROY")
    /\ UNCHANGED <<process, loader, startVars, handles, instanceList, alive>>

\* Mutant: the next instance is not given a timer of its own.
DestroyEndNoTimer ==
    /\ Answered("NPP_DESTROY")
    /\ Receive
    /\ handles' = Without(handles, Last(stack).of)
    /\ alive' = alive \ {Last(stack).of}
    /\ timers' = TimersWithout(Last(stack).of)
    /\ UNCHANGED <<process, loader, startVars, instanceList, upset, timerInstance, timerID>>

\* Mutant: the handle is forgotten only together with the timer.
DestroyEndKeepsHandle ==
    /\ Answered("NPP_DESTROY")
    /\ Receive
    /\ LET i    == Last(stack).of
           next == FindInstance(Without(handles, i))
       IN  /\ handles' = IF Last(stack).unschedule THEN Without(handles, i) ELSE handles
           /\ alive' = alive \ {i}
           /\ IF Last(stack).unschedule /\ next # NULL
              THEN ScheduleTimer(TimersWithout(i), next)
              ELSE timers' = TimersWithout(i) /\ UNCHANGED <<timerInstance, timerID>>
    /\ UNCHANGED <<process, loader, startVars, instanceList, upset>>

\* The answer is there: forget the instance, and start a timer for another
\* one if this one had it.
DestroyEnd ==
    /\ Answered("NPP_DESTROY")
    /\ Receive
    /\ LET i    == Last(stack).of
           next == FindInstance(Without(handles, i))
       IN  /\ handles' = Without(handles, i)
           /\ alive' = alive \ {i}
           /\ IF Last(stack).unschedule /\ next # NULL
              THEN ScheduleTimer(TimersWithout(i), next)
              ELSE timers' = TimersWithout(i) /\ UNCHANGED <<timerInstance, timerID>>
    /\ UNCHANGED <<process, loader, startVars, instanceList, upset>>

\* timerFunc.
TimerFires(t) ==
    /\ BrowserTurn
    /\ t \in timers
    /\ Send(Frame("PROCESS_WINDOW_EVENTS", t.of))
    /\ UNCHANGED <<process, loader, startVars, instVars, timerVars>>

Shutdown ==
    /\ BrowserTurn /\ stack = <<>> /\ events # "none"
    /\ alive = {}
    /\ initOkay
    /\ Send(Frame("NP_SHUTDOWN", NULL))
    /\ UNCHANGED <<process, loader, startVars, instVars, timerVars>>

\* timerFunc and NP_Shutdown have their answer.
CallEnd ==
    /\ Answered("PROCESS_WINDOW_EVENTS") \/ Answered("NP_SHUTDOWN")
    /\ Receive
    /\ UNCHANGED <<process, loader, startVars, instVars, timerVars>>

ScriptEnd ==
    /\ BrowserTurn /\ stack # <<>>
    /\ stack' = Front(stack)
    /\ UNCHANGED <<process, loader, startVars, toWin, toLin, handlers, instVars, timerVars>>

-----------------------------------------------------------------------------
(***************************************************************************)
(* The Windows process                                                     *)
(***************************************************************************)
\* main up to its readCommands: the plugin is loaded, or it is not.
LoaderStarts ==
    /\ loader = "starting"
    /\ loader' = "running"
    /\ UNCHANGED <<process, startVars, callVars, instVars, timerVars>>

HandleCommand ==
    /\ loader = "running"
    /\ toWin # <<>>
    /\ Len(handlers) <= Cardinality(Scripts)
    /\ handlers' = Append(handlers, Head(toWin))
    /\ toWin' = Tail(toWin)
    /\ instanceList' = IF Head(toWin).fn = "NPP_NEW" THEN instanceList \cup {Head(toWin).of}
                       ELSE instanceList
    /\ UNCHANGED <<process, loader, startVars, toLin, stack, handles, alive, upset, timerVars>>

PluginTurn ==
    /\ loader = "running"
    /\ Len(handlers) > Cardinality(Scripts)

RunsPlugin == {"NPP_NEW", "NPP_DESTROY", "PROCESS_WINDOW_EVENTS"}

\* The plugin runs a script, or whatever else lets the page run.
CallScript ==
    /\ Up /\ PluginTurn /\ stack # <<>>
    /\ Last(handlers).fn \in RunsPlugin
    /\ Len(stack) < MaxDepth
    /\ stack' = Append(stack, Script)
    /\ UNCHANGED <<process, loader, startVars, toWin, toLin, handlers, instVars, timerVars>>

Answer(okay) ==
    /\ PluginTurn
    /\ LET f == Last(handlers)
       IN  /\ toLin' = Append(toLin, [fn |-> f.fn, okay |-> okay])
           /\ ~okay => f.fn = "NPP_NEW"
           /\ instanceList' = IF f.fn = "NPP_DESTROY" THEN instanceList \ {f.of} ELSE instanceList
    /\ handlers' = Front(handlers)
    /\ UNCHANGED <<process, loader, startVars, toWin, stack, handles, alive, upset, timerVars>>

Gone ==
    /\ loader' = "gone"
    /\ handlers' = <<>>
    /\ toWin' = <<>>
    /\ instanceList' = {}

\* The plugin does not load, or takes the process with it later.
LoaderCrashes ==
    /\ Up /\ loader \in {"starting", "running"}
    /\ Gone
    /\ UNCHANGED <<process, startVars, toLin, stack, handles, alive, upset, timerVars>>

\* The pipe is closed at the other end: receiveCommand ends the process.
LoaderSeesEnd ==
    /\ ~Up /\ loader = "running"
    /\ toWin = <<>> /\ handlers = <<>>
    /\ Gone
    /\ UNCHANGED <<process, startVars, toLin, stack, handles, alive, upset, timerVars>>

-----------------------------------------------------------------------------
(***************************************************************************)
(* Limits, and the end of the browser's process                            *)
(***************************************************************************)
AttachFails ==
    /\ attach' = "over"
    /\ stack' = Front(stack)
    /\ UNCHANGED <<process, initOkay, events, toLin, handles, alive, upset, timerVars>>

\* 60 seconds for INIT_OKAY.
AttachTimesOut ==
    /\ Waiting("INIT_OKAY") /\ toLin = <<>> /\ loader # "gone"
    /\ AttachFails
    /\ UNCHANGED <<loader, toWin, handlers, instanceList>>

Abort ==
    /\ process' = "aborted"
    /\ UNCHANGED <<startVars, toLin, stack, handles, alive, upset, timerVars>>

\* Mutant: the Windows process is left alone.
DestroyTimesOutNoKill ==
    /\ Waiting("NPP_DESTROY") /\ toLin = <<>> /\ loader # "gone"
    /\ Abort
    /\ UNCHANGED <<loader, toWin, handlers, instanceList>>

\* 5 seconds for NPP_DESTROY.
DestroyTimesOut ==
    /\ Waiting("NPP_DESTROY") /\ toLin = <<>> /\ loader # "gone"
    /\ Abort
    /\ Gone

\* The Windows process is gone: pluginInitOkay fails, everybody else aborts.
EndOfFile ==
    /\ Up /\ stack # <<>> /\ Last(stack) # Script
    /\ loader = "gone" /\ toLin = <<>>
    /\ IF Last(stack).fn = "INIT_OKAY" THEN AttachFails ELSE Abort
    /\ UNCHANGED <<loader, toWin, handlers, instanceList>>

BrowserExits ==
    /\ BrowserTurn /\ stack = <<>>
    /\ process' = "exited"
    /\ UNCHANGED <<loader, startVars, callVars, instVars, timerVars>>

LinuxReads == AttachReads \/ NewEnd \/ DestroyEnd \/ CallEnd

Browser ==
    \/ LoadConfig \/ StartWineProcess \/ Shutdown \/ ScriptEnd \/ BrowserExits
    \/ \E a, s, p \in BOOLEAN : Initialize(a, s, p)
    \/ \E i \in Instance : NewBegin(i) \/ DestroyBegin(i)
    \/ \E t \in timers : TimerFires(t)

Limits == AttachTimesOut \/ DestroyTimesOut \/ EndOfFile

Windows ==
    \/ LoaderStarts \/ HandleCommand \/ CallScript \/ LoaderCrashes \/ LoaderSeesEnd
    \/ \E okay \in BOOLEAN : Answer(okay)

Next == Browser \/ LinuxReads \/ Limits \/ Windows

Spec == Init /\ [][Next]_vars

\* Loading the plugin ends some time, and the bridge's own code proceeds; a
\* handler that calls the plugin may hang for ever.
AnswerAlone == Last(handlers).fn \notin RunsPlugin /\ Answer(TRUE)

FairSpec ==
    /\ Spec
    /\ WF_vars(LoaderStarts)
    /\ WF_vars(HandleCommand)
    /\ WF_vars(PluginTurn /\ AnswerAlone)
    /\ WF_vars(LoaderSeesEnd)

-----------------------------------------------------------------------------
\* Linux never takes one call's answer for another's, although the limit for
\* INIT_OKAY may run out and its answer come later.
RepliesMatch ==
    Up /\ stack # <<>> /\ Last(stack) # Script /\ toLin # <<>> =>
        Head(toLin).fn = Last(stack).fn

\* Between two calls of the browser both processes know the same instances:
\* with this receiveCommand tells a browser that is done (exit(0)) from one
\* that has crashed, and NPP_Destroy finds the next instance for the timer.
InstancesAgree ==
    Up /\ stack = <<>> /\ loader = "running" => instanceList = ToSet(handles)

\* Between two calls of the browser the timer the context knows runs on behalf
\* of an instance that exists; there is one exactly if there are instances.
\* A refused NPP_New and nested NPP_Destroy's break this.
TimerRuns ==
    Up /\ stack = <<>> /\ events = "timer" /\ ~upset =>
        IF alive = {} THEN timers = {} /\ timerInstance = NULL
        ELSE timerInstance \in alive /\ [of |-> timerInstance, id |-> timerID] \in timers

\* A browser's process that has ended, by itself or with DBG_ABORT, leaves no
\* Windows process behind, even if the plugin hangs in NPP_Destroy.
LoaderEnds == ~Up ~> loader \in {"none", "gone"}

\* "already one timer running." (nppfunctions.c:432): NPP_New starts no timer
\* because there is one.
AlreadyOneTimerRunning ==
    Up /\ timerInstance # NULL => \E t \in timers : t.of = timerInstance
=============================================================================
